---------------------------- MODULE TokenBucket -----------------------------
(***************************************************************************)
(* TokenBucket (app/utils/rate_limiter.py), the limiter in front of the    *)
(* Telegram API, shared by all senders of one process.                     *)
(*                                                                         *)
(* Tokens are counted in units, so that every number is whole: one token   *)
(* is Cost units and the bucket earns one unit per clock tick, that is, a  *)
(* tick is per / (rate * Cost) seconds.  The bucket holds rate tokens:     *)
(* Full = rate * Cost units.  Rounding of floating-point numbers is not    *)
(* modelled.  Init, Next and Spec bear the bucket's name, so that a module *)
(* can extend this one beside another specification.                       *)
(***************************************************************************)
EXTENDS Integers

CONSTANTS
    Callers,  \* coroutines that send messages
    Cost,     \* units of one token
    Full,     \* capacity; Full = Cost is the per-chat bucket (rate 1)
    MaxTime   \* bound: last instant of the modelled time

ASSUME BucketAssumption ==
    /\ Cost \in Nat \ {0}
    /\ Full \in Nat
    /\ Full >= Cost
    /\ MaxTime \in Nat

VARIABLES
    now,       \* time.monotonic()
    last,      \* _last_refill
    units,     \* _tokens
    stage,     \* where each caller is; a sleeping one holds the lock
    wake,      \* earliest end of the current asyncio.sleep
    spent,     \* history: units of all the tokens handed out
    latest,    \* history: when the last token was handed out
    previous   \* history: when the one before it was

grants     == <<spent, latest, previous>>
bucketVars == <<now, last, units, stage, wake, grants>>

BucketInit ==
    /\ now = 0
    /\ last = 0
    /\ units = Full
    /\ stage = [c \in Callers |-> "idle"]
    /\ wake = 0
    /\ spent = 0
    /\ latest = -Cost
    /\ previous = -Cost

----------------------------------------------------------------------------
(* A definition whose name has an underscore part, as Refilled_NoCap, is a *)
(* faulty variant of the definition that follows it, used to show that a   *)
(* property can fail.                                                      *)

Sleeping(c) == stage[c] = "sleeping"

LockFree_NoLock == TRUE
LockFree        == \A c \in Callers : ~Sleeping(c)

(* What the bucket holds after the refill.                                 *)
Refilled_NoCap == units + (now - last)
Refilled       == IF units + (now - last) > Full THEN Full
                                                 ELSE units + (now - last)

(* _last_refill = now.                                                     *)
Stamp_Forgotten == UNCHANGED last
Stamp           == last' = now

Grant ==
    /\ spent' = spent + Cost
    /\ latest' = now
    /\ previous' = latest

(* A sender calls acquire and queues for the lock.                         *)
Call(c) ==
    /\ stage[c] = "idle"
    /\ stage' = [stage EXCEPT ![c] = "waiting"]
    /\ UNCHANGED <<now, last, units, wake, grants>>

(* Under the lock, with a token left: no await, one step.                  *)
TakeToken(c) ==
    /\ stage[c] = "waiting"
    /\ LockFree
    /\ Refilled >= Cost
    /\ units' = Refilled - Cost
    /\ Stamp
    /\ Grant
    /\ stage' = [stage EXCEPT ![c] = "idle"]
    /\ UNCHANGED <<now, wake>>

(* Under the lock, without a token: refill, then sleep with the lock held. *)
FallAsleep(c) ==
    /\ stage[c] = "waiting"
    /\ LockFree
    /\ Refilled < Cost
    /\ units' = Refilled
    /\ Stamp
    /\ wake' = now + (Cost - Refilled)
    /\ stage' = [stage EXCEPT ![c] = "sleeping"]
    /\ UNCHANGED <<now, grants>>

(* The sleep ends, not before its time; the refill stamp stays where it    *)
(* was when the sleep began.                                               *)
WakeUp(c) ==
    /\ Sleeping(c)
    /\ now >= wake
    /\ units' = 0
    /\ Grant
    /\ stage' = [stage EXCEPT ![c] = "idle"]
    /\ UNCHANGED <<now, last, wake>>

ClockTick ==
    /\ now < MaxTime
    /\ now' = now + 1
    /\ UNCHANGED <<last, units, stage, wake, grants>>

BucketNext ==
    \/ \E c \in Callers : Call(c) \/ TakeToken(c) \/ FallAsleep(c) \/ WakeUp(c)
    \/ ClockTick

BucketSpec == BucketInit /\ [][BucketNext]_bucketVars

----------------------------------------------------------------------------
(* The type invariant; the bucket never overflows, and only one caller    *)
(* sleeps, since it does so under the lock.                                *)
BucketTypeOK ==
    /\ now \in Nat
    /\ last \in 0 .. now
    /\ units \in 0 .. Full
    /\ stage \in [Callers -> {"idle", "waiting", "sleeping"}]
    /\ \A c, d \in Callers : Sleeping(c) /\ Sleeping(d) => c = d
    /\ wake \in Nat
    /\ spent \in Nat
    /\ latest \in -Cost .. now
    /\ previous \in -Cost .. latest

(* Whatever the pattern of calls, the bucket hands out at most its initial *)
(* content and twice its rate: the time of a sleep is credited twice, once *)
(* by the token the sleep ends with and once by the next refill, but never *)
(* a third time.                                                           *)
TwiceTheRate == spent <= Full + 2 * now

(* A per-chat bucket hands out at most two tokens in any period in which   *)
(* one is earned: a token never follows the last but one sooner.  (One per *)
(* period, as TelegramRateLimiter describes it, would be too much: a sleep *)
(* is credited twice.)                                                     *)
TwoPerPeriod ==
    [][ Full = Cost /\ spent' # spent => now - previous >= Cost ]_bucketVars
=============================================================================
