--------------------------- MODULE ThrottleProofs ---------------------------
(***************************************************************************)
(* Proofs about the two components that hold back the program's requests:  *)
(* CircuitBreaker, in front of YClients, for any number of callers, any    *)
(* threshold, pause and number of attempts; and TokenBucket, in front of   *)
(* Telegram, for any capacity, token cost and number of callers, and       *)
(* without a bound on time (MaxTime is any number).  They share nothing.   *)
(***************************************************************************)
EXTENDS CircuitBreaker, TokenBucket, TLAPS

(* While the circuit is open every call in flight was in flight when it    *)
(* opened, and its requests since then do not include its first one.  When *)
(* it is closed there is nothing to count.                                 *)
StrayInv ==
    \A c \in Calls :
        /\ c \notin caught => strays[c] = 0
        /\ strays[c] < MaxSends
        /\ Open /\ pc[c] # "idle" => c \in caught /\ strays[c] < sends[c]
        /\ ~Open => strays[c] = 0

(* The counter is the length of the run of 5xx that recent ends with.      *)
StreakInv ==
    /\ counter <= Len(recent)
    /\ \A i \in 1 .. Len(recent) : i > Len(recent) - counter => recent[i] = "5xx"
    /\ counter < Len(recent) => recent[Len(recent) - counter] = "other"

Inv == TypeOK /\ StrayInv /\ StreakInv

----------------------------------------------------------------------------
(* The latest Threshold answers are remembered, newest last.               *)
LEMMA RememberKeeps ==
    ASSUME recent \in Seq({"5xx", "other"}), Len(recent) <= Threshold,
           NEW kind \in {"5xx", "other"}, Remember(kind)
    PROVE  /\ recent' \in Seq({"5xx", "other"})
           /\ Len(recent') <= Threshold
           /\ Len(recent') > 0
           /\ recent'[Len(recent')] = kind
           /\ Len(recent) < Threshold =>
                /\ Len(recent') = Len(recent) + 1
                /\ \A i \in 1 .. Len(recent) : recent'[i] = recent[i]
           /\ Len(recent) >= Threshold =>
                /\ Len(recent') = Len(recent)
                /\ \A i \in 1 .. Len(recent) - 1 : recent'[i] = recent[i + 1]
  BY CircuitAssumption DEF Remember

(* The part of the type invariant about calls and bounds.                  *)
CallsOK ==
    /\ counter \in 0 .. Threshold
    /\ pause \in 0 .. Pause
    /\ pc \in [Calls -> Steps]
    /\ sends \in [Calls -> 0 .. MaxSends]
    /\ strays \in [Calls -> 0 .. MaxSends]
    /\ \A c \in Calls : pc[c] = "idle" <=> sends[c] = 0

LEMMA CallTypes == Inv => CallsOK
  BY DEF Inv, TypeOK, CallsOK

LEMMA Remainder ==
    \A n, k \in Nat : k < n => n - k \in 1 .. n
  OBVIOUS

LEMMA InvInit == Init => Inv
  BY CircuitAssumption
  DEF Init, Inv, TypeOK, StrayInv, StreakInv, Open, Steps, Result

(* After a 5xx the run at the end of recent is one longer, unless it fills *)
(* recent already.                                                         *)
LEMMA StreakGrows ==
    ASSUME Inv, Remember("5xx"), counter' = Counted
    PROVE  /\ recent' \in Seq({"5xx", "other"})
           /\ Len(recent') <= Threshold
           /\ counter' \in 0 .. Threshold
           /\ StreakInv'
<1> USE CircuitAssumption
<1>1. /\ counter \in 0 .. Threshold
      /\ recent \in Seq({"5xx", "other"})
      /\ Len(recent) \in Nat
      /\ Len(recent) <= Threshold
      /\ StreakInv
  BY DEF Inv, TypeOK
<1>2. /\ recent' \in Seq({"5xx", "other"})
      /\ Len(recent') \in Nat
      /\ Len(recent') <= Threshold
      /\ recent'[Len(recent')] = "5xx"
  BY <1>1, RememberKeeps
<1>3. counter' = IF counter < Threshold THEN counter + 1 ELSE Threshold
  BY <1>1 DEF Counted
<1>4. CASE Len(recent) < Threshold
  <2>1. /\ Len(recent') = Len(recent) + 1
        /\ \A i \in 1 .. Len(recent) : recent'[i] = recent[i]
    BY <1>1, <1>4, RememberKeeps
  <2>2. counter' = counter + 1
    BY <1>1, <1>3, <1>4 DEF StreakInv
  <2>3. QED
    BY <1>1, <1>2, <2>1, <2>2 DEF StreakInv
<1>5. CASE Len(recent) >= Threshold
  <2>1. /\ Len(recent') = Len(recent)
        /\ \A i \in 1 .. Len(recent) - 1 : recent'[i] = recent[i + 1]
    BY <1>1, <1>5, RememberKeeps
  <2>2. QED
    BY <1>1, <1>2, <1>3, <1>5, <2>1 DEF StreakInv
<1>6. QED
  BY <1>1, <1>4, <1>5

(* The invariant is preserved by an answer 5xx.                            *)
LEMMA FailureKeepsInv ==
    ASSUME Inv, NEW c \in Calls, Answer5xx(c)
    PROVE  Inv'
<1>1. /\ recent' \in Seq({"5xx", "other"}) /\ Len(recent') <= Threshold
      /\ counter' \in 0 .. Threshold
      /\ StreakInv'
  BY StreakGrows DEF Answer5xx
<1>2. TypeOK'
  <2>1. /\ pc' \in [Calls -> Steps]
        /\ sends' \in [Calls -> 0 .. MaxSends]
        /\ \A d \in Calls : pc'[d] = "idle" <=> sends'[d] = 0
    BY CallTypes, CircuitAssumption DEF CallsOK, Answer5xx, End, Steps
  <2>2. /\ pause' \in 0 .. Pause
        /\ result' \in Result
        /\ caught' \subseteq Calls
        /\ strays' \in [Calls -> 0 .. MaxSends]
    BY CircuitAssumption
    DEF Inv, TypeOK, Answer5xx, End, InFlight, Result
  <2>3. QED
    BY <1>1, <2>1, <2>2 DEF TypeOK
<1>3. StrayInv'
  BY CircuitAssumption
  DEF Inv, TypeOK, StrayInv, Answer5xx, End, InFlight, Open
<1>4. QED
  BY <1>1, <1>2, <1>3 DEF Inv

(* The invariant is preserved by any other answer but a 429.               *)
LEMMA AnswerKeepsInv ==
    ASSUME Inv, NEW c \in Calls, Answer(c)
    PROVE  Inv'
<1>1. /\ recent' \in Seq({"5xx", "other"}) /\ Len(recent') <= Threshold
      /\ Len(recent') \in Nat /\ Len(recent') > 0
      /\ recent'[Len(recent')] = "other"
  BY RememberKeeps DEF Inv, TypeOK, Answer
<1>2. TypeOK' /\ StreakInv'
  BY <1>1, CircuitAssumption
  DEF Inv, TypeOK, StreakInv, Answer, End, Steps, Result
<1>3. StrayInv'
  BY DEF Inv, TypeOK, StrayInv, Answer, End, Open
<1>4. QED
  BY <1>2, <1>3 DEF Inv

(* The invariant is preserved by a request, the first one or a repetition. *)
LEMMA SendKeepsInv ==
    ASSUME Inv, NEW c \in Calls, Begin(c) \/ SendAgain(c)
    PROVE  Inv'
<1>1. sends[c] < MaxSends
  BY CircuitAssumption DEF Inv, TypeOK, Begin, SendAgain, AttemptsLeft
<1>2. Open => c \in caught /\ strays[c] < sends[c]
  BY DEF Inv, TypeOK, StrayInv, Begin, SendAgain, Admits
<1>3. TypeOK'
  <2>1. /\ pc' \in [Calls -> Steps]
        /\ sends' \in [Calls -> 0 .. MaxSends]
        /\ \A d \in Calls : pc'[d] = "idle" <=> sends'[d] = 0
    BY <1>1, CallTypes, CircuitAssumption
    DEF CallsOK, Begin, SendAgain, SendRequest, Steps
  <2>2. strays' \in [Calls -> 0 .. MaxSends]
    BY <1>1, <1>2, CallTypes, CircuitAssumption
    DEF CallsOK, Begin, SendAgain, SendRequest
  <2>3. QED
    BY <2>1, <2>2 DEF Inv, TypeOK, Begin, SendAgain, SendRequest, breaker
<1>4. StrayInv'
  BY <1>1, <1>2, CircuitAssumption
  DEF Inv, TypeOK, StrayInv, Begin, SendAgain, SendRequest, Open, breaker
<1>5. StreakInv'
  BY DEF Inv, StreakInv, Begin, SendAgain, SendRequest, breaker
<1>6. QED
  BY <1>3, <1>4, <1>5 DEF Inv

(* The invariant is inductive.                                             *)
LEMMA InvNext == Inv /\ [Next]_vars => Inv'
<1> SUFFICES ASSUME Inv, [Next]_vars PROVE Inv'
  OBVIOUS
<1>1. ASSUME NEW c \in Calls, Begin(c) \/ SendAgain(c) PROVE Inv'
  BY <1>1, SendKeepsInv
<1>2. ASSUME NEW c \in Calls, Answer5xx(c) PROVE Inv'
  BY <1>2, FailureKeepsInv
<1>3. ASSUME NEW c \in Calls, Answer(c) PROVE Inv'
  BY <1>3, AnswerKeepsInv
<1>4. ASSUME NEW c \in Calls, Refused(c) \/ Answer429(c) \/ GiveUp(c) \/ Break(c)
      PROVE  Inv'
  <2>1. UNCHANGED <<breaker, hist>>
    BY <1>4 DEF Refused, Answer429, GiveUp, Break, hist
  <2>2. /\ pc' \in [Calls -> Steps]
        /\ sends' \in [Calls -> 0 .. MaxSends]
        /\ \A d \in Calls : pc'[d] = "idle" <=> sends'[d] = 0
        /\ \A d \in Calls : pc'[d] # "idle" => pc[d] # "idle" /\ sends'[d] = sends[d]
    BY <1>4, CallTypes, CircuitAssumption
    DEF CallsOK, Refused, Answer429, GiveUp, Break, End, Steps
  <2>3. TypeOK'
    <3>1. result' \in Result
      BY <1>4 DEF Inv, TypeOK, Refused, Answer429, GiveUp, Break, End, Result
    <3>2. QED
      BY <2>1, <2>2, <3>1 DEF Inv, TypeOK, breaker, hist
  <2>4. StrayInv'
    BY <2>1, <2>2 DEF Inv, StrayInv, Open, breaker, hist
  <2>5. StreakInv'
    BY <2>1 DEF Inv, StreakInv, breaker, hist
  <2>6. QED
    BY <2>3, <2>4, <2>5 DEF Inv
<1>5. CASE Tick
  BY <1>5, CircuitAssumption
  DEF Inv, TypeOK, StrayInv, StreakInv, Tick, Open
<1>6. CASE UNCHANGED vars
  BY <1>6
  DEF Inv, TypeOK, StrayInv, StreakInv, Open, vars, breaker, hist
<1>7. QED
  BY <1>1, <1>2, <1>3, <1>4, <1>5, <1>6 DEF Next, Leave

LEMMA InvAlways == Spec => []Inv
<1>1. QED
  BY InvInit, InvNext, PTL DEF Spec

----------------------------------------------------------------------------
(* The type invariant of the YClients client.                              *)
THEOREM CircuitTypeCorrect == Spec => []TypeOK
<1>1. Inv => TypeOK
  BY DEF Inv
<1>2. QED
  BY <1>1, InvAlways, PTL

(* During a pause YClients gets requests of the calls only that were in    *)
(* flight when the circuit opened, fewer than MaxSends of each.            *)
THEOREM PauseSpares == Spec => []OnlyStrays
<1>1. Inv => OnlyStrays
  BY DEF Inv, StrayInv, OnlyStrays
<1>2. QED
  BY <1>1, InvAlways, PTL

(* A 5xx opens the circuit, or renews the pause, exactly if it completes a *)
(* run of Threshold of them.                                               *)
LEMMA FailureOpens ==
    ASSUME Inv, NEW c \in Calls, Answer5xx(c)
    PROVE  result' = "opened" /\ pause' = Pause
             <=> recent' = [i \in 1 .. Threshold |-> "5xx"]
<1> USE CircuitAssumption
<1>1. /\ recent' \in Seq({"5xx", "other"}) /\ Len(recent') \in Nat
      /\ Len(recent') <= Threshold
      /\ counter' \in 0 .. Threshold
      /\ StreakInv'
  BY StreakGrows DEF Answer5xx
<1>2. result' = "opened" /\ pause' = Pause <=> counter' = Threshold
  BY DEF Answer5xx, End
<1>3. ASSUME counter' = Threshold
      PROVE  recent' = [i \in 1 .. Threshold |-> "5xx"]
  <2>1. Len(recent') = Threshold
    BY <1>1, <1>3 DEF StreakInv
  <2>2. \A i \in 1 .. Threshold : recent'[i] = "5xx"
    BY <1>1, <1>3, <2>1 DEF StreakInv
  <2>3. QED
    BY <1>1, <2>1, <2>2
<1>4. ASSUME recent' = [i \in 1 .. Threshold |-> "5xx"]
      PROVE  counter' = Threshold
  <2>1. Len(recent') = Threshold
    BY <1>4
  <2>2. SUFFICES ASSUME counter' < Threshold PROVE FALSE
    BY <1>1
  <2>3. recent'[Threshold - counter'] = "other"
    BY <1>1, <2>1, <2>2 DEF StreakInv
  <2>4. recent'[Threshold - counter'] = "5xx"
    <3>1. Threshold - counter' \in 1 .. Threshold
      <4>1. counter' \in Nat /\ Threshold \in Nat
        BY <1>1
      <4>2. QED
        BY <2>2, <4>1, Remainder
    <3>2. QED
      BY <1>4, <3>1
  <2>5. QED
    BY <2>3, <2>4
<1>5. QED
  BY <1>2, <1>3, <1>4

(* The circuit opens on a run of 5xx in the order the answers of all calls *)
(* are processed, and on nothing else.                                     *)
THEOREM OpensOnStreakOnly == Spec => OpensOnStreak
<1>1. ASSUME Inv, [Next]_vars, NEW c \in Calls, Answered(c, {"server", "opened"})
      PROVE  Answered(c, {"opened"}) /\ pause' = Pause
               <=> recent' = [i \in 1 .. Threshold |-> "5xx"]
  <2>1. Answer5xx(c)
    BY <1>1
    DEF Inv, TypeOK, Answered, Next, Leave, vars, Begin, SendAgain, SendRequest,
        Refused, Answer429, GiveUp, Answer5xx, Answer, Break, Tick, End, Steps
  <2>2. QED
    BY <1>1, <2>1, FailureOpens DEF Answered
<1>2. Inv /\ [Next]_vars =>
        [\A c \in Calls :
           Answered(c, {"server", "opened"}) =>
             (Answered(c, {"opened"}) /\ pause' = Pause
                <=> recent' = [i \in 1 .. Threshold |-> "5xx"])]_vars
  BY <1>1
<1>3. QED
  BY <1>2, InvAlways, PTL DEF Spec, OpensOnStreak

----------------------------------------------------------------------------
(* The limiter.                                                            *)

LEMMA BucketCases ==
    ASSUME [BucketNext]_bucketVars
    PROVE  \/ \E c \in Callers : Call(c)
           \/ \E c \in Callers : TakeToken(c)
           \/ \E c \in Callers : FallAsleep(c)
           \/ \E c \in Callers : WakeUp(c)
           \/ ClockTick
           \/ UNCHANGED bucketVars
BY DEF BucketNext

(* The refill adds the elapsed time, up to the capacity.                   *)
LEMMA RefilledBounds ==
    ASSUME BucketTypeOK
    PROVE  /\ Refilled \in 0 .. Full
           /\ Refilled <= units + (now - last)
           /\ Refilled < Full => Refilled = units + (now - last)
BY BucketAssumption DEF Refilled, BucketTypeOK

(* What is known of a sleep: when it ends, that nothing was handed out     *)
(* since it began, and that the time before it was credited at most twice. *)
SleepInv ==
    \A c \in Callers : Sleeping(c) =>
        /\ units < Cost
        /\ wake = last + (Cost - units)
        /\ latest <= last
        /\ spent + units <= Full + 2 * last

(* All that was ever handed out or is still held was paid by the initial   *)
(* content, by the refills (the time up to last), and by the sleeps, which *)
(* do not overlap (the time up to now).                                    *)
CreditInv == spent + units <= Full + last + now

(* In a per-chat bucket the instant from which the present content was     *)
(* earned is never before the last token but one.                          *)
SpacingInv == Full = Cost => last - units >= previous

BucketInv == BucketTypeOK /\ SleepInv /\ CreditInv /\ SpacingInv

LEMMA BucketInvInit == BucketInit => BucketInv
BY BucketAssumption
   DEF BucketInit, BucketInv, BucketTypeOK, SleepInv, CreditInv, SpacingInv, Sleeping

LEMMA BucketInvNext == BucketInv /\ [BucketNext]_bucketVars => BucketInv'
<1> SUFFICES ASSUME BucketInv, [BucketNext]_bucketVars
             PROVE  BucketInv'
    OBVIOUS
<1> USE BucketAssumption
<1>0. BucketTypeOK /\ SleepInv /\ CreditInv /\ SpacingInv
  BY DEF BucketInv
<1>1. CASE \E c \in Callers : Call(c)
  BY <1>0, <1>1
     DEF Call, BucketInv, BucketTypeOK, SleepInv, CreditInv, SpacingInv, Sleeping, grants
<1>2. CASE \E c \in Callers : TakeToken(c)
  <2>1. PICK c \in Callers : TakeToken(c)
    BY <1>2
  <2>2. BucketTypeOK'
    BY <1>0, <2>1, RefilledBounds
       DEF TakeToken, LockFree, Stamp, Grant, BucketTypeOK, Sleeping
  <2>3. SleepInv'
    BY <1>0, <2>1 DEF TakeToken, LockFree, SleepInv, Sleeping, BucketTypeOK
  <2>4. CreditInv'
    BY <1>0, <2>1, RefilledBounds DEF TakeToken, Stamp, Grant, CreditInv, BucketTypeOK
  <2>5. SpacingInv'
    BY <1>0, <2>1, RefilledBounds DEF TakeToken, Stamp, Grant, SpacingInv, BucketTypeOK
  <2> QED
    BY <2>2, <2>3, <2>4, <2>5 DEF BucketInv
<1>3. CASE \E c \in Callers : FallAsleep(c)
  <2>1. PICK c \in Callers : FallAsleep(c)
    BY <1>3
  <2>2. BucketTypeOK'
    BY <1>0, <2>1, RefilledBounds
       DEF FallAsleep, LockFree, Stamp, BucketTypeOK, Sleeping, grants
  <2>3. SleepInv'
    BY <1>0, <2>1, RefilledBounds
       DEF FallAsleep, Stamp, SleepInv, CreditInv, BucketTypeOK, grants
  <2>4. CreditInv'
    BY <1>0, <2>1, RefilledBounds DEF FallAsleep, Stamp, CreditInv, BucketTypeOK, grants
  <2>5. SpacingInv'
    BY <1>0, <2>1, RefilledBounds DEF FallAsleep, Stamp, SpacingInv, BucketTypeOK, grants
  <2> QED
    BY <2>2, <2>3, <2>4, <2>5 DEF BucketInv
<1>4. CASE \E c \in Callers : WakeUp(c)
  <2>1. PICK c \in Callers : WakeUp(c)
    BY <1>4
  <2>2. /\ wake = last + (Cost - units) /\ latest <= last /\ now >= wake
        /\ spent + units <= Full + 2 * last
    BY <1>0, <2>1 DEF WakeUp, SleepInv
  <2>3. BucketTypeOK'
    BY <1>0, <2>1 DEF WakeUp, Grant, BucketTypeOK, Sleeping
  <2>4. SleepInv'
    BY <1>0, <2>1 DEF WakeUp, SleepInv, Sleeping, BucketTypeOK
  <2>5. CreditInv'
    BY <1>0, <2>1, <2>2 DEF WakeUp, Grant, CreditInv, BucketTypeOK
  <2>6. SpacingInv'
    BY <1>0, <2>1, <2>2 DEF WakeUp, Grant, SpacingInv, BucketTypeOK
  <2> QED
    BY <2>3, <2>4, <2>5, <2>6 DEF BucketInv
<1>5. CASE ClockTick
  BY <1>0, <1>5
     DEF ClockTick, BucketInv, BucketTypeOK, SleepInv, CreditInv, SpacingInv, Sleeping, grants
<1>6. CASE UNCHANGED bucketVars
  BY <1>0, <1>6
     DEF bucketVars, grants, BucketInv, BucketTypeOK, SleepInv, CreditInv, SpacingInv, Sleeping
<1> QED
  BY <1>1, <1>2, <1>3, <1>4, <1>5, <1>6, BucketCases

LEMMA BucketInvariance == BucketSpec => []BucketInv
BY BucketInvInit, BucketInvNext, PTL DEF BucketSpec

(* The bucket holds between nothing and its capacity, time stamps are      *)
(* ordered, and at most one caller sleeps under the lock.                  *)
THEOREM BucketTypeCorrect == BucketSpec => []BucketTypeOK
<1>1. BucketInv => BucketTypeOK
  BY DEF BucketInv
<1> QED
  BY <1>1, BucketInvariance, PTL

(* However senders call acquire, the tokens handed out by time now are     *)
(* worth at most the capacity and twice the time: the refill after a sleep *)
(* credits the sleep a second time, and nothing credits it again.          *)
THEOREM OutputBounded == BucketSpec => []TwiceTheRate
<1>1. BucketInv => TwiceTheRate
  BY BucketAssumption DEF BucketInv, BucketTypeOK, CreditInv, TwiceTheRate
<1> QED
  BY <1>1, BucketInvariance, PTL

(* A per-chat bucket never hands out a third token within one period: a    *)
(* chat gets at most two messages in any second, for every timing of the   *)
(* calls and every lateness of the sleeps.                                 *)
THEOREM AtMostTwoPerPeriod == BucketSpec => TwoPerPeriod
<1>1. BucketInv /\ [BucketNext]_bucketVars
        => (Full = Cost /\ spent' # spent => now - previous >= Cost)
  <2> SUFFICES ASSUME BucketInv, [BucketNext]_bucketVars, Full = Cost, spent' # spent
               PROVE  now - previous >= Cost
      OBVIOUS
  <2> USE BucketAssumption
  <2>0. BucketTypeOK /\ SleepInv /\ SpacingInv
    BY DEF BucketInv
  <2>1. CASE \E c \in Callers : TakeToken(c)
    BY <2>0, <2>1, RefilledBounds DEF TakeToken, SpacingInv, BucketTypeOK
  <2>2. CASE \E c \in Callers : WakeUp(c)
    BY <2>0, <2>2 DEF WakeUp, SleepInv, SpacingInv, BucketTypeOK
  <2> QED
    BY <2>1, <2>2, BucketCases DEF Call, FallAsleep, ClockTick, bucketVars, grants
<1> QED
  BY <1>1, BucketInvariance, PTL DEF BucketSpec, TwoPerPeriod
=============================================================================
