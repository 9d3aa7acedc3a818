---------------------------- MODULE AtLeastOnce -----------------------------
(***************************************************************************)
(* What the retry queue promises for a notification task, without workers, *)
(* messages or retries: a submitted task stays open until it succeeded or  *)
(* was given up; it succeeds only if the notification was carried out; it  *)
(* is given up only if every attempt failed; and while nothing disturbs    *)
(* the queue (no worker dies, no message is delivered twice, no recorded   *)
(* success is taken for a failure) the outcome is final.                   *)
(***************************************************************************)
CONSTANTS
    Tasks,
    Attempts        \* the attempts a task is entitled to

VARIABLES
    outcome,        \* "absent", "open", "success" or "failed"
    carried,        \* tasks whose notification was carried out, maybe twice
    failures,       \* the attempts of each task that failed
    disturbed       \* a message may have been delivered twice, or a success
                    \* was taken for a failed attempt

vars == <<outcome, carried, failures, disturbed>>

Init ==
    /\ outcome = [t \in Tasks |-> "absent"]
    /\ carried = {}
    /\ failures = [t \in Tasks |-> {}]
    /\ disturbed = FALSE

Submit(t) ==
    /\ outcome[t] = "absent"
    /\ outcome' = [outcome EXCEPT ![t] = "open"]
    /\ UNCHANGED <<carried, failures, disturbed>>

CarryOut(t) ==
    /\ outcome[t] # "absent"
    /\ carried' = carried \cup {t}
    /\ UNCHANGED <<outcome, failures, disturbed>>

Fail(t, a) ==
    /\ outcome[t] # "absent"
    /\ failures' = [failures EXCEPT ![t] = @ \cup {a}]
    /\ UNCHANGED <<outcome, carried, disturbed>>

(* A settled outcome changes only once the queue was disturbed.            *)
MaySettle(t) == outcome[t] # "absent" /\ (outcome[t] = "open" \/ disturbed)

Succeed(t) ==
    /\ MaySettle(t)
    /\ t \in carried
    /\ outcome' = [outcome EXCEPT ![t] = "success"]
    /\ UNCHANGED <<carried, failures, disturbed>>

GiveUp(t) ==
    /\ MaySettle(t)
    /\ failures[t] = Attempts
    /\ outcome' = [outcome EXCEPT ![t] = "failed"]
    /\ UNCHANGED <<carried, failures, disturbed>>

(* A success is recorded, and its attempt counted as failed all the same.  *)
Misjudge(t, a) ==
    /\ MaySettle(t)
    /\ t \in carried
    /\ outcome' = [outcome EXCEPT ![t] = "success"]
    /\ failures' = [failures EXCEPT ![t] = @ \cup {a}]
    /\ disturbed' = TRUE
    /\ UNCHANGED carried

(* A second copy of the task, or an attempt misjudged, starts it again.    *)
Reopen(t) ==
    /\ disturbed
    /\ outcome[t] # "absent"
    /\ outcome' = [outcome EXCEPT ![t] = "open"]
    /\ UNCHANGED <<carried, failures, disturbed>>

Disturb ==
    /\ disturbed' = TRUE
    /\ UNCHANGED <<outcome, carried, failures>>

Next ==
    \/ \E t \in Tasks : Submit(t) \/ CarryOut(t) \/ Succeed(t) \/ GiveUp(t) \/ Reopen(t)
    \/ \E t \in Tasks, a \in Attempts : Fail(t, a) \/ Misjudge(t, a)
    \/ Disturb

Spec == Init /\ [][Next]_vars
=============================================================================
