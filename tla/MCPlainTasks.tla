---------------------------- MODULE MCPlainTasks ----------------------------
(***************************************************************************)
(* PlainTasks on a small instance.  Webhook events, reminders and the      *)
(* birthday run share nothing but the workers and their queue, so they are *)
(* taken one at a time; within each, everything interleaves.               *)
(***************************************************************************)
EXTENDS PlainTasks, TLC

CONSTANTS r24, r2

(* A reminder longer before the appointment, and one shortly before it.    *)
BeforeValue == r24 :> 3 @@ r2 :> 1

InUse ==
    { src \in {"webhook", "reminders", "birthday"} :
        CASE src = "webhook"   -> \E e \in Events : stage[e] # "none"
          [] src = "reminders" -> \/ \E t \in Types : row[t] # "none"
                                  \/ \E c \in Checks : cpc[c] # "idle"
                                  \/ now > 0
          [] src = "birthday"  -> beats > 0 }

OneSource == Cardinality(InUse) <= 1

(* Greetings run on two workers at once, the other tasks one by one.  The  *)
(* checks of reminders share only the queue with the workers, which run a  *)
(* reminder's task while no check does; the visibility timeout puts back   *)
(* the messages of the other two sources.                                  *)
Busy == {w \in Workers : pc[w] # "idle"}

FewAtOnce ==
    /\ beats = 0 => Cardinality(Busy) <= 1
    /\ "reminders" \in InUse => redeliveries = 0
    /\ Busy # {} => \A c \in Checks : cpc[c] = "idle"

Bounds == OneSource /\ FewAtOnce

Symmetry == Permutations(Checks) \cup Permutations(Events) \cup Permutations(Clients)
              \cup Permutations(Workers)
=============================================================================
