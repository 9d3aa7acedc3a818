----------------------------- MODULE MCDelivery -----------------------------
(***************************************************************************)
(* Delivery on small instances: executions are interchangeable in every    *)
(* safety property, so runs without liveness take them up to permutation.  *)
(***************************************************************************)
EXTENDS Delivery, TLC, Functions

ExecutionSymmetry == Permutations(Executions)

(* Bounds: delivery reports have changed the status of at most one row; at *)
(* most one message has no result that says sent, because its answer was   *)
(* lost or its execution raised; at most three results are failures.       *)
MaxReported == 1
MaxLost     == 1
MaxFailures == 3

FewReported ==
    Cardinality({r \in log : r.has_id /\ r.status # "sent"}) <= MaxReported

Recorded(m) ==
    \/ [template |-> m.template, channel |-> m.channel, status |-> "sent"]
         \in results[m.exec]
    \/ \E r \in log : /\ r.has_id /\ r.exec = m.exec
                      /\ r.template = m.template /\ r.channel = m.channel

FewLost == Cardinality({m \in inbox : ~Recorded(m)}) <= MaxLost

Failures(e) == Cardinality({r \in results[e] : r.status \in {"failed", "blocked"}})

LoggedFailures == Cardinality({r \in log : ~r.has_id /\ r.status # "skipped"})

FewFailures ==
    LoggedFailures + FoldFunction(+, 0, [e \in Executions |-> Failures(e)]) <= MaxFailures

Bounds == FewReported /\ FewLost /\ FewFailures
=============================================================================
