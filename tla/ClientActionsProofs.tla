------------------------ MODULE ClientActionsProofs ------------------------
(***************************************************************************)
(* Proofs about ClientActions, for any number of presses, any actions and  *)
(* any channels.                                                           *)
(***************************************************************************)
EXTENDS ClientActions, TLAPS

Unsent == {"idle", "check", "record", "request"}

(* A press that has not come to its PUT has left no trace at YClients.     *)
UnsentInv ==
    \A p \in Presses : pc[p] \in Unsent =>
        p \notin wire /\ p \notin applied /\ reply[p] = "none"

(* Only presses past their record have a row.                              *)
RowInv ==
    \A p \in rows : pc[p] \notin {"idle", "check", "record"}

(* A PUT on its way has not been carried out, nor answered for good.       *)
WireInv ==
    \A p \in wire : p \notin applied /\ reply[p] \in {"none", "undecided"}

(* What an answer and a result prove.                                      *)
AnswerInv ==
    \A p \in Presses :
        /\ reply[p] = "ok" => p \in applied
        /\ result[p] = "done" => reply[p] = "ok"
        /\ result[p] \in Returned => p \notin wire \/ reply[p] = "undecided"

EarlierInv ==
    \A p, q \in Presses : p \in earlier[q] => result[p] \in Returned

Inv ==
    /\ TypeOK
    /\ UnsentInv
    /\ RowInv
    /\ WireInv
    /\ AnswerInv
    /\ EarlierInv
    /\ NoLateOverwrite

----------------------------------------------------------------------------
(* The invariant holds in the initial state.                               *)
LEMMA InvInit == Init => Inv
  BY ActionAssumption
  DEF Init, Inv, TypeOK, UnsentInv, RowInv, WireInv, AnswerInv, EarlierInv,
      NoLateOverwrite, Unsent, Steps, Returned, Result, Button

(* Steps of the handler of a press that leave YClients alone preserve it.  *)
LEMMA HandlerKeepsInv ==
    ASSUME Inv, NEW p \in Presses,
           Check(p) \/ Record(p) \/ Return(p) \/ TransportError(p) \/ Timeout(p)
    PROVE  Inv'
<1>1. TypeOK'
  BY DEF Inv, TypeOK, UnsentInv, Check, Record, Return, TransportError,
         Timeout, Goto, Finish, Verdict, dedup, yclients, Steps, Busy, Result,
         Returned
<1>2. UnsentInv'
  BY DEF Inv, TypeOK, UnsentInv, Check, Record, Return, TransportError,
         Timeout, Goto, Finish, dedup, yclients, Unsent, Steps, Busy
<1>3. RowInv'
  BY DEF Inv, TypeOK, RowInv, Check, Record, Return, TransportError, Timeout,
         Goto, Finish, dedup, yclients, Steps, Busy
<1>4. WireInv'
  BY DEF Inv, WireInv, Check, Record, Return, TransportError, Timeout,
         yclients
<1>5. AnswerInv'
  BY DEF Inv, TypeOK, UnsentInv, WireInv, AnswerInv, Check, Record, Return,
         TransportError, Timeout, Goto, Finish, Verdict, dedup, yclients,
         Unsent, Returned
<1>6. EarlierInv'
  <2>1. result[p] \notin Returned
    BY DEF Inv, TypeOK, Check, Record, Return, TransportError, Timeout, Busy,
           Returned
  <2>2. \A q \in Presses \ {p} : result'[q] = result[q]
    BY DEF Inv, TypeOK, Check, Record, Return, TransportError, Timeout, Goto,
           Finish
  <2>3. UNCHANGED earlier
    BY DEF Check, Record, Return, TransportError, Timeout
  <2>4. QED
    BY <2>1, <2>2, <2>3 DEF Inv, EarlierInv
<1>7. NoLateOverwrite'
  BY DEF Inv, NoLateOverwrite, Check, Record, Return, TransportError, Timeout,
         yclients
<1>8. QED
  BY <1>1, <1>2, <1>3, <1>4, <1>5, <1>6, <1>7 DEF Inv

(* A press begins, and those that returned before it are remembered.       *)
LEMMA PressKeepsInv ==
    ASSUME Inv, NEW p \in Presses, NEW b \in Button, Press(p, b)
    PROVE  Inv'
<1>1. TypeOK'
  BY ActionAssumption DEF Inv, TypeOK, Press, Goto, dedup, yclients, Steps
<1>2. UnsentInv' /\ RowInv' /\ WireInv' /\ AnswerInv'
  BY DEF Inv, TypeOK, UnsentInv, RowInv, WireInv, AnswerInv, Press, Goto,
         dedup, yclients, Unsent
<1>3. EarlierInv' /\ NoLateOverwrite'
  <2>1. p \notin applied
    BY DEF Inv, UnsentInv, Press, Unsent
  <2>2. QED
    BY <2>1 DEF Inv, TypeOK, EarlierInv, NoLateOverwrite, Press, Goto,
                yclients
<1>4. QED
  BY <1>1, <1>2, <1>3 DEF Inv

(* The PUT leaves, or the circuit breaker refuses it.                      *)
LEMMA SendKeepsInv ==
    ASSUME Inv, NEW p \in Presses, Send(p)
    PROVE  Inv'
<1>1. TypeOK'
  BY DEF Inv, TypeOK, Send, Goto, Finish, dedup, Steps, Result, Returned
<1>2. UnsentInv' /\ RowInv' /\ WireInv'
  BY DEF Inv, TypeOK, UnsentInv, RowInv, WireInv, Send, Goto, Finish, dedup,
         Unsent
<1>3. p \in wire' => result'[p] \notin Returned
  BY DEF Inv, TypeOK, UnsentInv, Send, Goto, Finish, Returned, Unsent
<1>4. AnswerInv'
  BY <1>3 DEF Inv, TypeOK, AnswerInv, Send, Goto, Finish, Returned
<1>5. EarlierInv' /\ NoLateOverwrite'
  BY DEF Inv, TypeOK, EarlierInv, NoLateOverwrite, Send, Goto, Finish, Returned
<1>6. QED
  BY <1>1, <1>2, <1>4, <1>5 DEF Inv

(* Whatever becomes of a PUT on its way.  The press it belongs to has not  *)
(* returned, so no later press counts it among those before it, or it was  *)
(* answered before the update was decided.                                 *)
LEMMA WireKeepsInv ==
    ASSUME Inv, NEW p \in Presses, Apply(p) \/ Refuse(p) \/ Lose(p)
    PROVE  Inv'
<1>1. /\ p \in wire /\ pc[p] \notin Unsent
      /\ result[p] \notin Returned \/ reply[p] = "undecided"
  BY DEF Inv, UnsentInv, AnswerInv, Apply, Refuse, Lose
<1>2. TypeOK'
  BY DEF Inv, TypeOK, Apply, Refuse, Lose, dedup
<1>3. UnsentInv' /\ RowInv' /\ WireInv'
  BY <1>1 DEF Inv, TypeOK, UnsentInv, RowInv, WireInv, Apply, Refuse, Lose,
              dedup
<1>4. AnswerInv'
  BY <1>1 DEF Inv, TypeOK, AnswerInv, WireInv, Apply, Refuse, Lose, Returned
<1>5. EarlierInv'
  BY DEF Inv, EarlierInv, Apply, Refuse, Lose
<1>6. NoLateOverwrite'
  <2>1. \A q \in Presses : p \in earlier[q] => reply[p] = "undecided"
    BY <1>1 DEF Inv, EarlierInv
  <2>2. CASE Apply(p)
    BY <2>1, <2>2 DEF Inv, TypeOK, NoLateOverwrite, Apply
  <2>3. CASE Refuse(p) \/ Lose(p)
    BY <2>3 DEF Inv, TypeOK, NoLateOverwrite, Refuse, Lose
  <2>4. QED
    BY <2>2, <2>3
<1>7. QED
  BY <1>2, <1>3, <1>4, <1>5, <1>6 DEF Inv

(* The process restarts.                                                   *)
LEMMA RestartKeepsInv ==
    ASSUME Inv, Restart
    PROVE  Inv'
<1>1. TypeOK'
  BY DEF Inv, TypeOK, Restart, dedup, yclients, Steps, Busy, Result
<1>2. UnsentInv' /\ RowInv' /\ WireInv'
  BY DEF Inv, TypeOK, UnsentInv, RowInv, WireInv, Restart, dedup, yclients,
         Unsent
<1>3. \A p \in Presses : result[p] \in Returned => result'[p] = result[p]
  BY DEF Inv, TypeOK, Restart, Busy, Returned
<1>4. \A p \in Presses : result'[p] \in Returned => result'[p] = result[p]
  BY DEF Inv, TypeOK, Restart, Returned
<1>5. AnswerInv'
  BY <1>4 DEF Inv, AnswerInv, Restart, yclients, Returned
<1>6. EarlierInv' /\ NoLateOverwrite'
  BY <1>3 DEF Inv, EarlierInv, NoLateOverwrite, Restart, yclients
<1>7. QED
  BY <1>1, <1>2, <1>5, <1>6 DEF Inv

(* The invariant is inductive.                                             *)
LEMMA InvNext == Inv /\ [Next]_vars => Inv'
<1> SUFFICES ASSUME Inv, [Next]_vars PROVE Inv'
  OBVIOUS
<1>1. ASSUME NEW p \in Presses, NEW b \in Button, Press(p, b) PROVE Inv'
  BY <1>1, PressKeepsInv
<1>2. ASSUME NEW p \in Presses,
             Check(p) \/ Record(p) \/ Return(p) \/ TransportError(p) \/ Timeout(p)
      PROVE  Inv'
  BY <1>2, HandlerKeepsInv
<1>3. ASSUME NEW p \in Presses, Send(p) PROVE Inv'
  BY <1>3, SendKeepsInv
<1>4. ASSUME NEW p \in Presses, Expire(p) PROVE Inv'
  BY <1>4 DEF Inv, TypeOK, UnsentInv, RowInv, WireInv, AnswerInv, EarlierInv,
              NoLateOverwrite, Expire, yclients
<1>5. ASSUME NEW p \in Presses, Apply(p) \/ Refuse(p) \/ Lose(p) PROVE Inv'
  BY <1>5, WireKeepsInv
<1>6. CASE Restart
  BY <1>6, RestartKeepsInv
<1>7. CASE UNCHANGED vars
  BY <1>7 DEF Inv, TypeOK, UnsentInv, RowInv, WireInv, AnswerInv, EarlierInv,
              NoLateOverwrite, vars, dedup, yclients
<1>8. QED
  BY <1>1, <1>2, <1>3, <1>4, <1>5, <1>6, <1>7 DEF Next

LEMMA InvAlways == Spec => []Inv
<1>1. QED
  BY InvInit, InvNext, PTL DEF Spec

----------------------------------------------------------------------------
(* The type invariant of the button handlers.                              *)
THEOREM ActionTypeCorrect == Spec => []TypeOK
<1>1. Inv => TypeOK
  BY DEF Inv
<1>2. QED
  BY <1>1, InvAlways, PTL

(* A client who is told that an update was made can rely on it: "done" is  *)
(* said only after the answer ok, which YClients gives only after it.      *)
THEOREM ToldTruly == Spec => []DoneMeansApplied
<1>1. Inv => DoneMeansApplied
  BY DEF Inv, AnswerInv, DoneMeansApplied
<1>2. QED
  BY <1>1, InvAlways, PTL

(* The record does not fall back to an update whose handler had returned   *)
(* before a later one was pressed, unless YClients had answered it with an *)
(* error before deciding it.                                               *)
THEOREM NothingLate == Spec => []NoLateOverwrite
<1>1. Inv => NoLateOverwrite
  BY DEF Inv
<1>2. QED
  BY <1>1, InvAlways, PTL

(* A step that lets no row expire keeps a guarded button guarded: a press  *)
(* finds the row when it is checked.                                       *)
LEMMA GuardStays ==
    ASSUME Inv, [Next]_vars, NEW b \in Button, Guarded(b), expired' = expired
    PROVE  Guarded(b)'
<1>1. PICK d \in rows \ expired : button[d] = b
  BY DEF Guarded
<1>2. d \in Presses /\ pc[d] # "idle"
  BY <1>1 DEF Inv, TypeOK, RowInv
<1>3. rows \subseteq rows'
  BY DEF Next, vars, dedup, yclients, Press, Check, Record, Send, Return,
         TransportError, Timeout, Expire, Apply, Refuse, Lose, Restart
<1>4. \A q \in Presses : pc[q] # "idle" => button'[q] = button[q]
  BY DEF Inv, TypeOK, Next, vars, Press, Check, Record, Send, Return,
         TransportError, Timeout, Expire, Apply, Refuse, Lose, Restart
<1>5. ASSUME NEW q \in Presses, button'[q] = b, pc'[q] = "record"
      PROVE  FALSE
  <2>1. pc[q] = "record" \/ (Check(q) /\ Duplicates(q) = {})
    <3>1. CASE \E p \in Presses, c \in Button : Press(p, c)
      BY <1>5, <3>1 DEF Inv, TypeOK, Press, Goto
    <3>2. CASE \E p \in Presses : Check(p)
      BY <1>5, <3>2 DEF Inv, TypeOK, Check, Goto, Finish
    <3>3. CASE \E p \in Presses : Record(p) \/ Send(p) \/ Return(p)
                                   \/ TransportError(p) \/ Timeout(p)
      BY <1>5, <3>3 DEF Inv, TypeOK, Record, Send, Return, TransportError,
                        Timeout, Goto, Finish
    <3>4. CASE Restart
      BY <1>5, <3>4 DEF Inv, TypeOK, Restart, Busy
    <3>5. CASE UNCHANGED pc
      BY <1>5, <3>5
    <3>6. QED
      BY <3>1, <3>2, <3>3, <3>4, <3>5
      DEF Next, vars, Expire, Apply, Refuse, Lose
  <2>2. button[q] = b
    BY <1>4, <1>5, <2>1 DEF Check
  <2>3. CASE pc[q] = "record"
    BY <2>2, <2>3 DEF Guarded
  <2>4. CASE Duplicates(q) = {}
    BY <1>1, <2>2, <2>4 DEF Duplicates
  <2>5. QED
    BY <2>1, <2>3, <2>4
<1>6. QED
  BY <1>1, <1>2, <1>3, <1>4, <1>5 DEF Guarded

(* Once a press is recorded and none overlaps it, no press of the same     *)
(* button passes the dedup check until a row is 30 seconds old.            *)
THEOREM RepeatsStopped == Spec => RepeatsIgnored
<1>1. Inv /\ [Next]_vars =>
        [\A b \in Button : Guarded(b) => Guarded(b)' \/ expired' # expired]_vars
  BY GuardStays
<1>2. QED
  BY <1>1, InvAlways, PTL DEF Spec, RepeatsIgnored
=============================================================================
