--------------------------- MODULE ClientActions ---------------------------
(***************************************************************************)
(* The buttons under a notification (app/services/action_handler.py): a    *)
(* press is checked against the action_dedup table, recorded there, and    *)
(* then carried out by a PUT to YClients.                                  *)
(*                                                                         *)
(* One client and one appointment; a press of a button may be repeated by  *)
(* the client or by the messenger.  Presses of the webhook channels run    *)
(* concurrently.  The Telegram and MAX handlers give up after 3 and 5      *)
(* seconds; the request they cancel may still reach YClients.  A 429       *)
(* answer and its repetitions count as one long request.                   *)
(***************************************************************************)
EXTENDS Naturals, FiniteSets

CONSTANTS
    Presses,   \* presses of buttons
    Actions,   \* confirm, cancel, reschedule
    Updating,  \* actions that update the record: confirm, cancel
    Channels,  \* telegram, whatsapp, max
    Timed,     \* channels whose handler has a timeout
    NoButton,  \* the button of a press that has not happened
    Nobody     \* the writer of an untouched record

Button == [action : Actions, channel : Channels]

ASSUME ActionAssumption ==
    /\ Updating \subseteq Actions
    /\ Timed \subseteq Channels
    /\ NoButton \notin Button
    /\ Nobody \notin Presses

VARIABLES
    button,   \* what each press was on
    pc,       \* next step of its handler
    rows,     \* presses with a committed row in action_dedup
    expired,  \* presses whose row is older than 30 seconds
    wire,     \* presses whose PUT is on its way to YClients
    reply,    \* what YClients answered: ok, an error, or an error while the
              \* update was still under way ("undecided")
    applied,  \* presses whose update YClients carried out
    writer,   \* the press that updated the record last
    result,   \* how the handler ended
    earlier   \* history: presses that had ended for sure before this one began

dedup   == <<rows, expired>>
yclients == <<wire, reply, applied, writer>>
vars    == <<button, pc, dedup, yclients, result, earlier>>

Steps == {"idle", "check", "record", "request", "waiting", "done"}
Busy  == Steps \ {"idle", "done"}

(* What handle_client_action returned: the press was "already" handled,    *)
(* the update is "done", the client should "call" the salon, or a text     *)
(* without an update ("other").  Telegram shows it; MAX and WhatsApp drop  *)
(* it.  Or how it ended otherwise.                                         *)
Returned == {"already", "done", "call", "other"}
Result   == Returned \cup {"none", "raised", "timeout", "lost"}

Init ==
    /\ button = [p \in Presses |-> NoButton]
    /\ pc = [p \in Presses |-> "idle"]
    /\ rows = {}
    /\ expired = {}
    /\ wire = {}
    /\ reply = [p \in Presses |-> "none"]
    /\ applied = {}
    /\ writer = Nobody
    /\ result = [p \in Presses |-> "none"]
    /\ earlier = [p \in Presses |-> {}]

----------------------------------------------------------------------------
(* A definition whose name has an underscore part, as Send_NoAwait, is a   *)
(* faulty variant of the definition that follows it, used to show that a   *)
(* property can fail.                                                      *)

Goto(p, step) == pc' = [pc EXCEPT ![p] = step] /\ UNCHANGED result

Finish_NoResult(p, r) == pc' = [pc EXCEPT ![p] = "done"] /\ UNCHANGED result
Finish(p, r) ==
    /\ pc' = [pc EXCEPT ![p] = "done"]
    /\ result' = [result EXCEPT ![p] = r]

(* The rows _is_duplicate_action selects.                                  *)
Duplicates_Expired(p) == {q \in rows \cap expired : button[q] = button[p]}
Duplicates(p)         == {q \in rows \ expired : button[q] = button[p]}

(* The text chosen by update_appointment_status's return value.            *)
Verdict_AlwaysDone(r) == "done"
Verdict(r)            == IF r = "ok" THEN "done" ELSE "call"

Press(p, b) ==
    /\ pc[p] = "idle"
    /\ button' = [button EXCEPT ![p] = b]
    /\ earlier' = [earlier EXCEPT ![p] = {q \in Presses : result[q] \in Returned}]
    /\ Goto(p, "check")
    /\ UNCHANGED <<dedup, yclients>>

(* scalar_one_or_none: several rows raise MultipleResultsFound.            *)
Check(p) ==
    /\ pc[p] = "check"
    /\ \/ Duplicates(p) = {} /\ Goto(p, "record")
       \/ Cardinality(Duplicates(p)) = 1 /\ Finish(p, "already")
       \/ Cardinality(Duplicates(p)) > 1 /\ Finish(p, "raised")
    /\ UNCHANGED <<button, dedup, yclients, earlier>>

(* INSERT and commit; nothing in the table forbids a second row.           *)
Record(p) ==
    /\ pc[p] = "record"
    /\ rows' = rows \cup {p}
    /\ \/ button[p].action \in Updating /\ Goto(p, "request")
       \/ button[p].action \notin Updating /\ Finish(p, "other")
    /\ UNCHANGED <<button, expired, yclients, earlier>>

(* The PUT, unless the circuit breaker is open: update_appointment_status  *)
(* does not catch CircuitBreakerOpen.                                      *)
Send_NoAwait(p) ==
    /\ pc[p] = "request"
    /\ wire' = wire \cup {p}
    /\ Finish(p, "done")
    /\ UNCHANGED <<button, dedup, reply, applied, writer, earlier>>

Send(p) ==
    /\ pc[p] = "request"
    /\ \/ wire' = wire \cup {p} /\ Goto(p, "waiting")
       \/ UNCHANGED wire /\ Finish(p, "raised")
    /\ UNCHANGED <<button, dedup, reply, applied, writer, earlier>>

Return(p) ==
    /\ pc[p] = "waiting"
    /\ reply[p] # "none"
    /\ Finish(p, Verdict(reply[p]))
    /\ UNCHANGED <<button, dedup, yclients, earlier>>

(* An exception that update_appointment_status lets through: no answer in  *)
(* time, a broken connection, or an error answer that opened the circuit.  *)
TransportError(p) ==
    /\ pc[p] = "waiting"
    /\ Finish(p, "raised")
    /\ UNCHANGED <<button, dedup, yclients, earlier>>

(* asyncio.wait_for cancels the handler wherever it is; a transaction that *)
(* has not committed rolls back.                                           *)
Timeout(p) ==
    /\ pc[p] \in Busy
    /\ button[p].channel \in Timed
    /\ Finish(p, "timeout")
    /\ UNCHANGED <<button, dedup, yclients, earlier>>

(* The application process restarts: every handler is gone.                *)
Restart ==
    /\ \E p \in Presses : pc[p] \in Busy
    /\ pc' = [p \in Presses |-> IF pc[p] \in Busy THEN "done" ELSE pc[p]]
    /\ result' = [p \in Presses |-> IF pc[p] \in Busy THEN "lost" ELSE result[p]]
    /\ UNCHANGED <<button, dedup, yclients, earlier>>

(* 30 seconds pass, more than the handlers with a timeout can take.        *)
Expire(p) ==
    /\ p \in rows \ expired
    /\ button[p].channel \in Timed => pc[p] = "done"
    /\ expired' = expired \cup {p}
    /\ UNCHANGED <<button, pc, rows, yclients, result, earlier>>

----------------------------------------------------------------------------
(* YClients carries the update out or not and answers; an error answer may *)
(* follow an update that was carried out, or come before it, as when a     *)
(* gateway gives up waiting.  Or the request is lost.                      *)
Apply(p) ==
    /\ p \in wire
    /\ wire' = wire \ {p}
    /\ applied' = applied \cup {p}
    /\ writer' = p
    /\ IF reply[p] = "none"
         THEN \E r \in {"ok", "error"} : reply' = [reply EXCEPT ![p] = r]
         ELSE UNCHANGED reply
    /\ UNCHANGED <<button, pc, dedup, result, earlier>>

Refuse(p) ==
    /\ p \in wire
    /\ reply[p] = "none"
    /\ \/ wire' = wire \ {p} /\ reply' = [reply EXCEPT ![p] = "error"]
       \/ UNCHANGED wire /\ reply' = [reply EXCEPT ![p] = "undecided"]
    /\ UNCHANGED <<button, pc, dedup, applied, writer, result, earlier>>

Lose(p) ==
    /\ p \in wire
    /\ wire' = wire \ {p}
    /\ UNCHANGED <<button, pc, dedup, reply, applied, writer, result, earlier>>

Next ==
    \/ \E p \in Presses, b \in Button : Press(p, b)
    \/ \E p \in Presses :
         Check(p) \/ Record(p) \/ Send(p) \/ Return(p) \/ TransportError(p)
    \/ \E p \in Presses : Timeout(p) \/ Expire(p)
    \/ \E p \in Presses : Apply(p) \/ Refuse(p) \/ Lose(p)
    \/ Restart

Spec == Init /\ [][Next]_vars

----------------------------------------------------------------------------
(* The type invariant; a handler has a result exactly when it has ended.   *)
TypeOK ==
    /\ button \in [Presses -> Button \cup {NoButton}]
    /\ pc \in [Presses -> Steps]
    /\ rows \subseteq Presses
    /\ expired \subseteq rows
    /\ wire \subseteq Presses
    /\ reply \in [Presses -> {"none", "ok", "error", "undecided"}]
    /\ applied \subseteq Presses
    /\ writer \in applied \cup {Nobody}
    /\ result \in [Presses -> Result]
    /\ earlier \in [Presses -> SUBSET Presses]
    /\ \A p \in Presses : button[p] = NoButton <=> pc[p] = "idle"
    /\ \A p \in Presses : result[p] # "none" <=> pc[p] = "done"

(* A client who is told that the record was confirmed or cancelled can     *)
(* rely on it: YClients carried that update out, whatever timed out, was   *)
(* lost or restarted around it.                                            *)
DoneMeansApplied ==
    \A p \in Presses : result[p] = "done" => p \in applied

(* Presses one after another take effect in that order: when a handler has *)
(* returned before another press began, and the later one took effect, the *)
(* record does not fall back to the earlier one.  Only handlers that ended *)
(* without an answer, or with an error answer given before the update was  *)
(* decided, leave one behind that may come late.                           *)
NoLateOverwrite ==
    \A p, q \in Presses :
        p \in earlier[q] /\ q \in applied /\ reply[p] # "undecided" => writer # p

(* A row of the button b is not 30 seconds old, and no press of b is       *)
(* between its dedup check and its record.                                 *)
Guarded(b) ==
    /\ \E p \in rows \ expired : button[p] = b
    /\ \A p \in Presses : button[p] = b => pc[p] # "record"

(* What the dedup check achieves: once a press is recorded and none        *)
(* overlaps it, no further press of the button is recorded or carried out, *)
(* until the 30 seconds of a row are over.                                 *)
RepeatsIgnored ==
    [][ \A b \in Button : Guarded(b) => Guarded(b)' \/ expired' # expired ]_vars

----------------------------------------------------------------------------
(* models/task.py, ActionDedup: "Prevents double-processing when a button  *)
(* is pressed multiple times within 30 seconds."  The code does not keep   *)
(* it for presses that overlap.                                            *)
ProcessedOnce ==
    \A p, q \in applied :
        p # q /\ button[p] = button[q] => p \in expired \/ q \in expired
=============================================================================
