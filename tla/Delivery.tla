------------------------------ MODULE Delivery ------------------------------
(***************************************************************************)
(* One notification (client, appointment, type) on its way to the client:  *)
(* NotificationService.send_appointment_notification, the Dispatcher, the  *)
(* channel settings it disables, the adapters of the three messengers, and *)
(* the notification_log it leaves, with the delivery reports that update   *)
(* that log.                                                               *)
(*                                                                         *)
(* Executions are the runs of the service for this notification: a task,   *)
(* its retries and redeliveries, and the tasks that overlapping polling    *)
(* windows and the webhook create for one change.  Each works in its own   *)
(* READ COMMITTED transaction: it sees its own updates and what others     *)
(* committed, and publishes everything at its final commit.                *)
(***************************************************************************)
EXTENDS Naturals, FiniteSets

CONSTANTS
    Executions,
    Telegram, WhatsApp, Max,
    Channels,   \* those of them the instance has
    Templated,  \* channels that have an active template of this type
    Allowed,    \* channels whose notification_types admit this type
    Linked,     \* channels the client has a recipient id for
    WithQuiet,  \* channels with quiet hours configured
    Urgent,     \* the type is in URGENT_TYPES (in_progress)
    NoChannel   \* no dispatch, or no send, in progress

ASSUME ChannelAssumption ==
    /\ Channels \subseteq {Telegram, WhatsApp, Max}
    /\ Telegram # WhatsApp /\ WhatsApp # Max /\ Telegram # Max
    /\ Templated \subseteq Channels
    /\ Allowed \subseteq Channels
    /\ Linked \subseteq Channels
    /\ WithQuiet \subseteq Channels
    /\ Urgent \in BOOLEAN
    /\ NoChannel \notin Channels

VARIABLES
    enabled,  \* committed client_channel_settings with is_enabled
    quiet,    \* channels inside their quiet hours now
    log,      \* committed rows of notification_log
    stale,    \* executions whose rows are more than 10 minutes old
    inbox,    \* messages the client received
    pc,       \* next step of each execution; it may begin at any time
    outer,    \* channels the service's own loop has still to visit
    current,  \* the channel whose template is being dispatched
    inner,    \* channels the dispatcher's loop has still to visit
    target,   \* the channel the adapter is sending to
    off,      \* channels the execution disabled, not yet committed
    results   \* its DeliveryResults so far

local == <<pc, outer, current, inner, target, off, results>>
vars  == <<enabled, quiet, log, stale, inbox, local>>

Sent     == {"sent", "delivered"}          \* the statuses a duplicate can have
Outcome  == {"sent", "failed", "blocked", "skipped"}
Report   == {"sent", "delivered", "failed"}
Message  == [exec : Executions, template : Channels, channel : Channels]
Result   == [template : Channels, channel : Channels, status : Outcome]
(* A row of the log; a delivery report finds only a row with a message id, *)
(* which a provider that accepts a message is taken to return.             *)
Row      == [exec : Executions, template : Channels, channel : Channels,
             status : Outcome \cup Report, has_id : BOOLEAN]
Steps    == {"check", "load", "outer", "inner", "sending", "resending",
             "done", "multiple", "raised"}
Finished == {"done", "multiple", "raised"}

Init ==
    /\ enabled \in SUBSET Channels
    /\ quiet = {}
    /\ log = {}
    /\ stale = {}
    /\ inbox = {}
    /\ pc = [e \in Executions |-> "check"]
    /\ outer = [e \in Executions |-> {}]
    /\ current = [e \in Executions |-> NoChannel]
    /\ inner = [e \in Executions |-> {}]
    /\ target = [e \in Executions |-> NoChannel]
    /\ off = [e \in Executions |-> {}]
    /\ results = [e \in Executions |-> {}]

----------------------------------------------------------------------------
(* A definition whose name has an underscore part, as Active_Committed, is *)
(* a faulty variant of the definition that follows it, used to show that a *)
(* property can fail.                                                      *)

Goto(e, step) == pc' = [pc EXCEPT ![e] = step]

(* The rows _check_dedup selects.                                          *)
Duplicates_SentOnly == {r \in log : r.status = "sent" /\ r.exec \notin stale}
Duplicates          == {r \in log : r.status \in Sent /\ r.exec \notin stale}

(* get_active_channels, as the execution's own transaction sees it.        *)
Active_Committed(e) == enabled
Active(e)           == enabled \ off[e]

(* all_results.extend(results).                                            *)
Extended_Replaced(old, r) == {r}
Extended(old, r)          == old \cup {r}

(* The session is closed, and with it all the execution kept.              *)
Close_Leaky(e) == UNCHANGED <<outer, current, inner, target, off, results>>
Close(e) ==
    /\ outer' = [outer EXCEPT ![e] = {}]
    /\ current' = [current EXCEPT ![e] = NoChannel]
    /\ inner' = [inner EXCEPT ![e] = {}]
    /\ target' = [target EXCEPT ![e] = NoChannel]
    /\ off' = [off EXCEPT ![e] = {}]
    /\ results' = [results EXCEPT ![e] = {}]

(* scalar_one_or_none: no row goes on, one row ends the execution with no  *)
(* result, several rows raise MultipleResultsFound ("multiple").           *)
CheckDedup(e) ==
    /\ pc[e] = "check"
    /\ Goto(e, CASE Duplicates = {}              -> "load"
                 [] Cardinality(Duplicates) = 1  -> "done"
                 [] OTHER                        -> "multiple")
    /\ UNCHANGED <<enabled, quiet, log, stale, inbox, outer, current, inner,
                   target, off, results>>

LoadChannels(e) ==
    /\ pc[e] = "load"
    /\ outer' = [outer EXCEPT ![e] = Active(e)]
    /\ Goto(e, "outer")
    /\ UNCHANGED <<enabled, quiet, log, stale, inbox, current, inner, target,
                   off, results>>

(* One turn of the service's loop: skip a channel this execution disabled  *)
(* or that has no template; otherwise dispatch its rendered template to    *)
(* all channels that are active now.                                       *)
VisitChannel(e, c) ==
    /\ pc[e] = "outer"
    /\ c \in outer[e]
    /\ outer' = [outer EXCEPT ![e] = @ \ {c}]
    /\ IF c \notin off[e] /\ c \in Templated
         THEN /\ current' = [current EXCEPT ![e] = c]
              /\ inner' = [inner EXCEPT ![e] = Active(e)]
              /\ Goto(e, "inner")
         ELSE UNCHANGED <<current, inner, pc>>
    /\ UNCHANGED <<enabled, quiet, log, stale, inbox, target, off, results>>

----------------------------------------------------------------------------
(* Dispatcher.dispatch: the filters of one channel, in the code's order.   *)
Keep(e, r) == results' = [results EXCEPT ![e] = Extended(@, r)]

Filter(e, c) ==
    /\ pc[e] = "inner"
    /\ c \in inner[e]
    /\ inner' = [inner EXCEPT ![e] = @ \ {c}]
    /\ \/ /\ c \notin Allowed
          /\ UNCHANGED <<pc, target, results>>
       \/ /\ c \in Allowed /\ c \in quiet /\ ~Urgent
          /\ Keep(e, [template |-> current[e], channel |-> c,
                      status |-> "skipped"])
          /\ UNCHANGED <<pc, target>>
       \/ /\ c \in Allowed /\ (c \notin quiet \/ Urgent) /\ c \notin Linked
          /\ UNCHANGED <<pc, target, results>>
       \/ /\ c \in Allowed /\ (c \notin quiet \/ Urgent) /\ c \in Linked
          /\ target' = [target EXCEPT ![e] = c]
          /\ Goto(e, "sending")
          /\ UNCHANGED results
    /\ UNCHANGED <<enabled, quiet, log, stale, inbox, outer, current, off>>

(* What becomes of a request to a messenger: it is accepted, it is refused *)
(* because the bot is blocked or the number is unknown, it fails, or it is *)
(* accepted and the answer is lost.  Two more are no Answer below: a       *)
(* Telegram that asks to come back later (Busy), and answers that make an  *)
(* adapter raise (Throw).                                                  *)
Replies == {"ok", "refused", "error", "lost"}

(* send_notification of the adapters: apart from what Throw lists,         *)
(* everything but acceptance is a FAILED result and no exception.  A       *)
(* blocked Telegram bot and an unknown WhatsApp number are told apart; MAX *)
(* knows only HTTP errors.                                                 *)
TelegramStatus(reply) ==
    CASE reply = "ok"      -> "sent"
      [] reply = "refused" -> "blocked"
      [] OTHER             -> "failed"

WhatsAppStatus(reply) ==
    CASE reply = "ok"      -> "sent"
      [] reply = "refused" -> "blocked"
      [] OTHER             -> "failed"

MaxStatus(reply) == IF reply = "ok" THEN "sent" ELSE "failed"

(* _get_adapter.                                                           *)
Status(c, reply) ==
    CASE c = Telegram -> TelegramStatus(reply)
      [] c = WhatsApp -> WhatsAppStatus(reply)
      [] c = Max      -> MaxStatus(reply)

(* The result joins the others and the loop goes on.  A blocked bot or an  *)
(* unknown number disables the channel in the execution's transaction.     *)
Conclude_StopsOnFailure(e, status) ==
    /\ off' = [off EXCEPT ![e] = IF status = "blocked" THEN @ \cup {target[e]} ELSE @]
    /\ Keep(e, [template |-> current[e], channel |-> target[e], status |-> status])
    /\ target' = [target EXCEPT ![e] = NoChannel]
    /\ inner' = [inner EXCEPT ![e] = IF status = "sent" THEN @ ELSE {}]
    /\ Goto(e, "inner")
    /\ UNCHANGED <<enabled, quiet, log, stale, outer, current>>

Conclude(e, status) ==
    /\ off' = [off EXCEPT ![e] = IF status = "blocked" THEN @ \cup {target[e]} ELSE @]
    /\ Keep(e, [template |-> current[e], channel |-> target[e], status |-> status])
    /\ target' = [target EXCEPT ![e] = NoChannel]
    /\ Goto(e, "inner")
    /\ UNCHANGED <<enabled, quiet, log, stale, outer, current, inner>>

(* The request of the adapter brings the message to the client.            *)
Arrives(e) ==
    inbox' = inbox \cup {[exec |-> e, template |-> current[e], channel |-> target[e]]}

Answer(e, reply) ==
    /\ pc[e] = "sending"
    /\ IF reply \in {"ok", "lost"} THEN Arrives(e) ELSE UNCHANGED inbox
    /\ Conclude(e, Status(target[e], reply))

(* Telegram answers 429: the adapter sleeps and sends once more.           *)
Busy(e) ==
    /\ pc[e] = "sending"
    /\ target[e] = Telegram
    /\ Goto(e, "resending")
    /\ UNCHANGED <<enabled, quiet, log, stale, inbox, outer, current, inner,
                   target, off, results>>

(* The second attempt stands in an except clause: if it is not accepted,   *)
(* its exception leaves the service (Throw).                               *)
AnswerAgain(e) ==
    /\ pc[e] = "resending"
    /\ Arrives(e)
    /\ Conclude(e, "sent")

EndDispatch(e) ==
    /\ pc[e] = "inner"
    /\ inner[e] = {}
    /\ current' = [current EXCEPT ![e] = NoChannel]
    /\ Goto(e, "outer")
    /\ UNCHANGED <<enabled, quiet, log, stale, inbox, outer, inner, target,
                   off, results>>

(* _log_notification of every result.                                      *)
LogRows(e) ==
    { [exec |-> e, template |-> r.template, channel |-> r.channel,
       status |-> r.status, has_id |-> r.status = "sent"] : r \in results[e] }

(* The results are flushed to the log and the caller commits.              *)
Commit(e) ==
    /\ pc[e] = "outer"
    /\ outer[e] = {}
    /\ log' = log \cup LogRows(e)
    /\ enabled' = enabled \ off[e]
    /\ Goto(e, "done")
    /\ Close(e)
    /\ UNCHANGED <<quiet, stale, inbox>>

(* The session is left without a commit: everything rolls back, except for *)
(* the message being sent, which may have gone out.                        *)
RollBack(e) ==
    /\ \/ UNCHANGED inbox
       \/ pc[e] \in {"sending", "resending"} /\ Arrives(e)
    /\ Goto(e, "raised")
    /\ Close(e)
    /\ UNCHANGED <<enabled, quiet, log, stale>>

(* The adapter itself raises, through the dispatcher and the service:      *)
(* Telegram's second attempt is not accepted, or the answer of WhatsApp or *)
(* MAX is no JSON.  The channels still to come get no turn.                *)
Throw(e) ==
    /\ pc[e] = "resending" \/ (pc[e] = "sending" /\ target[e] # Telegram)
    /\ RollBack(e)

(* The database raises, or the worker dies.                                *)
Abort(e) ==
    /\ pc[e] \notin Finished
    /\ RollBack(e)

----------------------------------------------------------------------------
(* update_delivery_status: whatever the row says is overwritten; a report  *)
(* that comes before the row is committed finds nothing.                   *)
DeliveryReport(r, s) ==
    /\ r \in log /\ r.has_id /\ r.channel = WhatsApp
    /\ log' = (log \ {r}) \cup {[r EXCEPT !.status = s]}
    /\ UNCHANGED <<enabled, quiet, stale, inbox, local>>

(* Ten minutes pass since the transaction of e began.                      *)
Expire(e) ==
    /\ e \notin stale
    /\ \E r \in log : r.exec = e
    /\ stale' = stale \cup {e}
    /\ UNCHANGED <<enabled, quiet, log, inbox, local>>

(* The quiet hours of a channel begin or end.                              *)
QuietHours(c) ==
    /\ quiet' = IF c \in quiet THEN quiet \ {c} ELSE quiet \cup {c}
    /\ UNCHANGED <<enabled, log, stale, inbox, local>>

Run(e) ==
    \/ CheckDedup(e)
    \/ LoadChannels(e)
    \/ \E c \in Channels : VisitChannel(e, c) \/ Filter(e, c)
    \/ \E r \in Replies : Answer(e, r)
    \/ Busy(e)
    \/ AnswerAgain(e)
    \/ EndDispatch(e)
    \/ Commit(e)

Next ==
    \/ \E e \in Executions : Run(e) \/ Throw(e) \/ Abort(e) \/ Expire(e)
    \/ \E r \in log, s \in Report : DeliveryReport(r, s)
    \/ \E c \in WithQuiet : QuietHours(c)

Spec == Init /\ [][Next]_vars

(* A started execution runs on, and quiet hours come to an end.  Nothing   *)
(* starts a further execution: a task that returned is not run again.      *)
Fairness ==
    /\ \A e \in Executions : WF_vars(Run(e))
    /\ \A c \in WithQuiet : WF_vars(c \in quiet /\ QuietHours(c))

FairSpec == Spec /\ Fairness

----------------------------------------------------------------------------
(* The type invariant; only a running execution keeps anything.            *)
TypeOK ==
    /\ enabled \subseteq Channels
    /\ quiet \subseteq Channels
    /\ log \subseteq Row
    /\ stale \subseteq Executions
    /\ inbox \subseteq Message
    /\ pc \in [Executions -> Steps]
    /\ outer \in [Executions -> SUBSET Channels]
    /\ current \in [Executions -> Channels \cup {NoChannel}]
    /\ inner \in [Executions -> SUBSET Channels]
    /\ target \in [Executions -> Channels \cup {NoChannel}]
    /\ off \in [Executions -> SUBSET Channels]
    /\ results \in [Executions -> SUBSET Result]
    /\ \A e \in Executions :
         pc[e] \in {"sending", "resending"} <=> target[e] # NoChannel
    /\ \A e \in Executions :
         pc[e] \in {"check"} \cup Finished => off[e] = {} /\ results[e] = {}

(* The log tells the truth about every execution that ran to its end: each *)
(* message it sent has a row, which delivery reports can find or which     *)
(* says failed because the answer was lost; and a row counts as sent only  *)
(* if that message went out, whatever reports say.                         *)
AuditAgrees ==
    /\ \A m \in inbox :
         pc[m.exec] = "done" =>
           \E r \in log : /\ r.exec = m.exec /\ (r.has_id \/ r.status = "failed")
                          /\ r.template = m.template /\ r.channel = m.channel
    /\ \A r \in log :
         r.status \in Sent =>
           [exec |-> r.exec, template |-> r.template, channel |-> r.channel]
             \in inbox

(* The turn of every usable channel, for a template that is or was being   *)
(* dispatched: it has a result, or the dispatcher is going to visit it, or *)
(* is waiting for its adapter.                                             *)
Usable(e) == (enabled \ off[e]) \cap Allowed \cap Linked

HasTurn(e, t, c) ==
    \/ \E x \in results[e] : x.template = t /\ x.channel = c
    \/ current[e] = t /\ (c \in inner[e] \/ c = target[e])

Turns(e) ==
    \A t \in Channels :
        t = current[e] \/ (\E x \in results[e] : x.template = t)
          => \A c \in Usable(e) : HasTurn(e, t, c)

Served ==
    \A r \in log, c \in enabled \cap Allowed \cap Linked :
        \E q \in log : /\ q.exec = r.exec
                       /\ q.template = r.template
                       /\ q.channel = c

(* A channel with a FAILED or SKIPPED result, blocked or not, keeps no     *)
(* other channel of the client from its turn (Dispatcher.dispatch): in     *)
(* every execution that has not raised, a template that was dispatched has *)
(* a result or a turn to come for every usable channel, and once committed *)
(* a row.  Channels are not independent where an adapter raises instead of *)
(* answering, as Telegram's second attempt may (Throw): that ends the      *)
(* execution, and the channels still to come have no turn in it.           *)
FailureIsolated == (\A e \in Executions : Turns(e)) /\ Served

(* An execution that learns that a channel is blocked does not try it      *)
(* again, although its own update is not committed: deactivate_channel     *)
(* reaches both loops.                                                     *)
BlockedOnce ==
    \A e \in Executions, c \in Channels :
        Cardinality({r \in results[e] : r.channel = c /\ r.status = "blocked"}) <= 1

(* A recent row says sent or delivered, and no execution is past its dedup *)
(* check.                                                                  *)
Covered ==
    /\ \E r \in log : r.status \in {"sent", "delivered"} /\ r.exec \notin stale
    /\ \A e \in Executions : pc[e] \in {"check"} \cup Finished

(* What the dedup check achieves: once an execution has logged the         *)
(* notification and none overlaps it, no later execution sends it again,   *)
(* until the row is ten minutes old or reported as failed.                 *)
CoveredStays ==
    [][ Covered =>
          \/ Covered'
          \/ \A r \in log' : ~(r.status \in Sent /\ r.exec \notin stale') ]_vars

----------------------------------------------------------------------------
(* The documents' claims that the code does not keep.                      *)

(* requirements.md 6.9: no duplicate notification of one type for one      *)
(* record within ten minutes; here within a single execution.              *)
OneMessagePerChannel ==
    \A e \in Executions, c \in Channels :
        Cardinality({m \in inbox : m.exec = e /\ m.channel = c}) <= 1

(* requirements.md 6.10 and design.md Property 4: a notification held back *)
(* by quiet hours is deferred until they end.                              *)
QuietDeferred ==
    \A c \in Channels :
        (\E r \in log : r.channel = c /\ r.status = "skipped")
          ~> (\E m \in inbox : m.channel = c)
=============================================================================
