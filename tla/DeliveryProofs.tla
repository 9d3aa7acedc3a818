--------------------------- MODULE DeliveryProofs ---------------------------
(***************************************************************************)
(* Proofs about Delivery, for any number of executions, any of the three   *)
(* channels, and any templates, types, links, quiet hours and urgency.     *)
(***************************************************************************)
EXTENDS Delivery, TLAPS, FiniteSetTheorems

(* Every disjunct of the next-state relation, one per line.                *)
LEMMA NextCases ==
    ASSUME [Next]_vars
    PROVE  \/ \E e \in Executions : CheckDedup(e)
           \/ \E e \in Executions : LoadChannels(e)
           \/ \E e \in Executions, c \in Channels : VisitChannel(e, c)
           \/ \E e \in Executions, c \in Channels : Filter(e, c)
           \/ \E e \in Executions, r \in Replies : Answer(e, r)
           \/ \E e \in Executions : Busy(e)
           \/ \E e \in Executions : AnswerAgain(e)
           \/ \E e \in Executions : EndDispatch(e)
           \/ \E e \in Executions : Commit(e)
           \/ \E e \in Executions : Abort(e)   \* Throw is a special case
           \/ \E e \in Executions : Expire(e)
           \/ \E r \in log, s \in Report : DeliveryReport(r, s)
           \/ \E c \in WithQuiet : QuietHours(c)
           \/ UNCHANGED vars
  <1>1. ASSUME NEW e \in Executions, Throw(e) PROVE Abort(e)
    BY <1>1 DEF Throw, Abort, Finished
  <1> QED
    BY <1>1 DEF Next, Run

(* The steps inside Dispatcher.dispatch.                                   *)
InDispatch == {"inner", "sending", "resending"}

(* A template is being dispatched exactly inside dispatch, and what has    *)
(* ended has nothing left to do.                                           *)
Dispatching ==
    \A e \in Executions : current[e] \in Channels <=> pc[e] \in InDispatch

TypeInv == TypeOK /\ Dispatching

----------------------------------------------------------------------------
(* Lemmas about the operators                                              *)

(* The adapters answer with a status of their own.                         *)
LEMMA StatusKnown ==
    ASSUME NEW c \in Channels, NEW reply \in Replies
    PROVE  /\ Status(c, reply) \in {"sent", "failed", "blocked"}
           /\ Status(c, reply) = "sent" => reply = "ok"
           /\ Status(c, reply) = "blocked" => reply = "refused"
  BY ChannelAssumption
     DEF Status, TelegramStatus, WhatsAppStatus, MaxStatus, Replies

(* The dedup check ends an execution or lets it load its channels.         *)
LEMMA DedupSteps ==
    ASSUME NEW e \in Executions, TypeOK, CheckDedup(e)
    PROVE  /\ pc' = [pc EXCEPT ![e] = IF Duplicates = {} THEN "load" ELSE pc'[e]]
           /\ pc'[e] \in {"load", "done", "multiple"}
           /\ Duplicates # {} => pc'[e] \in {"done", "multiple"}
  <1>1. Duplicates = {} => Cardinality(Duplicates) # 1
    BY FS_EmptySet
  <1> QED
    BY <1>1 DEF CheckDedup, Goto, TypeOK

(* A committed row says what the result said.                              *)
LEMMA RowsOfResults ==
    ASSUME NEW e \in Executions, results[e] \subseteq Result
    PROVE  /\ LogRows(e) \subseteq Row
           /\ \A r \in LogRows(e) :
                /\ r.exec = e
                /\ r.has_id <=> r.status = "sent"
                /\ [template |-> r.template, channel |-> r.channel,
                    status |-> r.status] \in results[e]
           /\ \A x \in results[e] :
                \E r \in LogRows(e) :
                    /\ r.exec = e /\ r.template = x.template
                    /\ r.channel = x.channel /\ r.status = x.status
                    /\ r.has_id <=> x.status = "sent"
  <1> DEFINE RowOf(x) == [exec |-> e, template |-> x.template, channel |-> x.channel,
                          status |-> x.status, has_id |-> x.status = "sent"]
  <1>1. \A r \in LogRows(e) : \E x \in results[e] : r = RowOf(x)
    BY DEF LogRows
  <1>2. \A x \in results[e] : RowOf(x) \in LogRows(e)
    BY DEF LogRows
  <1>3. \A x \in Result :
          /\ RowOf(x) \in Row
          /\ x = [template |-> RowOf(x).template, channel |-> RowOf(x).channel,
                  status |-> RowOf(x).status]
    BY DEF Row, Result, Outcome, Report
  <1>4. \A x : RowOf(x).exec = e /\ (RowOf(x).has_id <=> RowOf(x).status = "sent")
    OBVIOUS
  <1>5. \A x : /\ RowOf(x).template = x.template /\ RowOf(x).channel = x.channel
               /\ RowOf(x).status = x.status /\ (RowOf(x).has_id <=> x.status = "sent")
    OBVIOUS
  <1> HIDE DEF RowOf
  <1> QED
    BY <1>1, <1>2, <1>3, <1>4, <1>5

----------------------------------------------------------------------------
(* Type correctness                                                        *)

LEMMA TypeInit == Init => TypeInv
  BY ChannelAssumption DEF Init, TypeInv, TypeOK, Dispatching, Steps, InDispatch, Finished

(* What Conclude does to the types; Answer and AnswerAgain share it.       *)
LEMMA TypeConclude ==
    ASSUME TypeInv, NEW e \in Executions, NEW s \in {"sent", "failed", "blocked"},
           pc[e] \in {"sending", "resending"},
           inbox' = inbox \/ Arrives(e),
           Conclude(e, s)
    PROVE  TypeInv'
  <1> USE DEF TypeInv, TypeOK, Dispatching, Conclude, Goto
  <1>1. current[e] \in Channels /\ target[e] \in Channels
    BY DEF InDispatch
  <1>2. [template |-> current[e], channel |-> target[e], status |-> s] \in Result
    BY <1>1 DEF Result, Outcome
  <1>3. results' \in [Executions -> SUBSET Result]
    BY <1>2 DEF Keep, Extended
  <1>4. inbox' \subseteq Message
    BY <1>1 DEF Arrives, Message
  <1>5. /\ pc' \in [Executions -> Steps]
        /\ off' \in [Executions -> SUBSET Channels]
        /\ target' \in [Executions -> Channels \cup {NoChannel}]
    BY <1>1 DEF Steps
  <1>6. \A d \in Executions : d # e => results'[d] = results[d]
    BY DEF Keep, Extended
  <1> QED
    BY <1>1, <1>3, <1>4, <1>5, <1>6, ChannelAssumption DEF InDispatch, Finished

LEMMA TypeClose ==
    ASSUME TypeInv, NEW e \in Executions, NEW s \in {"done", "raised"},
           Goto(e, s), Close(e)
    PROVE  /\ pc' \in [Executions -> Steps]
           /\ outer' \in [Executions -> SUBSET Channels]
           /\ current' \in [Executions -> Channels \cup {NoChannel}]
           /\ inner' \in [Executions -> SUBSET Channels]
           /\ target' \in [Executions -> Channels \cup {NoChannel}]
           /\ off' \in [Executions -> SUBSET Channels]
           /\ results' \in [Executions -> SUBSET Result]
           /\ Dispatching'
           /\ \A d \in Executions :
                pc'[d] \in {"sending", "resending"} <=> target'[d] # NoChannel
           /\ \A d \in Executions :
                pc'[d] \in {"check"} \cup Finished => off'[d] = {} /\ results'[d] = {}
  BY ChannelAssumption
     DEF TypeInv, TypeOK, Dispatching, Goto, Close, Steps, InDispatch, Finished

LEMMA TypeNext == TypeInv /\ [Next]_vars => TypeInv'
  <1> SUFFICES ASSUME TypeInv, [Next]_vars
               PROVE  TypeInv'
    OBVIOUS
  <1> USE DEF TypeInv, TypeOK, Dispatching
  <1>1. ASSUME NEW e \in Executions, CheckDedup(e) PROVE TypeInv'
    BY <1>1, DedupSteps, ChannelAssumption
       DEF CheckDedup, Goto, Steps, InDispatch, Finished
  <1>2. ASSUME NEW e \in Executions, LoadChannels(e) PROVE TypeInv'
    BY <1>2, ChannelAssumption
       DEF LoadChannels, Goto, Active, Steps, InDispatch, Finished
  <1>3. ASSUME NEW e \in Executions, NEW c \in Channels, VisitChannel(e, c)
        PROVE  TypeInv'
    BY <1>3, ChannelAssumption
       DEF VisitChannel, Goto, Active, Steps, InDispatch, Finished
  <1>4. ASSUME NEW e \in Executions, NEW c \in Channels, Filter(e, c)
        PROVE  TypeInv'
    <2>1. current[e] \in Channels
      BY <1>4 DEF Filter, InDispatch
    <2>2. [template |-> current[e], channel |-> c, status |-> "skipped"] \in Result
      BY <2>1 DEF Result, Outcome
    <2>3. /\ results' \in [Executions -> SUBSET Result]
          /\ \A d \in Executions : d # e => results'[d] = results[d]
      BY <1>4, <2>2 DEF Filter, Keep, Extended
    <2>4. inner' \in [Executions -> SUBSET Channels]
      BY <1>4 DEF Filter
    <2>5. /\ pc' \in [Executions -> Steps]
          /\ target' \in [Executions -> Channels \cup {NoChannel}]
          /\ \A d \in Executions : d # e => pc'[d] = pc[d] /\ target'[d] = target[d]
          /\ \/ pc'[e] = "inner" /\ target'[e] = target[e]
             \/ pc'[e] = "sending" /\ target'[e] = c
      BY <1>4 DEF Filter, Goto, Steps
    <2> QED
      BY <1>4, <2>1, <2>3, <2>4, <2>5, ChannelAssumption
         DEF Filter, InDispatch, Finished
  <1>5. ASSUME NEW e \in Executions, NEW reply \in Replies, Answer(e, reply)
        PROVE  TypeInv'
    <2>1. target[e] \in Channels
      BY <1>5 DEF Answer
    <2> QED
      BY <1>5, <2>1, StatusKnown, TypeConclude DEF Answer
  <1>6. ASSUME NEW e \in Executions, Busy(e) PROVE TypeInv'
    BY <1>6 DEF Busy, Goto, Steps, InDispatch, Finished
  <1>7. ASSUME NEW e \in Executions, AnswerAgain(e) PROVE TypeInv'
    BY <1>7, TypeConclude DEF AnswerAgain
  <1>8. ASSUME NEW e \in Executions, EndDispatch(e) PROVE TypeInv'
    BY <1>8, ChannelAssumption DEF EndDispatch, Goto, Steps, InDispatch, Finished
  <1>9. ASSUME NEW e \in Executions, Commit(e) PROVE TypeInv'
    <2>1. log' \subseteq Row
      BY <1>9, RowsOfResults DEF Commit
    <2> QED
      BY <1>9, <2>1, TypeClose DEF Commit
  <1>10. ASSUME NEW e \in Executions, Abort(e) PROVE TypeInv'
    <2>1. inbox' \subseteq Message
      BY <1>10 DEF Abort, RollBack, Arrives, Message, InDispatch
    <2> QED
      BY <1>10, <2>1, TypeClose DEF Abort, RollBack
  <1>11. ASSUME NEW e \in Executions, Expire(e) PROVE TypeInv'
    BY <1>11 DEF Expire, local
  <1>12. ASSUME NEW r \in log, NEW s \in Report, DeliveryReport(r, s)
         PROVE  TypeInv'
    <2>1. [r EXCEPT !.status = s] \in Row
      BY DEF Row
    <2> QED
      BY <1>12, <2>1 DEF DeliveryReport, local
  <1>13. ASSUME NEW c \in WithQuiet, QuietHours(c) PROVE TypeInv'
    BY <1>13, ChannelAssumption DEF QuietHours, local
  <1>14. CASE UNCHANGED vars
    BY <1>14 DEF vars, local
  <1> QED
    BY <1>1, <1>2, <1>3, <1>4, <1>5, <1>6, <1>7, <1>8, <1>9, <1>10, <1>11, <1>12,
       <1>13, <1>14, NextCases
----------------------------------------------------------------------------
(* The truth of the log.  While an execution runs, its results account for *)
(* what it sent; a result that says sent, and a row that can be reported   *)
(* or says sent, stand for a message that went out.                        *)
Arrived(e, t, c) == [exec |-> e, template |-> t, channel |-> c] \in inbox

AuditInv ==
    /\ \A m \in inbox :
         pc[m.exec] \notin {"done", "raised"} =>
           \E x \in results[m.exec] : /\ x.status \in {"sent", "failed"}
                                      /\ x.template = m.template
                                      /\ x.channel = m.channel
    /\ \A e \in Executions : \A x \in results[e] :
         x.status = "sent" => Arrived(e, x.template, x.channel)
    /\ \A r \in log :
         r.has_id \/ r.status \in Sent => Arrived(r.exec, r.template, r.channel)
    /\ AuditAgrees

(* Given the types, FailureIsolated is inductive as it stands.            *)
IsolationInv == (\A e \in Executions : Turns(e)) /\ Served

(* Blocked channels: they are disabled at once, and what the dispatcher    *)
(* has still to visit excludes what is disabled or being sent to.          *)
BlockedInv ==
    \A e \in Executions :
        /\ inner[e] \cap off[e] = {}
        /\ target[e] \notin inner[e] \cup off[e]
        /\ \A x \in results[e] : x.status = "blocked" => x.channel \in off[e]
        /\ \A x, y \in results[e] :
             /\ x.status = "blocked" /\ y.status = "blocked"
             /\ x.channel = y.channel
             => x = y

LEMMA InvInit == Init => AuditInv /\ IsolationInv /\ BlockedInv
  BY ChannelAssumption
     DEF Init, AuditInv, AuditAgrees, IsolationInv, Turns, Served, BlockedInv

(* A result that Conclude adds, and the ones that stay.                    *)
LEMMA Concluded ==
    ASSUME TypeInv, NEW e \in Executions, NEW s, Conclude(e, s)
    PROVE  /\ results'[e] = results[e] \cup
                 {[template |-> current[e], channel |-> target[e], status |-> s]}
           /\ \A d \in Executions :
                d # e => /\ results'[d] = results[d] /\ off'[d] = off[d]
                         /\ target'[d] = target[d] /\ pc'[d] = pc[d]
           /\ off'[e] = IF s = "blocked" THEN off[e] \cup {target[e]} ELSE off[e]
           /\ target'[e] = NoChannel /\ pc'[e] = "inner"
  BY DEF Conclude, Keep, Extended, Goto, TypeInv, TypeOK

(* What an adapter's answer does to the truth of the log.                  *)
LEMMA AuditConclude ==
    ASSUME TypeInv, AuditInv, NEW e \in Executions,
           NEW s \in {"sent", "failed", "blocked"},
           pc[e] \in {"sending", "resending"},
           \/ inbox' = inbox /\ s # "sent"
           \/ Arrives(e) /\ s # "blocked",
           Conclude(e, s)
    PROVE  AuditInv'
  <1> DEFINE res == [template |-> current[e], channel |-> target[e], status |-> s]
             msg == [exec |-> e, template |-> current[e], channel |-> target[e]]
  <1>0. /\ results'[e] = results[e] \cup {res}
        /\ \A d \in Executions : d # e => results'[d] = results[d] /\ pc'[d] = pc[d]
        /\ pc'[e] = "inner"
    BY Concluded
  <1>1. inbox \subseteq inbox' /\ log' = log
    BY DEF Arrives, Conclude
  <1>2. \A m \in inbox' : m \in inbox \/ (m = msg /\ s \in {"sent", "failed"})
    BY DEF Arrives
  <1>3. s = "sent" => msg \in inbox'
    BY DEF Arrives
  <1>4. \A m \in inbox : m.exec \in Executions
    BY DEF TypeInv, TypeOK, Message
  <1>5. ASSUME NEW m \in inbox', pc'[m.exec] \notin {"done", "raised"}
        PROVE  \E x \in results'[m.exec] :
                  /\ x.status \in {"sent", "failed"}
                  /\ x.template = m.template /\ x.channel = m.channel
    <2>1. CASE m \in inbox
      <3>1. pc[m.exec] \notin {"done", "raised"}
        BY <1>0, <1>4, <1>5, <2>1
      <3>2. results[m.exec] \subseteq results'[m.exec]
        BY <1>0, <1>4, <2>1
      <3> QED
        BY <2>1, <3>1, <3>2 DEF AuditInv
    <2>2. CASE m = msg /\ s \in {"sent", "failed"}
      <3>1. m.exec = e /\ m.template = res.template /\ m.channel = res.channel
        BY <2>2
      <3>2. res \in results'[e] /\ res.status \in {"sent", "failed"}
        BY <1>0, <2>2
      <3> QED
        BY <3>1, <3>2
    <2> QED
      BY <1>2, <1>5, <2>1, <2>2
  <1>6. ASSUME NEW d \in Executions, NEW x \in results'[d], x.status = "sent"
        PROVE  Arrived(d, x.template, x.channel)'
    <2>1. CASE x \in results[d]
      BY <1>1, <1>6, <2>1 DEF AuditInv, Arrived
    <2>2. CASE d = e /\ x = res
      BY <1>3, <1>6, <2>2 DEF Arrived
    <2> QED
      BY <1>0, <1>6, <2>1, <2>2
  <1>7. \A r \in log' :
          r.has_id \/ r.status \in Sent => Arrived(r.exec, r.template, r.channel)'
    BY <1>1 DEF AuditInv, Arrived
  <1>8. AuditAgrees'
    <2>1. ASSUME NEW m \in inbox', pc'[m.exec] = "done"
          PROVE  m \in inbox /\ pc[m.exec] = "done"
      BY <1>0, <1>2, <1>4, <2>1
    <2>2. \A r \in log' : r.status \in Sent =>
             [exec |-> r.exec, template |-> r.template, channel |-> r.channel] \in inbox'
      BY <1>7 DEF Arrived
    <2> QED
      BY <1>1, <2>1, <2>2 DEF AuditAgrees, AuditInv
  <1> QED
    BY <1>5, <1>6, <1>7, <1>8 DEF AuditInv

(* What all steps do that leave the inbox, the log and the results of      *)
(* running executions alone.                                               *)
LEMMA AuditUntouched ==
    ASSUME TypeInv, AuditInv, UNCHANGED <<inbox, log>>,
           NEW e \in Executions,
           \A d \in Executions : d # e => pc'[d] = pc[d] /\ results'[d] = results[d],
           \/ /\ pc'[e] = "done" <=> pc[e] = "done"
              /\ pc'[e] = "raised" <=> pc[e] = "raised"
              /\ \A x \in results'[e] : x.status # "sent" \/ x \in results[e]
              /\ results[e] \subseteq results'[e]
           \/ pc[e] = "check" /\ results'[e] = results[e]
    PROVE  AuditInv'
  <1>1. inbox \subseteq Message
    BY DEF TypeInv, TypeOK
  <1>2. \A m \in inbox : m.exec \in Executions
    BY <1>1 DEF Message
  <1>3. \A m \in inbox : pc[m.exec] # "check"
    BY <1>2 DEF AuditInv, TypeInv, TypeOK
  <1> QED
    BY <1>2, <1>3 DEF AuditInv, AuditAgrees, Arrived

LEMMA AuditNext == TypeInv /\ AuditInv /\ [Next]_vars => AuditInv'
  <1> SUFFICES ASSUME TypeInv, AuditInv, [Next]_vars
               PROVE  AuditInv'
    OBVIOUS
  <1>0. TypeOK /\ Dispatching
    BY DEF TypeInv
  <1>1. ASSUME NEW e \in Executions, CheckDedup(e) PROVE AuditInv'
    BY <1>0, <1>1, DedupSteps, AuditUntouched DEF CheckDedup, TypeOK
  <1>2. ASSUME NEW e \in Executions, LoadChannels(e) PROVE AuditInv'
    BY <1>0, <1>2, AuditUntouched DEF LoadChannels, Goto, TypeOK
  <1>3. ASSUME NEW e \in Executions, NEW c \in Channels, VisitChannel(e, c)
        PROVE  AuditInv'
    BY <1>0, <1>3, AuditUntouched DEF VisitChannel, Goto, TypeOK
  <1>4. ASSUME NEW e \in Executions, NEW c \in Channels, Filter(e, c)
        PROVE  AuditInv'
    BY <1>0, <1>4, AuditUntouched DEF Filter, Keep, Extended, Goto, TypeOK
  <1>5. ASSUME NEW e \in Executions, NEW reply \in Replies, Answer(e, reply)
        PROVE  AuditInv'
    <2>1. target[e] \in Channels
      BY <1>0, <1>5 DEF Answer, TypeOK
    <2> QED
      BY <1>5, <2>1, StatusKnown, AuditConclude DEF Answer, Replies
  <1>6. ASSUME NEW e \in Executions, Busy(e) PROVE AuditInv'
    BY <1>0, <1>6, AuditUntouched DEF Busy, Goto, TypeOK
  <1>7. ASSUME NEW e \in Executions, AnswerAgain(e) PROVE AuditInv'
    BY <1>7, AuditConclude DEF AnswerAgain
  <1>8. ASSUME NEW e \in Executions, EndDispatch(e) PROVE AuditInv'
    BY <1>0, <1>8, AuditUntouched DEF EndDispatch, Goto, TypeOK
  <1>9. ASSUME NEW e \in Executions, Commit(e) PROVE AuditInv'
    <2>1. results[e] \subseteq Result /\ inbox \subseteq Message
      BY <1>0 DEF TypeOK
    <2>2. /\ inbox' = inbox /\ log' = log \cup LogRows(e)
          /\ pc' = [pc EXCEPT ![e] = "done"]
          /\ \A d \in Executions : d # e => results'[d] = results[d]
          /\ results'[e] = {}
          /\ pc[e] = "outer"
      BY <1>0, <1>9 DEF Commit, Goto, Close, TypeOK
    <2>3. ASSUME NEW r \in log', r.has_id \/ r.status \in Sent
          PROVE  Arrived(r.exec, r.template, r.channel)'
      <3>1. CASE r \in log
        BY <2>2, <2>3, <3>1 DEF AuditInv, Arrived
      <3>2. CASE r \in LogRows(e)
        <4> DEFINE x == [template |-> r.template, channel |-> r.channel,
                         status |-> r.status]
        <4>1. r.exec = e /\ (r.has_id <=> r.status = "sent") /\ x \in results[e]
          BY <2>1, <3>2, RowsOfResults
        <4>2. x.status \in Outcome
          BY <2>1, <4>1 DEF Result
        <4>3. r.status = "sent"
          BY <2>3, <4>1, <4>2 DEF Outcome, Sent
        <4>4. Arrived(e, x.template, x.channel)
          BY <4>1, <4>3 DEF AuditInv
        <4> QED
          BY <2>2, <4>1, <4>4 DEF Arrived
      <3> QED
        BY <2>2, <3>1, <3>2
    <2>4. ASSUME NEW m \in inbox, pc'[m.exec] = "done"
          PROVE  \E r \in log' :
                    /\ r.exec = m.exec /\ (r.has_id \/ r.status = "failed")
                    /\ r.template = m.template /\ r.channel = m.channel
      <3>1. CASE m.exec = e
        <4>1. PICK x \in results[e] :
                 /\ x.status \in {"sent", "failed"}
                 /\ x.template = m.template /\ x.channel = m.channel
          BY <2>2, <3>1 DEF AuditInv
        <4> QED
          BY <2>1, <2>2, <3>1, <4>1, RowsOfResults
      <3>2. CASE m.exec # e
        BY <2>1, <2>2, <2>4, <3>2 DEF AuditInv, AuditAgrees, Message
      <3> QED
        BY <3>1, <3>2
    <2> QED
      BY <1>0, <2>1, <2>2, <2>3, <2>4 DEF AuditInv, AuditAgrees, Arrived, Message, TypeOK
  <1>10. ASSUME NEW e \in Executions, Abort(e) PROVE AuditInv'
    <2>1. /\ log' = log /\ inbox \subseteq inbox'
          /\ pc' = [pc EXCEPT ![e] = "raised"]
          /\ \A d \in Executions : d # e => results'[d] = results[d]
          /\ results'[e] = {}
      BY <1>0, <1>10 DEF Abort, RollBack, Goto, Close, Arrives, TypeOK
    <2>2. \A m \in inbox' : m.exec # e => m \in inbox
      BY <1>10 DEF Abort, RollBack, Arrives
    <2>3. \A m \in inbox' : m.exec \in Executions
      BY <1>0, <1>10 DEF Abort, RollBack, Arrives, TypeOK, Message
    <2>4. \A r \in log' :
            r.has_id \/ r.status \in Sent => Arrived(r.exec, r.template, r.channel)'
      BY <2>1 DEF AuditInv, Arrived
    <2>5. AuditAgrees'
      BY <1>0, <2>1, <2>2, <2>3, <2>4 DEF AuditAgrees, AuditInv, Arrived, TypeOK
    <2> QED
      BY <1>0, <2>1, <2>2, <2>3, <2>4, <2>5 DEF AuditInv, Arrived, TypeOK
  <1>11. ASSUME NEW e \in Executions, Expire(e) PROVE AuditInv'
    BY <1>11 DEF Expire, local, AuditInv, AuditAgrees, Arrived
  <1>12. ASSUME NEW r \in log, NEW s \in Report, DeliveryReport(r, s)
         PROVE  AuditInv'
    <2> DEFINE q == [r EXCEPT !.status = s]
    <2>1. /\ q.exec = r.exec /\ q.template = r.template /\ q.channel = r.channel
          /\ q.has_id = r.has_id /\ r.has_id
      BY <1>0, <1>12 DEF DeliveryReport, TypeOK, Row
    <2>2. log' = (log \ {r}) \cup {q} /\ UNCHANGED <<inbox, pc, results>>
      BY <1>12 DEF DeliveryReport, local
    <2> HIDE DEF q
    <2>3. \A p \in log :
            \E o \in log' : /\ o.exec = p.exec /\ o.template = p.template
                            /\ o.channel = p.channel
                            /\ p.has_id \/ p.status = "failed"
                                  => o.has_id \/ o.status = "failed"
      BY <2>1, <2>2
    <2>4. \A o \in log' :
            o.has_id \/ o.status \in Sent => Arrived(o.exec, o.template, o.channel)'
      BY <2>1, <2>2 DEF AuditInv, Arrived
    <2> QED
      BY <2>2, <2>3, <2>4 DEF AuditInv, AuditAgrees, Arrived
  <1>13. ASSUME NEW c \in WithQuiet, QuietHours(c) PROVE AuditInv'
    BY <1>13 DEF QuietHours, local, AuditInv, AuditAgrees, Arrived
  <1>14. CASE UNCHANGED vars
    BY <1>14 DEF vars, local, AuditInv, AuditAgrees, Arrived
  <1> QED
    BY <1>1, <1>2, <1>3, <1>4, <1>5, <1>6, <1>7, <1>8, <1>9, <1>10, <1>11, <1>12,
       <1>13, <1>14, NextCases
----------------------------------------------------------------------------
(* The turns of the channels                                               *)

(* An execution that keeps its place and its results keeps its turns,      *)
(* whatever channels are disabled meanwhile.                               *)
LEMMA TurnsKept ==
    ASSUME NEW d \in Executions, Turns(d), enabled' \subseteq enabled,
           results'[d] = results[d], current'[d] = current[d],
           inner'[d] = inner[d], target'[d] = target[d], off'[d] = off[d]
    PROVE  Turns(d)'
  BY DEF Turns, Usable, HasTurn

(* So does the log.                                                        *)
LEMMA LogKept ==
    ASSUME IsolationInv, enabled' \subseteq enabled, log' = log,
           NEW e \in Executions, Turns(e)',
           \A d \in Executions :
              d # e => /\ results'[d] = results[d] /\ current'[d] = current[d]
                       /\ inner'[d] = inner[d] /\ target'[d] = target[d]
                       /\ off'[d] = off[d]
    PROVE  IsolationInv'
  <1>1. ASSUME NEW d \in Executions PROVE Turns(d)'
    <2>1. CASE d # e
      BY <2>1, TurnsKept DEF IsolationInv
    <2> QED
      BY <2>1
  <1>2. Served'
    BY DEF Served, IsolationInv
  <1> QED
    BY <1>1, <1>2 DEF IsolationInv

(* A session that is closed has nothing left to give a turn to.            *)
LEMMA TurnsClosed ==
    ASSUME TypeInv, NEW e \in Executions, Close(e)
    PROVE  /\ Turns(e)'
           /\ \A d \in Executions :
                d # e => /\ results'[d] = results[d] /\ current'[d] = current[d]
                         /\ inner'[d] = inner[d] /\ target'[d] = target[d]
                         /\ off'[d] = off[d]
  <1>1. results'[e] = {} /\ current'[e] = NoChannel
    BY DEF Close, TypeInv, TypeOK
  <1>2. Turns(e)'
    BY <1>1, ChannelAssumption DEF Turns
  <1> QED
    BY <1>2 DEF Close, TypeInv, TypeOK

(* The adapter's channel had its turn.                                     *)
LEMMA TurnsConclude ==
    ASSUME TypeInv, IsolationInv, NEW e \in Executions, NEW s, Conclude(e, s)
    PROVE  IsolationInv'
  <1> DEFINE res == [template |-> current[e], channel |-> target[e], status |-> s]
  <1>1. /\ results'[e] = results[e] \cup {res}
        /\ off[e] \subseteq off'[e]
        /\ \A d \in Executions :
             d # e => /\ results'[d] = results[d] /\ target'[d] = target[d]
                      /\ off'[d] = off[d]
    BY Concluded
  <1>2. UNCHANGED <<enabled, log, current, inner>>
    BY DEF Conclude
  <1>3. Usable(e)' \subseteq Usable(e)
    BY <1>1, <1>2 DEF Usable
  <1>4. ASSUME NEW t \in Channels, NEW c \in Usable(e)',
               t = current'[e] \/ (\E x \in results'[e] : x.template = t)
        PROVE  HasTurn(e, t, c)'
    <2>1. t = current[e] \/ (\E x \in results[e] : x.template = t)
      BY <1>1, <1>2, <1>4
    <2>2. HasTurn(e, t, c)
      BY <1>3, <1>4, <2>1 DEF IsolationInv, Turns
    <2>3. CASE current[e] = t /\ c = target[e]
      <3>1. res \in results'[e] /\ res.template = t /\ res.channel = c
        BY <1>1, <2>3
      <3> QED
        BY <3>1 DEF HasTurn
    <2> QED
      BY <1>1, <1>2, <2>2, <2>3 DEF HasTurn
  <1>5. Turns(e)'
    BY <1>4 DEF Turns
  <1> QED
    BY <1>1, <1>2, <1>5, LogKept

LEMMA IsolationNext == TypeInv /\ IsolationInv /\ [Next]_vars => IsolationInv'
  <1> SUFFICES ASSUME TypeInv, IsolationInv, [Next]_vars
               PROVE  IsolationInv'
    OBVIOUS
  <1>0. TypeOK /\ Dispatching
    BY DEF TypeInv
  <1>a. ASSUME UNCHANGED <<enabled, log, current, inner, target, off, results>>
        PROVE  IsolationInv'
    BY <1>a DEF IsolationInv, Turns, Usable, HasTurn, Served
  <1>1. ASSUME NEW e \in Executions, CheckDedup(e) PROVE IsolationInv'
    BY <1>1, <1>a DEF CheckDedup
  <1>2. ASSUME NEW e \in Executions, LoadChannels(e) PROVE IsolationInv'
    BY <1>2, <1>a DEF LoadChannels
  <1>3. ASSUME NEW e \in Executions, NEW c \in Channels, VisitChannel(e, c)
        PROVE  IsolationInv'
    <2>1. current[e] \notin Channels
      BY <1>0, <1>3 DEF VisitChannel, Dispatching, InDispatch
    <2>2. UNCHANGED <<enabled, log, target, off, results>>
      BY <1>3 DEF VisitChannel
    <2>3. CASE UNCHANGED <<current, inner>>
      BY <2>2, <2>3, <1>a
    <2>4. CASE /\ current' = [current EXCEPT ![e] = c]
               /\ inner' = [inner EXCEPT ![e] = Active(e)]
      <3>1. /\ current'[e] = c /\ inner'[e] = enabled \ off[e]
            /\ \A d \in Executions :
                 d # e => current'[d] = current[d] /\ inner'[d] = inner[d]
        BY <1>0, <2>4 DEF Active, TypeOK
      <3>2. Turns(e)'
        BY <2>1, <2>2, <3>1 DEF IsolationInv, Turns, HasTurn, Usable
      <3> QED
        BY <2>2, <3>1, <3>2, LogKept
    <2> QED
      BY <1>3, <2>3, <2>4 DEF VisitChannel
  <1>4. ASSUME NEW e \in Executions, NEW c \in Channels, Filter(e, c)
        PROVE  IsolationInv'
    <2>1. UNCHANGED <<enabled, log, current, off>>
      BY <1>4 DEF Filter
    <2>2. /\ inner'[e] = inner[e] \ {c} /\ results[e] \subseteq results'[e]
          /\ \A x \in results'[e] : x \in results[e] \/ x.template = current[e]
          /\ \A d \in Executions :
               d # e => /\ results'[d] = results[d] /\ inner'[d] = inner[d]
                        /\ target'[d] = target[d]
      BY <1>0, <1>4 DEF Filter, Keep, Extended, TypeOK
    <2>3. \/ c \notin Allowed \cap Linked
          \/ target'[e] = c
          \/ [template |-> current[e], channel |-> c, status |-> "skipped"] \in results'[e]
      BY <1>0, <1>4 DEF Filter, Keep, Extended, TypeOK
    <2>4. target[e] \notin Channels
      BY <1>0, <1>4, ChannelAssumption DEF Filter, TypeOK
    <2>5. ASSUME NEW t \in Channels, NEW d \in Usable(e)',
                 t = current'[e] \/ (\E x \in results'[e] : x.template = t)
          PROVE  HasTurn(e, t, d)'
      <3>1. t = current[e] \/ (\E x \in results[e] : x.template = t)
        BY <2>1, <2>2, <2>5
      <3>2. d \in Usable(e) /\ d \in Channels /\ d \in Allowed \cap Linked
        BY <1>0, <2>1 DEF Usable, TypeOK
      <3>3. HasTurn(e, t, d)
        BY <3>1, <3>2 DEF IsolationInv, Turns
      <3>4. CASE \E x \in results[e] : x.template = t /\ x.channel = d
        BY <2>2, <3>4 DEF HasTurn
      <3>5. CASE current[e] = t /\ d \in inner[e] /\ d # c
        BY <2>1, <2>2, <3>5 DEF HasTurn
      <3>6. CASE current[e] = t /\ d = c
        <4> DEFINE res == [template |-> current[e], channel |-> c, status |-> "skipped"]
        <4>1. CASE target'[e] = c
          BY <2>1, <3>6, <4>1 DEF HasTurn
        <4>2. CASE res \in results'[e]
          <5>1. res.template = t /\ res.channel = d
            BY <3>6
          <5> QED
            BY <4>2, <5>1 DEF HasTurn
        <4> QED
          BY <2>3, <3>2, <3>6, <4>1, <4>2
      <3> QED
        BY <2>4, <3>2, <3>3, <3>4, <3>5, <3>6 DEF HasTurn
    <2>6. Turns(e)'
      BY <2>5 DEF Turns
    <2> QED
      BY <2>1, <2>2, <2>6, LogKept
  <1>5. ASSUME NEW e \in Executions, NEW reply \in Replies, Answer(e, reply)
        PROVE  IsolationInv'
    BY <1>5, TurnsConclude DEF Answer
  <1>6. ASSUME NEW e \in Executions, Busy(e) PROVE IsolationInv'
    BY <1>6, <1>a DEF Busy
  <1>7. ASSUME NEW e \in Executions, AnswerAgain(e) PROVE IsolationInv'
    BY <1>7, TurnsConclude DEF AnswerAgain
  <1>8. ASSUME NEW e \in Executions, EndDispatch(e) PROVE IsolationInv'
    <2>1. /\ UNCHANGED <<enabled, log, inner, target, off, results>>
          /\ inner[e] = {} /\ current'[e] = NoChannel
          /\ \A d \in Executions : d # e => current'[d] = current[d]
      BY <1>0, <1>8 DEF EndDispatch, TypeOK
    <2>2. Usable(e) \subseteq Channels /\ target[e] \notin Channels
      BY <1>0, <1>8, ChannelAssumption DEF EndDispatch, Usable, TypeOK
    <2>3. Turns(e)'
      BY <2>1, <2>2, ChannelAssumption DEF IsolationInv, Turns, HasTurn, Usable
    <2> QED
      BY <2>1, <2>3, LogKept
  <1>9. ASSUME NEW e \in Executions, Commit(e) PROVE IsolationInv'
    <2>1. Close(e) /\ enabled' = enabled \ off[e] /\ log' = log \cup LogRows(e)
      BY <1>9 DEF Commit
    <2>2. current[e] \notin Channels
      BY <1>0, <1>9 DEF Commit, Dispatching, InDispatch
    <2>3. results[e] \subseteq Result
      BY <1>0 DEF TypeOK
    <2>4. ASSUME NEW d \in Executions PROVE Turns(d)'
      <3>1. CASE d # e
        BY <2>1, <3>1, TurnsClosed, TurnsKept DEF IsolationInv
      <3> QED
        BY <2>1, <3>1, TurnsClosed
    <2>5. ASSUME NEW r \in log', NEW c \in enabled' \cap Allowed \cap Linked
          PROVE  \E q \in log' : /\ q.exec = r.exec /\ q.template = r.template
                                 /\ q.channel = c
      <3>1. CASE r \in log
        BY <2>1, <3>1 DEF IsolationInv, Served
      <3>2. CASE r \in LogRows(e)
        <4> DEFINE x == [template |-> r.template, channel |-> r.channel,
                         status |-> r.status]
        <4>1. r.exec = e /\ x \in results[e] /\ x.template = r.template
          BY <2>3, <3>2, RowsOfResults
        <4>2. r.template \in Channels
          BY <2>3, <4>1 DEF Result
        <4>3. c \in Usable(e)
          BY <2>1 DEF Usable
        <4>4. HasTurn(e, r.template, c)
          BY <4>1, <4>2, <4>3 DEF IsolationInv, Turns
        <4>5. PICK y \in results[e] : y.template = r.template /\ y.channel = c
          BY <2>2, <4>2, <4>4 DEF HasTurn
        <4> QED
          BY <2>1, <2>3, <4>1, <4>5, RowsOfResults
      <3> QED
        BY <2>1, <3>1, <3>2
    <2> QED
      BY <2>4, <2>5 DEF IsolationInv, Served
  <1>10. ASSUME NEW e \in Executions, Abort(e) PROVE IsolationInv'
    <2>1. Close(e) /\ UNCHANGED <<enabled, log>>
      BY <1>10 DEF Abort, RollBack
    <2> QED
      BY <2>1, TurnsClosed, LogKept
  <1>11. ASSUME NEW e \in Executions, Expire(e) PROVE IsolationInv'
    BY <1>11, <1>a DEF Expire, local
  <1>12. ASSUME NEW r \in log, NEW s \in Report, DeliveryReport(r, s)
         PROVE  IsolationInv'
    <2> DEFINE q == [r EXCEPT !.status = s]
    <2>1. q.exec = r.exec /\ q.template = r.template /\ q.channel = r.channel
      BY <1>0 DEF TypeOK, Row
    <2>2. /\ log' = (log \ {r}) \cup {q}
          /\ UNCHANGED <<enabled, current, inner, target, off, results>>
      BY <1>12 DEF DeliveryReport, local
    <2> HIDE DEF q
    <2>3. Served'
      BY <2>1, <2>2 DEF IsolationInv, Served
    <2> QED
      BY <2>2, <2>3 DEF IsolationInv, Turns, Usable, HasTurn
  <1>13. ASSUME NEW c \in WithQuiet, QuietHours(c) PROVE IsolationInv'
    BY <1>13, <1>a DEF QuietHours, local
  <1>14. CASE UNCHANGED vars
    BY <1>14, <1>a DEF vars, local
  <1> QED
    BY <1>1, <1>2, <1>3, <1>4, <1>5, <1>6, <1>7, <1>8, <1>9, <1>10, <1>11, <1>12,
       <1>13, <1>14, NextCases
----------------------------------------------------------------------------
(* Blocked channels                                                        *)

LEMMA BlockedClosed ==
    ASSUME TypeInv, BlockedInv, NEW e \in Executions, Close(e)
    PROVE  BlockedInv'
  BY DEF BlockedInv, Close, TypeInv, TypeOK

LEMMA BlockedConclude ==
    ASSUME TypeInv, BlockedInv, NEW e \in Executions,
           NEW s \in {"sent", "failed", "blocked"},
           pc[e] \in {"sending", "resending"}, Conclude(e, s)
    PROVE  BlockedInv'
  <1> DEFINE res == [template |-> current[e], channel |-> target[e], status |-> s]
  <1>1. /\ results'[e] = results[e] \cup {res}
        /\ \A d \in Executions :
             d # e => /\ results'[d] = results[d] /\ off'[d] = off[d]
                      /\ target'[d] = target[d]
        /\ off'[e] = IF s = "blocked" THEN off[e] \cup {target[e]} ELSE off[e]
        /\ target'[e] = NoChannel
    BY Concluded
  <1>2. inner' = inner /\ inner[e] \subseteq Channels /\ off[e] \subseteq Channels
    BY DEF Conclude, TypeInv, TypeOK
  <1>3. target[e] \in Channels
    BY DEF TypeInv, TypeOK
  <1>4. /\ inner[e] \cap off[e] = {} /\ target[e] \notin inner[e] \cup off[e]
        /\ \A x \in results[e] : x.status = "blocked" => x.channel \in off[e]
        /\ \A x, y \in results[e] :
             /\ x.status = "blocked" /\ y.status = "blocked"
             /\ x.channel = y.channel
             => x = y
    BY DEF BlockedInv
  <1>5. /\ inner'[e] \cap off'[e] = {}
        /\ target'[e] \notin inner'[e] \cup off'[e]
    BY <1>1, <1>2, <1>3, <1>4, ChannelAssumption
  <1>6. res.status = s /\ res.channel = target[e]
    OBVIOUS
  <1> HIDE DEF res
  <1>7. \A x \in results'[e] : x.status = "blocked" => x.channel \in off'[e]
    BY <1>1, <1>4, <1>6
  <1>8. \A x, y \in results'[e] :
          /\ x.status = "blocked" /\ y.status = "blocked"
          /\ x.channel = y.channel
          => x = y
    BY <1>1, <1>4, <1>6
  <1> QED
    BY <1>1, <1>2, <1>5, <1>7, <1>8 DEF BlockedInv

LEMMA BlockedNext == TypeInv /\ BlockedInv /\ [Next]_vars => BlockedInv'
  <1> SUFFICES ASSUME TypeInv, BlockedInv, [Next]_vars
               PROVE  BlockedInv'
    OBVIOUS
  <1>0. TypeOK
    BY DEF TypeInv
  <1>a. ASSUME UNCHANGED <<inner, target, off, results>>
        PROVE  BlockedInv'
    BY <1>a DEF BlockedInv
  <1>1. ASSUME NEW e \in Executions, CheckDedup(e) PROVE BlockedInv'
    BY <1>1, <1>a DEF CheckDedup
  <1>2. ASSUME NEW e \in Executions, LoadChannels(e) PROVE BlockedInv'
    BY <1>2, <1>a DEF LoadChannels
  <1>3. ASSUME NEW e \in Executions, NEW c \in Channels, VisitChannel(e, c)
        PROVE  BlockedInv'
    <2>1. target[e] \notin Channels
      BY <1>0, <1>3, ChannelAssumption DEF VisitChannel, TypeOK
    <2>2. UNCHANGED <<target, off, results>>
      BY <1>3 DEF VisitChannel
    <2>3. \/ inner' = inner
          \/ inner' = [inner EXCEPT ![e] = enabled \ off[e]]
      BY <1>3 DEF VisitChannel, Active
    <2> QED
      BY <1>0, <2>1, <2>2, <2>3 DEF BlockedInv, TypeOK
  <1>4. ASSUME NEW e \in Executions, NEW c \in Channels, Filter(e, c)
        PROVE  BlockedInv'
    <2>1. /\ off' = off /\ c \in inner[e]
          /\ inner'[e] = inner[e] \ {c}
          /\ target'[e] \in {target[e], c}
          /\ \A d \in Executions :
               d # e => /\ results'[d] = results[d] /\ inner'[d] = inner[d]
                        /\ target'[d] = target[d]
      BY <1>0, <1>4 DEF Filter, Keep, Extended, TypeOK
    <2>2. \A x \in results'[e] : x.status = "blocked" => x \in results[e]
      BY <1>0, <1>4 DEF Filter, Keep, Extended, TypeOK
    <2> QED
      BY <2>1, <2>2 DEF BlockedInv
  <1>5. ASSUME NEW e \in Executions, NEW reply \in Replies, Answer(e, reply)
        PROVE  BlockedInv'
    <2>1. target[e] \in Channels
      BY <1>0, <1>5 DEF Answer, TypeOK
    <2> QED
      BY <1>5, <2>1, StatusKnown, BlockedConclude DEF Answer
  <1>6. ASSUME NEW e \in Executions, Busy(e) PROVE BlockedInv'
    BY <1>6, <1>a DEF Busy
  <1>7. ASSUME NEW e \in Executions, AnswerAgain(e) PROVE BlockedInv'
    BY <1>7, BlockedConclude DEF AnswerAgain
  <1>8. ASSUME NEW e \in Executions, EndDispatch(e) PROVE BlockedInv'
    BY <1>8, <1>a DEF EndDispatch
  <1>9. ASSUME NEW e \in Executions, Commit(e) PROVE BlockedInv'
    BY <1>9, BlockedClosed DEF Commit
  <1>10. ASSUME NEW e \in Executions, Abort(e) PROVE BlockedInv'
    BY <1>10, BlockedClosed DEF Abort, RollBack
  <1>11. ASSUME NEW e \in Executions, Expire(e) PROVE BlockedInv'
    BY <1>11, <1>a DEF Expire, local
  <1>12. ASSUME NEW r \in log, NEW s \in Report, DeliveryReport(r, s)
         PROVE  BlockedInv'
    BY <1>12, <1>a DEF DeliveryReport, local
  <1>13. ASSUME NEW c \in WithQuiet, QuietHours(c) PROVE BlockedInv'
    BY <1>13, <1>a DEF QuietHours, local
  <1>14. CASE UNCHANGED vars
    BY <1>14, <1>a DEF vars, local
  <1> QED
    BY <1>1, <1>2, <1>3, <1>4, <1>5, <1>6, <1>7, <1>8, <1>9, <1>10, <1>11, <1>12,
       <1>13, <1>14, NextCases

(* A channel has at most one blocked result, so the set of them has at     *)
(* most one member.                                                        *)
LEMMA BlockedCounted == BlockedInv => BlockedOnce
  <1> SUFFICES ASSUME BlockedInv, NEW e \in Executions, NEW c \in Channels
               PROVE  Cardinality({r \in results[e] : r.channel = c /\ r.status = "blocked"})
                        <= 1
    BY DEF BlockedOnce
  <1> DEFINE B == {r \in results[e] : r.channel = c /\ r.status = "blocked"}
  <1>1. \A x, y \in B : x = y
    BY DEF BlockedInv
  <1>2. CASE B = {}
    BY <1>2, FS_EmptySet
  <1>3. CASE B # {}
    <2>1. PICK x \in B : TRUE
      BY <1>3
    <2>2. B = {x}
      BY <1>1, <2>1
    <2>3. Cardinality({x}) = 1
      BY FS_Singleton
    <2> HIDE DEF B
    <2>4. Cardinality(B) <= 1
      BY <2>2, <2>3
    <2> QED
      BY <2>4 DEF B
  <1> QED
    BY <1>2, <1>3

----------------------------------------------------------------------------
(* Covered                                                                 *)

LEMMA CoveredStep ==
    TypeInv /\ [Next]_vars =>
        [ Covered =>
            \/ Covered'
            \/ \A r \in log' : ~(r.status \in Sent /\ r.exec \notin stale') ]_vars
  <1> SUFFICES ASSUME TypeInv, [Next]_vars, Covered
               PROVE  \/ Covered'
                      \/ \A r \in log' : ~(r.status \in Sent /\ r.exec \notin stale')
    OBVIOUS
  <1> DEFINE AtRest == {"check"} \cup Finished
  <1>0. TypeOK /\ (\A e \in Executions : pc[e] \in AtRest)
    BY DEF TypeInv, Covered
  <1>1. Duplicates # {}
    BY DEF Duplicates, Covered, Sent
  <1>a. \A e \in Executions :
          pc[e] \notin {"load", "outer", "inner", "sending", "resending"}
    BY <1>0 DEF Finished
  <1>b. ASSUME pc' = pc PROVE \A e \in Executions : pc'[e] \in AtRest
    BY <1>0, <1>b
  <1>2. \A e \in Executions : pc'[e] \in AtRest
    <2>1. ASSUME NEW e \in Executions, CheckDedup(e)
          PROVE  \A d \in Executions : pc'[d] \in AtRest
      BY <1>0, <1>1, <2>1, DedupSteps DEF TypeOK, Finished
    <2>2. ASSUME NEW e \in Executions, Abort(e)
          PROVE  \A d \in Executions : pc'[d] \in AtRest
      BY <1>0, <2>2 DEF Abort, RollBack, Goto, TypeOK, Finished
    <2>3. ASSUME NEW e \in Executions, Expire(e) PROVE pc' = pc
      BY <2>3 DEF Expire, local
    <2>4. ASSUME NEW r \in log, NEW s \in Report, DeliveryReport(r, s) PROVE pc' = pc
      BY <2>4 DEF DeliveryReport, local
    <2>5. ASSUME NEW c \in WithQuiet, QuietHours(c) PROVE pc' = pc
      BY <2>5 DEF QuietHours, local
    <2>6. UNCHANGED vars => pc' = pc
      BY DEF vars, local
    <2>7. ASSUME NEW e \in Executions
          PROVE  /\ ~LoadChannels(e) /\ ~Busy(e) /\ ~AnswerAgain(e)
                 /\ ~EndDispatch(e) /\ ~Commit(e)
                 /\ \A c \in Channels : ~VisitChannel(e, c) /\ ~Filter(e, c)
                 /\ \A r \in Replies : ~Answer(e, r)
      BY <1>a DEF LoadChannels, Busy, AnswerAgain, EndDispatch, Commit, VisitChannel,
                  Filter, Answer
    <2>8. \/ \E e \in Executions : CheckDedup(e) \/ Abort(e)
          \/ pc' = pc
      BY <2>3, <2>4, <2>5, <2>6, <2>7, NextCases
    <2> QED
      BY <1>b, <2>1, <2>2, <2>8
  <1> QED
    BY <1>2 DEF Covered, Sent

----------------------------------------------------------------------------
(* The results                                                             *)

(* All that the executions, the log and the inbox hold has its type, and   *)
(* only a running execution keeps anything.                                *)
THEOREM DeliveryTypeCorrect == Spec => []TypeOK
  <1>1. TypeInv => TypeOK
    BY DEF TypeInv
  <1> QED
    BY <1>1, TypeInit, TypeNext, PTL DEF Spec

(* The log tells the truth: what an execution that ran to its end sent has *)
(* its row (_log_notification), and a row that says sent or delivered      *)
(* stands for a message that went out, in whatever order executions,       *)
(* crashes and delivery reports come (update_delivery_status).             *)
THEOREM AuditTruthful == Spec => []AuditAgrees
  <1>1. AuditInv => AuditAgrees
    BY DEF AuditInv
  <1> QED
    BY <1>1, TypeInit, TypeNext, InvInit, AuditNext, PTL DEF Spec

(* A channel that has a failed, blocked or skipped result never costs      *)
(* another usable channel its turn in Dispatcher.dispatch; only an         *)
(* execution that raised (Throw, Abort) may leave turns out.               *)
THEOREM FailuresIsolated == Spec => []FailureIsolated
  <1>1. IsolationInv => FailureIsolated
    BY DEF IsolationInv, FailureIsolated
  <1> QED
    BY <1>1, TypeInit, TypeNext, InvInit, IsolationNext, PTL DEF Spec

(* An execution never tries a channel again that it found blocked:         *)
(* deactivate_channel reaches the service's loop and the dispatcher's.     *)
THEOREM BlockedTriedOnce == Spec => []BlockedOnce
  BY BlockedCounted, TypeInit, TypeNext, InvInit, BlockedNext, PTL DEF Spec

(* Once a recent row says sent and no execution is past _check_dedup, none *)
(* gets past it, until the row is ten minutes old or reported as failed.   *)
THEOREM CoverStays == Spec => CoveredStays
  <1>1. TypeInv /\ [Next]_vars =>
          [ Covered =>
              \/ Covered'
              \/ \A r \in log' : ~(r.status \in Sent /\ r.exec \notin stale') ]_vars
    BY CoveredStep
  <1> QED
    BY <1>1, TypeInit, TypeNext, PTL DEF Spec, CoveredStays
=============================================================================
