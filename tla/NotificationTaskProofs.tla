----------------------- MODULE NotificationTaskProofs -----------------------
(***************************************************************************)
(* Theorems about NotificationTask, for any set of tasks and workers and   *)
(* any bounds: type correctness, that a task fails only after every retry  *)
(* level raised, that a published task is never abandoned, that a settled  *)
(* success is never touched again, that the protocol implements            *)
(* AtLeastOnce, and how many attempts a task can make.                     *)
(***************************************************************************)
EXTENDS NotificationTask, TLAPS, FiniteSetTheorems

(* Every disjunct of the next-state relation, one per line.                *)
LEMMA NextCases ==
    ASSUME [Next]_vars
    PROVE  \/ \E t \in Tasks : Enqueue(t)
           \/ \E w \in Workers, m \in Message : Receive(w, m)
           \/ \E w \in Workers : Check(w)
           \/ \E w \in Workers : InsertRow(w)
           \/ \E w \in Workers : UpdateRow(w)
           \/ \E w \in Workers : Execute(w)
           \/ \E w \in Workers : MarkSuccess(w)
           \/ \E w \in Workers : RecordError(w)
           \/ \E w \in Workers : Retry(w)
           \/ \E w \in Workers : MarkFailed(w)
           \/ \E w \in Workers : Ack(w)
           \/ \E w \in Workers : Abort(w)
           \/ \E w \in Workers : MarkSuccessFails(w)
           \/ \E w \in Workers : Crash(w)
           \/ \E m \in Message : Redeliver(m)
           \/ UNCHANGED vars
BY DEF Next, WorkerStep

(* What the helper definitions return.                                     *)
LEMMA HelperTypes ==
    /\ \A s \in Status : AfterCheck(s) \in {"insert", "update", "ack"}
    /\ \A r \in Levels : AfterError(r) \in {"retry", "mark_failed"}
    /\ \A m \in Message : m.retries < MaxRetries => RetryOf(m) \in Message
BY BoundsAssumption DEF AfterCheck, AfterError, RetryOf, Message, Levels, Status

(* A worker about to retry has retries left: the budget was checked before *)
(* the error was recorded, and its message does not change meanwhile.      *)
RetryInBudget ==
    \A w \in Workers : pc[w] = "retry" => held[w].retries < MaxRetries

TypeInv == TypeOK /\ RetryInBudget

LEMMA TypeInit == Init => TypeInv
BY DEF Init, TypeInv, TypeOK, RetryInBudget, Status, Steps

LEMMA TypeNext == TypeInv /\ [Next]_vars => TypeInv'
<1> SUFFICES ASSUME TypeInv, [Next]_vars
             PROVE  TypeInv'
    OBVIOUS
<1> USE BoundsAssumption, NoMsgAssumption
<1> USE DEF TypeInv, TypeOK, RetryInBudget, Goto
<1>1. CASE \E t \in Tasks : Enqueue(t)
  <2>1. PICK t \in Tasks : Enqueue(t)
    BY <1>1
  <2>2. [task |-> t, retries |-> 0] \in Message
    BY DEF Message, Levels
  <2> QED
    BY <2>1, <2>2 DEF Enqueue, Publish, row, hist, env
<1>2. CASE \E w \in Workers, m \in Message : Receive(w, m)
  BY <1>2 DEF Receive, row, hist, env, Steps
<1>3. CASE \E w \in Workers : Check(w)
  BY <1>3, HelperTypes DEF Check, row, hist, env, Steps, Message
<1>4. CASE \E w \in Workers : InsertRow(w)
  BY <1>4 DEF InsertRow, row, hist, env, Steps, Status, Message
<1>5. CASE \E w \in Workers : UpdateRow(w)
  BY <1>5 DEF UpdateRow, row, hist, env, Steps, Status, Message
<1>6. CASE \E w \in Workers : Execute(w)
  BY <1>6 DEF Execute, row, hist, env, Steps, Message
<1>7. CASE \E w \in Workers : MarkSuccess(w)
  BY <1>7 DEF MarkSuccess, row, hist, env, Steps, Status, Message
<1>8. CASE \E w \in Workers : RecordError(w)
  BY <1>8 DEF RecordError, AfterError, row, hist, env, Steps, Status, Message
<1>9. CASE \E w \in Workers : Retry(w)
  BY <1>9, HelperTypes DEF Retry, Publish, row, hist, env, Steps
<1>10. CASE \E w \in Workers : MarkFailed(w)
  BY <1>10 DEF MarkFailed, row, hist, env, Steps, Status, Message
<1>11. CASE \E w \in Workers : Ack(w)
  BY <1>11 DEF Ack, Release, row, hist, env, Steps
<1>12. CASE \E w \in Workers : Abort(w)
  <2>1. PICK w \in Workers : Abort(w)
    BY <1>12
  <2>2. status' \in [Tasks -> Status] /\ attempts' \in [Tasks -> Nat]
    BY <2>1 DEF Abort, Landed, row, Status, Message
  <2> QED
    BY <2>1, <2>2 DEF Abort, hist, env, Steps
<1>13. CASE \E w \in Workers : MarkSuccessFails(w)
  BY <1>13 DEF MarkSuccessFails, row, hist, env, Steps, Status, Message
<1>14. CASE \E w \in Workers : Crash(w)
  BY <1>14 DEF Crash, Publish, Release, row, hist, env, Steps
<1>15. CASE \E m \in Message : Redeliver(m)
  BY <1>15 DEF Redeliver, Publish, row, hist, env
<1>16. CASE UNCHANGED vars
  BY <1>16 DEF vars, row, hist, env
<1> QED
  BY <1>1, <1>2, <1>3, <1>4, <1>5, <1>6, <1>7, <1>8, <1>9, <1>10, <1>11, <1>12,
     <1>13, <1>14, <1>15, <1>16, NextCases

(* Type correctness of every reachable state: statuses, program counters   *)
(* and messages stay in their sets, retries never leave the budget, and a  *)
(* worker is idle exactly when it holds no message.                        *)
THEOREM TypeCorrect == Spec => []TypeOK
<1>1. Spec => []TypeInv
  BY TypeInit, TypeNext, PTL DEF Spec
<1>2. TypeInv => TypeOK
  BY DEF TypeInv
<1> QED
  BY <1>1, <1>2, PTL

----------------------------------------------------------------------------
(* The retry levels below m's own have all raised.                         *)
Climbed(m) == \A r \in Levels : r < m.retries => r \in raised[m.task]

(* A message of a retry level exists only because the levels below raised: *)
(* Retry is reached through RecordError only, and RecordError through an   *)
(* execution that raised.  A worker marks a failure only on the last level.*)
GiveUpInv ==
    /\ \A m \in Message : broker[m] > 0 => Climbed(m)
    /\ \A w \in Workers : held[w] # NoMsg => Climbed(held[w])
    /\ \A w \in Workers :
         pc[w] \in {"record_error", "retry", "mark_failed"}
           => held[w].retries \in raised[held[w].task]
    /\ \A w \in Workers : pc[w] = "mark_failed" => held[w].retries = MaxRetries
    /\ NoEarlyGiveUp

LEMMA LevelArithmetic ==
    /\ \A r \in Levels : r < MaxRetries \/ r = MaxRetries
    /\ \A r, n \in Levels : r < n + 1 => r < n \/ r = n
BY BoundsAssumption DEF Levels

LEMMA GiveUpInit == Init => GiveUpInv
BY DEF Init, GiveUpInv, NoEarlyGiveUp, Message

LEMMA GiveUpNext == TypeInv /\ GiveUpInv /\ [Next]_vars => GiveUpInv'
<1> SUFFICES ASSUME TypeInv, GiveUpInv, [Next]_vars
             PROVE  GiveUpInv'
    OBVIOUS
<1> USE BoundsAssumption, NoMsgAssumption
<1> USE DEF TypeInv, TypeOK, GiveUpInv, NoEarlyGiveUp, Climbed, Goto
<1>0. \A m \in Message : m.task \in Tasks /\ m.retries \in Levels
  BY DEF Message
<1>1. CASE \E t \in Tasks : Enqueue(t)
  <2>1. PICK t \in Tasks : Enqueue(t)
    BY <1>1
  <2>2. \A r \in Levels : ~(r < [task |-> t, retries |-> 0].retries)
    BY DEF Levels
  <2> QED
    BY <2>1, <2>2 DEF Enqueue, Publish, row, hist, env
<1>2. CASE \E w \in Workers, m \in Message : Receive(w, m)
  BY <1>2 DEF Receive, row, hist, env
<1>3. CASE \E w \in Workers : Check(w)
  BY <1>3 DEF Check, AfterCheck, row, hist, env
<1>4. CASE \E w \in Workers : InsertRow(w)
  BY <1>0, <1>4 DEF InsertRow, row, hist, env
<1>5. CASE \E w \in Workers : UpdateRow(w)
  BY <1>0, <1>5 DEF UpdateRow, row, hist, env
<1>6. CASE \E w \in Workers : Execute(w)
  BY <1>0, <1>6 DEF Execute, row, hist, env
<1>7. CASE \E w \in Workers : MarkSuccess(w)
  BY <1>0, <1>7 DEF MarkSuccess, row, hist, env
<1>8. CASE \E w \in Workers : RecordError(w)
  BY <1>0, <1>8 DEF RecordError, AfterError, row, hist, env, Levels
<1>9. CASE \E w \in Workers : Retry(w)
  <2>1. PICK w \in Workers : Retry(w)
    BY <1>9
  <2>2. held[w] \in Message /\ RetryOf(held[w]) \in Message
    BY <2>1, HelperTypes DEF Retry, RetryInBudget
  <2>3. /\ RetryOf(held[w]).task = held[w].task
        /\ RetryOf(held[w]).retries = held[w].retries + 1
    BY <2>2 DEF RetryOf, Message
  <2>4. Climbed(RetryOf(held[w]))
    <3> SUFFICES ASSUME NEW r \in Levels, r < RetryOf(held[w]).retries
                 PROVE  r \in raised[RetryOf(held[w]).task]
      OBVIOUS
    <3>1. r < held[w].retries \/ r = held[w].retries
      BY <1>0, <2>2, <2>3, LevelArithmetic
    <3> QED
      BY <2>1, <2>2, <2>3, <3>1 DEF Retry
  <2> QED
    BY <2>1, <2>2, <2>4 DEF Retry, Publish, row, hist, env
<1>10. CASE \E w \in Workers : MarkFailed(w)
  <2>1. PICK w \in Workers : MarkFailed(w)
    BY <1>10
  <2>2. Levels \subseteq raised[held[w].task]
    <3> SUFFICES ASSUME NEW r \in Levels
                 PROVE  r \in raised[held[w].task]
      OBVIOUS
    <3>1. held[w] # NoMsg /\ held[w].retries = MaxRetries
      BY <2>1 DEF MarkFailed
    <3>2. r < held[w].retries \/ r = held[w].retries
      BY <3>1, LevelArithmetic
    <3> QED
      BY <2>1, <3>1, <3>2 DEF MarkFailed
  <2> QED
    BY <2>1, <2>2 DEF MarkFailed, row, hist, env
<1>11. CASE \E w \in Workers : Ack(w)
  BY <1>11 DEF Ack, Release, row, hist, env
<1>12. CASE \E w \in Workers : Abort(w)
  <2>1. PICK w \in Workers : Abort(w)
    BY <1>12
  <2>2. \A t \in Tasks : status'[t] = "failed" => status[t] = "failed"
    BY <1>0, <2>1 DEF Abort, Landed, row
  <2> QED
    BY <2>1, <2>2 DEF Abort, hist, env
<1>13. CASE \E w \in Workers : MarkSuccessFails(w)
  BY <1>0, <1>13 DEF MarkSuccessFails, row, hist, env
<1>14. CASE \E w \in Workers : Crash(w)
  BY <1>14 DEF Crash, Publish, Release, row, hist, env
<1>15. CASE \E m \in Message : Redeliver(m)
  BY <1>15 DEF Redeliver, Publish, row, hist, env
<1>16. CASE UNCHANGED vars
  BY <1>16 DEF vars, row, hist, env
<1> QED
  BY <1>1, <1>2, <1>3, <1>4, <1>5, <1>6, <1>7, <1>8, <1>9, <1>10, <1>11, <1>12,
     <1>13, <1>14, <1>15, <1>16, NextCases

(* A row says "failed" only after the task raised at every retry level,    *)
(* for any number of workers, crashes, redeliveries and faults: nothing in *)
(* _send_notification_async gives up on a notification early.              *)
THEOREM GivesUpLate == Spec => []NoEarlyGiveUp
<1>1. Init => TypeInv /\ GiveUpInv
  BY TypeInit, GiveUpInit
<1>2. TypeInv /\ GiveUpInv /\ [Next]_vars => (TypeInv /\ GiveUpInv)'
  BY TypeNext, GiveUpNext
<1>3. GiveUpInv => NoEarlyGiveUp
  BY DEF GiveUpInv
<1> QED
  BY <1>1, <1>2, <1>3, PTL DEF Spec

----------------------------------------------------------------------------
(* A worker whose next steps will leave t's row final, or publish the      *)
(* retry that will.  A worker at "insert" is one only while there is no    *)
(* row: it lets go of its message when another worker's INSERT wins.       *)
Carries(w, t) ==
    /\ held[w] # NoMsg
    /\ held[w].task = t
    /\ \/ pc[w] \in Steps \ {"idle", "insert", "ack"}
       \/ pc[w] = "insert" /\ status[t] = "none"

Waiting(t) == \E m \in Message : m.task = t /\ broker[m] > 0

CarriedOrFinal(t) ==
    \/ status[t] \in Terminal
    \/ Waiting(t)
    \/ \E w \in Workers : Carries(w, t)

(* The inductive form of NoTaskVanishes: being held is not enough, since a *)
(* worker at "ack", or beaten to the INSERT, will do nothing more for t.   *)
VanishInv == faults = 0 => \A t \in created : CarriedOrFinal(t)

LEMMA VanishInit == Init => VanishInv
BY DEF Init, VanishInv

LEMMA VanishNext == TypeInv /\ VanishInv /\ [Next]_vars => VanishInv'
<1> SUFFICES ASSUME TypeInv, VanishInv, [Next]_vars, faults' = 0,
                    NEW tsk \in created'
             PROVE  CarriedOrFinal(tsk)'
    BY DEF VanishInv
<1> USE BoundsAssumption, NoMsgAssumption
<1> USE DEF TypeInv, TypeOK, VanishInv, CarriedOrFinal, Carries, Waiting, Goto
<1>1. CASE \E t \in Tasks : Enqueue(t)
  <2>1. PICK t \in Tasks : Enqueue(t)
    BY <1>1
  <2>2. [task |-> t, retries |-> 0] \in Message
    BY DEF Message, Levels
  <2>3. Waiting(t)'
    BY <2>1, <2>2 DEF Enqueue, Publish
  <2>4. tsk # t => CarriedOrFinal(tsk)'
    BY <2>1, <2>2 DEF Enqueue, Publish, row, hist, env
  <2> QED
    BY <2>3, <2>4
<1>2. CASE \E w \in Workers, m \in Message : Receive(w, m)
  BY <1>2 DEF Receive, Steps, row, hist, env
<1>3. CASE \E w \in Workers : Check(w)
  BY <1>3 DEF Check, AfterCheck, Terminal, Steps, row, hist, env
<1>4. CASE \E w \in Workers : InsertRow(w)
  BY <1>4 DEF InsertRow, Terminal, Steps, row, hist, env
<1>5. CASE \E w \in Workers : UpdateRow(w)
  BY <1>5 DEF UpdateRow, Terminal, Steps, row, hist, env
<1>6. CASE \E w \in Workers : Execute(w)
  BY <1>6 DEF Execute, Steps, row, hist, env
<1>7. CASE \E w \in Workers : MarkSuccess(w)
  BY <1>7 DEF MarkSuccess, Terminal, Steps, row, hist, env
<1>8. CASE \E w \in Workers : RecordError(w)
  BY <1>8 DEF RecordError, AfterError, Terminal, Steps, row, hist, env
<1>9. CASE \E w \in Workers : Retry(w)
  <2>1. PICK w \in Workers : Retry(w)
    BY <1>9
  <2>2. held[w] \in Message /\ RetryOf(held[w]) \in Message
    BY <2>1, HelperTypes DEF Retry, RetryInBudget
  <2>3. RetryOf(held[w]).task = held[w].task
    BY <2>2 DEF RetryOf, Message
  <2>4. tsk = held[w].task => Waiting(tsk)'
    BY <2>1, <2>2, <2>3 DEF Retry, Publish
  <2>5. \A m \in Message : broker[m] > 0 => broker'[m] > 0
    BY <2>1, <2>2 DEF Retry, Publish
  <2>6. tsk # held[w].task => CarriedOrFinal(tsk)'
    BY <2>1, <2>5 DEF Retry, row, hist, env
  <2> QED
    BY <2>4, <2>6
<1>10. CASE \E w \in Workers : MarkFailed(w)
  BY <1>10 DEF MarkFailed, Terminal, Steps, row, hist, env
<1>11. CASE \E w \in Workers : Ack(w)
  BY <1>11 DEF Ack, Release, Steps, row, hist, env
<1>12. CASE \E w \in Workers : Abort(w)
  BY <1>12 DEF Abort, row, hist, env
<1>13. CASE \E w \in Workers : MarkSuccessFails(w)
  BY <1>13 DEF MarkSuccessFails, row, hist, env
<1>14. CASE \E w \in Workers : Crash(w)
  BY <1>14 DEF Crash, Publish, Release, row, hist, env
<1>15. CASE \E m \in Message : Redeliver(m)
  BY <1>15 DEF Redeliver, Publish, row, hist, env
<1>16. CASE UNCHANGED vars
  BY <1>16 DEF vars, row, hist, env
<1> QED
  BY <1>1, <1>2, <1>3, <1>4, <1>5, <1>6, <1>7, <1>8, <1>9, <1>10, <1>11, <1>12,
     <1>13, <1>14, <1>15, <1>16, NextCases

(* While no database or broker call fails, a published task always has a   *)
(* waiting message, a worker, or a final row: acks_late and the retry      *)
(* published before the acknowledgement lose no task to a crash.           *)
THEOREM NothingVanishes == Spec => []NoTaskVanishes
<1>1. Init => TypeInv /\ VanishInv
  BY TypeInit, VanishInit
<1>2. TypeInv /\ VanishInv /\ [Next]_vars => (TypeInv /\ VanishInv)'
  BY TypeNext, VanishNext
<1>3. TypeInv /\ VanishInv => NoTaskVanishes
  <2> SUFFICES ASSUME TypeInv, VanishInv, faults = 0, NEW t \in created,
                      Waiting(t)
               PROVE  Live(t)
    BY DEF VanishInv, CarriedOrFinal, Carries, Live, NoTaskVanishes
  <2>1. PICK m \in Message : m.task = t /\ broker[m] > 0
    BY DEF Waiting
  <2>2. m.retries \in Levels /\ m = [task |-> t, retries |-> m.retries]
    BY <2>1 DEF Message
  <2> QED
    BY <2>1, <2>2 DEF Live
<1> QED
  BY <1>1, <1>2, <1>3, PTL DEF Spec

----------------------------------------------------------------------------
LEMMA SettledNext ==
    ASSUME TypeInv, [Next]_vars, NEW tsk \in Tasks, Settled(tsk)
    PROVE  Settled(tsk)'
<1> USE BoundsAssumption, NoMsgAssumption
<1> USE DEF TypeInv, TypeOK, Settled, InFlight, Goto
<1>1. CASE \E t \in Tasks : Enqueue(t)
  BY <1>1 DEF Enqueue, row, hist, env
<1>2. CASE \E w \in Workers, m \in Message : Receive(w, m)
  BY <1>2 DEF Receive, Steps, row, hist, env
<1>3. CASE \E w \in Workers : Check(w)
  BY <1>3 DEF Check, AfterCheck, row, hist, env
<1>4. CASE \E w \in Workers : InsertRow(w)
  BY <1>4 DEF InsertRow, Steps, row, hist, env
<1>5. CASE \E w \in Workers : UpdateRow(w)
  BY <1>5 DEF UpdateRow, Steps, row, hist, env
<1>6. CASE \E w \in Workers : Execute(w)
  BY <1>6 DEF Execute, Steps, row, hist, env
<1>7. CASE \E w \in Workers : MarkSuccess(w)
  BY <1>7 DEF MarkSuccess, row, hist, env
<1>8. CASE \E w \in Workers : RecordError(w)
  BY <1>8 DEF RecordError, Steps, row, hist, env
<1>9. CASE \E w \in Workers : Retry(w)
  BY <1>9 DEF Retry, row, hist, env
<1>10. CASE \E w \in Workers : MarkFailed(w)
  BY <1>10 DEF MarkFailed, Steps, row, hist, env
<1>11. CASE \E w \in Workers : Ack(w)
  BY <1>11 DEF Ack, Release, row, hist, env
<1>12. CASE \E w \in Workers : Abort(w)
  BY <1>12 DEF Abort, Landed, Steps, row, hist, env
<1>13. CASE \E w \in Workers : MarkSuccessFails(w)
  BY <1>13 DEF MarkSuccessFails, Steps, row, hist, env
<1>14. CASE \E w \in Workers : Crash(w)
  BY <1>14 DEF Crash, Release, row, hist, env
<1>15. CASE \E m \in Message : Redeliver(m)
  BY <1>15 DEF Redeliver, row, hist, env
<1>16. CASE UNCHANGED vars
  BY <1>16 DEF vars, row, hist, env
<1> QED
  BY <1>1, <1>2, <1>3, <1>4, <1>5, <1>6, <1>7, <1>8, <1>9, <1>10, <1>11, <1>12,
     <1>13, <1>14, <1>15, <1>16, NextCases

(* Once a success is recorded and no overlapping execution is left, the    *)
(* task is never executed again and its row never changes, however many    *)
(* copies of its message are still delivered: the idempotency check works  *)
(* for every delivery that does not overlap the successful one.            *)
THEOREM SuccessStays == Spec => CompletedStays
<1>1. TypeInv /\ [Next]_vars => \A t \in Tasks : Settled(t) => Settled(t)'
  BY SettledNext
<1>2. Spec => []TypeInv
  BY TypeInit, TypeNext, PTL DEF Spec
<1> QED
  BY <1>1, <1>2, PTL DEF Spec, CompletedStays
----------------------------------------------------------------------------
(* A worker that has not finished with t: the others stand at "ack".       *)
Working(w, t) == held[w] # NoMsg /\ held[w].task = t /\ pc[w] # "ack"

NoCopy(t) ==
    /\ \A m \in Message : m.task = t => broker[m] = 0
    /\ \A w \in Workers : ~Working(w, t)

(* While nothing is disturbed there is one copy of a task, the             *)
(* waiting message or the worker that has not finished with it, and there  *)
(* is none once the row is final or before the task is published.          *)
SingleCopy(t) ==
    /\ \A m \in Message : m.task = t => broker[m] <= 1
    /\ \A m, n \in Message :
         m.task = t /\ n.task = t /\ broker[m] > 0 /\ broker[n] > 0 => m = n
    /\ \A v, w \in Workers : Working(v, t) /\ Working(w, t) => v = w
    /\ \A w \in Workers, m \in Message :
         Working(w, t) /\ m.task = t => broker[m] = 0
    /\ status[t] \in Terminal => NoCopy(t)
    /\ t \notin created => status[t] = "none" /\ NoCopy(t)

SingleInv ==
    ~Disturbed => \A t \in Tasks : SingleCopy(t)

LEMMA SingleInit == Init => SingleInv
BY NoMsgAssumption DEF Init, SingleInv, SingleCopy, NoCopy, Working, Terminal

(* What disturbs the queue is counted and never forgotten.                 *)
LEMMA CountersGrow ==
    ASSUME [Next]_vars, crashes \in Nat, redeliveries \in Nat, unanswered \in Nat
    PROVE  /\ crashes' >= crashes /\ redeliveries' >= redeliveries
           /\ unanswered' >= unanswered
<1> USE DEF env
<1>1. ASSUME UNCHANGED env
      PROVE  /\ crashes' >= crashes /\ redeliveries' >= redeliveries
             /\ unanswered' >= unanswered
  BY <1>1
<1>2. CASE \E w \in Workers : Abort(w) \/ MarkSuccessFails(w)
  BY <1>2 DEF Abort, MarkSuccessFails
<1>3. CASE \E w \in Workers : Crash(w)
  BY <1>3 DEF Crash
<1>4. CASE \E m \in Message : Redeliver(m)
  BY <1>4 DEF Redeliver
<1> QED
  BY <1>1, <1>2, <1>3, <1>4, NextCases
     DEF Enqueue, Receive, Check, InsertRow, UpdateRow, Execute, MarkSuccess,
         RecordError, Retry, MarkFailed, Ack, vars

LEMMA SingleNext == TypeInv /\ SingleInv /\ [Next]_vars => SingleInv'
<1> SUFFICES ASSUME TypeInv, SingleInv, [Next]_vars, ~Disturbed', NEW tsk \in Tasks
             PROVE  SingleCopy(tsk)'
    BY DEF SingleInv
<1>a. /\ crashes = 0 /\ redeliveries = 0 /\ unanswered = 0
      /\ crashes' = 0 /\ redeliveries' = 0 /\ unanswered' = 0
  BY TypeNext, CountersGrow DEF TypeInv, TypeOK, Disturbed
<1>b. \A t \in Tasks : SingleCopy(t)
  BY <1>a DEF SingleInv, Disturbed
<1> USE BoundsAssumption, NoMsgAssumption
<1> USE <1>b DEF TypeInv, TypeOK, SingleCopy, NoCopy, Working, Goto
<1>0. \A m \in Message : m.task \in Tasks
  BY DEF Message
<1>1. CASE \E t \in Tasks : Enqueue(t)
  <2>1. PICK t \in Tasks : Enqueue(t)
    BY <1>1
  <2>2. [task |-> t, retries |-> 0] \in Message
    BY DEF Message, Levels
  <2> QED
    BY <2>1, <2>2 DEF Enqueue, Publish, Terminal, row, hist, env
<1>2. CASE \E w \in Workers, m \in Message : Receive(w, m)
  BY <1>0, <1>2 DEF Receive, row, hist, env
<1>3. CASE \E w \in Workers : Check(w)
  BY <1>0, <1>3 DEF Check, AfterCheck, row, hist, env
<1>4. CASE \E w \in Workers : InsertRow(w)
  BY <1>0, <1>4 DEF InsertRow, Terminal, row, hist, env
<1>5. CASE \E w \in Workers : UpdateRow(w)
  BY <1>0, <1>5 DEF UpdateRow, Terminal, row, hist, env
<1>6. CASE \E w \in Workers : Execute(w)
  BY <1>0, <1>6 DEF Execute, row, hist, env
<1>7. CASE \E w \in Workers : MarkSuccess(w)
  BY <1>0, <1>7 DEF MarkSuccess, row, hist, env
<1>8. CASE \E w \in Workers : RecordError(w)
  BY <1>0, <1>8 DEF RecordError, AfterError, Terminal, row, hist, env
<1>9. CASE \E w \in Workers : Retry(w)
  <2>1. PICK w \in Workers : Retry(w)
    BY <1>9
  <2>2. held[w] \in Message /\ RetryOf(held[w]) \in Message
    BY <2>1, HelperTypes DEF Retry, RetryInBudget
  <2>3. RetryOf(held[w]).task = held[w].task
    BY <2>2 DEF RetryOf, Message
  <2> QED
    BY <1>0, <2>1, <2>2, <2>3 DEF Retry, Publish, row, hist, env
<1>10. CASE \E w \in Workers : MarkFailed(w)
  BY <1>0, <1>10 DEF MarkFailed, row, hist, env
<1>11. CASE \E w \in Workers : Ack(w)
  BY <1>11 DEF Ack, Release, row, hist, env
<1>12. CASE \E w \in Workers : Abort(w)
  BY <1>0, <1>12 DEF Abort, Landed, Terminal, row, hist, env
<1>13. CASE \E w \in Workers : MarkSuccessFails(w)
  BY <1>0, <1>a, <1>13 DEF MarkSuccessFails, row, hist, env
<1>14. CASE \E w \in Workers : Crash(w)
  BY <1>a, <1>14 DEF Crash
<1>15. CASE \E m \in Message : Redeliver(m)
  BY <1>a, <1>15 DEF Redeliver
<1>16. CASE UNCHANGED vars
  BY <1>16 DEF vars, row, hist, env
<1> QED
  BY <1>1, <1>2, <1>3, <1>4, <1>5, <1>6, <1>7, <1>8, <1>9, <1>10, <1>11, <1>12,
     <1>13, <1>14, <1>15, <1>16, NextCases

(* While every message is delivered exactly once and no answer to the      *)
(* commit of a success is lost, a success or failure in task_queue is      *)
(* never overwritten: the retries of a task run one after another, and the *)
(* last of them alone writes the final status.                             *)
THEOREM OutcomeStays == Spec => TerminalFinal
<1>1. TypeInv /\ SingleInv /\ [Next]_vars /\ ~Disturbed'
        => \A t \in Tasks : status[t] \in Terminal => status'[t] = status[t]
  <2> SUFFICES ASSUME TypeInv, SingleInv, [Next]_vars, ~Disturbed',
                      NEW t \in Tasks, status[t] \in Terminal
               PROVE  status'[t] = status[t]
      OBVIOUS
  <2>1. ~Disturbed
    BY CountersGrow, TypeNext DEF TypeInv, TypeOK, Disturbed
  <2>2. \A w \in Workers : ~Working(w, t)
    BY <2>1 DEF SingleInv, SingleCopy, NoCopy
  <2> QED
    BY <2>2, NextCases, NoMsgAssumption
       DEF TypeInv, TypeOK, Working, Terminal, Enqueue, Receive, Check, InsertRow,
           UpdateRow, Execute, MarkSuccess, RecordError, Retry, MarkFailed, Ack,
           Abort, Landed, MarkSuccessFails, Crash, Redeliver, vars, row
<1>2. Init => TypeInv /\ SingleInv
  BY TypeInit, SingleInit
<1>3. TypeInv /\ SingleInv /\ [Next]_vars => (TypeInv /\ SingleInv)'
  BY TypeNext, SingleNext
<1> QED
  BY <1>1, <1>2, <1>3, PTL DEF Spec, TerminalFinal
----------------------------------------------------------------------------
(* Only published tasks are worked on, and a success is marked only after  *)
(* the notification was carried out.                                       *)
WorkInv ==
    /\ \A m \in Message : broker[m] > 0 => m.task \in created
    /\ \A w \in Workers : held[w] # NoMsg => held[w].task \in created
    /\ \A w \in Workers : pc[w] = "mark_success" => returned[held[w].task] > 0
    /\ \A t \in Tasks : t \notin created => status[t] = "none"

LEMMA WorkInit == Init => WorkInv
BY DEF Init, WorkInv

LEMMA WorkNext == TypeInv /\ WorkInv /\ [Next]_vars => WorkInv'
<1> SUFFICES ASSUME TypeInv, WorkInv, [Next]_vars
             PROVE  WorkInv'
    OBVIOUS
<1> USE BoundsAssumption, NoMsgAssumption
<1> USE DEF TypeInv, TypeOK, WorkInv, Goto
<1>0. \A m \in Message : m.task \in Tasks
  BY DEF Message
<1>1. CASE \E t \in Tasks : Enqueue(t)
  <2>1. PICK t \in Tasks : Enqueue(t)
    BY <1>1
  <2>2. [task |-> t, retries |-> 0] \in Message
    BY DEF Message, Levels
  <2> QED
    BY <2>1, <2>2 DEF Enqueue, Publish, row, hist, env
<1>2. CASE \E w \in Workers, m \in Message : Receive(w, m)
  BY <1>0, <1>2 DEF Receive, row, hist, env
<1>3. CASE \E w \in Workers : Check(w)
  BY <1>0, <1>3 DEF Check, AfterCheck, row, hist, env
<1>4. CASE \E w \in Workers : InsertRow(w)
  BY <1>0, <1>4 DEF InsertRow, row, hist, env
<1>5. CASE \E w \in Workers : UpdateRow(w)
  BY <1>0, <1>5 DEF UpdateRow, row, hist, env
<1>6. CASE \E w \in Workers : Execute(w)
  BY <1>0, <1>6 DEF Execute, row, hist, env
<1>7. CASE \E w \in Workers : MarkSuccess(w)
  BY <1>0, <1>7 DEF MarkSuccess, row, hist, env
<1>8. CASE \E w \in Workers : RecordError(w)
  BY <1>0, <1>8 DEF RecordError, AfterError, row, hist, env
<1>9. CASE \E w \in Workers : Retry(w)
  <2>1. PICK w \in Workers : Retry(w)
    BY <1>9
  <2>2. held[w] \in Message /\ RetryOf(held[w]) \in Message
    BY <2>1, HelperTypes DEF Retry, RetryInBudget
  <2>3. RetryOf(held[w]).task = held[w].task
    BY <2>2 DEF RetryOf, Message
  <2> QED
    BY <1>0, <2>1, <2>2, <2>3 DEF Retry, Publish, row, hist, env
<1>10. CASE \E w \in Workers : MarkFailed(w)
  BY <1>0, <1>10 DEF MarkFailed, row, hist, env
<1>11. CASE \E w \in Workers : Ack(w)
  BY <1>0, <1>11 DEF Ack, Release, row, hist, env
<1>12. CASE \E w \in Workers : Abort(w)
  BY <1>0, <1>12 DEF Abort, Landed, row, hist, env
<1>13. CASE \E w \in Workers : MarkSuccessFails(w)
  BY <1>0, <1>13 DEF MarkSuccessFails, row, hist, env
<1>14. CASE \E w \in Workers : Crash(w)
  BY <1>0, <1>14 DEF Crash, Publish, Release, row, hist, env
<1>15. CASE \E m \in Message : Redeliver(m)
  BY <1>0, <1>15 DEF Redeliver, Publish, row, hist, env
<1>16. CASE UNCHANGED vars
  BY <1>16 DEF vars, row, hist, env
<1> QED
  BY <1>1, <1>2, <1>3, <1>4, <1>5, <1>6, <1>7, <1>8, <1>9, <1>10, <1>11, <1>12,
     <1>13, <1>14, <1>15, <1>16, NextCases

(* A worker that has not finished with a task finds its outcome open, or   *)
(* the queue was disturbed; a worker that marks a failure saw every level  *)
(* raise.                                                                  *)
LEMMA OpenOrDisturbed ==
    ASSUME TypeInv, SingleInv, WorkInv, NEW w \in Workers,
           pc[w] \notin {"idle", "ack"}
    PROVE  /\ held[w].task \in created \cap Tasks
           /\ status[held[w].task] \in Terminal => Disturbed
<1> USE NoMsgAssumption DEF TypeInv, TypeOK
<1>1. held[w] \in Message /\ held[w].task \in created /\ held[w].task \in Tasks
  BY DEF WorkInv, Message
<1>2. ASSUME status[held[w].task] \in Terminal, ~Disturbed
      PROVE  FALSE
  <2>1. Working(w, held[w].task)
    BY <1>1 DEF Working
  <2> QED
    BY <1>1, <1>2, <2>1 DEF SingleInv, SingleCopy, NoCopy
<1> QED
  BY <1>1, <1>2

LEMMA AllLevelsRaised ==
    ASSUME TypeInv, GiveUpInv, NEW w \in Workers, pc[w] = "mark_failed"
    PROVE  raised[held[w].task] = Levels
<1> USE NoMsgAssumption DEF TypeInv, TypeOK
<1>1. /\ held[w] \in Message /\ held[w].task \in Tasks
      /\ held[w].retries = MaxRetries /\ held[w].retries \in raised[held[w].task]
      /\ Climbed(held[w])
  BY DEF GiveUpInv, Message
<1>2. ASSUME NEW r \in Levels PROVE r \in raised[held[w].task]
  BY <1>1, <1>2, LevelArithmetic DEF Climbed
<1> QED
  BY <1>1, <1>2

(* What a reader of task_queue sees change when one row is written.        *)
LEMMA WriteOutcome ==
    ASSUME TypeOK, NEW t \in created \cap Tasks, NEW v \in Status,
           status' = [status EXCEPT ![t] = v], created' = created
    PROVE  [u \in Tasks |-> Outcome(u)]'
             = [[u \in Tasks |-> Outcome(u)]
                  EXCEPT ![t] = IF v \in Terminal THEN v ELSE "open"]
<1>1. \A u \in Tasks : Outcome(u)'
          = IF u = t THEN IF v \in Terminal THEN v ELSE "open" ELSE Outcome(u)
  BY DEF TypeOK, Outcome
<1> QED
  BY <1>1

LEMMA SameOutcome ==
    ASSUME status' = status, created' = created
    PROVE  [u \in Tasks |-> Outcome(u)]' = [u \in Tasks |-> Outcome(u)]
BY DEF Outcome

LEMMA CountsReturned ==
    ASSUME TypeOK, NEW t \in Tasks, returned' = [returned EXCEPT ![t] = @ + 1]
    PROVE  {u \in Tasks : returned[u] > 0}'
             = {u \in Tasks : returned[u] > 0} \cup {t}
<1>1. \A u \in Tasks : returned[u] \in Nat
  BY DEF TypeOK
<1>2. returned'[t] > 0 /\ \A u \in Tasks \ {t} : returned'[u] = returned[u]
  BY <1>1 DEF TypeOK
<1> QED
  BY <1>2

(* Restarting a task whose row may be settled.                             *)
LEMMA Reopens ==
    ASSUME TypeOK, NEW t \in created \cap Tasks,
           status[t] \in Terminal => Disturbed,
           NEW v \in {"running", "pending"},
           status' = [status EXCEPT ![t] = v], created' = created,
           UNCHANGED <<hist, crashes, redeliveries, unanswered>>
    PROVE  [Promise!Next]_(Promise!vars)
<1>1. [u \in Tasks |-> Outcome(u)]'
        = [[u \in Tasks |-> Outcome(u)] EXCEPT ![t] = "open"]
  BY WriteOutcome DEF Status, Terminal
<1>2. UNCHANGED <<raised, {u \in Tasks : returned[u] > 0}, Disturbed>>
  BY DEF hist, Disturbed
<1>3. CASE status[t] \in Terminal
  <2>1. Disturbed
    BY <1>3
  <2>2. Outcome(t) # "absent"
    BY <1>3 DEF Outcome, Terminal
  <2>3. Promise!Reopen(t)
    BY <1>1, <1>2, <2>1, <2>2 DEF Promise!Reopen
  <2> QED
    BY <2>3 DEF Promise!Next
<1>4. CASE status[t] \notin Terminal
  <2>1. Outcome(t) = "open"
    BY <1>4 DEF Outcome
  <2>2. [u \in Tasks |-> Outcome(u)]' = [u \in Tasks |-> Outcome(u)]
    BY <1>1, <2>1
  <2> QED
    BY <1>2, <2>2 DEF Promise!vars
<1> QED
  BY <1>3, <1>4

(* A settled outcome is written only while open or disturbed.              *)
LEMMA MayWrite ==
    ASSUME NEW t \in created \cap Tasks, status[t] \in Terminal => Disturbed
    PROVE  Promise!MaySettle(t)
<1>1. Outcome(t) \in {"open"} \cup Terminal /\ Outcome(t) # "absent"
  BY DEF Outcome, Terminal
<1>2. Outcome(t) # "open" => Disturbed
  BY DEF Outcome
<1> QED
  BY <1>1, <1>2 DEF Promise!MaySettle

(* A failed attempt.                                                       *)
LEMMA Fails ==
    ASSUME TypeOK, NEW t \in created \cap Tasks, NEW r \in Levels,
           raised' = [raised EXCEPT ![t] = @ \cup {r}],
           status' = status, created' = created, returned' = returned,
           UNCHANGED <<crashes, redeliveries, unanswered>>
    PROVE  Promise!Next
<1>1. Outcome(t) # "absent"
  BY DEF Outcome, Terminal
<1>2. [u \in Tasks |-> Outcome(u)]' = [u \in Tasks |-> Outcome(u)]
  BY SameOutcome
<1>3. UNCHANGED <<{u \in Tasks : returned[u] > 0}, Disturbed>>
  BY DEF Disturbed
<1>4. Promise!Fail(t, r)
  BY <1>1, <1>2, <1>3 DEF Promise!Fail
<1> QED
  BY <1>4 DEF Promise!Next

(* Every step of the protocol is a step of AtLeastOnce, or none.           *)
LEMMA StepKeepsPromise ==
    ASSUME TypeInv, GiveUpInv, SingleInv, WorkInv, [Next]_vars
    PROVE  [Promise!Next]_(Promise!vars)
<1> USE BoundsAssumption, NoMsgAssumption
<1> USE DEF TypeInv, TypeOK, Goto, Outcome, Promise!vars
<1>0. \A w \in Workers : pc[w] \notin {"idle", "ack"} =>
         /\ held[w].task \in created \cap Tasks
         /\ status[held[w].task] \in Terminal => Disturbed
  BY OpenOrDisturbed
<1>1. CASE \E t \in Tasks : Enqueue(t)
  <2>1. PICK t \in Tasks : Enqueue(t)
    BY <1>1
  <2>2. Promise!Submit(t)
    BY <2>1 DEF Enqueue, row, hist, env, Disturbed, Promise!Submit, WorkInv, Terminal
  <2> QED
    BY <2>2 DEF Promise!Next
<1>2. CASE \E w \in Workers, m \in Message : Receive(w, m)
  BY <1>2 DEF Receive, row, hist, env, Disturbed
<1>3. CASE \E w \in Workers : Check(w)
  BY <1>3 DEF Check, row, hist, env, Disturbed
<1>4. CASE \E w \in Workers : InsertRow(w)
  BY <1>0, <1>4 DEF InsertRow, row, hist, env, Disturbed, Terminal
<1>5. CASE \E w \in Workers : UpdateRow(w)
  <2>1. PICK w \in Workers : UpdateRow(w)
    BY <1>5
  <2> QED
    BY <1>0, <2>1, Reopens DEF UpdateRow, env
<1>6. CASE \E w \in Workers : Execute(w)
  <2>1. PICK w \in Workers : Execute(w)
    BY <1>6
  <2>2. held[w].retries \in Levels
    BY <2>1 DEF Execute, Message
  <2>3. held[w].task \in created \cap Tasks
    BY <1>0, <2>1 DEF Execute
  <2>4. UNCHANGED <<created, status, crashes, redeliveries, unanswered>>
    BY <2>1 DEF Execute, row, env
  <2>5. CASE UNCHANGED returned
    BY <2>1, <2>2, <2>3, <2>4, <2>5, Fails DEF Execute
  <2>6. CASE ~ UNCHANGED returned
    <3>1. PICK t \in created \cap Tasks : t = held[w].task
      BY <2>3
    <3>2. UNCHANGED raised /\ returned' = [returned EXCEPT ![t] = @ + 1]
      BY <2>1, <2>6, <3>1 DEF Execute
    <3>3. {u \in Tasks : returned[u] > 0}' = {u \in Tasks : returned[u] > 0} \cup {t}
      BY <3>2, CountsReturned
    <3>4. [u \in Tasks |-> Outcome(u)]' = [u \in Tasks |-> Outcome(u)]
      BY <2>4, SameOutcome
    <3>5. Outcome(t) # "absent" /\ UNCHANGED Disturbed
      BY <2>4 DEF Terminal, Disturbed
    <3>6. Promise!CarryOut(t)
      BY <3>2, <3>3, <3>4, <3>5 DEF Promise!CarryOut
    <3> QED
      BY <3>6 DEF Promise!Next
  <2> QED
    BY <2>5, <2>6
<1>7. CASE \E w \in Workers : MarkSuccess(w)
  <2>1. PICK w \in Workers : MarkSuccess(w)
    BY <1>7
  <2>2. PICK t \in created \cap Tasks : t = held[w].task
    BY <1>0, <2>1 DEF MarkSuccess
  <2>3. Promise!MaySettle(t)
    BY <1>0, <2>1, <2>2, MayWrite DEF MarkSuccess
  <2>4. [u \in Tasks |-> Outcome(u)]'
          = [[u \in Tasks |-> Outcome(u)] EXCEPT ![t] = "success"]
    BY <2>1, <2>2, WriteOutcome DEF MarkSuccess, Status, Terminal
  <2>5. UNCHANGED <<raised, {u \in Tasks : returned[u] > 0}, Disturbed>>
    BY <2>1 DEF MarkSuccess, hist, env, Disturbed
  <2>6. Promise!Succeed(t)
    BY <2>1, <2>2, <2>3, <2>4, <2>5 DEF MarkSuccess, Promise!Succeed, WorkInv
  <2> QED
    BY <2>6 DEF Promise!Next
<1>8. CASE \E w \in Workers : RecordError(w)
  <2>1. PICK w \in Workers : RecordError(w)
    BY <1>8
  <2> QED
    BY <1>0, <2>1, Reopens DEF RecordError, env
<1>9. CASE \E w \in Workers : Retry(w)
  BY <1>9 DEF Retry, row, hist, env, Disturbed
<1>10. CASE \E w \in Workers : MarkFailed(w)
  <2>1. PICK w \in Workers : MarkFailed(w)
    BY <1>10
  <2>2. raised[held[w].task] = Levels
    BY <2>1, AllLevelsRaised DEF MarkFailed
  <2>3. PICK t \in created \cap Tasks : t = held[w].task
    BY <1>0, <2>1 DEF MarkFailed
  <2>4. Promise!MaySettle(t)
    BY <1>0, <2>1, <2>3, MayWrite DEF MarkFailed
  <2>5. [u \in Tasks |-> Outcome(u)]'
          = [[u \in Tasks |-> Outcome(u)] EXCEPT ![t] = "failed"]
    BY <2>1, <2>3, WriteOutcome DEF MarkFailed, Status, Terminal
  <2>6. UNCHANGED <<raised, {u \in Tasks : returned[u] > 0}, Disturbed>>
    BY <2>1 DEF MarkFailed, hist, env, Disturbed
  <2>7. Promise!GiveUp(t)
    BY <2>1, <2>2, <2>3, <2>4, <2>5, <2>6 DEF MarkFailed, Promise!GiveUp
  <2> QED
    BY <2>7 DEF Promise!Next
<1>11. CASE \E w \in Workers : Ack(w)
  BY <1>11 DEF Ack, row, hist, env, Disturbed
<1>12. CASE \E w \in Workers : Abort(w)
  <2>1. PICK w \in Workers : Abort(w)
    BY <1>12
  <2>2. PICK t \in created \cap Tasks : t = held[w].task
    BY <1>0, <2>1 DEF Abort
  <2>3. UNCHANGED <<created, hist, crashes, redeliveries, unanswered>>
    BY <2>1 DEF Abort
  <2>4. CASE UNCHANGED row
    BY <2>3, <2>4 DEF row, hist, Disturbed
  <2>5. CASE Landed(w)
    BY <1>0, <2>1, <2>2, <2>3, <2>5, Reopens DEF Abort, Landed
  <2> QED
    BY <2>1, <2>4, <2>5 DEF Abort
<1>13. CASE \E w \in Workers : MarkSuccessFails(w)
  <2>1. PICK w \in Workers : MarkSuccessFails(w)
    BY <1>13
  <2>2. PICK r \in Levels : r = held[w].retries
    BY <2>1 DEF MarkSuccessFails, Message
  <2>3. PICK t \in created \cap Tasks : t = held[w].task
    BY <1>0, <2>1 DEF MarkSuccessFails
  <2>4. CASE UNCHANGED <<status, unanswered>>
    BY <2>1, <2>2, <2>3, <2>4, Fails DEF MarkSuccessFails
  <2>5. CASE /\ status' = [status EXCEPT ![t] = "success"]
             /\ unanswered' = unanswered + 1
    <3>1. Promise!MaySettle(t)
      BY <1>0, <2>1, <2>3, MayWrite DEF MarkSuccessFails
    <3>2. [u \in Tasks |-> Outcome(u)]'
            = [[u \in Tasks |-> Outcome(u)] EXCEPT ![t] = "success"]
      BY <2>1, <2>3, <2>5, WriteOutcome DEF MarkSuccessFails, Status, Terminal
    <3>3. Disturbed' = TRUE /\ UNCHANGED {u \in Tasks : returned[u] > 0}
      BY <2>1, <2>5 DEF MarkSuccessFails, Disturbed
    <3>4. /\ t \in {u \in Tasks : returned[u] > 0}
          /\ raised' = [raised EXCEPT ![t] = @ \cup {r}]
      BY <2>1, <2>2, <2>3 DEF MarkSuccessFails, WorkInv
    <3>5. Promise!Misjudge(t, r)
      BY <3>1, <3>2, <3>3, <3>4 DEF Promise!Misjudge
    <3> QED
      BY <3>5 DEF Promise!Next
  <2> QED
    BY <2>1, <2>3, <2>4, <2>5 DEF MarkSuccessFails
<1>14. CASE \E w \in Workers : Crash(w)
  <2>1. Promise!Disturb
    BY <1>14 DEF Crash, row, hist, env, Disturbed, Promise!Disturb
  <2> QED
    BY <2>1 DEF Promise!Next
<1>15. CASE \E m \in Message : Redeliver(m)
  <2>1. Promise!Disturb
    BY <1>15 DEF Redeliver, row, hist, env, Disturbed, Promise!Disturb
  <2> QED
    BY <2>1 DEF Promise!Next
<1>16. CASE UNCHANGED vars
  BY <1>16 DEF vars, row, hist, env, Disturbed
<1> QED
  BY <1>1, <1>2, <1>3, <1>4, <1>5, <1>6, <1>7, <1>8, <1>9, <1>10, <1>11, <1>12,
     <1>13, <1>14, <1>15, <1>16, NextCases

(* The retry protocol implements AtLeastOnce for any tasks, workers and    *)
(* bounds: whatever the workers, copies and failing calls do, a success    *)
(* was carried out, a failure raised on every level, and an outcome is     *)
(* overwritten only after a crash, a redelivery or a lost answer to the    *)
(* commit of a success.                                                    *)
THEOREM QueueKeepsPromise == Spec => KeepsPromise
<1>1. Init => Promise!Init
  BY DEF Init, Promise!Init, Outcome, Disturbed
<1>2. Init => TypeInv /\ GiveUpInv /\ SingleInv /\ WorkInv
  BY TypeInit, GiveUpInit, SingleInit, WorkInit
<1>3. TypeInv /\ GiveUpInv /\ SingleInv /\ WorkInv /\ [Next]_vars
        => (TypeInv /\ GiveUpInv /\ SingleInv /\ WorkInv)'
  BY TypeNext, GiveUpNext, SingleNext, WorkNext
<1>4. TypeInv /\ GiveUpInv /\ SingleInv /\ WorkInv /\ [Next]_vars
        => [Promise!Next]_(Promise!vars)
  BY StepKeepsPromise
<1> QED
  BY <1>1, <1>2, <1>3, <1>4, PTL DEF Spec, KeepsPromise, Promise!Spec

----------------------------------------------------------------------------
(* How many attempts a task can make.  Every copy of its message, waiting  *)
(* or held, may still lead to one attempt at its own retry level and one   *)
(* at each level above; the attempts made and the ones still possible      *)
(* together never exceed MaxRetries + 1 for the first message and for      *)
(* every crash and redelivery.                                             *)

(* The attempts that a worker at a step may still count for the task of    *)
(* its message of retry level r, itself or through the retry it publishes. *)
Left(step, r) ==
    CASE step \in {"check", "insert", "update"} -> MaxRetries + 1 - r
      [] step \in {"exec", "mark_success", "record_error", "retry"} -> MaxRetries - r
      [] OTHER -> 0

(* Those of worker w for t; p and h are the workers' steps and messages.   *)
Own(p, h, w, t) ==
    IF h[w] = NoMsg \/ h[w].task # t THEN 0 ELSE Left(p[w], h[w].retries)

(* Those that a copy of m waiting in the broker stands for.                *)
Cost(m, t) == IF m.task = t THEN MaxRetries + 1 - m.retries ELSE 0

(* They are counted as pairs, so that they can be added up: the possible   *)
(* attempts of the workers, and those of the copies in the broker b, where *)
(* <<m, k>> is the k-th copy of m.                                         *)
HeldAttempts(p, h, t) ==
    {x \in Workers \X (1 .. MaxRetries + 1) : x[2] <= Own(p, h, x[1], t)}

WaitingAttempts(b, t) ==
    {x \in (Message \X Nat) \X (1 .. MaxRetries + 1) :
        /\ x[1][1].task = t
        /\ x[1][2] \in 1 .. b[x[1][1]]
        /\ x[2] <= MaxRetries + 1 - x[1][1].retries}

Bound(c, r) == (MaxRetries + 1) * (1 + c + r)

WithinBound(t) ==
    /\ IsFiniteSet(HeldAttempts(pc, held, t))
    /\ IsFiniteSet(WaitingAttempts(broker, t))
    /\ attempts[t] + Cardinality(HeldAttempts(pc, held, t))
         + Cardinality(WaitingAttempts(broker, t)) <= Bound(crashes, redeliveries)

AttemptsInv ==
    /\ \A t \in Tasks : WithinBound(t)
    /\ \A t \in Tasks \ created : attempts[t] = 0

(* n attempts of one holder.                                               *)
LEMMA BlockSize ==
    ASSUME NEW x, NEW n \in 0 .. MaxRetries + 1
    PROVE  IsFiniteSet({x} \X (1 .. n)) /\ Cardinality({x} \X (1 .. n)) = n
<1>1. IsFiniteSet({x}) /\ Cardinality({x}) = 1
  BY FS_Singleton
<1>2. n \in Int /\ (1 > n => n = 0) /\ 1 \in Int
  BY BoundsAssumption
<1>3. IsFiniteSet(1 .. n) /\ Cardinality(1 .. n) = n
  BY <1>2, FS_Interval
<1>4. 1 * n = n
  BY <1>2
<1>5. /\ IsFiniteSet({x} \X (1 .. n))
      /\ Cardinality({x} \X (1 .. n)) = Cardinality({x}) * Cardinality(1 .. n)
  BY <1>1, <1>3, FS_Product
<1> QED
  BY <1>1, <1>3, <1>4, <1>5

(* Two finite sets that have nothing in common.                            *)
LEMMA DisjointSum ==
    ASSUME NEW S, NEW T, IsFiniteSet(S), IsFiniteSet(T), S \cap T = {}
    PROVE  /\ IsFiniteSet(S \cup T)
           /\ Cardinality(S \cup T) = Cardinality(S) + Cardinality(T)
<1>1. /\ IsFiniteSet(S \cup T)
      /\ Cardinality(S \cup T) = Cardinality(S) + Cardinality(T) - Cardinality(S \cap T)
  BY FS_Union
<1>2. Cardinality(S \cap T) = 0
  BY FS_EmptySet
<1>3. Cardinality(S) \in Nat /\ Cardinality(T) \in Nat
  BY FS_CardinalityType
<1> QED
  BY <1>1, <1>2, <1>3

(* One more copy of m.                                                     *)
LEMMA OneCopyMore ==
    ASSUME NEW b \in [Message -> Nat], NEW m \in Message, NEW t \in Tasks,
           NEW c \in [Message -> Nat], c = [b EXCEPT ![m] = @ + 1],
           \/ IsFiniteSet(WaitingAttempts(b, t))
           \/ IsFiniteSet(WaitingAttempts(c, t))
    PROVE  /\ IsFiniteSet(WaitingAttempts(b, t))
           /\ IsFiniteSet(WaitingAttempts(c, t))
           /\ Cardinality(WaitingAttempts(b, t)) \in Nat
           /\ Cardinality(WaitingAttempts(c, t))
                = Cardinality(WaitingAttempts(b, t)) + Cost(m, t)
           /\ Cost(m, t) \in 0 .. MaxRetries + 1
<1> DEFINE x == <<m, b[m] + 1>>
           n == Cost(m, t)
           More == {x} \X (1 .. n)
<1>1. m.retries \in Levels /\ m.task \in Tasks
  BY DEF Message
<1>2. n \in 0 .. MaxRetries + 1 /\ x \in Message \X Nat
  BY <1>1, BoundsAssumption DEF Levels, Cost
<1>3. IsFiniteSet(More) /\ Cardinality(More) = n
  BY <1>2, BlockSize
<1>4. WaitingAttempts(b, t) \cap More = {}
  <2> SUFFICES ASSUME NEW y \in WaitingAttempts(b, t), y \in More
               PROVE  FALSE
    OBVIOUS
  <2>1. y[1] = x
    OBVIOUS
  <2>2. y[1][1] = m /\ y[1][2] = b[m] + 1
    BY <2>1
  <2>3. y[1][2] \in 1 .. b[y[1][1]]
    BY DEF WaitingAttempts
  <2> QED
    BY <2>2, <2>3
<1>5. WaitingAttempts(c, t) = WaitingAttempts(b, t) \cup More
  <2>1. ASSUME NEW y \in WaitingAttempts(c, t), y \notin WaitingAttempts(b, t)
        PROVE  y \in More
    <3>1. /\ y \in (Message \X Nat) \X (1 .. MaxRetries + 1)
          /\ y[1][1].task = t /\ y[2] <= MaxRetries + 1 - y[1][1].retries
          /\ y[1][2] \in 1 .. c[y[1][1]] /\ y[1][2] \notin 1 .. b[y[1][1]]
      BY <2>1 DEF WaitingAttempts
    <3>2. y[1][1] = m
      BY <3>1
    <3>3. y[1][2] = b[m] + 1
      BY <3>1, <3>2
    <3>4. y[1] = x
      BY <3>1, <3>2, <3>3
    <3>5. y[2] \in 1 .. n
      BY <1>2, <3>1, <3>2 DEF Cost
    <3> QED
      BY <3>1, <3>4, <3>5
  <2>2. WaitingAttempts(b, t) \subseteq WaitingAttempts(c, t)
    BY DEF WaitingAttempts
  <2>3. ASSUME NEW i \in 1 .. n PROVE <<x, i>> \in WaitingAttempts(c, t)
    <3>1. m.task = t /\ i \in 1 .. MaxRetries + 1 /\ i <= MaxRetries + 1 - m.retries
      BY <1>1, <1>2, BoundsAssumption DEF Levels, Cost
    <3>2. x[2] \in 1 .. c[x[1]] /\ x[1] = m
      OBVIOUS
    <3> QED
      BY <1>2, <3>1, <3>2 DEF WaitingAttempts
  <2>4. \A y \in More : \E i \in 1 .. n : y = <<x, i>>
    OBVIOUS
  <2> HIDE DEF x, n, More
  <2> QED
    BY <2>1, <2>2, <2>3, <2>4
<1>6. IsFiniteSet(WaitingAttempts(b, t))
  BY <1>5, FS_Subset
<1>7. Cardinality(WaitingAttempts(b, t)) \in Nat
  BY <1>6, FS_CardinalityType
<1> HIDE DEF x, More
<1>8. /\ IsFiniteSet(WaitingAttempts(c, t))
      /\ Cardinality(WaitingAttempts(c, t)) = Cardinality(WaitingAttempts(b, t)) + n
  BY <1>3, <1>4, <1>5, <1>6, DisjointSum
<1> QED
  BY <1>2, <1>6, <1>7, <1>8

(* The possible attempts of the workers, when only w moves.                *)
LEMMA OneWorkerMoves ==
    ASSUME NEW p \in [Workers -> Steps], NEW h \in [Workers -> Message \cup {NoMsg}],
           NEW q \in [Workers -> Steps], NEW g \in [Workers -> Message \cup {NoMsg}],
           NEW w \in Workers, NEW t \in Tasks,
           \A v \in Workers \ {w} : q[v] = p[v] /\ g[v] = h[v],
           p[w] = "retry" => h[w].retries < MaxRetries,
           IsFiniteSet(HeldAttempts(p, h, t))
    PROVE  /\ IsFiniteSet(HeldAttempts(q, g, t))
           /\ Cardinality(HeldAttempts(p, h, t)) \in Nat
           /\ Cardinality(HeldAttempts(q, g, t)) \in Nat
           /\ Own(p, h, w, t) \in Nat /\ Own(q, g, w, t) \in Nat
           /\ Cardinality(HeldAttempts(q, g, t)) + Own(p, h, w, t)
                = Cardinality(HeldAttempts(p, h, t)) + Own(q, g, w, t)
<1> DEFINE Rest == {x \in HeldAttempts(p, h, t) : x[1] # w}
           Mine(n) == {w} \X (1 .. n)
<1>1. /\ Own(p, h, w, t) \in 0 .. MaxRetries + 1
      /\ Own(q, g, w, t) \in 0 .. MaxRetries + 1
  BY BoundsAssumption DEF Own, Left, Message, Levels
<1>2. IsFiniteSet(Rest)
  BY FS_Subset
<1>3. ASSUME NEW n \in 0 .. MaxRetries + 1
      PROVE  /\ IsFiniteSet(Rest \cup Mine(n))
             /\ Cardinality(Rest \cup Mine(n)) = Cardinality(Rest) + n
  <2>1. IsFiniteSet(Mine(n)) /\ Cardinality(Mine(n)) = n
    BY BlockSize
  <2>2. Rest \cap Mine(n) = {}
    OBVIOUS
  <2> HIDE DEF Rest, Mine
  <2> QED
    BY <1>2, <2>1, <2>2, DisjointSum
<1>4. HeldAttempts(p, h, t) = Rest \cup Mine(Own(p, h, w, t))
  BY <1>1, BoundsAssumption DEF HeldAttempts
<1>5. HeldAttempts(q, g, t) = Rest \cup Mine(Own(q, g, w, t))
  <2>1. \A v \in Workers \ {w} : Own(q, g, v, t) = Own(p, h, v, t)
    BY DEF Own
  <2>2. Rest = {x \in HeldAttempts(q, g, t) : x[1] # w}
    BY <2>1 DEF HeldAttempts
  <2>3. {x \in HeldAttempts(q, g, t) : x[1] = w} = Mine(Own(q, g, w, t))
    BY <1>1, BoundsAssumption DEF HeldAttempts
  <2> HIDE DEF Rest, Mine
  <2> QED
    BY <2>2, <2>3
<1>6. Cardinality(Rest) \in Nat
  BY <1>2, FS_CardinalityType
<1>7. 0 .. MaxRetries + 1 \subseteq Nat
  BY BoundsAssumption
<1> HIDE DEF Rest, Mine
<1>8. /\ IsFiniteSet(HeldAttempts(q, g, t))
      /\ Cardinality(HeldAttempts(p, h, t)) = Cardinality(Rest) + Own(p, h, w, t)
      /\ Cardinality(HeldAttempts(q, g, t)) = Cardinality(Rest) + Own(q, g, w, t)
  BY <1>1, <1>3, <1>4, <1>5
<1>9. Own(p, h, w, t) \in Nat /\ Own(q, g, w, t) \in Nat
  BY <1>1, <1>7
<1> QED
  BY <1>6, <1>8, <1>9

LEMMA BoundArithmetic ==
    ASSUME NEW c \in Nat, NEW r \in Nat
    PROVE  /\ Bound(c, r) \in Nat
           /\ Bound(c + 1, r) = Bound(c, r) + (MaxRetries + 1)
           /\ Bound(c, r + 1) = Bound(c, r) + (MaxRetries + 1)
           /\ Bound(c, r) >= MaxRetries + 1
<1>1. \A a, n \in Nat : a * n \in Nat /\ a * (n + 1) = a * n + a
  OBVIOUS
<1>2. /\ MaxRetries + 1 \in Nat /\ c + r \in Nat /\ 1 + c + r \in Nat
      /\ 1 + c + r = (c + r) + 1
      /\ 1 + (c + 1) + r = (1 + c + r) + 1 /\ 1 + c + (r + 1) = (1 + c + r) + 1
  BY BoundsAssumption
<1>3. Bound(c, r) = (MaxRetries + 1) * (c + r) + (MaxRetries + 1)
  BY <1>1, <1>2 DEF Bound
<1> QED
  BY <1>1, <1>2, <1>3 DEF Bound

(* A step of worker w keeps the bound if what it counts or publishes is    *)
(* paid for by what it could still have counted, or by a crash.            *)
LEMMA WorkerSpends ==
    ASSUME TypeInv, TypeInv', NEW t \in Tasks, WithinBound(t), NEW w \in Workers,
           \A v \in Workers \ {w} : pc'[v] = pc[v] /\ held'[v] = held[v],
           IsFiniteSet(WaitingAttempts(broker', t)),
           attempts'[t] + Own(pc', held', w, t)
               + Cardinality(WaitingAttempts(broker', t)) + Bound(crashes, redeliveries)
             <= attempts[t] + Own(pc, held, w, t)
               + Cardinality(WaitingAttempts(broker, t)) + Bound(crashes', redeliveries')
    PROVE  WithinBound(t)'
<1>1. /\ IsFiniteSet(HeldAttempts(pc', held', t))
      /\ Cardinality(HeldAttempts(pc, held, t)) \in Nat
      /\ Cardinality(HeldAttempts(pc', held', t)) \in Nat
      /\ Own(pc, held, w, t) \in Nat /\ Own(pc', held', w, t) \in Nat
      /\ Cardinality(HeldAttempts(pc', held', t)) + Own(pc, held, w, t)
           = Cardinality(HeldAttempts(pc, held, t)) + Own(pc', held', w, t)
  <2>1. /\ pc \in [Workers -> Steps] /\ pc' \in [Workers -> Steps]
        /\ held \in [Workers -> Message \cup {NoMsg}]
        /\ held' \in [Workers -> Message \cup {NoMsg}]
        /\ pc[w] = "retry" => held[w].retries < MaxRetries
        /\ IsFiniteSet(HeldAttempts(pc, held, t))
    BY DEF TypeInv, TypeOK, RetryInBudget, WithinBound
  <2> QED
    BY <2>1, OneWorkerMoves
<1>2. /\ Cardinality(WaitingAttempts(broker, t)) \in Nat
      /\ Cardinality(WaitingAttempts(broker', t)) \in Nat
  BY FS_CardinalityType DEF WithinBound
<1>3. /\ attempts[t] \in Nat /\ attempts'[t] \in Nat
      /\ Bound(crashes, redeliveries) \in Nat /\ Bound(crashes', redeliveries') \in Nat
  BY BoundArithmetic DEF TypeInv, TypeOK
<1> QED
  BY <1>1, <1>2, <1>3 DEF WithinBound

(* A step of a worker that keeps its message and leaves the broker and the *)
(* counters of disturbances alone.                                         *)
LEMMA WorkerCounts ==
    ASSUME TypeInv, TypeInv', NEW t \in Tasks, WithinBound(t), NEW w \in Workers,
           NEW step, pc' = [pc EXCEPT ![w] = step], pc[w] # "idle",
           UNCHANGED <<held, broker, crashes, redeliveries>>,
           NEW n \in {0, 1},
           attempts'[t] <= attempts[t] + IF held[w].task = t THEN n ELSE 0,
           \A r \in Levels : r < MaxRetries \/ pc[w] # "retry"
              => Left(step, r) + n <= Left(pc[w], r)
    PROVE  WithinBound(t)'
<1>1. /\ pc \in [Workers -> Steps] /\ pc' \in [Workers -> Steps]
      /\ held \in [Workers -> Message \cup {NoMsg}]
      /\ held' \in [Workers -> Message \cup {NoMsg}]
      /\ pc[w] = "retry" => held[w].retries < MaxRetries
      /\ IsFiniteSet(HeldAttempts(pc, held, t))
      /\ held[w] \in Message /\ held[w] # NoMsg /\ held[w].retries \in Levels
      /\ pc'[w] = step /\ \A v \in Workers \ {w} : pc'[v] = pc[v]
  BY NoMsgAssumption DEF TypeInv, TypeOK, RetryInBudget, WithinBound, Message
<1>2. Own(pc, held, w, t) \in Nat /\ Own(pc', held', w, t) \in Nat
  BY <1>1, OneWorkerMoves
<1>3. Own(pc', held', w, t) + (IF held[w].task = t THEN n ELSE 0) <= Own(pc, held, w, t)
  BY <1>1 DEF Own
<1>4. /\ IsFiniteSet(WaitingAttempts(broker', t))
      /\ Cardinality(WaitingAttempts(broker, t)) \in Nat
  BY FS_CardinalityType DEF WithinBound
<1>5. /\ attempts[t] \in Nat /\ attempts'[t] \in Nat
      /\ Bound(crashes, redeliveries) \in Nat
  BY BoundArithmetic DEF TypeInv, TypeOK
<1>6. attempts'[t] + Own(pc', held', w, t) <= attempts[t] + Own(pc, held, w, t)
  BY <1>2, <1>3, <1>5
<1>7. attempts'[t] + Own(pc', held', w, t)
          + Cardinality(WaitingAttempts(broker', t)) + Bound(crashes, redeliveries)
        <= attempts[t] + Own(pc, held, w, t)
          + Cardinality(WaitingAttempts(broker, t)) + Bound(crashes', redeliveries')
  BY <1>2, <1>4, <1>5, <1>6
<1> QED
  BY <1>1, <1>4, <1>7, WorkerSpends

(* A message that is published, and one that is taken.                     *)
LEMMA Published ==
    ASSUME TypeInv, NEW t \in Tasks, WithinBound(t), NEW m \in Message, Publish(m)
    PROVE  /\ IsFiniteSet(WaitingAttempts(broker', t))
           /\ Cardinality(WaitingAttempts(broker, t)) \in Nat
           /\ Cardinality(WaitingAttempts(broker', t))
                = Cardinality(WaitingAttempts(broker, t)) + Cost(m, t)
           /\ Cost(m, t) \in 0 .. MaxRetries + 1
<1>1. broker \in [Message -> Nat]
  BY DEF TypeInv, TypeOK
<1>2. broker' = [broker EXCEPT ![m] = @ + 1]
  BY DEF Publish
<1>3. broker' \in [Message -> Nat]
  BY <1>1, <1>2
<1>4. IsFiniteSet(WaitingAttempts(broker, t))
  BY DEF WithinBound
<1>5. ASSUME NEW c \in [Message -> Nat], c = [broker EXCEPT ![m] = @ + 1]
      PROVE  /\ IsFiniteSet(WaitingAttempts(c, t))
             /\ Cardinality(WaitingAttempts(broker, t)) \in Nat
             /\ Cardinality(WaitingAttempts(c, t))
                  = Cardinality(WaitingAttempts(broker, t)) + Cost(m, t)
             /\ Cost(m, t) \in 0 .. MaxRetries + 1
  BY <1>1, <1>4, <1>5, OneCopyMore
<1> QED
  BY <1>2, <1>3, <1>5

LEMMA Taken ==
    ASSUME TypeInv, NEW t \in Tasks, WithinBound(t), NEW m \in Message, broker[m] > 0,
           broker' = [broker EXCEPT ![m] = @ - 1]
    PROVE  /\ IsFiniteSet(WaitingAttempts(broker', t))
           /\ Cardinality(WaitingAttempts(broker', t)) \in Nat
           /\ Cardinality(WaitingAttempts(broker, t))
                = Cardinality(WaitingAttempts(broker', t)) + Cost(m, t)
           /\ Cost(m, t) \in 0 .. MaxRetries + 1
<1>1. broker \in [Message -> Nat] /\ broker[m] \in Nat
      /\ broker[m] - 1 \in Nat /\ (broker[m] - 1) + 1 = broker[m]
  BY DEF TypeInv, TypeOK
<1>2. broker' \in [Message -> Nat]
  BY <1>1
<1>3. broker = [broker' EXCEPT ![m] = @ + 1]
  BY <1>1, <1>2
<1>4. IsFiniteSet(WaitingAttempts(broker, t))
  BY DEF WithinBound
<1> QED
  BY <1>1, <1>2, <1>3, <1>4, OneCopyMore

(* The steps that move w to another step, count at most one attempt, and   *)
(* touch nothing else that matters here.                                   *)
Counts(w, n, step) ==
    /\ pc[w] # "idle"
    /\ pc' = [pc EXCEPT ![w] = step]
    /\ UNCHANGED <<held, broker, crashes, redeliveries>>
    /\ \A t \in Tasks : attempts'[t] <= attempts[t] + IF held[w].task = t THEN n ELSE 0
    /\ \A r \in Levels :
         r < MaxRetries \/ pc[w] # "retry" => Left(step, r) + n <= Left(pc[w], r)

LEMMA LeftSteps ==
    ASSUME NEW r \in Levels
    PROVE  /\ \A s \in {"check", "insert", "update"} : Left(s, r) = MaxRetries + 1 - r
           /\ \A s \in {"exec", "mark_success", "record_error", "retry"} :
                Left(s, r) = MaxRetries - r
           /\ \A s \in {"idle", "mark_failed", "ack"} : Left(s, r) = 0
           /\ 0 <= MaxRetries - r /\ MaxRetries \in Nat /\ r \in Nat
BY BoundsAssumption DEF Left, Levels

LEMMA AttemptsInit == Init => AttemptsInv
<1> SUFFICES ASSUME Init, NEW t \in Tasks
             PROVE  WithinBound(t)
  BY DEF Init, AttemptsInv
<1>1. HeldAttempts(pc, held, t) = {}
  BY BoundsAssumption DEF Init, HeldAttempts, Own
<1>2. WaitingAttempts(broker, t) = {}
  BY DEF Init, WaitingAttempts
<1>3. attempts[t] = 0 /\ Bound(crashes, redeliveries) >= MaxRetries + 1
      /\ Bound(crashes, redeliveries) \in Nat
  BY BoundArithmetic DEF Init
<1>4. Cardinality({}) = 0 /\ IsFiniteSet({})
  BY FS_EmptySet
<1>5. attempts[t] + 0 + 0 <= Bound(crashes, redeliveries)
  BY <1>3, BoundsAssumption
<1> QED
  BY <1>1, <1>2, <1>4, <1>5 DEF WithinBound

LEMMA WorkerStepCounts ==
    ASSUME TypeInv, NEW w \in Workers,
           \/ Check(w) \/ InsertRow(w) \/ UpdateRow(w) \/ Execute(w) \/ MarkSuccess(w)
           \/ RecordError(w) \/ MarkFailed(w) \/ Abort(w) \/ MarkSuccessFails(w)
    PROVE  \E n \in {0, 1}, step \in Steps : Counts(w, n, step)
<1> DEFINE Same == UNCHANGED <<held, broker, crashes, redeliveries>>
<1>0. TypeOK /\ \A t \in Tasks : attempts[t] \in Nat
  BY DEF TypeInv, TypeOK
<1>1. ASSUME UNCHANGED attempts
      PROVE  \A t \in Tasks : attempts'[t] <= attempts[t] + IF held[w].task = t THEN 0 ELSE 0
  BY <1>0, <1>1
<1>2. CASE Check(w)
  <2>1. PICK step \in {"insert", "update", "ack"} : pc' = [pc EXCEPT ![w] = step]
    BY <1>2 DEF Check, AfterCheck, Goto
  <2>2. Same /\ UNCHANGED attempts /\ pc[w] = "check"
    BY <1>2 DEF Check, row, env
  <2>3. Counts(w, 0, step)
    BY <1>1, <2>1, <2>2, LeftSteps DEF Counts
  <2> QED
    BY <2>1, <2>3 DEF Steps
<1>3. CASE InsertRow(w)
  <2>1. Same /\ pc[w] = "insert"
    BY <1>3 DEF InsertRow, env
  <2>2. CASE pc' = [pc EXCEPT ![w] = "exec"] /\ attempts' = [attempts EXCEPT ![held[w].task] = 1]
    <3>1. \A t \in Tasks : attempts'[t] <= attempts[t] + IF held[w].task = t THEN 1 ELSE 0
      BY <1>0, <2>2 DEF TypeOK
    <3>2. Counts(w, 1, "exec")
      BY <2>1, <2>2, <3>1, LeftSteps DEF Counts
    <3> QED
      BY <3>2 DEF Steps
  <2>3. CASE pc' = [pc EXCEPT ![w] = "ack"] /\ UNCHANGED attempts
    <3>1. Counts(w, 0, "ack")
      BY <1>1, <2>1, <2>3, LeftSteps DEF Counts
    <3> QED
      BY <3>1 DEF Steps
  <2> QED
    BY <1>3, <2>2, <2>3 DEF InsertRow, Goto, row
<1>4. CASE UpdateRow(w)
  <2>1. /\ Same /\ pc[w] = "update" /\ pc' = [pc EXCEPT ![w] = "exec"]
        /\ attempts' = [attempts EXCEPT ![held[w].task] = @ + 1]
    BY <1>4 DEF UpdateRow, env, Goto
  <2>2. \A t \in Tasks : attempts'[t] <= attempts[t] + IF held[w].task = t THEN 1 ELSE 0
    BY <1>0, <2>1 DEF TypeOK
  <2>3. Counts(w, 1, "exec")
    BY <2>1, <2>2, LeftSteps DEF Counts
  <2> QED
    BY <2>3 DEF Steps
<1>5. CASE Execute(w) \/ MarkSuccess(w) \/ MarkSuccessFails(w)
  <2>1. PICK step \in {"mark_success", "record_error", "ack"} : pc' = [pc EXCEPT ![w] = step]
    BY <1>5 DEF Execute, MarkSuccess, MarkSuccessFails, Goto
  <2>2. Same /\ UNCHANGED attempts /\ pc[w] \in {"exec", "mark_success"}
    BY <1>5 DEF Execute, MarkSuccess, MarkSuccessFails, row, env
  <2>3. Counts(w, 0, step)
    BY <1>1, <2>1, <2>2, LeftSteps DEF Counts
  <2> QED
    BY <2>1, <2>3 DEF Steps
<1>6. CASE Abort(w) /\ ~ UNCHANGED attempts
  <2>1. /\ Same /\ pc[w] \in {"insert", "update"} /\ pc' = [pc EXCEPT ![w] = "ack"]
        /\ \A t \in Tasks : attempts'[t] <= attempts[t] + IF held[w].task = t THEN 1 ELSE 0
    BY <1>0, <1>6 DEF Abort, Landed, row, Goto, TypeOK
  <2>2. Counts(w, 1, "ack")
    BY <2>1, LeftSteps DEF Counts
  <2> QED
    BY <2>2 DEF Steps
<1>7. CASE RecordError(w) \/ MarkFailed(w) \/ (Abort(w) /\ UNCHANGED attempts)
  <2>1. PICK step \in {"retry", "mark_failed", "ack"} : pc' = [pc EXCEPT ![w] = step]
    BY <1>7 DEF RecordError, AfterError, MarkFailed, Abort, Goto
  <2>2. /\ Same /\ UNCHANGED attempts
        /\ pc[w] \in {"check", "insert", "update", "record_error", "retry", "mark_failed"}
    BY <1>7 DEF RecordError, MarkFailed, Abort, row, env
  <2>3. step = "retry" => pc[w] = "record_error"
    BY <1>0, <1>7, <2>1 DEF RecordError, AfterError, MarkFailed, Abort, Goto, TypeOK
  <2>4. \A r \in Levels :
           r < MaxRetries \/ pc[w] # "retry" => Left(step, r) + 0 <= Left(pc[w], r)
    BY <2>1, <2>2, <2>3, LeftSteps
  <2>5. Counts(w, 0, step)
    BY <1>1, <2>1, <2>2, <2>4 DEF Counts
  <2> QED
    BY <2>1, <2>5 DEF Steps
<1> QED
  BY <1>2, <1>3, <1>4, <1>5, <1>6, <1>7

LEMMA AttemptsNext ==
    ASSUME TypeInv, TypeInv', WorkInv, AttemptsInv, [Next]_vars, NEW tsk \in Tasks
    PROVE  WithinBound(tsk)'
<1> USE BoundsAssumption, NoMsgAssumption
<1> DEFINE Waits == Cardinality(WaitingAttempts(broker, tsk))
<1>0. TypeOK /\ TypeOK' /\ WithinBound(tsk) /\ attempts[tsk] \in Nat
  BY DEF TypeInv, TypeOK, AttemptsInv
<1>a. /\ IsFiniteSet(HeldAttempts(pc, held, tsk))
      /\ Cardinality(HeldAttempts(pc, held, tsk)) \in Nat
      /\ Waits \in Nat
      /\ attempts[tsk] + Cardinality(HeldAttempts(pc, held, tsk)) + Waits
           <= Bound(crashes, redeliveries)
  BY <1>0, FS_CardinalityType DEF WithinBound
<1>b. /\ Bound(crashes, redeliveries) \in Nat
      /\ Bound(crashes + 1, redeliveries) = Bound(crashes, redeliveries) + (MaxRetries + 1)
      /\ Bound(crashes, redeliveries + 1) = Bound(crashes, redeliveries) + (MaxRetries + 1)
      /\ Bound(crashes, redeliveries) >= MaxRetries + 1
  BY <1>0, BoundArithmetic DEF TypeOK
<1>1. CASE \E t \in Tasks : Enqueue(t)
  <2>1. PICK t \in Tasks : Enqueue(t)
    BY <1>1
  <2> DEFINE m == [task |-> t, retries |-> 0]
  <2>2. m \in Message /\ m.task = t
    BY DEF Message, Levels
  <2>3. /\ t \notin created /\ Publish(m)
        /\ UNCHANGED <<attempts, pc, held, crashes, redeliveries>>
    BY <2>1 DEF Enqueue, row, env
  <2> HIDE DEF m
  <2>4. /\ IsFiniteSet(WaitingAttempts(broker', tsk))
        /\ Cardinality(WaitingAttempts(broker', tsk)) = Waits + Cost(m, tsk)
        /\ Cost(m, tsk) \in 0 .. MaxRetries + 1
    BY <1>0, <2>2, <2>3, Published
  <2>5. CASE t # tsk
    <3>1. Cost(m, tsk) = 0
      BY <2>2, <2>5 DEF Cost
    <3>2. Cardinality(WaitingAttempts(broker', tsk)) = Waits
      BY <1>a, <2>4, <3>1
    <3> QED
      BY <1>a, <2>3, <2>4, <3>2 DEF WithinBound
  <2>6. CASE t = tsk
    <3>1. HeldAttempts(pc, held, tsk) = {}
      BY <1>0, <2>3, <2>6 DEF HeldAttempts, Own, WorkInv
    <3>2. \A k \in Message : k.task = tsk => broker[k] = 0
      BY <1>0, <2>3, <2>6 DEF WorkInv, TypeOK
    <3>3. WaitingAttempts(broker, tsk) = {}
      BY <3>2 DEF WaitingAttempts
    <3>4. attempts[tsk] = 0 /\ Waits = 0 /\ Cardinality(HeldAttempts(pc, held, tsk)) = 0
      BY <2>3, <2>6, <3>1, <3>3, FS_EmptySet DEF AttemptsInv
    <3>5. 0 + 0 + Cardinality(WaitingAttempts(broker', tsk)) <= Bound(crashes, redeliveries)
      BY <1>b, <2>4, <3>4
    <3> QED
      BY <1>a, <2>3, <2>4, <3>4, <3>5 DEF WithinBound
  <2> QED
    BY <2>5, <2>6
<1>2. CASE \E w \in Workers, m \in Message : Receive(w, m)
  <2>1. PICK w \in Workers, m \in Message : Receive(w, m)
    BY <1>2
  <2>2. /\ broker[m] > 0 /\ broker' = [broker EXCEPT ![m] = @ - 1]
        /\ UNCHANGED <<attempts, crashes, redeliveries>>
        /\ \A v \in Workers \ {w} : pc'[v] = pc[v] /\ held'[v] = held[v]
        /\ pc'[w] = "check" /\ held'[w] = m /\ held[w] = NoMsg
    BY <1>0, <2>1 DEF Receive, Goto, row, env, TypeOK
  <2>3. Own(pc, held, w, tsk) = 0 /\ Own(pc', held', w, tsk) = Cost(m, tsk)
    BY <2>2 DEF Own, Left, Cost
  <2>4. /\ IsFiniteSet(WaitingAttempts(broker', tsk))
        /\ Cardinality(WaitingAttempts(broker', tsk)) \in Nat
        /\ Waits = Cardinality(WaitingAttempts(broker', tsk)) + Cost(m, tsk)
        /\ Cost(m, tsk) \in 0 .. MaxRetries + 1
    BY <1>0, <2>2, Taken
  <2>5. attempts'[tsk] + Own(pc', held', w, tsk)
            + Cardinality(WaitingAttempts(broker', tsk)) + Bound(crashes, redeliveries)
          <= attempts[tsk] + Own(pc, held, w, tsk) + Waits + Bound(crashes', redeliveries')
    BY <1>0, <1>a, <1>b, <2>2, <2>3, <2>4
  <2> QED
    BY <1>0, <2>2, <2>4, <2>5, WorkerSpends
<1>3. ASSUME NEW w \in Workers,
             \/ Check(w) \/ InsertRow(w) \/ UpdateRow(w) \/ Execute(w)
             \/ MarkSuccess(w) \/ RecordError(w) \/ MarkFailed(w) \/ Abort(w)
             \/ MarkSuccessFails(w)
      PROVE  WithinBound(tsk)'
  <2>1. PICK n \in {0, 1}, step \in Steps : Counts(w, n, step)
    BY <1>3, WorkerStepCounts
  <2> QED
    BY <1>0, <2>1, WorkerCounts DEF Counts
<1>4. CASE \E w \in Workers : Retry(w)
  <2>1. PICK w \in Workers : Retry(w)
    BY <1>4
  <2> DEFINE m == RetryOf(held[w])
  <2>2. /\ held[w] \in Message /\ m \in Message
        /\ m.task = held[w].task /\ m.retries = held[w].retries + 1
        /\ held[w].retries \in Nat
    BY <1>0, <2>1, HelperTypes
       DEF Retry, TypeInv, RetryInBudget, TypeOK, RetryOf, Message, Levels
  <2>3. /\ Publish(m)
        /\ UNCHANGED <<attempts, held, crashes, redeliveries>>
        /\ \A v \in Workers \ {w} : pc'[v] = pc[v]
        /\ pc[w] = "retry" /\ pc'[w] = "ack"
    BY <1>0, <2>1 DEF Retry, Goto, row, env, TypeOK
  <2> HIDE DEF m
  <2>4. Own(pc', held', w, tsk) = 0 /\ Own(pc, held, w, tsk) = Cost(m, tsk)
    BY <2>2, <2>3 DEF Own, Left, Cost
  <2>5. /\ IsFiniteSet(WaitingAttempts(broker', tsk))
        /\ Cardinality(WaitingAttempts(broker', tsk)) = Waits + Cost(m, tsk)
        /\ Cost(m, tsk) \in 0 .. MaxRetries + 1
    BY <1>0, <2>2, <2>3, Published
  <2>6. attempts'[tsk] + Own(pc', held', w, tsk)
            + Cardinality(WaitingAttempts(broker', tsk)) + Bound(crashes, redeliveries)
          <= attempts[tsk] + Own(pc, held, w, tsk) + Waits + Bound(crashes', redeliveries')
    BY <1>0, <1>a, <1>b, <2>3, <2>4, <2>5
  <2> QED
    BY <1>0, <2>3, <2>5, <2>6, WorkerSpends
<1>5. CASE \E w \in Workers : Ack(w)
  <2>1. PICK w \in Workers : Ack(w)
    BY <1>5
  <2>2. /\ UNCHANGED <<attempts, broker, crashes, redeliveries>>
        /\ \A v \in Workers \ {w} : pc'[v] = pc[v] /\ held'[v] = held[v]
        /\ pc[w] = "ack" /\ held'[w] = NoMsg
    BY <1>0, <2>1 DEF Ack, Goto, Release, row, env, TypeOK
  <2>3. Own(pc, held, w, tsk) = 0 /\ Own(pc', held', w, tsk) = 0
    BY <2>2 DEF Own, Left
  <2>4. IsFiniteSet(WaitingAttempts(broker', tsk))
    BY <1>0, <2>2 DEF WithinBound
  <2>5. attempts'[tsk] + Own(pc', held', w, tsk)
            + Cardinality(WaitingAttempts(broker', tsk)) + Bound(crashes, redeliveries)
          <= attempts[tsk] + Own(pc, held, w, tsk) + Waits + Bound(crashes', redeliveries')
    BY <1>0, <1>a, <1>b, <2>2, <2>3
  <2> QED
    BY <1>0, <2>2, <2>4, <2>5, WorkerSpends
<1>6. CASE \E w \in Workers : Crash(w)
  <2>1. PICK w \in Workers : Crash(w)
    BY <1>6
  <2>2. PICK m \in Message : m = held[w]
    BY <1>0, <2>1 DEF Crash, TypeOK
  <2>3. /\ Publish(m)
        /\ UNCHANGED <<attempts, redeliveries>> /\ crashes' = crashes + 1
        /\ \A v \in Workers \ {w} : pc'[v] = pc[v] /\ held'[v] = held[v]
        /\ held'[w] = NoMsg
    BY <1>0, <2>1, <2>2 DEF Crash, Release, Goto, row, TypeOK
  <2>4. m.retries \in 0 .. MaxRetries /\ (pc[w] = "retry" => m.retries < MaxRetries)
    BY <2>2 DEF Message, Levels, TypeInv, RetryInBudget
  <2>5. Own(pc', held', w, tsk) = 0 /\ Own(pc, held, w, tsk) \in Nat
    BY <2>2, <2>3, <2>4 DEF Own, Left
  <2>6. /\ IsFiniteSet(WaitingAttempts(broker', tsk))
        /\ Cardinality(WaitingAttempts(broker', tsk)) = Waits + Cost(m, tsk)
        /\ Cost(m, tsk) \in 0 .. MaxRetries + 1
    BY <1>0, <2>3, Published
  <2>7. attempts'[tsk] + Own(pc', held', w, tsk)
            + Cardinality(WaitingAttempts(broker', tsk)) + Bound(crashes, redeliveries)
          <= attempts[tsk] + Own(pc, held, w, tsk) + Waits + Bound(crashes', redeliveries')
    BY <1>0, <1>a, <1>b, <2>3, <2>5, <2>6
  <2> QED
    BY <1>0, <2>3, <2>6, <2>7, WorkerSpends
<1>7. CASE \E m \in Message : Redeliver(m)
  <2>1. PICK m \in Message : Redeliver(m)
    BY <1>7
  <2>2. /\ Publish(m)
        /\ UNCHANGED <<attempts, pc, held, crashes>> /\ redeliveries' = redeliveries + 1
    BY <2>1 DEF Redeliver, row
  <2>3. /\ IsFiniteSet(WaitingAttempts(broker', tsk))
        /\ Cardinality(WaitingAttempts(broker', tsk)) = Waits + Cost(m, tsk)
        /\ Cost(m, tsk) \in 0 .. MaxRetries + 1
    BY <1>0, <2>2, Published
  <2>4. attempts[tsk] + Cardinality(HeldAttempts(pc, held, tsk))
            + Cardinality(WaitingAttempts(broker', tsk)) <= Bound(crashes, redeliveries + 1)
    BY <1>0, <1>a, <1>b, <2>3
  <2> QED
    BY <1>a, <2>2, <2>3, <2>4 DEF WithinBound
<1>8. CASE UNCHANGED vars
  BY <1>0, <1>8 DEF vars, row, env, WithinBound
<1> QED
  BY <1>1, <1>2, <1>3, <1>4, <1>5, <1>6, <1>7, <1>8, NextCases

(* A task that was not published has no attempts.                          *)
LEMMA UnpublishedNext ==
    ASSUME TypeInv, WorkInv, AttemptsInv, [Next]_vars, NEW t \in Tasks \ created'
    PROVE  attempts'[t] = 0
<1>1. t \in Tasks \ created /\ attempts[t] = 0
  BY NextCases
     DEF AttemptsInv, Enqueue, Receive, Check, InsertRow, UpdateRow, Execute,
         MarkSuccess, RecordError, Retry, MarkFailed, Ack, Abort, MarkSuccessFails,
         Crash, Redeliver, vars
<1>2. \A w \in Workers : held[w] # NoMsg => held[w].task # t
  BY <1>1 DEF WorkInv
<1> QED
  BY <1>1, <1>2, NextCases
     DEF TypeInv, TypeOK, Enqueue, Receive, Check, InsertRow, UpdateRow, Execute,
         MarkSuccess, RecordError, Retry, MarkFailed, Ack, Abort, Landed,
         MarkSuccessFails, Crash, Redeliver, vars, row

(* A task makes at most MaxRetries + 1 attempts for its first message and  *)
(* for every crash and redelivery: the retries that _send_notification     *)
(* publishes are paid for by the message it retries, whatever copies of    *)
(* one task overlap.                                                       *)
THEOREM AttemptsBounded == Spec => []AttemptsBound
<1>1. Init => TypeInv /\ WorkInv /\ AttemptsInv
  BY TypeInit, WorkInit, AttemptsInit
<1>2. TypeInv /\ WorkInv /\ AttemptsInv /\ [Next]_vars
        => (TypeInv /\ WorkInv /\ AttemptsInv)'
  <2> SUFFICES ASSUME TypeInv, WorkInv, AttemptsInv, [Next]_vars
               PROVE  (TypeInv /\ WorkInv /\ AttemptsInv)'
    OBVIOUS
  <2>1. TypeInv' /\ WorkInv'
    BY TypeNext, WorkNext
  <2>2. \A t \in Tasks : WithinBound(t)'
    BY <2>1, AttemptsNext
  <2> QED
    BY <2>1, <2>2, UnpublishedNext DEF AttemptsInv
<1>3. TypeInv /\ AttemptsInv => AttemptsBound
  <2> SUFFICES ASSUME TypeInv, AttemptsInv, NEW t \in Tasks
               PROVE  attempts[t] <= (MaxRetries + 1) * (1 + crashes + redeliveries)
    BY DEF AttemptsBound
  <2>1. /\ Cardinality(HeldAttempts(pc, held, t)) \in Nat
        /\ Cardinality(WaitingAttempts(broker, t)) \in Nat
        /\ attempts[t] \in Nat /\ Bound(crashes, redeliveries) \in Nat
    BY FS_CardinalityType, BoundArithmetic DEF AttemptsInv, WithinBound, TypeInv, TypeOK
  <2>2. attempts[t] <= Bound(crashes, redeliveries)
    BY <2>1 DEF AttemptsInv, WithinBound
  <2> QED
    BY <2>2 DEF Bound
<1> QED
  BY <1>1, <1>2, <1>3, PTL DEF Spec
=============================================================================
