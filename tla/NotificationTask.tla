-------------------------- MODULE NotificationTask --------------------------
(***************************************************************************)
(* The life of a send_notification_task (app/tasks/notification_tasks.py): *)
(* its row in the task_queue table, the copies of its message in the Redis *)
(* broker, and the Celery worker processes that run it.                    *)
(*                                                                         *)
(* The queue delivers AT LEAST once: task_acks_late and                    *)
(* task_reject_on_worker_lost put a message back when its worker dies, and *)
(* the Redis transport puts back a message that stays unacknowledged       *)
(* longer than its visibility timeout (one hour, the length of the last    *)
(* retry delay).  Every database transaction of the task is one step, so   *)
(* the steps of two workers that hold copies of one task interleave.       *)
(* Retry delays are abstracted: a retry may be received at any later time. *)
(***************************************************************************)
EXTENDS Naturals, FiniteSets

CONSTANTS
    Tasks,           \* Celery task ids; apply_async draws a fresh one per call
    Workers,         \* worker processes (docker-compose: --concurrency=4)
    NoMsg,           \* what an idle worker holds
    MaxRetries,      \* max_retries of the task, the length of RETRY_DELAYS
    MaxCrashes,      \* bound: worker processes lost
    MaxRedeliveries, \* bound: messages put back by the visibility timeout
    MaxFaults        \* bound: database or broker calls that raise

Levels  == 0 .. MaxRetries                        \* request.retries
Message == [task : Tasks, retries : Levels]

ASSUME BoundsAssumption ==
    /\ MaxRetries \in Nat
    /\ MaxCrashes \in Nat
    /\ MaxRedeliveries \in Nat
    /\ MaxFaults \in Nat

ASSUME NoMsgAssumption == NoMsg \notin Message

VARIABLES
    created,      \* tasks whose first message was published
    status,       \* task_queue.status, "none" while there is no row
    attempts,     \* task_queue.attempts
    broker,       \* number of copies of each message waiting in the broker
    pc,           \* next step of each worker
    held,         \* the message each worker has not acknowledged yet
    raised,       \* history: retry levels at which the try block raised
    returned,     \* history: executions that carried the notification out
    crashes,
    redeliveries,
    faults,
    unanswered    \* history: successes recorded by a commit that raised

row  == <<status, attempts>>
hist == <<raised, returned>>
env  == <<crashes, redeliveries, faults, unanswered>>
vars == <<created, row, broker, pc, held, hist, env>>

Status   == {"none", "running", "pending", "success", "failed"}
Terminal == {"success", "failed"}

(* A worker "check"s the row, "insert"s or "update"s it, "exec"utes the    *)
(* notification, then either marks the success or records the error and    *)
(* "retry"-s or marks the failure; at "ack" only the acknowledgement is    *)
(* left.                                                                   *)
Steps == {"idle", "check", "insert", "update", "exec", "mark_success",
          "record_error", "retry", "mark_failed", "ack"}

(* Steps at which a worker has passed the idempotency check and has not    *)
(* yet finished with the task's row.                                       *)
InFlight == Steps \ {"idle", "check", "ack"}

Init ==
    /\ created = {}
    /\ status = [t \in Tasks |-> "none"]
    /\ attempts = [t \in Tasks |-> 0]
    /\ broker = [m \in Message |-> 0]
    /\ pc = [w \in Workers |-> "idle"]
    /\ held = [w \in Workers |-> NoMsg]
    /\ raised = [t \in Tasks |-> {}]
    /\ returned = [t \in Tasks |-> 0]
    /\ crashes = 0
    /\ redeliveries = 0
    /\ faults = 0
    /\ unanswered = 0

----------------------------------------------------------------------------
(* A definition whose name has an underscore part, as AfterCheck_NoRowStops, *)
(* is a faulty variant of the definition that follows it, used to show that  *)
(* a property can fail.                                                      *)

Goto(w, step) == pc' = [pc EXCEPT ![w] = step]
Publish(m)    == broker' = [broker EXCEPT ![m] = @ + 1]

Release_Kept(w) == UNCHANGED held
Release(w)      == held' = [held EXCEPT ![w] = NoMsg]

(* What the idempotency check makes of a row: only a success stops the     *)
(* task; a running row does not.                                           *)
AfterCheck_AnyRowStops(s) == IF s = "none" THEN "insert" ELSE "ack"
AfterCheck_NoRowStops(s)  == IF s = "none" THEN "insert" ELSE "update"
AfterCheck(s) == CASE s = "success" -> "ack"
                   [] s = "none"    -> "insert"
                   [] OTHER         -> "update"

(* The retry budget of the except branch: attempt < 4.                     *)
AfterError_NeverFails(r) == IF r < MaxRetries THEN "retry" ELSE "ack"
AfterError(r)            == IF r < MaxRetries THEN "retry" ELSE "mark_failed"

(* task.retry: the same task id and arguments, one retry more.             *)
RetryOf_Fresh(m) == [m EXCEPT !.retries = 0]
RetryOf(m)       == [m EXCEPT !.retries = @ + 1]

(* poll_yclients publishes the task; no row is written for it yet.         *)
Enqueue(t) ==
    /\ t \notin created
    /\ created' = created \cup {t}
    /\ Publish([task |-> t, retries |-> 0])
    /\ UNCHANGED <<row, pc, held, hist, env>>

(* A free worker process takes a message whose countdown has elapsed.  It  *)
(* stays unacknowledged until Ack (task_acks_late).                        *)
Receive(w, m) ==
    /\ pc[w] = "idle"
    /\ broker[m] > 0
    /\ broker' = [broker EXCEPT ![m] = @ - 1]
    /\ held' = [held EXCEPT ![w] = m]
    /\ Goto(w, "check")
    /\ UNCHANGED <<created, row, hist, env>>

(* The SELECT of the idempotency check.                                    *)
Check(w) ==
    /\ pc[w] = "check"
    /\ Goto(w, AfterCheck(status[held[w].task]))
    /\ UNCHANGED <<created, row, broker, held, hist, env>>

(* INSERT of the row by a worker that found none.  The UNIQUE constraint   *)
(* on task_id refuses a second row; that error leaves the task outside its *)
(* try block, so Celery drops the message.                                 *)
InsertRow(w) ==
    LET t == held[w].task IN
    /\ pc[w] = "insert"
    /\ \/ /\ status[t] = "none"
          /\ status' = [status EXCEPT ![t] = "running"]
          /\ attempts' = [attempts EXCEPT ![t] = 1]
          /\ Goto(w, "exec")
       \/ /\ status[t] # "none"
          /\ Goto(w, "ack")
          /\ UNCHANGED row
    /\ UNCHANGED <<created, broker, held, hist, env>>

(* UPDATE of the row by a worker that found one, whatever its status has   *)
(* become since the check.                                                 *)
UpdateRow(w) ==
    LET t == held[w].task IN
    /\ pc[w] = "update"
    /\ status' = [status EXCEPT ![t] = "running"]
    /\ attempts' = [attempts EXCEPT ![t] = @ + 1]
    /\ Goto(w, "exec")
    /\ UNCHANGED <<created, broker, held, hist, env>>

(* _execute_notification returns or raises.                                *)
Execute(w) ==
    LET t == held[w].task IN
    /\ pc[w] = "exec"
    /\ \/ /\ returned' = [returned EXCEPT ![t] = @ + 1]
          /\ Goto(w, "mark_success")
          /\ UNCHANGED raised
       \/ /\ raised' = [raised EXCEPT ![t] = @ \cup {held[w].retries}]
          /\ Goto(w, "record_error")
          /\ UNCHANGED returned
    /\ UNCHANGED <<created, row, broker, held, env>>

MarkSuccess_NoReturn(w) ==
    /\ pc[w] = "mark_success"
    /\ status' = [status EXCEPT ![held[w].task] = "success"]
    /\ Goto(w, "record_error")
    /\ UNCHANGED <<created, attempts, broker, held, hist, env>>

MarkSuccess(w) ==
    /\ pc[w] = "mark_success"
    /\ status' = [status EXCEPT ![held[w].task] = "success"]
    /\ Goto(w, "ack")
    /\ UNCHANGED <<created, attempts, broker, held, hist, env>>

(* The except branch: the row becomes pending.                             *)
RecordError(w) ==
    /\ pc[w] = "record_error"
    /\ status' = [status EXCEPT ![held[w].task] = "pending"]
    /\ Goto(w, AfterError(held[w].retries))
    /\ UNCHANGED <<created, attempts, broker, held, hist, env>>

Retry(w) ==
    /\ pc[w] = "retry"
    /\ Publish(RetryOf(held[w]))
    /\ Goto(w, "ack")
    /\ UNCHANGED <<created, row, held, hist, env>>

MarkFailed(w) ==
    /\ pc[w] = "mark_failed"
    /\ status' = [status EXCEPT ![held[w].task] = "failed"]
    /\ Goto(w, "ack")
    /\ UNCHANGED <<created, attempts, broker, held, hist, env>>

Ack(w) ==
    /\ pc[w] = "ack"
    /\ Release(w)
    /\ Goto(w, "idle")
    /\ UNCHANGED <<created, row, broker, hist, env>>

----------------------------------------------------------------------------
(* What the failing commit of a step wrote, if it reached the database and *)
(* its answer was lost.  (For a final failure this is MarkFailed, for the  *)
(* publication of a retry Retry.)                                          *)
Landed(w) ==
    LET t == held[w].task IN
    \/ /\ pc[w] = "insert" /\ status[t] = "none"
       /\ status' = [status EXCEPT ![t] = "running"]
       /\ attempts' = [attempts EXCEPT ![t] = 1]
    \/ /\ pc[w] = "update"
       /\ status' = [status EXCEPT ![t] = "running"]
       /\ attempts' = [attempts EXCEPT ![t] = @ + 1]
    \/ /\ pc[w] = "record_error"
       /\ status' = [status EXCEPT ![t] = "pending"]
       /\ UNCHANGED attempts

(* A database or broker call outside the try block raises: Celery          *)
(* acknowledges the failed task without a retry.                           *)
Abort(w) ==
    /\ faults < MaxFaults
    /\ pc[w] \in {"check", "insert", "update", "record_error", "retry",
                  "mark_failed"}
    /\ faults' = faults + 1
    /\ UNCHANGED row \/ Landed(w)
    /\ Goto(w, "ack")
    /\ UNCHANGED <<created, broker, held, hist, crashes, redeliveries, unanswered>>

(* The UPDATE to success is inside the try block: when it raises, a        *)
(* notification that was carried out is treated as a failed attempt, also  *)
(* if its commit reached the database: RecordError then takes the success  *)
(* back.                                                                   *)
MarkSuccessFails(w) ==
    /\ faults < MaxFaults
    /\ pc[w] = "mark_success"
    /\ faults' = faults + 1
    /\ \/ UNCHANGED <<status, unanswered>>
       \/ /\ status' = [status EXCEPT ![held[w].task] = "success"]
          /\ unanswered' = unanswered + 1
    /\ raised' = [raised EXCEPT ![held[w].task] = @ \cup {held[w].retries}]
    /\ Goto(w, "record_error")
    /\ UNCHANGED <<created, attempts, broker, held, returned, crashes, redeliveries>>

(* The worker process dies; its unacknowledged message goes back.          *)
Crash(w) ==
    /\ crashes < MaxCrashes
    /\ pc[w] # "idle"
    /\ crashes' = crashes + 1
    /\ Publish(held[w])
    /\ Release(w)
    /\ Goto(w, "idle")
    /\ UNCHANGED <<created, row, hist, redeliveries, faults, unanswered>>

(* The visibility timeout puts a message back while its worker still runs  *)
(* it, or while a worker still holds it for its countdown.                 *)
Redeliver(m) ==
    /\ redeliveries < MaxRedeliveries
    /\ broker[m] > 0 \/ \E w \in Workers : held[w] = m
    /\ redeliveries' = redeliveries + 1
    /\ Publish(m)
    /\ UNCHANGED <<created, row, pc, held, hist, crashes, faults, unanswered>>

----------------------------------------------------------------------------
WorkerStep(w) ==
    \/ Check(w)
    \/ InsertRow(w)
    \/ UpdateRow(w)
    \/ Execute(w)
    \/ MarkSuccess(w)
    \/ RecordError(w)
    \/ Retry(w)
    \/ MarkFailed(w)
    \/ Ack(w)

Next ==
    \/ \E t \in Tasks : Enqueue(t)
    \/ \E w \in Workers, m \in Message : Receive(w, m)
    \/ \E w \in Workers : WorkerStep(w)
    \/ \E w \in Workers : Abort(w) \/ MarkSuccessFails(w) \/ Crash(w)
    \/ \E m \in Message : Redeliver(m)

Spec == Init /\ [][Next]_vars

(* Celery keeps running the task it started and keeps handing waiting      *)
(* messages to free processes; every countdown elapses.  Nothing forces a  *)
(* task to be published, or any failure to occur.                          *)
Fairness ==
    /\ \A w \in Workers : WF_vars(WorkerStep(w))
    /\ \A m \in Message : WF_vars(\E w \in Workers : Receive(w, m))

FairSpec == Spec /\ Fairness

----------------------------------------------------------------------------
(* The type invariant; a worker is idle exactly when it holds no message.  *)
TypeOK ==
    /\ created \subseteq Tasks
    /\ status \in [Tasks -> Status]
    /\ attempts \in [Tasks -> Nat]
    /\ broker \in [Message -> Nat]
    /\ pc \in [Workers -> Steps]
    /\ held \in [Workers -> Message \cup {NoMsg}]
    /\ \A w \in Workers : pc[w] = "idle" <=> held[w] = NoMsg
    /\ raised \in [Tasks -> SUBSET Levels]
    /\ returned \in [Tasks -> Nat]
    /\ crashes \in Nat
    /\ redeliveries \in Nat
    /\ faults \in Nat
    /\ unanswered \in Nat

(* A row says "failed" only after the task raised at every retry level,    *)
(* the first attempt and each of the retries: no crash, duplicate or late  *)
(* message makes the system give up on a client early (the except branch   *)
(* of _send_notification_async).                                           *)
NoEarlyGiveUp ==
    \A t \in Tasks : status[t] = "failed" => Levels \subseteq raised[t]

(* Someone still works on t: a copy of its message waits in the broker or  *)
(* a worker has not yet acknowledged one.                                  *)
Live(t) ==
    \/ \E r \in Levels : broker[[task |-> t, retries |-> r]] > 0
    \/ \E w \in Workers : held[w] # NoMsg /\ held[w].task = t

(* As long as no database or broker call fails, a published task is never  *)
(* abandoned: when nobody works on it any more its row is final, whatever  *)
(* crashes and redeliveries happened in between.                           *)
NoTaskVanishes ==
    faults = 0 => \A t \in created : Live(t) \/ status[t] \in Terminal

(* Each delivery of a message leads to at most one execution per retry     *)
(* level, so crashes and redeliveries multiply the attempts at worst       *)
(* linearly: retries published by one copy are never counted anew.         *)
AttemptsBound ==
    \A t \in Tasks :
        attempts[t] <= (MaxRetries + 1) * (1 + crashes + redeliveries)

(* No worker is between its idempotency check and its last row update on t *)
(* and the row says success.                                               *)
Settled(t) ==
    /\ status[t] = "success"
    /\ \A w \in Workers :
         held[w] # NoMsg /\ held[w].task = t => pc[w] \notin InFlight

(* What the idempotency check achieves: once the success is recorded and   *)
(* no overlapping execution is left, no later copy of the message, however *)
(* many are still to be delivered, executes the task or touches its row.   *)
CompletedStays == [][\A t \in Tasks : Settled(t) => Settled(t)']_vars

(* A message was or may have been delivered twice, or a success was        *)
(* recorded that the worker takes for a failure.                           *)
Disturbed == crashes + redeliveries + unanswered > 0

(* While every message was delivered exactly once and no answer to the     *)
(* commit of a success was lost, success and failure are final: no attempt *)
(* of the task overwrites the outcome of another.                          *)
TerminalFinal ==
    [][ ~Disturbed'
          => \A t \in Tasks :
               status[t] \in Terminal => status'[t] = status[t] ]_vars

(* A published task comes to rest with a final row for good, however its   *)
(* copies were crashed and redelivered, unless a database or broker call   *)
(* fails.                                                                  *)
Settles ==
    \A t \in Tasks :
        t \in created ~> (faults > 0 \/ [](status[t] \in Terminal))

----------------------------------------------------------------------------
(* What a reader of task_queue can tell of a task.                         *)
Outcome(t) ==
    IF t \notin created THEN "absent"
    ELSE IF status[t] \in Terminal THEN status[t] ELSE "open"

Promise == INSTANCE AtLeastOnce WITH
    Attempts  <- Levels,
    outcome   <- [t \in Tasks |-> Outcome(t)],
    carried   <- {t \in Tasks : returned[t] > 0},
    failures  <- raised,
    disturbed <- Disturbed

(* The retry protocol, with its workers, rows, copies and failing calls,   *)
(* does what the queue promises: success means carried out, failure means  *)
(* every level failed, and outcomes are final while nothing is delivered   *)
(* twice and no recorded success is taken for a failure.                   *)
KeepsPromise == Promise!Spec
=============================================================================
