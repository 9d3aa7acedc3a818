----------------------------- MODULE PlainTasks -----------------------------
(***************************************************************************)
(* The tasks without a retry protocol of their own, and what publishes     *)
(* them: webhook events (app/api/webhook.py), reminders and birthday       *)
(* greetings (app/tasks/scheduler_tasks.py), run by                        *)
(* process_yclients_event_task, send_reminder_task                         *)
(* (app/tasks/notification_tasks.py) and send_birthday_greetings.          *)
(*                                                                         *)
(* The webhook commits a task_queue row and then publishes its task;       *)
(* check_reminders publishes the tasks and then commits the rows.  Both    *)
(* leave a gap, each on the other side.  A task that raises is dropped; a  *)
(* task whose worker dies is delivered again.                              *)
(*                                                                         *)
(* One appointment with its two reminders.  Nothing in the repository      *)
(* starts schedule_appointment_reminders; the model lets it run at any     *)
(* time, as its comment has it, once the appointment is known.             *)
(***************************************************************************)
EXTENDS Integers, FiniteSets

CONSTANTS
    Events,      \* deliveries of webhook requests
    Types,       \* reminder_24h, reminder_2h
    Before,      \* how long before the appointment each type is due
    Half,        \* half of the window of check_reminders (five minutes)
    Birthday,    \* the daily task of beat
    Clients,     \* clients whose birthday is today
    Checks,      \* runs of check_reminders that may overlap
    Workers,
    NoItem,      \* what an idle worker holds
    Times,       \* times the appointment may be at
    MaxTime,     \* bound: last instant of the modelled time
    MaxCrashes,  \* bound: workers lost, transactions rolled back
    MaxRedeliveries, \* bound: messages the broker delivers again
    MaxBeats     \* bound: publications of the greetings of the day

Items == Events \cup Types \cup {Birthday}

ASSUME TaskAssumption ==
    /\ Before \in [Types -> Nat]
    /\ Half \in Nat
    /\ Times \subseteq Nat
    /\ Times # {}
    /\ MaxTime \in Nat
    /\ MaxCrashes \in Nat
    /\ MaxRedeliveries \in Nat
    /\ MaxBeats \in Nat
    /\ IsFiniteSet(Workers)
    /\ NoItem \notin Items
    /\ Events \cap Types = {}
    /\ Birthday \notin Events \cup Types

VARIABLES
    now,
    at,         \* time of the appointment
    stage,      \* how far the webhook handler of each event is
    queued_row, \* events with a row in task_queue; nothing updates it
    row,        \* status of the scheduled_reminders row of each type;
                \* "inserted" while its transaction is open
    due,        \* its scheduled_at
    late,       \* history: reminders due before their row was committed
    cpc,        \* next step of each run of check_reminders
    cnow,       \* the time that run read
    picked,     \* reminders it has still to publish
    marked,     \* reminders it marked sent, not yet committed
    broker,     \* copies of each task's message that wait
    pc,         \* next step of each worker
    held,       \* the task it runs
    todo,       \* clients a greeting run has still to greet
    ended,      \* history: tasks of which a run came to its end
    greeted,    \* history: greetings of each client
    published,  \* history: publications of each reminder
    checked,    \* history: start of the newest committed check
    gap,        \* history: longest time between two of those
    overlapped, \* history: two checks ran at once
    crashes,
    redeliveries,
    beats       \* publications of the greetings of the day

webhook   == <<stage, queued_row>>
reminders == <<row, due, late>>
checks    == <<cpc, cnow, picked, marked>>
workers   == <<pc, held, todo>>
tasklog   == <<ended, greeted>>
checklog  == <<published, checked, gap, overlapped>>
faults    == <<crashes, redeliveries, beats>>
vars      == <<now, at, webhook, reminders, checks, broker, workers, tasklog,
               checklog, faults>>

Init ==
    /\ now = 0
    /\ at \in Times
    /\ stage = [e \in Events |-> "none"]
    /\ queued_row = {}
    /\ row = [t \in Types |-> "none"]
    /\ due = [t \in Types |-> 0]
    /\ cpc = [c \in Checks |-> "idle"]
    /\ cnow = [c \in Checks |-> 0]
    /\ picked = [c \in Checks |-> {}]
    /\ marked = [c \in Checks |-> {}]
    /\ broker = [i \in Items |-> 0]
    /\ pc = [w \in Workers |-> "idle"]
    /\ held = [w \in Workers |-> NoItem]
    /\ todo = [w \in Workers |-> {}]
    /\ ended = {}
    /\ greeted = [c \in Clients |-> 0]
    /\ published = [t \in Types |-> 0]
    /\ checked = 0
    /\ gap = 0
    /\ overlapped = FALSE
    /\ late = {}
    /\ crashes = 0
    /\ redeliveries = 0
    /\ beats = 0

----------------------------------------------------------------------------
(* A definition whose name has an underscore part, as Due_AnyStatus, is a  *)
(* faulty variant of the definition that follows it, used to show that a   *)
(* property can fail.                                                      *)

Publish(i) == broker' = [broker EXCEPT ![i] = @ + 1]

(* yclients_webhook answers "accepted" and leaves the rest to a background *)
(* task of the application process.                                        *)
Accept(e) ==
    /\ stage[e] = "none"
    /\ stage' = [stage EXCEPT ![e] = "accepted"]
    /\ UNCHANGED <<now, at, queued_row, reminders, checks, broker, workers,
                   tasklog, checklog, faults>>

(* _queue_yclients_event: the row is committed ...                         *)
Record(e) ==
    /\ stage[e] = "accepted"
    /\ stage' = [stage EXCEPT ![e] = "recorded"]
    /\ queued_row' = queued_row \cup {e}
    /\ UNCHANGED <<now, at, reminders, checks, broker, workers, tasklog,
                   checklog, faults>>

(* ... and the task is published.                                          *)
SendTask(e) ==
    /\ stage[e] = "recorded"
    /\ stage' = [stage EXCEPT ![e] = "published"]
    /\ Publish(e)
    /\ UNCHANGED <<now, at, queued_row, reminders, checks, workers, tasklog,
                   checklog, faults>>

(* The database or the broker refuses, which is logged and swallowed, or   *)
(* the application process stops.                                          *)
LoseEvent(e) ==
    /\ stage[e] \in {"accepted", "recorded"}
    /\ stage' = [stage EXCEPT ![e] = "lost"]
    /\ UNCHANGED <<now, at, queued_row, reminders, checks, broker, workers,
                   tasklog, checklog, faults>>

----------------------------------------------------------------------------
(* schedule_appointment_reminders, for each type that is still to come and *)
(* has no row: the clock is read and a row inserted ...                    *)
Insert(t) ==
    /\ row[t] = "none"
    /\ at - Before[t] > now
    /\ row' = [row EXCEPT ![t] = "inserted"]
    /\ due' = [due EXCEPT ![t] = at - Before[t]]
    /\ UNCHANGED <<now, at, webhook, late, checks, broker, workers, tasklog,
                   checklog, faults>>

Inserted == {t \in Types : row[t] = "inserted"}

(* ... and committed, however much later, for others to see.  Runs that    *)
(* insert the same rows wait for each other and then do nothing, so one    *)
(* transaction at a time has inserted any.                                 *)
CommitRows ==
    /\ Inserted # {}
    /\ row' = [t \in Types |-> IF t \in Inserted THEN "pending" ELSE row[t]]
    /\ late' = late \cup {t \in Inserted : due[t] < now}
    /\ UNCHANGED <<now, at, webhook, due, checks, broker, workers, tasklog,
                   checklog, faults>>

(* The run raises or its worker dies.                                      *)
AbortRows ==
    /\ crashes < MaxCrashes
    /\ crashes' = crashes + 1
    /\ Inserted # {}
    /\ row' = [t \in Types |-> IF t \in Inserted THEN "none" ELSE row[t]]
    /\ UNCHANGED <<now, at, webhook, due, late, checks, broker, workers,
                   tasklog, checklog, redeliveries, beats>>

(* The appointment is moved in YClients; no code looks for its reminders.  *)
Move(t) ==
    /\ t # at
    /\ at' = t
    /\ UNCHANGED <<now, webhook, reminders, checks, broker, workers, tasklog,
                   checklog, faults>>

(* What check_reminders selects at the time n.                             *)
Due_AnyStatus(n) == {t \in Types : /\ row[t] \in {"pending", "sent"}
                                   /\ due[t] - Half <= n
                                   /\ n <= due[t] + Half}
Due_Ahead(n)     == {t \in Types : /\ row[t] = "pending"
                                   /\ due[t] - Half <= n
                                   /\ n < due[t]}
Due(n)           == {t \in Types : /\ row[t] = "pending"
                                   /\ due[t] - Half <= n
                                   /\ n <= due[t] + Half}

StopCheck_Keeps(c) ==
    /\ cpc' = [cpc EXCEPT ![c] = "idle"]
    /\ UNCHANGED <<cnow, picked, marked>>
StopCheck(c) ==
    /\ cpc' = [cpc EXCEPT ![c] = "idle"]
    /\ cnow' = [cnow EXCEPT ![c] = 0]
    /\ picked' = [picked EXCEPT ![c] = {}]
    /\ marked' = [marked EXCEPT ![c] = {}]

(* A run of check_reminders begins: it reads the clock ...                 *)
StartCheck(c) ==
    /\ cpc[c] = "idle"
    /\ cpc' = [cpc EXCEPT ![c] = "select"]
    /\ cnow' = [cnow EXCEPT ![c] = now]
    /\ overlapped' = (overlapped \/ \E d \in Checks : cpc[d] # "idle")
    /\ UNCHANGED <<now, at, webhook, reminders, picked, marked, broker,
                   workers, tasklog, published, checked, gap, faults>>

(* ... and selects the reminders that are due.                             *)
Select(c) ==
    /\ cpc[c] = "select"
    /\ cpc' = [cpc EXCEPT ![c] = "loop"]
    /\ picked' = [picked EXCEPT ![c] = Due(cnow[c])]
    /\ UNCHANGED <<now, at, webhook, reminders, cnow, marked, broker, workers,
                   tasklog, checklog, faults>>

(* One turn of its loop publishes a task and updates the row.  Row locks   *)
(* of an overlapping run only delay the update.                            *)
Dispatch(c, t) ==
    /\ t \in picked[c]
    /\ picked' = [picked EXCEPT ![c] = @ \ {t}]
    /\ marked' = [marked EXCEPT ![c] = @ \cup {t}]
    /\ published' = [published EXCEPT ![t] = @ + 1]
    /\ Publish(t)
    /\ UNCHANGED <<now, at, webhook, reminders, cpc, cnow, workers, tasklog,
                   checked, gap, overlapped, faults>>

CommitCheck(c) ==
    /\ cpc[c] = "loop"
    /\ picked[c] = {}
    /\ row' = [t \in Types |-> IF t \in marked[c] THEN "sent" ELSE row[t]]
    /\ IF cnow[c] > checked
         THEN /\ checked' = cnow[c]
              /\ gap' = IF cnow[c] - checked > gap THEN cnow[c] - checked ELSE gap
         ELSE UNCHANGED <<checked, gap>>
    /\ StopCheck(c)
    /\ UNCHANGED <<now, at, webhook, due, late, broker, workers, tasklog,
                   published, overlapped, faults>>

(* The run raises or its worker dies: the rows stay as they were.          *)
AbortCheck(c) ==
    /\ crashes < MaxCrashes
    /\ crashes' = crashes + 1
    /\ cpc[c] # "idle"
    /\ StopCheck(c)
    /\ UNCHANGED <<now, at, webhook, reminders, broker, workers, tasklog,
                   checklog, redeliveries, beats>>

----------------------------------------------------------------------------
(* Beat publishes the greetings of the day; stopped before it wrote down   *)
(* that it did, it does so again.                                          *)
BeatBirthday ==
    /\ beats < MaxBeats
    /\ beats' = beats + 1
    /\ Publish(Birthday)
    /\ UNCHANGED <<now, at, webhook, reminders, checks, workers, tasklog,
                   checklog, crashes, redeliveries>>

(* A free worker takes a message.  A greeting run asks YClients for the    *)
(* clients of the day; an error there counts as nobody.                    *)
Receive(w, i) ==
    /\ pc[w] = "idle"
    /\ broker[i] > 0
    /\ broker' = [broker EXCEPT ![i] = @ - 1]
    /\ held' = [held EXCEPT ![w] = i]
    /\ IF i = Birthday
         THEN /\ pc' = [pc EXCEPT ![w] = "greet"]
              /\ \E found \in {Clients, {}} : todo' = [todo EXCEPT ![w] = found]
         ELSE /\ pc' = [pc EXCEPT ![w] = "run"]
              /\ UNCHANGED todo
    /\ UNCHANGED <<now, at, webhook, reminders, checks, tasklog, checklog,
                   faults>>

End(w) ==
    /\ ended' = ended \cup {held[w]}
    /\ pc' = [pc EXCEPT ![w] = "ack"]

(* process_yclients_event or send_reminder: the service delivers and the   *)
(* task commits; or it ignores a record that is gone or has no client, and *)
(* an event of another kind; or something raises and nothing runs it again.*)
Execute(w) ==
    /\ pc[w] = "run"
    /\ End(w)
    /\ UNCHANGED <<now, at, webhook, reminders, checks, broker, held, todo,
                   greeted, checklog, faults>>

(* send_birthday_greetings: one client after the other, each with its own  *)
(* session and commit; the run ends after the last of them, or when an     *)
(* exception leaves the loop, and with it the rest of the clients.         *)
Greet(w, c) ==
    /\ pc[w] = "greet"
    /\ c \in todo[w]
    /\ todo' = [todo EXCEPT ![w] = @ \ {c}]
    /\ \/ greeted' = [greeted EXCEPT ![c] = @ + 1]
       \/ UNCHANGED greeted  \* no such client, no channel, or none accepts
    /\ UNCHANGED <<now, at, webhook, reminders, checks, broker, pc, held,
                   ended, checklog, faults>>

EndGreetings_Repeats(w) ==
    /\ pc[w] = "greet"
    /\ \/ todo[w] = {} /\ End(w) /\ UNCHANGED broker
       \/ todo[w] # {} /\ End(w) /\ Publish(Birthday)
    /\ todo' = [todo EXCEPT ![w] = {}]
    /\ UNCHANGED <<now, at, webhook, reminders, checks, held, greeted,
                   checklog, faults>>

EndGreetings(w) ==
    /\ pc[w] = "greet"
    /\ End(w)
    /\ todo' = [todo EXCEPT ![w] = {}]
    /\ UNCHANGED <<now, at, webhook, reminders, checks, broker, held, greeted,
                   checklog, faults>>

Ack(w) ==
    /\ pc[w] = "ack"
    /\ pc' = [pc EXCEPT ![w] = "idle"]
    /\ held' = [held EXCEPT ![w] = NoItem]
    /\ UNCHANGED <<now, at, webhook, reminders, checks, broker, todo, tasklog,
                   checklog, faults>>

(* task_acks_late and task_reject_on_worker_lost: the message goes back.   *)
Requeue_EarlyAck(i) == UNCHANGED broker
Requeue(i)          == Publish(i)

Crash(w) ==
    /\ crashes < MaxCrashes
    /\ pc[w] # "idle"
    /\ crashes' = crashes + 1
    /\ Requeue(held[w])
    /\ pc' = [pc EXCEPT ![w] = "idle"]
    /\ held' = [held EXCEPT ![w] = NoItem]
    /\ todo' = [todo EXCEPT ![w] = {}]
    /\ UNCHANGED <<now, at, webhook, reminders, checks, tasklog, checklog,
                   redeliveries, beats>>

(* A copy of the message waits, or a worker has not acknowledged one.      *)
Live(i) == broker[i] > 0 \/ \E w \in Workers : held[w] = i

(* The visibility timeout, an hour by default, puts a message back while   *)
(* its worker still runs it or has reserved it.                            *)
Redeliver(i) ==
    /\ redeliveries < MaxRedeliveries
    /\ redeliveries' = redeliveries + 1
    /\ Live(i)
    /\ Publish(i)
    /\ UNCHANGED <<now, at, webhook, reminders, checks, workers, tasklog,
                   checklog, crashes, beats>>

Tick ==
    /\ now < MaxTime
    /\ now' = now + 1
    /\ UNCHANGED <<at, webhook, reminders, checks, broker, workers, tasklog,
                   checklog, faults>>

WorkerStep(w) ==
    \/ Execute(w)
    \/ \E c \in Clients : Greet(w, c)
    \/ EndGreetings(w)
    \/ Ack(w)

Next ==
    \/ \E e \in Events : Accept(e) \/ Record(e) \/ SendTask(e) \/ LoseEvent(e)
    \/ \E t \in Types : Insert(t)
    \/ CommitRows
    \/ AbortRows
    \/ \E t \in Times : Move(t)
    \/ \E c \in Checks : StartCheck(c) \/ Select(c) \/ CommitCheck(c) \/ AbortCheck(c)
    \/ \E c \in Checks, t \in Types : Dispatch(c, t)
    \/ BeatBirthday
    \/ \E w \in Workers, i \in Items : Receive(w, i)
    \/ \E w \in Workers : WorkerStep(w) \/ Crash(w)
    \/ \E i \in Items : Redeliver(i)
    \/ Tick

Spec == Init /\ [][Next]_vars

----------------------------------------------------------------------------
(* The type invariant; only a run that selected reminders has any.         *)
TypeOK ==
    /\ now \in 0 .. MaxTime
    /\ at \in Times
    /\ stage \in [Events -> {"none", "accepted", "recorded", "published", "lost"}]
    /\ queued_row \subseteq Events
    /\ row \in [Types -> {"none", "inserted", "pending", "sent"}]
    /\ due \in [Types -> Nat]
    /\ late \subseteq Types
    /\ cpc \in [Checks -> {"idle", "select", "loop"}]
    /\ cnow \in [Checks -> 0 .. MaxTime]
    /\ picked \in [Checks -> SUBSET Types]
    /\ marked \in [Checks -> SUBSET Types]
    /\ broker \in [Items -> Nat]
    /\ pc \in [Workers -> {"idle", "run", "greet", "ack"}]
    /\ held \in [Workers -> Items \cup {NoItem}]
    /\ todo \in [Workers -> SUBSET Clients]
    /\ ended \subseteq Items
    /\ greeted \in [Clients -> Nat]
    /\ published \in [Types -> Nat]
    /\ checked \in 0 .. MaxTime
    /\ gap \in 0 .. MaxTime
    /\ overlapped \in BOOLEAN
    /\ crashes \in 0 .. MaxCrashes
    /\ redeliveries \in 0 .. MaxRedeliveries
    /\ beats \in 0 .. MaxBeats
    /\ \A w \in Workers : pc[w] = "idle" <=> held[w] = NoItem
    /\ \A c \in Checks : cpc[c] # "loop" => picked[c] \cup marked[c] = {}

(* What was published is run to an end, however often workers die: an      *)
(* event whose handler finished has its row, and neither its task nor the  *)
(* task of a reminder that is marked sent is lost.                         *)
PublishedIsRun ==
    /\ \A e \in Events :
         stage[e] = "published" => e \in queued_row /\ (Live(e) \/ e \in ended)
    /\ \A t \in Types : row[t] = "sent" => Live(t) \/ t \in ended

(* Publishing before the commit repeats a reminder once per lost or rolled *)
(* back run at most; the status keeps later runs from doing so, unless     *)
(* they overlap.                                                           *)
RepeatsBounded ==
    ~overlapped => \A t \in Types : published[t] <= 1 + crashes

(* No reminder whose row is committed before it falls due slips past its   *)
(* window: while runs of check_reminders keep succeeding at least every    *)
(* five minutes, the first of them after it fell due has it sent, also     *)
(* when some runs fail or overlap.  It is about the time in the row, which *)
(* is not that of an appointment moved since; a row committed only after   *)
(* it fell due may be missed, by a check that selected in between.         *)
NoneMissed ==
    gap <= Half =>
        \A t \in Types : row[t] = "pending" /\ t \notin late => checked <= due[t]

(* Greetings are not recorded anywhere, so a client is greeted as often as *)
(* the message of the day is run: once for each time beat publishes it,    *)
(* and again for a lost worker or a run longer than the visibility         *)
(* timeout; never because a run was cut short by an exception.             *)
GreetingsBounded ==
    \A c \in Clients : greeted[c] <= beats + crashes + redeliveries
=============================================================================
