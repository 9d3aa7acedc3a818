-------------------------- MODULE PlainTasksProofs --------------------------
(***************************************************************************)
(* Proofs about PlainTasks, for any number of events, reminder types,      *)
(* clients, workers and overlapping checks, any windows and lead times,    *)
(* and any number of crashes, redeliveries and messages of the day.        *)
(***************************************************************************)
EXTENDS PlainTasks, TLAPS, FiniteSetTheorems

(* The checks run on clock readings of the past.                           *)
ClocksPast ==
    /\ checked <= now
    /\ \A c \in Checks : cnow[c] <= now

(* Tasks: a webhook that published has its row; its task, and the task of  *)
(* a reminder that is marked or sent, was published and is not lost; what  *)
(* is acknowledged has come to its end.                                    *)
TasksKept ==
    /\ \A e \in Events : stage[e] \in {"recorded", "published"} => e \in queued_row
    /\ \A e \in Events : stage[e] = "published" => Live(e) \/ e \in ended
    /\ \A w \in Workers : pc[w] = "ack" => held[w] \in ended
    /\ \A t \in Types :
         row[t] = "sent" \/ (\E c \in Checks : t \in marked[c])
             => Live(t) \/ t \in ended

(* Reminders while checks do not overlap: one check runs; what it still    *)
(* has to publish is pending; a reminder that is neither sent nor marked   *)
(* was published once for each crash at most.                              *)
CountedOnce ==
    ~overlapped =>
        /\ \A c, d \in Checks : cpc[c] # "idle" /\ cpc[d] # "idle" => c = d
        /\ \A c \in Checks : \A t \in picked[c] :
             row[t] = "pending" /\ t \notin marked[c]
        /\ \A t \in Types :
             /\ published[t] <= 1 + crashes
             /\ row[t] # "sent" /\ (\A c \in Checks : t \notin marked[c])
                    => published[t] <= crashes

(* The windows: no reminder is left pending by a check after it fell due,  *)
(* for what is pending was committed before it fell due, and a check that  *)
(* read the clock after that, in the window, has selected it.              *)
WindowsCover ==
    /\ gap <= Half =>
         \A t \in Types : row[t] = "pending" /\ t \notin late => checked <= due[t]
    /\ \A c \in Checks, t \in Types :
         /\ cpc[c] = "loop" /\ row[t] = "pending" /\ t \notin late
         /\ due[t] < cnow[c] /\ cnow[c] <= due[t] + Half
         => t \in picked[c] \cup marked[c]

(* Greetings: a client was greeted, and may be by the messages that wait   *)
(* and by the runs that have it still to come, once for each time the      *)
(* message of the day was put into the queue.                              *)
Greeters(c) == {w \in Workers : pc[w] = "greet" /\ c \in todo[w]}

GreetingsCounted ==
    /\ \A w \in Workers : pc[w] = "greet" => held[w] = Birthday
    /\ \A c \in Clients :
         greeted[c] + broker[Birthday] + Cardinality(Greeters(c))
           <= beats + crashes + redeliveries

-----------------------------------------------------------------------------
(* The type invariant                                                      *)

LEMMA BirthdayIsItem ==
    /\ Birthday \in Items /\ Events \subseteq Items /\ Types \subseteq Items
    /\ NoItem \notin Items
    /\ 0 \in 0 .. MaxTime /\ 0 \in 0 .. MaxCrashes
    /\ 0 \in 0 .. MaxRedeliveries /\ 0 \in 0 .. MaxBeats
  BY TaskAssumption DEF Items

LEMMA TypeInit == Init => TypeOK
  <1> SUFFICES ASSUME Init PROVE TypeOK
    OBVIOUS
  <1>1. /\ now \in 0 .. MaxTime /\ at \in Times
        /\ checked \in 0 .. MaxTime /\ gap \in 0 .. MaxTime
        /\ crashes \in 0 .. MaxCrashes
        /\ redeliveries \in 0 .. MaxRedeliveries /\ beats \in 0 .. MaxBeats
        /\ cnow \in [Checks -> 0 .. MaxTime]
    BY BirthdayIsItem DEF Init
  <1>2. /\ stage \in [Events -> {"none", "accepted", "recorded", "published", "lost"}]
        /\ row \in [Types -> {"none", "inserted", "pending", "sent"}]
        /\ cpc \in [Checks -> {"idle", "select", "loop"}]
        /\ pc \in [Workers -> {"idle", "run", "greet", "ack"}]
    BY DEF Init
  <1>3. /\ due \in [Types -> Nat] /\ broker \in [Items -> Nat]
        /\ greeted \in [Clients -> Nat] /\ published \in [Types -> Nat]
    BY DEF Init
  <1>4. /\ picked \in [Checks -> SUBSET Types]
        /\ marked \in [Checks -> SUBSET Types]
        /\ todo \in [Workers -> SUBSET Clients]
        /\ held \in [Workers -> Items \cup {NoItem}]
        /\ queued_row \subseteq Events /\ ended \subseteq Items /\ late \subseteq Types
        /\ overlapped \in BOOLEAN
    BY DEF Init
  <1>5. /\ \A w \in Workers : pc[w] = "idle" <=> held[w] = NoItem
        /\ \A c \in Checks : cpc[c] # "loop" => picked[c] \cup marked[c] = {}
    BY DEF Init
  <1> QED
    BY <1>1, <1>2, <1>3, <1>4, <1>5 DEF TypeOK

LEMMA TypeWebhook ==
    ASSUME TypeOK, NEW e \in Events,
           Accept(e) \/ Record(e) \/ SendTask(e) \/ LoseEvent(e)
    PROVE  TypeOK'
  <1>1. CASE Accept(e)
    BY <1>1 DEF TypeOK, Accept, reminders, checks, workers, tasklog, checklog, faults
  <1>2. CASE Record(e)
    BY <1>2 DEF TypeOK, Record, reminders, checks, workers, tasklog, checklog, faults
  <1>3. CASE SendTask(e)
    BY <1>3, BirthdayIsItem
       DEF TypeOK, SendTask, Publish, reminders, checks, workers, tasklog, checklog, faults
  <1>4. CASE LoseEvent(e)
    BY <1>4 DEF TypeOK, LoseEvent, reminders, checks, workers, tasklog, checklog, faults
  <1> QED
    BY <1>1, <1>2, <1>3, <1>4

LEMMA TypeRows ==
    ASSUME TypeOK, CommitRows \/ AbortRows \/ \E t \in Types : Insert(t)
    PROVE  TypeOK'
  <1> USE DEF webhook, checks, workers, tasklog, checklog, faults
  <1>1. ASSUME NEW t \in Types, Insert(t) PROVE TypeOK'
    <2>1. /\ at \in Nat /\ now \in Nat /\ Before \in [Types -> Nat]
          /\ due \in [Types -> Nat]
      BY TaskAssumption DEF TypeOK
    <2>2. due' \in [Types -> Nat]
      BY <1>1, <2>1 DEF Insert
    <2>3. row' \in [Types -> {"none", "inserted", "pending", "sent"}]
      BY <1>1 DEF TypeOK, Insert
    <2> QED
      BY <1>1, <2>2, <2>3 DEF TypeOK, Insert
  <1>2. CASE CommitRows
    BY <1>2 DEF TypeOK, CommitRows, Inserted
  <1>3. CASE AbortRows
    <2>1. crashes' \in 0 .. MaxCrashes
      BY <1>3, TaskAssumption DEF TypeOK, AbortRows
    <2> QED
      BY <1>3, <2>1 DEF TypeOK, AbortRows
  <1> QED
    BY <1>1, <1>2, <1>3

LEMMA TypeMove ==
    ASSUME TypeOK, NEW t \in Times, Move(t)
    PROVE  TypeOK'
  BY DEF TypeOK, Move, webhook, reminders, checks, workers, tasklog, checklog, faults

LEMMA TypeStartCheck ==
    ASSUME TypeOK, NEW c \in Checks, StartCheck(c)
    PROVE  TypeOK'
  BY DEF TypeOK, StartCheck, webhook, reminders, workers, tasklog, faults

LEMMA TypeSelect ==
    ASSUME TypeOK, NEW c \in Checks, Select(c)
    PROVE  TypeOK'
  <1>1. Due(cnow[c]) \subseteq Types
    BY DEF Due
  <1> QED
    BY <1>1 DEF TypeOK, Select, webhook, reminders, workers, tasklog, checklog, faults

LEMMA TypeDispatch ==
    ASSUME TypeOK, NEW c \in Checks, NEW t \in Types, Dispatch(c, t)
    PROVE  TypeOK'
  BY BirthdayIsItem
     DEF TypeOK, Dispatch, Publish, webhook, reminders, workers, tasklog, faults

LEMMA TypeCommitCheck ==
    ASSUME TypeOK, NEW c \in Checks, CommitCheck(c)
    PROVE  TypeOK'
  <1>1. checked' \in 0 .. MaxTime /\ gap' \in 0 .. MaxTime
    <2>1. cnow[c] \in 0 .. MaxTime /\ checked \in 0 .. MaxTime /\ gap \in 0 .. MaxTime
      BY DEF TypeOK
    <2> QED
      BY <2>1, TaskAssumption DEF CommitCheck
  <1>2. row' \in [Types -> {"none", "inserted", "pending", "sent"}]
    BY DEF TypeOK, CommitCheck
  <1>3. /\ cpc' \in [Checks -> {"idle", "select", "loop"}]
        /\ cnow' \in [Checks -> 0 .. MaxTime]
        /\ picked' \in [Checks -> SUBSET Types]
        /\ marked' \in [Checks -> SUBSET Types]
        /\ \A d \in Checks : cpc'[d] # "loop" => picked'[d] \cup marked'[d] = {}
    BY BirthdayIsItem DEF TypeOK, CommitCheck, StopCheck
  <1> QED
    BY <1>1, <1>2, <1>3 DEF TypeOK, CommitCheck, webhook, workers, tasklog, faults

LEMMA TypeAbortCheck ==
    ASSUME TypeOK, NEW c \in Checks, AbortCheck(c)
    PROVE  TypeOK'
  <1>1. crashes' \in 0 .. MaxCrashes
    BY TaskAssumption DEF TypeOK, AbortCheck
  <1>2. /\ cpc' \in [Checks -> {"idle", "select", "loop"}]
        /\ cnow' \in [Checks -> 0 .. MaxTime]
        /\ picked' \in [Checks -> SUBSET Types]
        /\ marked' \in [Checks -> SUBSET Types]
        /\ \A d \in Checks : cpc'[d] # "loop" => picked'[d] \cup marked'[d] = {}
    BY BirthdayIsItem DEF TypeOK, AbortCheck, StopCheck
  <1> QED
    BY <1>1, <1>2 DEF TypeOK, AbortCheck, webhook, reminders, workers, tasklog,
                      checklog, faults

LEMMA TypeBeat ==
    ASSUME TypeOK, BeatBirthday
    PROVE  TypeOK'
  <1>1. beats' \in 0 .. MaxBeats
    BY TaskAssumption DEF TypeOK, BeatBirthday
  <1>2. broker' \in [Items -> Nat]
    BY BirthdayIsItem DEF TypeOK, BeatBirthday, Publish
  <1> QED
    BY <1>1, <1>2 DEF TypeOK, BeatBirthday, webhook, reminders, checks, workers,
                      tasklog, checklog

LEMMA TypeRedeliver ==
    ASSUME TypeOK, NEW i \in Items, Redeliver(i)
    PROVE  TypeOK'
  <1>1. redeliveries' \in 0 .. MaxRedeliveries
    BY TaskAssumption DEF TypeOK, Redeliver
  <1>2. broker' \in [Items -> Nat]
    BY DEF TypeOK, Redeliver, Publish
  <1> QED
    BY <1>1, <1>2 DEF TypeOK, Redeliver, webhook, reminders, checks, workers,
                      tasklog, checklog

LEMMA TypeReceive ==
    ASSUME TypeOK, NEW w \in Workers, NEW i \in Items, Receive(w, i)
    PROVE  TypeOK'
  <1>1. broker' \in [Items -> Nat]
    BY DEF TypeOK, Receive
  <1>2. /\ pc' \in [Workers -> {"idle", "run", "greet", "ack"}]
        /\ todo' \in [Workers -> SUBSET Clients]
        /\ held' \in [Workers -> Items \cup {NoItem}]
        /\ \A v \in Workers : pc'[v] = "idle" <=> held'[v] = NoItem
    BY BirthdayIsItem DEF TypeOK, Receive
  <1> QED
    BY <1>1, <1>2 DEF TypeOK, Receive, webhook, reminders, checks, tasklog, checklog, faults

LEMMA TypeWorker ==
    ASSUME TypeOK, NEW w \in Workers, WorkerStep(w)
    PROVE  TypeOK'
  <1>1. pc[w] # "idle" => held[w] \in Items
    BY DEF TypeOK
  <1>2. CASE Execute(w)
    BY <1>1, <1>2 DEF TypeOK, Execute, End, webhook, reminders, checks, checklog, faults
  <1>3. ASSUME NEW c \in Clients, Greet(w, c) PROVE TypeOK'
    BY <1>3 DEF TypeOK, Greet, webhook, reminders, checks, checklog, faults
  <1>4. CASE EndGreetings(w)
    BY <1>1, <1>4 DEF TypeOK, EndGreetings, End, webhook, reminders, checks, checklog, faults
  <1>5. CASE Ack(w)
    BY <1>5 DEF TypeOK, Ack, webhook, reminders, checks, tasklog, checklog, faults
  <1> QED
    BY <1>2, <1>3, <1>4, <1>5 DEF WorkerStep

LEMMA TypeCrash ==
    ASSUME TypeOK, NEW w \in Workers, Crash(w)
    PROVE  TypeOK'
  <1>1. crashes' \in 0 .. MaxCrashes
    BY TaskAssumption DEF TypeOK, Crash
  <1>2. held[w] \in Items
    BY DEF TypeOK, Crash
  <1>3. broker' \in [Items -> Nat]
    BY <1>2 DEF TypeOK, Crash, Requeue, Publish
  <1> QED
    BY <1>1, <1>3 DEF TypeOK, Crash, webhook, reminders, checks, tasklog, checklog, faults

LEMMA TypeTick ==
    ASSUME TypeOK, Tick
    PROVE  TypeOK'
  <1>1. now' \in 0 .. MaxTime
    BY TaskAssumption DEF TypeOK, Tick
  <1> QED
    BY <1>1 DEF TypeOK, Tick, webhook, reminders, checks, workers, tasklog, checklog, faults

LEMMA TypeNext == TypeOK /\ [Next]_vars => TypeOK'
  <1>1. TypeOK /\ UNCHANGED vars => TypeOK'
    BY DEF TypeOK, vars, webhook, reminders, checks, workers, tasklog, checklog, faults
  <1> QED
    BY <1>1, TypeWebhook, TypeRows, TypeMove, TypeStartCheck, TypeSelect,
       TypeDispatch, TypeCommitCheck, TypeAbortCheck, TypeBeat, TypeReceive,
       TypeWorker, TypeCrash, TypeRedeliver, TypeTick
       DEF Next

-----------------------------------------------------------------------------
(* Steps that leave a part of the state alone                              *)

(* Only these steps touch the checks, their rows or their clocks.          *)
LEMMA ChecksTouched ==
    ASSUME [Next]_vars
    PROVE  \/ UNCHANGED <<now, reminders, checks, checklog, crashes>>
           \/ CommitRows \/ AbortRows \/ \E t \in Types : Insert(t)
           \/ \E c \in Checks : StartCheck(c) \/ Select(c) \/ CommitCheck(c)
                               \/ AbortCheck(c) \/ \E t \in Types : Dispatch(c, t)
           \/ \E w \in Workers : Crash(w)
           \/ Tick
  BY DEF Next, WorkerStep, vars, faults, Accept, Record, SendTask, LoseEvent, Move,
         BeatBirthday, Receive, Execute, Greet, EndGreetings, Ack, Redeliver

(* Only these steps touch messages, workers or what they did.              *)
LEMMA WorkersTouched ==
    ASSUME [Next]_vars
    PROVE  \/ /\ UNCHANGED <<broker, workers, tasklog, redeliveries, beats>>
              /\ crashes' = crashes \/ crashes' = crashes + 1
           \/ \E e \in Events : SendTask(e)
           \/ \E c \in Checks, t \in Types : Dispatch(c, t)
           \/ BeatBirthday
           \/ \E w \in Workers, i \in Items : Receive(w, i)
           \/ \E w \in Workers : WorkerStep(w) \/ Crash(w)
           \/ \E i \in Items : Redeliver(i)
  BY DEF Next, vars, faults, Accept, Record, LoseEvent, Insert, CommitRows, AbortRows,
         Move, StartCheck, Select, CommitCheck, AbortCheck, Tick

-----------------------------------------------------------------------------
(* Tasks are kept                                                          *)

(* A task whose message waits or is held, or that has ended, stays so.     *)
LEMMA StaysKept ==
    ASSUME TypeOK, TasksKept, [Next]_vars, NEW i \in Items, Live(i) \/ i \in ended
    PROVE  Live(i)' \/ i \in ended'
  <1>1. broker \in [Items -> Nat] /\ held \in [Workers -> Items \cup {NoItem}]
    BY DEF TypeOK
  <1>2. ASSUME UNCHANGED <<broker, workers, tasklog>>
        PROVE  Live(i)' \/ i \in ended'
    BY <1>2 DEF Live, workers, tasklog
  <1>3. ASSUME NEW j \in Items, Publish(j), UNCHANGED <<held, ended>>
        PROVE  Live(i)' \/ i \in ended'
    <2>1. broker[i] > 0 => broker'[i] > 0
      BY <1>1, <1>3 DEF Publish
    <2> QED
      BY <1>3, <2>1 DEF Live
  <1>4. ASSUME NEW w \in Workers, NEW j \in Items, Receive(w, j)
        PROVE  Live(i)' \/ i \in ended'
    <2>1. CASE i = j
      BY <1>1, <1>4, <2>1 DEF Receive, Live
    <2>2. CASE i # j
      <3>1. broker'[i] = broker[i]
        BY <1>1, <1>4, <2>2 DEF Receive
      <3>2. held[w] # i
        BY <1>4, BirthdayIsItem DEF Receive, TypeOK
      <3>3. \A v \in Workers : held[v] = i => held'[v] = i
        BY <1>1, <1>4, <3>2 DEF Receive
      <3> QED
        BY <1>4, <3>1, <3>3 DEF Receive, Live, tasklog
    <2> QED
      BY <2>1, <2>2
  <1>5. ASSUME NEW w \in Workers, Execute(w) \/ EndGreetings(w)
        PROVE  Live(i)' \/ i \in ended'
    BY <1>5 DEF Execute, EndGreetings, End, Live
  <1>6. ASSUME NEW w \in Workers, NEW c \in Clients, Greet(w, c)
        PROVE  Live(i)' \/ i \in ended'
    BY <1>6 DEF Greet, Live
  <1>7. ASSUME NEW w \in Workers, Ack(w)
        PROVE  Live(i)' \/ i \in ended'
    <2>1. held[w] = i => i \in ended
      BY <1>7 DEF Ack, TasksKept
    <2>2. \A v \in Workers : v # w => held'[v] = held[v]
      BY <1>1, <1>7 DEF Ack
    <2> QED
      BY <1>7, <2>1, <2>2 DEF Ack, Live, tasklog
  <1>8. ASSUME NEW w \in Workers, Crash(w)
        PROVE  Live(i)' \/ i \in ended'
    <2>1. held[w] \in Items
      BY <1>8 DEF Crash, TypeOK
    <2>2. CASE held[w] = i \/ broker[i] > 0
      <3>1. broker'[i] > 0
        BY <1>1, <1>8, <2>1, <2>2 DEF Crash, Requeue, Publish
      <3> QED
        BY <3>1 DEF Live
    <2>3. \A v \in Workers : v # w => held'[v] = held[v]
      BY <1>1, <1>8 DEF Crash
    <2> QED
      BY <1>8, <2>2, <2>3 DEF Crash, Live, tasklog
  <1> QED
    <2>1. ASSUME NEW e \in Events, SendTask(e) PROVE Live(i)' \/ i \in ended'
      BY <1>3, <2>1, BirthdayIsItem DEF SendTask, workers, tasklog
    <2>2. ASSUME NEW c \in Checks, NEW t \in Types, Dispatch(c, t)
          PROVE  Live(i)' \/ i \in ended'
      BY <1>3, <2>2, BirthdayIsItem DEF Dispatch, workers, tasklog
    <2>3. CASE BeatBirthday
      BY <1>3, <2>3, BirthdayIsItem DEF BeatBirthday, workers, tasklog
    <2>4. ASSUME NEW j \in Items, Redeliver(j) PROVE Live(i)' \/ i \in ended'
      BY <1>3, <2>4 DEF Redeliver, workers, tasklog
    <2> QED
      BY <1>2, <1>4, <1>5, <1>6, <1>7, <1>8, <2>1, <2>2, <2>3, <2>4, WorkersTouched
         DEF WorkerStep

(* A published task waits.                                                 *)
LEMMA PublishedLives ==
    ASSUME TypeOK, NEW i \in Items, Publish(i)
    PROVE  Live(i)'
  BY DEF TypeOK, Publish, Live

LEMMA TasksKeptNext ==
    ASSUME TypeOK, TasksKept, [Next]_vars
    PROVE  TasksKept'
  <1>1. ASSUME NEW i \in Items, Live(i) \/ i \in ended
        PROVE  Live(i)' \/ i \in ended'
    BY <1>1, StaysKept
  <1>2. \A e \in Events : stage'[e] \in {"recorded", "published"} => e \in queued_row'
    BY DEF TypeOK, TasksKept, Next, WorkerStep, vars, webhook, Accept, Record, SendTask,
           LoseEvent, Insert, CommitRows, AbortRows, Move, StartCheck, Select, Dispatch, CommitCheck,
           AbortCheck, BeatBirthday, Receive, Execute, Greet, EndGreetings, Ack,
           Crash, Redeliver, Tick
  <1>3. ASSUME NEW e \in Events, stage'[e] = "published"
        PROVE  Live(e)' \/ e \in ended'
    <2>1. CASE stage[e] = "published"
      BY <1>1, <2>1, BirthdayIsItem DEF TasksKept
    <2>2. CASE stage[e] # "published"
      <3>1. SendTask(e)
        BY <1>3, <2>2
           DEF TypeOK, Next, WorkerStep, vars, webhook, Accept, Record, SendTask,
               LoseEvent, Insert, CommitRows, AbortRows, Move, StartCheck, Select, Dispatch, CommitCheck,
               AbortCheck, BeatBirthday, Receive, Execute, Greet, EndGreetings, Ack,
               Crash, Redeliver, Tick
      <3> QED
        BY <3>1, PublishedLives, BirthdayIsItem DEF SendTask
    <2> QED
      BY <2>1, <2>2
  <1>4. ASSUME NEW w \in Workers, pc'[w] = "ack" PROVE held'[w] \in ended'
    BY <1>4 DEF TypeOK, TasksKept, Next, WorkerStep, vars, workers, tasklog, Accept,
           Record, SendTask, LoseEvent, Insert, CommitRows, AbortRows, Move, StartCheck, Select, Dispatch,
           CommitCheck, AbortCheck, BeatBirthday, Receive, Execute, Greet,
           EndGreetings, End, Ack, Crash, Redeliver, Tick
  <1>5. ASSUME NEW t \in Types, row'[t] = "sent" \/ \E c \in Checks : t \in marked'[c]
        PROVE  Live(t)' \/ t \in ended'
    <2>1. CASE row[t] = "sent" \/ \E c \in Checks : t \in marked[c]
      BY <1>1, <2>1, BirthdayIsItem DEF TasksKept
    <2>2. ASSUME NEW c \in Checks, Dispatch(c, t)
          PROVE  Live(t)' \/ t \in ended'
      BY <2>2, PublishedLives, BirthdayIsItem DEF Dispatch
    <2>3. \/ row[t] = "sent" \/ \E c \in Checks : t \in marked[c]
          \/ \E c \in Checks : Dispatch(c, t)
      <3>1. CASE UNCHANGED <<now, reminders, checks, checklog, crashes>>
        BY <1>5, <3>1 DEF reminders, checks
      <3>2. CASE CommitRows \/ AbortRows \/ \E s \in Types : Insert(s)
        BY <1>5, <3>2 DEF CommitRows, AbortRows, Insert, checks, TypeOK
      <3>3. ASSUME NEW c \in Checks,
                   StartCheck(c) \/ Select(c) \/ CommitCheck(c) \/ AbortCheck(c)
            PROVE  row[t] = "sent" \/ \E d \in Checks : t \in marked[d]
        BY <1>5, <3>3
           DEF TypeOK, StartCheck, Select, CommitCheck, AbortCheck, StopCheck, reminders
      <3>4. ASSUME NEW c \in Checks, NEW s \in Types, Dispatch(c, s)
            PROVE  \/ row[t] = "sent" \/ \E d \in Checks : t \in marked[d]
                   \/ Dispatch(c, t)
        BY <1>5, <3>4 DEF TypeOK, Dispatch, reminders
      <3>5. CASE Tick \/ \E w \in Workers : Crash(w)
        BY <1>5, <3>5 DEF Tick, Crash, reminders, checks
      <3> QED
        BY <3>1, <3>2, <3>3, <3>4, <3>5, ChecksTouched
    <2> QED
      BY <2>1, <2>2, <2>3
  <1> QED
    BY <1>2, <1>3, <1>4, <1>5 DEF TasksKept

-----------------------------------------------------------------------------
(* Reminders                                                               *)

LEMMA ClocksPastNext ==
    ASSUME TypeOK, ClocksPast, [Next]_vars
    PROVE  ClocksPast'
  <1>1. /\ now \in Nat /\ cnow \in [Checks -> Nat] /\ checked \in Nat
    BY DEF TypeOK
  <1>2. ASSUME NEW c \in Checks, StartCheck(c) PROVE ClocksPast'
    BY <1>1, <1>2 DEF ClocksPast, StartCheck
  <1>3. ASSUME NEW c \in Checks, Select(c) \/ \E t \in Types : Dispatch(c, t)
        PROVE  ClocksPast'
    BY <1>3 DEF ClocksPast, Select, Dispatch, checklog
  <1>4. ASSUME NEW c \in Checks, CommitCheck(c) \/ AbortCheck(c)
        PROVE  ClocksPast'
    BY <1>1, <1>4 DEF ClocksPast, CommitCheck, AbortCheck, StopCheck, checklog
  <1>5. CASE Tick
    BY <1>1, <1>5 DEF ClocksPast, Tick, checks, checklog
  <1>6. CASE \/ UNCHANGED <<now, reminders, checks, checklog, crashes>>
             \/ CommitRows \/ AbortRows \/ \E t \in Types : Insert(t)
             \/ \E w \in Workers : Crash(w)
    BY <1>6 DEF ClocksPast, checks, checklog, CommitRows, AbortRows, Insert, Crash
  <1> QED
    BY <1>2, <1>3, <1>4, <1>5, <1>6, ChecksTouched

LEMMA CountedOnceNext ==
    ASSUME TypeOK, CountedOnce, [Next]_vars
    PROVE  CountedOnce'
  <1>1. /\ published \in [Types -> Nat] /\ crashes \in Nat
        /\ picked \in [Checks -> SUBSET Types] /\ marked \in [Checks -> SUBSET Types]
        /\ cpc \in [Checks -> {"idle", "select", "loop"}]
        /\ row \in [Types -> {"none", "inserted", "pending", "sent"}]
        /\ \A c \in Checks : cpc[c] # "loop" => picked[c] = {} /\ marked[c] = {}
    BY DEF TypeOK
  <1>2. CASE UNCHANGED <<now, reminders, checks, checklog, crashes>>
    BY <1>2 DEF CountedOnce, reminders, checks, checklog
  <1>3. CASE CommitRows \/ AbortRows \/ \E t \in Types : Insert(t)
    <2>1. /\ \A t \in Types :
               row'[t] = row[t] \/ (row[t] \in {"none", "inserted"} /\ row'[t] # "sent")
          /\ UNCHANGED <<cpc, picked, marked, published, overlapped>>
          /\ crashes' = crashes \/ crashes' = crashes + 1
      BY <1>1, <1>3
         DEF CommitRows, AbortRows, Insert, Inserted, checks, checklog, faults
    <2> SUFFICES ASSUME ~overlapped PROVE CountedOnce'
      BY <2>1 DEF CountedOnce
    <2>2. \A t \in Types : published'[t] <= 1 + crashes'
      BY <1>1, <2>1 DEF CountedOnce
    <2>3. \A t \in Types :
            row'[t] # "sent" /\ (\A c \in Checks : t \notin marked'[c])
              => published'[t] <= crashes'
      BY <1>1, <2>1 DEF CountedOnce
    <2>4. \A c \in Checks : \A t \in picked'[c] :
            row'[t] = "pending" /\ t \notin marked'[c]
      BY <1>1, <2>1 DEF CountedOnce
    <2> QED
      BY <2>1, <2>2, <2>3, <2>4 DEF CountedOnce
  <1>4. ASSUME NEW c \in Checks, StartCheck(c) PROVE CountedOnce'
    BY <1>1, <1>4 DEF CountedOnce, StartCheck, reminders, faults
  <1>5. ASSUME NEW c \in Checks, Select(c) PROVE CountedOnce'
    <2> SUFFICES ASSUME ~overlapped PROVE CountedOnce'
      BY <1>5 DEF CountedOnce, Select, checklog
    <2>1. /\ \A d \in Checks : cpc'[d] # "idle" => cpc[d] # "idle"
          /\ \A d \in Checks : d # c => picked'[d] = picked[d]
          /\ \A t \in picked'[c] : row[t] = "pending"
          /\ marked[c] = {}
          /\ UNCHANGED <<row, marked, published, crashes>>
      BY <1>1, <1>5 DEF Select, Due, reminders, checklog, faults
    <2> QED
      BY <1>1, <2>1 DEF CountedOnce
  <1>6. ASSUME NEW c \in Checks, NEW t \in Types, Dispatch(c, t) PROVE CountedOnce'
    <2> SUFFICES ASSUME ~overlapped PROVE CountedOnce'
      BY <1>6 DEF CountedOnce, Dispatch
    <2>1. /\ cpc[c] = "loop"
          /\ row[t] = "pending" /\ t \notin marked[c]
          /\ \A d \in Checks : d # c => picked[d] = {} /\ marked[d] = {}
      BY <1>1, <1>6 DEF Dispatch, CountedOnce
    <2>2. published[t] <= crashes
      BY <2>1 DEF CountedOnce
    <2>3. /\ picked' = [picked EXCEPT ![c] = @ \ {t}]
          /\ marked' = [marked EXCEPT ![c] = @ \cup {t}]
          /\ published' = [published EXCEPT ![t] = @ + 1]
          /\ UNCHANGED <<row, cpc, crashes>>
      BY <1>6 DEF Dispatch, reminders, faults
    <2>4. \A s \in Types : /\ published'[s] <= 1 + crashes
                           /\ s # t => published'[s] = published[s]
      BY <1>1, <2>2, <2>3 DEF CountedOnce
    <2>5. /\ \A d \in Checks : d # c => picked'[d] = picked[d] /\ marked'[d] = marked[d]
          /\ picked'[c] = picked[c] \ {t}
          /\ marked'[c] = marked[c] \cup {t}
      BY <1>1, <2>3
    <2> QED
      BY <2>1, <2>3, <2>4, <2>5 DEF CountedOnce
  <1>7. ASSUME NEW c \in Checks, CommitCheck(c) PROVE CountedOnce'
    <2> SUFFICES ASSUME ~overlapped PROVE CountedOnce'
      BY <1>7 DEF CountedOnce, CommitCheck
    <2>1. \A d \in Checks : d # c => picked[d] = {} /\ marked[d] = {}
      BY <1>1, <1>7 DEF CommitCheck, CountedOnce
    <2>2. /\ \A t \in Types : row'[t] = IF t \in marked[c] THEN "sent" ELSE row[t]
          /\ \A d \in Checks : /\ picked'[d] = {} /\ marked'[d] = {}
                               /\ cpc'[d] # "idle" => cpc[d] # "idle"
          /\ UNCHANGED <<published, crashes>>
      BY <1>1, <1>7, <2>1 DEF CommitCheck, StopCheck, faults
    <2>3. \A t \in Types : row'[t] # "sent" =>
                            row[t] # "sent" /\ \A d \in Checks : t \notin marked[d]
      BY <2>1, <2>2
    <2>4. \A d, e \in Checks : cpc'[d] # "idle" /\ cpc'[e] # "idle" => d = e
      BY <1>1, <2>2 DEF CountedOnce
    <2>5. \A t \in Types : /\ published'[t] <= 1 + crashes'
                           /\ row'[t] # "sent" => published'[t] <= crashes'
      BY <1>1, <2>2, <2>3 DEF CountedOnce
    <2> QED
      BY <1>1, <2>2, <2>4, <2>5 DEF CountedOnce
  <1>8. ASSUME NEW c \in Checks, AbortCheck(c) PROVE CountedOnce'
    <2> SUFFICES ASSUME ~overlapped PROVE CountedOnce'
      BY <1>8 DEF CountedOnce, AbortCheck, checklog
    <2>1. /\ \A d \in Checks : /\ picked'[d] \subseteq picked[d]
                               /\ marked'[d] \subseteq marked[d]
                               /\ cpc'[d] # "idle" => cpc[d] # "idle"
          /\ crashes' = crashes + 1
          /\ UNCHANGED <<row, published>>
      BY <1>1, <1>8 DEF AbortCheck, StopCheck, reminders, checklog
    <2>2. \A t \in Types : published[t] <= 1 + crashes
      BY DEF CountedOnce
    <2>3. \A t \in Types : published'[t] <= crashes' /\ published'[t] <= 1 + crashes'
      BY <1>1, <2>1, <2>2
    <2>4. \A d, e \in Checks : cpc'[d] # "idle" /\ cpc'[e] # "idle" => d = e
      BY <1>1, <2>1 DEF CountedOnce
    <2>5. \A d \in Checks : \A t \in picked'[d] : row'[t] = "pending" /\ t \notin marked'[d]
      BY <1>1, <2>1 DEF CountedOnce
    <2> QED
      BY <1>1, <2>3, <2>4, <2>5 DEF CountedOnce
  <1>9. ASSUME NEW w \in Workers, Crash(w) PROVE CountedOnce'
    <2>1. /\ crashes' = crashes + 1
          /\ UNCHANGED <<row, cpc, picked, marked, published, overlapped>>
      BY <1>9 DEF Crash, reminders, checks, checklog
    <2> QED
      BY <1>1, <2>1 DEF CountedOnce
  <1>10. CASE Tick
    BY <1>10 DEF CountedOnce, Tick, reminders, checks, checklog, faults
  <1> QED
    BY <1>2, <1>3, <1>4, <1>5, <1>6, <1>7, <1>8, <1>9, <1>10, ChecksTouched

LEMMA WindowsCoverNext ==
    ASSUME TypeOK, ClocksPast, WindowsCover, [Next]_vars
    PROVE  WindowsCover'
  <1>1. /\ now \in Nat /\ checked \in Nat /\ gap \in Nat /\ Half \in Nat
        /\ due \in [Types -> Nat] /\ cnow \in [Checks -> Nat]
        /\ cpc \in [Checks -> {"idle", "select", "loop"}]
        /\ picked \in [Checks -> SUBSET Types] /\ marked \in [Checks -> SUBSET Types]
        /\ row \in [Types -> {"none", "inserted", "pending", "sent"}]
        /\ Before \in [Types -> Nat] /\ at \in Nat
    BY TaskAssumption DEF TypeOK
  <1>2. CASE \/ UNCHANGED <<now, reminders, checks, checklog, crashes>>
             \/ Tick \/ \E w \in Workers : Crash(w)
    BY <1>2 DEF WindowsCover, reminders, checks, checklog, Tick, Crash
  \* What is committed before it is due, is due no earlier than any clock
  \* reading.
  <1>3. CASE CommitRows \/ AbortRows \/ \E t \in Types : Insert(t)
    <2>1. \A t \in Types :
            row'[t] = "pending" /\ t \notin late' =>
              \/ row[t] = "pending" /\ t \notin late /\ due'[t] = due[t]
              \/ due'[t] \in Nat /\ now <= due'[t]
      BY <1>1, <1>3 DEF CommitRows, AbortRows, Insert, Inserted
    <2>2. UNCHANGED <<checked, gap, cpc, cnow, picked, marked>>
      BY <1>3 DEF CommitRows, AbortRows, Insert, checks, checklog
    <2>3. /\ \A t \in Types : due'[t] \in Nat /\ now <= due'[t] => checked <= due'[t]
          /\ \A c \in Checks, t \in Types :
               due'[t] \in Nat /\ now <= due'[t] => ~(due'[t] < cnow[c])
      BY <1>1 DEF ClocksPast
    <2> QED
      BY <2>1, <2>2, <2>3 DEF WindowsCover
  <1>4. ASSUME NEW c \in Checks, StartCheck(c) PROVE WindowsCover'
    <2>1. /\ \A d \in Checks : cpc'[d] = "loop" =>
                 cpc[d] = "loop" /\ cnow'[d] = cnow[d]
          /\ UNCHANGED <<row, due, late, picked, marked, checked, gap>>
      BY <1>1, <1>4 DEF StartCheck, reminders
    <2> QED
      BY <2>1 DEF WindowsCover
  \* A check that read the clock after a reminder fell due selects it.
  <1>5. ASSUME NEW c \in Checks, Select(c) PROVE WindowsCover'
    <2>1. /\ UNCHANGED <<row, due, late, cnow, marked, checked, gap>>
          /\ \A d \in Checks : d # c => cpc'[d] = cpc[d] /\ picked'[d] = picked[d]
          /\ picked'[c] = Due(cnow[c])
      BY <1>1, <1>5 DEF Select, reminders, checklog
    <2>2. \A t \in Types :
            row[t] = "pending" /\ due[t] < cnow[c] /\ cnow[c] <= due[t] + Half
              => t \in Due(cnow[c])
      BY <1>1 DEF Due
    <2> QED
      BY <2>1, <2>2 DEF WindowsCover
  <1>6. ASSUME NEW c \in Checks, NEW s \in Types, Dispatch(c, s) PROVE WindowsCover'
    <2>1. /\ UNCHANGED <<row, due, late, cpc, cnow, checked, gap>>
          /\ \A d \in Checks : picked[d] \cup marked[d] \subseteq picked'[d] \cup marked'[d]
      BY <1>1, <1>6 DEF Dispatch, reminders
    <2> QED
      BY <2>1 DEF WindowsCover
  <1>7. ASSUME NEW c \in Checks, CommitCheck(c) PROVE WindowsCover'
    <2>1. /\ cpc[c] = "loop" /\ picked[c] = {}
          /\ \A t \in Types : row'[t] = "pending" => row[t] = "pending" /\ t \notin marked[c]
          /\ due' = due /\ late' = late
          /\ \A d \in Checks : cpc'[d] = "loop" =>
               /\ cpc[d] = "loop"
               /\ cnow'[d] = cnow[d] /\ picked'[d] = picked[d] /\ marked'[d] = marked[d]
      BY <1>1, <1>7 DEF CommitCheck, StopCheck
    <2>2. ASSUME gap' <= Half, NEW t \in Types, row'[t] = "pending", t \notin late'
          PROVE  checked' <= due'[t]
      <3>1. ~(due[t] < cnow[c] /\ cnow[c] <= due[t] + Half)
        BY <2>1, <2>2 DEF WindowsCover
      <3>2. CASE cnow[c] > checked
        <4>1. /\ checked' = cnow[c]
              /\ gap <= Half /\ cnow[c] - checked <= Half
          BY <1>1, <1>7, <2>2, <3>2 DEF CommitCheck
        <4>2. checked <= due[t]
          BY <2>1, <2>2, <4>1 DEF WindowsCover
        <4>3. cnow[c] <= due[t]
          BY <1>1, <3>1, <4>1, <4>2
        <4> QED
          BY <2>1, <4>1, <4>3
      <3>3. CASE ~(cnow[c] > checked)
        BY <1>7, <2>1, <2>2, <3>3 DEF CommitCheck, WindowsCover
      <3> QED
        BY <3>2, <3>3
    <2> QED
      BY <2>1, <2>2 DEF WindowsCover
  <1>8. ASSUME NEW c \in Checks, AbortCheck(c) PROVE WindowsCover'
    <2>1. /\ UNCHANGED <<row, due, late, checked, gap>>
          /\ \A d \in Checks : cpc'[d] = "loop" =>
               /\ cpc[d] = "loop"
               /\ cnow'[d] = cnow[d] /\ picked'[d] = picked[d] /\ marked'[d] = marked[d]
      BY <1>1, <1>8 DEF AbortCheck, StopCheck, reminders, checklog
    <2> QED
      BY <2>1 DEF WindowsCover
  <1> QED
    BY <1>2, <1>3, <1>4, <1>5, <1>6, <1>7, <1>8, ChecksTouched

-----------------------------------------------------------------------------
(* Greetings                                                               *)

LEMMA GreetersFinite == \A c : IsFiniteSet(Greeters(c))
  BY TaskAssumption, FS_Subset DEF Greeters

(* The counters this invariant adds and compares.                          *)
LEMMA CountersAreNumbers ==
    ASSUME TypeOK
    PROVE  /\ broker \in [Items -> Nat] /\ broker[Birthday] \in Nat
           /\ greeted \in [Clients -> Nat]
           /\ beats \in Nat /\ crashes \in Nat /\ redeliveries \in Nat
           /\ \A c : Cardinality(Greeters(c)) \in Nat
  BY BirthdayIsItem, GreetersFinite, FS_CardinalityType DEF TypeOK

(* A step that adds no run with a client to come, and to the messages and  *)
(* greetings no more than to the occasions, keeps the count.               *)
LEMMA CountKept ==
    ASSUME TypeOK, TypeOK', GreetingsCounted, NEW c \in Clients,
           Greeters(c)' \subseteq Greeters(c),
           greeted'[c] + broker'[Birthday] - greeted[c] - broker[Birthday]
             <= beats' + crashes' + redeliveries' - beats - crashes - redeliveries
    PROVE  greeted'[c] + broker'[Birthday] + Cardinality(Greeters(c)')
             <= beats' + crashes' + redeliveries'
  <1>1. Cardinality(Greeters(c)') <= Cardinality(Greeters(c))
    BY GreetersFinite, FS_Subset
  <1>2. /\ greeted[c] \in Nat /\ broker[Birthday] \in Nat
        /\ beats \in Nat /\ crashes \in Nat /\ redeliveries \in Nat
        /\ greeted'[c] \in Nat /\ broker'[Birthday] \in Nat
        /\ beats' \in Nat /\ crashes' \in Nat /\ redeliveries' \in Nat
    BY BirthdayIsItem DEF TypeOK
  <1>3. IsFiniteSet(Greeters(c)')
    BY <1>1, GreetersFinite, FS_Subset
  <1>4. Cardinality(Greeters(c)) \in Nat /\ Cardinality(Greeters(c)') \in Nat
    BY <1>3, GreetersFinite, FS_CardinalityType
  <1>5. greeted[c] + broker[Birthday] + Cardinality(Greeters(c))
          <= beats + crashes + redeliveries
    BY DEF GreetingsCounted
  <1> QED
    BY <1>1, <1>2, <1>4, <1>5

LEMMA GreetingsCountedNext ==
    ASSUME TypeOK, TypeOK', GreetingsCounted, [Next]_vars
    PROVE  GreetingsCounted'
  <1>0. /\ held \in [Workers -> Items \cup {NoItem}]
        /\ pc \in [Workers -> {"idle", "run", "greet", "ack"}]
        /\ todo \in [Workers -> SUBSET Clients]
        /\ Birthday \in Items /\ Birthday # NoItem
        /\ \A w \in Workers : pc[w] = "greet" => held[w] = Birthday
    BY BirthdayIsItem DEF TypeOK, GreetingsCounted
  \* The workers do not change.
  <1>1. ASSUME UNCHANGED <<workers, tasklog>>,
               broker'[Birthday] - broker[Birthday]
                 <= beats' + crashes' + redeliveries' - beats - crashes - redeliveries
        PROVE  GreetingsCounted'
    <2>1. \A c : Greeters(c)' = Greeters(c)
      BY <1>1 DEF Greeters, workers
    <2>2. \A c \in Clients :
            greeted'[c] + broker'[Birthday] - greeted[c] - broker[Birthday]
              <= beats' + crashes' + redeliveries' - beats - crashes - redeliveries
      BY <1>1, CountersAreNumbers, BirthdayIsItem DEF TypeOK, tasklog
    <2>3. \A w \in Workers : pc'[w] = "greet" => held'[w] = Birthday
      BY <1>0, <1>1 DEF workers
    <2> QED
      BY <2>1, <2>2, <2>3, CountKept DEF GreetingsCounted
  <1>2. ASSUME NEW i \in Items, i # Birthday, Publish(i), UNCHANGED <<workers, tasklog>>,
               beats + crashes + redeliveries <= beats' + crashes' + redeliveries'
        PROVE  GreetingsCounted'
    <2>1. broker'[Birthday] = broker[Birthday]
      BY <1>0, <1>2, CountersAreNumbers DEF Publish
    <2>2. beats' \in Nat /\ crashes' \in Nat /\ redeliveries' \in Nat
      BY DEF TypeOK
    <2>3. broker'[Birthday] - broker[Birthday]
            <= beats' + crashes' + redeliveries' - beats - crashes - redeliveries
      BY <1>2, <2>1, <2>2, CountersAreNumbers
    <2> QED
      BY <1>1, <1>2, <2>3
  \* A waiting message becomes a run.
  <1>3. ASSUME NEW w \in Workers, NEW i \in Items, Receive(w, i)
        PROVE  GreetingsCounted'
    <2>1. /\ UNCHANGED <<greeted, beats, crashes, redeliveries>>
          /\ pc[w] = "idle" /\ held' = [held EXCEPT ![w] = i]
          /\ \A v \in Workers : v # w => pc'[v] = pc[v] /\ todo'[v] = todo[v]
          /\ pc'[w] = "greet" => i = Birthday
          /\ broker' = [broker EXCEPT ![i] = @ - 1]
      BY <1>0, <1>3 DEF Receive, tasklog, faults
    <2>2. \A v \in Workers : pc'[v] = "greet" => held'[v] = Birthday
      BY <1>0, <2>1
    <2>3. CASE i = Birthday
      <3>1. broker'[Birthday] = broker[Birthday] - 1
        BY <1>0, <2>1, <2>3, CountersAreNumbers
      <3>2. ASSUME NEW c \in Clients
            PROVE  greeted'[c] + broker'[Birthday] + Cardinality(Greeters(c)')
                     <= beats' + crashes' + redeliveries'
        <4>1. Greeters(c)' \subseteq Greeters(c) \cup {w}
          BY <2>1 DEF Greeters
        <4>2. w \notin Greeters(c)
          BY <2>1 DEF Greeters
        <4>3. Cardinality(Greeters(c) \cup {w}) = Cardinality(Greeters(c)) + 1
          BY <4>2, GreetersFinite, FS_AddElement
        <4>4. IsFiniteSet(Greeters(c) \cup {w})
          BY GreetersFinite, FS_AddElement
        <4>5. /\ Cardinality(Greeters(c)') <= Cardinality(Greeters(c)) + 1
              /\ Cardinality(Greeters(c)') \in Nat
          BY <4>1, <4>3, <4>4, FS_Subset, FS_CardinalityType
        <4>6. greeted[c] + broker[Birthday] + Cardinality(Greeters(c))
                <= beats + crashes + redeliveries
          BY DEF GreetingsCounted
        <4>7. /\ greeted[c] \in Nat /\ broker[Birthday] \in Nat
              /\ Cardinality(Greeters(c)) \in Nat
              /\ beats \in Nat /\ crashes \in Nat /\ redeliveries \in Nat
          BY CountersAreNumbers
        <4> QED
          BY <2>1, <3>1, <4>5, <4>6, <4>7
      <3> QED
        BY <2>2, <3>2 DEF GreetingsCounted
    <2>4. CASE i # Birthday
      <3>1. broker'[Birthday] = broker[Birthday]
        BY <1>0, <2>1, <2>4, CountersAreNumbers
      <3>2. \A c : Greeters(c)' \subseteq Greeters(c)
        BY <2>1, <2>4 DEF Greeters
      <3>3. \A c \in Clients :
              greeted'[c] + broker'[Birthday] - greeted[c] - broker[Birthday]
                <= beats' + crashes' + redeliveries' - beats - crashes - redeliveries
        BY <2>1, <3>1, CountersAreNumbers
      <3> QED
        BY <2>2, <3>2, <3>3, CountKept DEF GreetingsCounted
    <2> QED
      BY <2>3, <2>4
  <1>4. ASSUME NEW w \in Workers, Execute(w) \/ EndGreetings(w) \/ Ack(w)
        PROVE  GreetingsCounted'
    <2>1. /\ UNCHANGED <<broker, greeted, beats, crashes, redeliveries>>
          /\ pc'[w] # "greet"
          /\ \A v \in Workers : v # w => /\ pc'[v] = pc[v] /\ todo'[v] = todo[v]
                                        /\ held'[v] = held[v]
      BY <1>0, <1>4 DEF Execute, EndGreetings, Ack, End, tasklog, faults
    <2>2. \A c : Greeters(c)' \subseteq Greeters(c)
      BY <2>1 DEF Greeters
    <2>3. \A c \in Clients :
            greeted'[c] + broker'[Birthday] - greeted[c] - broker[Birthday]
              <= beats' + crashes' + redeliveries' - beats - crashes - redeliveries
      BY <2>1, CountersAreNumbers
    <2>4. \A v \in Workers : pc'[v] = "greet" => held'[v] = Birthday
      BY <1>0, <2>1
    <2> QED
      BY <2>2, <2>3, <2>4, CountKept DEF GreetingsCounted
  \* The client that is greeted is no longer to come in this run.
  <1>5. ASSUME NEW w \in Workers, NEW d \in Clients, Greet(w, d)
        PROVE  GreetingsCounted'
    <2>1. /\ pc[w] = "greet" /\ d \in todo[w]
          /\ todo' = [todo EXCEPT ![w] = @ \ {d}]
          /\ UNCHANGED <<broker, held, pc, beats, crashes, redeliveries>>
          /\ greeted'[d] <= greeted[d] + 1
          /\ \A c \in Clients : c # d => greeted'[c] = greeted[c]
      BY <1>5, CountersAreNumbers DEF Greet, faults
    <2>2. ASSUME NEW c \in Clients
          PROVE  greeted'[c] + broker'[Birthday] + Cardinality(Greeters(c)')
                   <= beats' + crashes' + redeliveries'
      <3>1. CASE c # d
        <4>1. Greeters(c)' \subseteq Greeters(c)
          BY <1>0, <2>1 DEF Greeters
        <4> QED
          BY <2>1, <3>1, <4>1, CountKept, CountersAreNumbers
      <3>2. CASE c = d
        <4>1. w \in Greeters(c) /\ Greeters(c)' = Greeters(c) \ {w}
          BY <1>0, <2>1, <3>2 DEF Greeters
        <4>2. Cardinality(Greeters(c)') = Cardinality(Greeters(c)) - 1
          BY <4>1, GreetersFinite, FS_RemoveElement
        <4>3. greeted[c] + broker[Birthday] + Cardinality(Greeters(c))
                <= beats + crashes + redeliveries
          BY DEF GreetingsCounted
        <4>4. /\ greeted[c] \in Nat /\ greeted'[c] \in Nat /\ broker[Birthday] \in Nat
              /\ Cardinality(Greeters(c)) \in Nat
              /\ beats \in Nat /\ crashes \in Nat /\ redeliveries \in Nat
          BY CountersAreNumbers DEF TypeOK
        <4> QED
          BY <2>1, <3>2, <4>2, <4>3, <4>4
      <3> QED
        BY <3>1, <3>2
    <2>3. \A v \in Workers : pc'[v] = "greet" => held'[v] = Birthday
      BY <1>0, <2>1
    <2> QED
      BY <2>2, <2>3 DEF GreetingsCounted
  <1>6. ASSUME NEW w \in Workers, Crash(w) PROVE GreetingsCounted'
    <2>1. /\ UNCHANGED <<greeted, beats, redeliveries>>
          /\ crashes' = crashes + 1
          /\ held[w] \in Items
          /\ pc'[w] = "idle"
          /\ \A v \in Workers :
               v # w => held'[v] = held[v] /\ pc'[v] = pc[v] /\ todo'[v] = todo[v]
          /\ broker' = [broker EXCEPT ![held[w]] = @ + 1]
      BY <1>0, <1>6 DEF Crash, Requeue, Publish, TypeOK, tasklog
    <2>2. \A c : Greeters(c)' \subseteq Greeters(c)
      BY <2>1 DEF Greeters
    <2>3. broker'[Birthday] <= broker[Birthday] + 1
      BY <1>0, <2>1, CountersAreNumbers
    <2>4. broker'[Birthday] \in Nat
      BY BirthdayIsItem DEF TypeOK
    <2>5. \A c \in Clients :
            greeted'[c] + broker'[Birthday] - greeted[c] - broker[Birthday]
              <= beats' + crashes' + redeliveries' - beats - crashes - redeliveries
      BY <2>1, <2>3, <2>4, CountersAreNumbers
    <2>6. \A v \in Workers : pc'[v] = "greet" => held'[v] = Birthday
      BY <1>0, <2>1
    <2> QED
      BY <2>2, <2>5, <2>6, CountKept DEF GreetingsCounted
  <1>7. ASSUME NEW i \in Items, Redeliver(i) PROVE GreetingsCounted'
    <2>1. /\ redeliveries' = redeliveries + 1
          /\ UNCHANGED <<workers, tasklog, crashes, beats>>
          /\ broker'[Birthday] <= broker[Birthday] + 1 /\ broker'[Birthday] \in Nat
      BY <1>0, <1>7, CountersAreNumbers, BirthdayIsItem DEF Redeliver, Publish, TypeOK
    <2> QED
      BY <1>1, <2>1, CountersAreNumbers
  <1>8. CASE BeatBirthday
    <2>1. /\ beats' = beats + 1
          /\ UNCHANGED <<workers, tasklog, crashes, redeliveries>>
          /\ broker'[Birthday] = broker[Birthday] + 1
      BY <1>0, <1>8, CountersAreNumbers DEF BeatBirthday, Publish
    <2> QED
      BY <1>1, <2>1, CountersAreNumbers
  <1>9. ASSUME NEW e \in Events, SendTask(e) PROVE GreetingsCounted'
    BY <1>2, <1>9, TaskAssumption, BirthdayIsItem, CountersAreNumbers
       DEF SendTask, faults
  <1>10. ASSUME NEW c \in Checks, NEW t \in Types, Dispatch(c, t)
         PROVE  GreetingsCounted'
    BY <1>2, <1>10, TaskAssumption, BirthdayIsItem, CountersAreNumbers
       DEF Dispatch, faults
  <1>11. CASE /\ UNCHANGED <<broker, workers, tasklog, redeliveries, beats>>
              /\ crashes' = crashes \/ crashes' = crashes + 1
    BY <1>1, <1>11, CountersAreNumbers
  <1> QED
    BY <1>3, <1>4, <1>5, <1>6, <1>7, <1>8, <1>9, <1>10, <1>11, WorkersTouched
       DEF WorkerStep

-----------------------------------------------------------------------------
(* The invariant                                                           *)

Inv == TypeOK /\ ClocksPast /\ TasksKept /\ CountedOnce /\ WindowsCover /\ GreetingsCounted

LEMMA InvInit == Init => Inv
  <1> SUFFICES ASSUME Init PROVE Inv
    OBVIOUS
  <1>1. TypeOK
    BY TypeInit
  <1>2. ClocksPast
    BY DEF Init, ClocksPast
  <1>3. TasksKept
    BY DEF Init, TasksKept
  <1>4. CountedOnce
    BY DEF Init, CountedOnce
  <1>5. WindowsCover
    BY DEF Init, WindowsCover
  <1>6. GreetingsCounted
    <2>1. \A c \in Clients : Greeters(c) = {}
      BY DEF Init, Greeters
    <2>2. Cardinality({}) = 0
      BY FS_EmptySet
    <2> QED
      BY <2>1, <2>2, BirthdayIsItem DEF Init, GreetingsCounted
  <1> QED
    BY <1>1, <1>2, <1>3, <1>4, <1>5, <1>6 DEF Inv

LEMMA InvHolds == Spec => []Inv
  <1>1. Inv /\ [Next]_vars => Inv'
    BY TypeNext, ClocksPastNext, TasksKeptNext, CountedOnceNext, WindowsCoverNext,
       GreetingsCountedNext
       DEF Inv
  <1> QED
    BY InvInit, <1>1, PTL DEF Spec

-----------------------------------------------------------------------------
(* What follows                                                            *)

(* Every variable keeps its shape: an idle worker holds no task, and only  *)
(* a check that selected reminders has any.                                *)
THEOREM PlainTypeCorrect == Spec => []TypeOK
  <1>1. Inv => TypeOK
    BY DEF Inv
  <1> QED
    BY InvHolds, <1>1, PTL

(* The webhook's task and the task of a reminder marked sent, published    *)
(* before or after their rows: late acknowledgement and the return of a    *)
(* dead worker's message keep them until a run came to its end.            *)
THEOREM NoneLost == Spec => []PublishedIsRun
  <1>1. Inv => PublishedIsRun
    BY DEF Inv, TasksKept, PublishedIsRun
  <1> QED
    BY InvHolds, <1>1, PTL

(* check_reminders: publishing before the commit costs at most one more    *)
(* copy of a reminder for each crash, unless two checks overlap.           *)
THEOREM RepeatsAreBounded == Spec => []RepeatsBounded
  <1>1. Inv => RepeatsBounded
    BY DEF Inv, CountedOnce, RepeatsBounded
  <1> QED
    BY InvHolds, <1>1, PTL

(* check_reminders: for every window and lead time, while checks succeed   *)
(* at most half a window apart, no reminder whose row was committed before *)
(* it fell due waits longer than for the first of them after that.         *)
THEOREM NoReminderMissed == Spec => []NoneMissed
  <1>1. Inv => NoneMissed
    BY DEF Inv, WindowsCover, NoneMissed
  <1> QED
    BY InvHolds, <1>1, PTL

(* send_birthday_greetings: nothing records a greeting, so a client is     *)
(* greeted at most once for each message of the day that beat published,   *)
(* a lost worker returned or the visibility timeout delivered again.       *)
THEOREM GreetingsAreBounded == Spec => []GreetingsBounded
  <1>1. Inv => GreetingsBounded
    <2> SUFFICES ASSUME Inv, NEW c \in Clients
                 PROVE  greeted[c] <= beats + crashes + redeliveries
      BY DEF GreetingsBounded
    <2>1. /\ greeted[c] \in Nat /\ broker[Birthday] \in Nat
          /\ beats \in Nat /\ crashes \in Nat /\ redeliveries \in Nat
      BY BirthdayIsItem DEF Inv, TypeOK
    <2>2. Cardinality(Greeters(c)) \in Nat
      BY GreetersFinite, FS_CardinalityType
    <2>3. greeted[c] + broker[Birthday] + Cardinality(Greeters(c))
            <= beats + crashes + redeliveries
      BY DEF Inv, GreetingsCounted
    <2> QED
      BY <2>1, <2>2, <2>3
  <1> QED
    BY InvHolds, <1>1, PTL
=============================================================================
