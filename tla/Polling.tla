------------------------------ MODULE Polling -------------------------------
(***************************************************************************)
(* poll_yclients (app/tasks/scheduler_tasks.py): beat publishes a poll     *)
(* every polling interval, and a worker runs it at any later time.  A poll *)
(* asks YClients for the records modified in a window that ends now and    *)
(* reaches back an interval and a little more, and publishes one           *)
(* send_notification_task for each.  No watermark is kept: whether changes *)
(* fall between two windows is a matter of when the polls start.           *)
(*                                                                         *)
(* Time is relative.  age[r] is the number of ticks since record r was     *)
(* modified last, ages beyond every window counting as Old.  Instead of    *)
(* version numbers the model keeps, for each record, whether a task with   *)
(* its present version was published.                                      *)
(***************************************************************************)
EXTENDS Naturals, FiniteSets

CONSTANTS
    Records,   \* appointments in YClients
    Notified,  \* records that can be parsed and have a client YClients knows
    Pollers,   \* worker processes that run polls, perhaps at once
    Interval,  \* polling_interval_seconds
    Overlap,   \* the 30 seconds added to it
    PageSize,  \* records per answer; only the first page is read
    MaxLag     \* bound: ticks from the start of a poll to YClients' answer

ASSUME PollingAssumption ==
    /\ IsFiniteSet(Records)
    /\ Notified \subseteq Records
    /\ Interval \in Nat \ {0}
    /\ Overlap \in Nat
    /\ PageSize \in Nat \ {0}
    /\ MaxLag \in Nat

Old == Interval + Overlap + MaxLag + 1

VARIABLES
    age,         \* ticks since each record was modified
    news,        \* what tasks tell of its present version
    pc,          \* next step of each poll
    elapsed,     \* ticks since it started
    page,        \* records of its answer it has still to process
    outdated,    \* those of them modified after the answer
    started,     \* history: ticks since the latest start of a poll
    disturbed,   \* history: a poll was late, failed, or met a full page
    overlapped   \* history: two polls ran at once

records == <<age, news>>
polls   == <<pc, elapsed, page, outdated>>
hist    == <<started, disturbed, overlapped>>
vars    == <<records, polls, hist>>

(* The present version is "unseen", some task with it was published        *)
(* ("told"), or it was told and then an older version was published after  *)
(* it ("overtaken").                                                       *)
News == {"unseen", "told", "overtaken"}

Init ==
    /\ age = [r \in Records |-> Old]
    /\ news = [r \in Records |-> "told"]
    /\ pc = [p \in Pollers |-> "idle"]
    /\ elapsed = [p \in Pollers |-> 0]
    /\ page = [p \in Pollers |-> {}]
    /\ outdated = [p \in Pollers |-> {}]
    /\ started = 0
    /\ disturbed = FALSE
    /\ overlapped = FALSE

----------------------------------------------------------------------------
(* A definition whose name has an underscore part, as Window_NoOverlap, is *)
(* a faulty variant of the definition that follows it, used to show that a *)
(* property can fail.                                                      *)

Idle == \A p \in Pollers : pc[p] = "idle"

Later(n) == IF n < Old THEN n + 1 ELSE n

Window_NoOverlap == Interval
Window           == Interval + Overlap

(* The records modified between start_date and end_date of the poll.       *)
Matching(p) ==
    {r \in Records : elapsed[p] <= age[r] /\ age[r] <= elapsed[p] + Window}

(* What the first page may hold; the order of records is not specified.    *)
FirstPages_Short(found) ==
    IF Cardinality(found) < PageSize
      THEN {found}
      ELSE {f \in SUBSET found : Cardinality(f) = PageSize - 1}
FirstPages(found) ==
    IF Cardinality(found) <= PageSize
      THEN {found}
      ELSE {f \in SUBSET found : Cardinality(f) = PageSize}

(* A poll ends, in whatever way.                                           *)
Leave_Keeps(p) ==
    /\ pc' = [pc EXCEPT ![p] = "idle"]
    /\ UNCHANGED <<elapsed, page, outdated>>

Leave(p) ==
    /\ pc' = [pc EXCEPT ![p] = "idle"]
    /\ elapsed' = [elapsed EXCEPT ![p] = 0]
    /\ page' = [page EXCEPT ![p] = {}]
    /\ outdated' = [outdated EXCEPT ![p] = {}]

(* What the publication of one copy of r makes of the news about r.        *)
Published(p, r) ==
    news' = [news EXCEPT ![r] = IF r \notin outdated[p] THEN "told"
                                ELSE IF @ = "told" THEN "overtaken" ELSE @]

(* A worker takes the poll.  The overload guard lets it pass: it counts    *)
(* the messages that workers have reserved, a handful, against 1000.       *)
Start(p) ==
    /\ pc[p] = "idle"
    /\ pc' = [pc EXCEPT ![p] = "fetch"]
    /\ started' = 0
    /\ disturbed' = (disturbed \/ started > Interval + Overlap)
    /\ overlapped' = (overlapped \/ ~Idle)
    /\ UNCHANGED <<records, elapsed, page, outdated>>

(* YClients answers with the first page of the matching records.           *)
Fetch(p) ==
    /\ pc[p] = "fetch"
    /\ pc' = [pc EXCEPT ![p] = "loop"]
    /\ \E found \in FirstPages(Matching(p)) :
         page' = [page EXCEPT ![p] = found]
    /\ elapsed' = [elapsed EXCEPT ![p] = 0]
    /\ disturbed' = (disturbed \/ Cardinality(Matching(p)) > PageSize)
    /\ UNCHANGED <<records, outdated, started, overlapped>>

(* One turn of the loop: a record that get_appointments could not parse,   *)
(* or without a known client, is skipped, else a task with the version of  *)
(* the answer is published.                                                *)
Process(p, r) ==
    /\ r \in page[p]
    /\ page' = [page EXCEPT ![p] = @ \ {r}]
    /\ outdated' = [outdated EXCEPT ![p] = @ \ {r}]
    /\ IF r \in Notified THEN Published(p, r) ELSE UNCHANGED news
    /\ UNCHANGED <<age, pc, elapsed, hist>>

Finish(p) ==
    /\ pc[p] = "loop"
    /\ page[p] = {}
    /\ Leave(p)
    /\ UNCHANGED <<records, hist>>

(* The circuit is open, YClients fails on the page or on one client, the   *)
(* broker refuses a task, or the worker dies: the rest is left undone.  A  *)
(* request that gets no answer ends the poll, too, with an empty page.     *)
Abort(p) ==
    /\ pc[p] # "idle"
    /\ Leave(p)
    /\ disturbed' = TRUE
    /\ UNCHANGED <<records, started, overlapped>>

(* A record is created or changed in YClients.                             *)
Modify(r) ==
    /\ age' = [age EXCEPT ![r] = 0]
    /\ news' = [news EXCEPT ![r] = "unseen"]
    /\ outdated' = [p \in Pollers |-> outdated[p] \cup ({r} \cap page[p])]
    /\ UNCHANGED <<pc, elapsed, page, hist>>

Tick ==
    /\ \A p \in Pollers : elapsed[p] < MaxLag \/ pc[p] # "fetch"
    /\ age' = [r \in Records |-> Later(age[r])]
    /\ elapsed' = [p \in Pollers |->
                     IF pc[p] = "fetch" THEN elapsed[p] + 1 ELSE 0]
    /\ started' = Later(started)
    /\ UNCHANGED <<news, pc, page, outdated, disturbed, overlapped>>

Run(p) == Fetch(p) \/ Finish(p) \/ \E r \in Records : Process(p, r)

Next ==
    \/ \E p \in Pollers : Start(p) \/ Run(p) \/ Abort(p)
    \/ \E r \in Records : Modify(r)
    \/ Tick

Spec == Init /\ [][Next]_vars

(* Beat goes on publishing polls and a free worker takes one; a poll that  *)
(* started runs on; time passes.  Nothing forces a record to change, and   *)
(* nothing makes polls start in time.                                      *)
Fairness ==
    /\ WF_vars(\E p \in Pollers : Start(p))
    /\ \A p \in Pollers : WF_vars(Run(p))
    /\ WF_vars(Tick)

FairSpec == Spec /\ Fairness

----------------------------------------------------------------------------
(* The type invariant; an idle poll keeps nothing, and only what a poll    *)
(* has still to process can be outdated.                                   *)
TypeOK ==
    /\ age \in [Records -> 0 .. Old]
    /\ news \in [Records -> News]
    /\ pc \in [Pollers -> {"idle", "fetch", "loop"}]
    /\ elapsed \in [Pollers -> 0 .. MaxLag]
    /\ page \in [Pollers -> SUBSET Records]
    /\ outdated \in [Pollers -> SUBSET Records]
    /\ started \in 0 .. Old
    /\ disturbed \in BOOLEAN
    /\ overlapped \in BOOLEAN
    /\ \A p \in Pollers :
         /\ outdated[p] \subseteq page[p]
         /\ pc[p] # "loop" => page[p] = {}
         /\ pc[p] # "fetch" => elapsed[p] = 0

(* Although no watermark is kept, the windows leave no hole: as long as    *)
(* every poll started no more than the interval and the 30 seconds after   *)
(* the one before, succeeded and met no full page, whatever was modified   *)
(* before the latest poll is told in its present version as soon as no     *)
(* poll is running.                                                        *)
TimelyPollsMissNothing ==
    ~disturbed /\ Idle =>
        \A r \in Notified : age[r] > started => news[r] # "unseen"

(* Tasks of one record are published in the order of its versions, unless  *)
(* two polls ran at once.                                                  *)
InVersionOrder == ~overlapped => \A r \in Records : news[r] # "overtaken"

(* A record that is not changed again and again is told in its final       *)
(* version, unless polls are disturbed some day; and that is the last the  *)
(* client hears of it, unless polls overlapped.                            *)
FinallyTold ==
    \A r \in Notified :
        \/ []<>(age[r] = 0)
        \/ <>disturbed
        \/ <>[](news[r] = "told" \/ (overlapped /\ news[r] = "overtaken"))
=============================================================================
