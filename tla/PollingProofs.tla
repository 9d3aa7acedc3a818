--------------------------- MODULE PollingProofs ----------------------------
(***************************************************************************)
(* Proofs about Polling, for any interval, overlap, page size and delay of *)
(* YClients, any number of records and of polls that run at once.          *)
(***************************************************************************)
EXTENDS Polling, TLAPS, FiniteSetTheorems

(* A running poll is going to tell the present version of r: its answer    *)
(* will contain r, or did and r was not modified since.                    *)
WillTell(p, r) ==
    \/ pc[p] = "fetch" /\ elapsed[p] <= age[r] /\ age[r] <= elapsed[p] + Window
    \/ r \in page[p] \ outdated[p]

(* The windows leave no hole.  Only a version that appeared since the      *)
(* latest poll started, or that a running poll is going to tell, is not    *)
(* told yet.                                                               *)
NoHole ==
    ~disturbed =>
        \A r \in Notified :
            news[r] = "unseen" =>
                age[r] <= started \/ \E p \in Pollers : WillTell(p, r)

(* While polls do not overlap only one runs, what it holds in an old       *)
(* version is not told yet, and nothing was overtaken.                     *)
OneAtATime ==
    ~overlapped =>
        /\ \A p, q \in Pollers : pc[p] # "idle" /\ pc[q] # "idle" => p = q
        /\ \A p \in Pollers : \A r \in outdated[p] : news[r] = "unseen"
        /\ \A r \in Records : news[r] # "overtaken"

Inv == TypeOK /\ NoHole /\ OneAtATime

----------------------------------------------------------------------------
(* Lemmas about the operators                                              *)

LEMMA Numbers ==
    /\ Interval \in Nat /\ Overlap \in Nat /\ MaxLag \in Nat /\ PageSize \in Nat
    /\ Window \in Nat /\ Window = Interval + Overlap
    /\ Old \in Nat /\ Window < Old /\ MaxLag < Old
  BY PollingAssumption DEF Window, Old

(* One tick later an age is still one, and orders of ages are kept.        *)
LEMMA LaterAges ==
    ASSUME NEW m \in 0 .. Old, NEW n \in 0 .. Old
    PROVE  /\ Later(n) \in 0 .. Old
           /\ m <= n => Later(m) <= Later(n)
           /\ Later(n) <= n + 1
           /\ \A lag \in 0 .. MaxLag - 1 : lag <= n => lag + 1 <= Later(n)
  BY Numbers DEF Later

(* The first page is part of what matches, and all of it if it fits.       *)
LEMMA FirstPageHolds ==
    ASSUME NEW found \in SUBSET Records, NEW page1 \in FirstPages(found)
    PROVE  /\ page1 \subseteq found
           /\ ~(Cardinality(found) > PageSize) => page1 = found
  <1>1. Cardinality(found) \in Nat
    BY PollingAssumption, FS_Subset, FS_CardinalityType
  <1> QED
    BY <1>1, Numbers DEF FirstPages

(* What the publication of r changes.                                      *)
LEMMA PublishedNews ==
    ASSUME TypeOK, NEW p \in Pollers, NEW r \in Records, Published(p, r)
    PROVE  /\ news' \in [Records -> News]
           /\ \A s \in Records : s # r => news'[s] = news[s]
           /\ r \notin outdated[p] => news'[r] = "told"
           /\ r \in outdated[p] /\ news[r] # "told" => news'[r] = news[r]
           /\ news'[r] = "unseen" => r \in outdated[p] /\ news[r] = "unseen"
  <1>1. news \in [Records -> News]
    BY DEF TypeOK
  <1>2. CASE r \notin outdated[p]
    BY <1>1, <1>2 DEF Published, News
  <1>3. CASE r \in outdated[p] /\ news[r] = "told"
    BY <1>1, <1>3 DEF Published, News
  <1>4. CASE r \in outdated[p] /\ news[r] # "told"
    BY <1>1, <1>4 DEF Published, News
  <1> QED
    BY <1>2, <1>3, <1>4

----------------------------------------------------------------------------
(* The type invariant                                                      *)

LEMMA TypeInit == Init => TypeOK
  <1>1. 0 \in 0 .. MaxLag /\ 0 \in 0 .. Old /\ Old \in 0 .. Old
    BY Numbers
  <1>2. Init => /\ age \in [Records -> 0 .. Old]
                /\ elapsed \in [Pollers -> 0 .. MaxLag]
                /\ started \in 0 .. Old
    BY <1>1 DEF Init
  <1>3. Init => /\ news \in [Records -> News]
                /\ pc \in [Pollers -> {"idle", "fetch", "loop"}]
                /\ page \in [Pollers -> SUBSET Records]
                /\ outdated \in [Pollers -> SUBSET Records]
                /\ disturbed \in BOOLEAN
                /\ overlapped \in BOOLEAN
    BY DEF Init, News
  <1>4. Init => \A p \in Pollers :
                  /\ outdated[p] \subseteq page[p]
                  /\ pc[p] # "loop" => page[p] = {}
                  /\ pc[p] # "fetch" => elapsed[p] = 0
    BY DEF Init
  <1> QED
    BY <1>2, <1>3, <1>4 DEF TypeOK

LEMMA TypeStart ==
    ASSUME TypeOK, NEW p \in Pollers, Start(p)
    PROVE  TypeOK'
  <1>1. 0 \in 0 .. Old
    BY Numbers
  <1> QED
    BY <1>1 DEF TypeOK, Start, records

LEMMA TypeFetch ==
    ASSUME TypeOK, NEW p \in Pollers, Fetch(p)
    PROVE  TypeOK'
  <1>1. PICK found \in FirstPages(Matching(p)) :
           page' = [page EXCEPT ![p] = found]
    BY DEF Fetch
  <1>2. found \subseteq Records
    BY FirstPageHolds DEF Matching
  <1>3. 0 \in 0 .. MaxLag
    BY Numbers
  <1>4. /\ page' \in [Pollers -> SUBSET Records]
        /\ elapsed' \in [Pollers -> 0 .. MaxLag]
        /\ pc' \in [Pollers -> {"idle", "fetch", "loop"}]
        /\ disturbed' \in BOOLEAN
    BY <1>1, <1>2, <1>3 DEF TypeOK, Fetch
  <1>5. \A q \in Pollers :
          /\ outdated'[q] \subseteq page'[q]
          /\ pc'[q] # "loop" => page'[q] = {}
          /\ pc'[q] # "fetch" => elapsed'[q] = 0
    BY <1>1, <1>2 DEF TypeOK, Fetch
  <1> QED
    BY <1>4, <1>5 DEF TypeOK, Fetch, records

LEMMA TypeProcess ==
    ASSUME TypeOK, NEW p \in Pollers, NEW r \in Records, Process(p, r)
    PROVE  TypeOK'
  <1>1. news' \in [Records -> News]
    BY PublishedNews DEF Process, TypeOK
  <1> QED
    BY <1>1 DEF TypeOK, Process, hist

LEMMA TypeLeave ==
    ASSUME TypeOK, NEW p \in Pollers, Leave(p), UNCHANGED records,
           started' = started, disturbed' \in BOOLEAN, overlapped' = overlapped
    PROVE  TypeOK'
  BY Numbers DEF TypeOK, Leave, records

LEMMA TypeModify ==
    ASSUME TypeOK, NEW r \in Records, Modify(r)
    PROVE  TypeOK'
  BY Numbers DEF TypeOK, Modify, hist, News

LEMMA TypeTick ==
    ASSUME TypeOK, Tick
    PROVE  TypeOK'
  <1>1. \A r \in Records : Later(age[r]) \in 0 .. Old
    BY LaterAges DEF TypeOK
  <1>2. Later(started) \in 0 .. Old
    BY LaterAges DEF TypeOK
  <1>3. \A p \in Pollers :
          (IF pc[p] = "fetch" THEN elapsed[p] + 1 ELSE 0) \in 0 .. MaxLag
    BY Numbers DEF TypeOK, Tick
  <1> QED
    BY <1>1, <1>2, <1>3 DEF TypeOK, Tick

----------------------------------------------------------------------------
(* No hole                                                                 *)

LEMMA NoHoleStart ==
    ASSUME TypeOK, NoHole, NEW p \in Pollers, Start(p)
    PROVE  NoHole'
  <1> SUFFICES ASSUME ~disturbed', NEW r \in Notified, news'[r] = "unseen"
               PROVE  \E q \in Pollers : WillTell(q, r)'
    BY DEF NoHole
  <1>1. /\ r \in Records
        /\ age[r] \in Nat /\ started \in Nat
        /\ elapsed[p] = 0
        /\ pc'[p] = "fetch"
        /\ pc[p] = "idle"
    BY PollingAssumption DEF TypeOK, Start
  <1>2. ~disturbed /\ ~(started > Window) /\ news[r] = "unseen"
    BY Numbers DEF Start, records
  <1>3. CASE age[r] <= started
    <2>1. age[r] <= Window
      BY <1>1, <1>2, <1>3, Numbers
    <2>2. WillTell(p, r)'
      BY <1>1, <2>1, Numbers DEF WillTell, Start, records, Window
    <2> QED
      BY <2>2
  <1>4. CASE \E q \in Pollers : WillTell(q, r)
    <2>1. PICK q \in Pollers : WillTell(q, r)
      BY <1>4
    <2>2. pc[q] # "idle"
      BY <2>1 DEF WillTell, TypeOK
    <2>3. q # p
      BY <1>1, <2>2
    <2>4. WillTell(q, r)'
      BY <2>1, <2>3 DEF WillTell, Start, records, TypeOK, Window
    <2> QED
      BY <2>4
  <1> QED
    BY <1>2, <1>3, <1>4 DEF NoHole

LEMMA NoHoleFetch ==
    ASSUME TypeOK, NoHole, NEW p \in Pollers, Fetch(p)
    PROVE  NoHole'
  <1> SUFFICES ASSUME ~disturbed', NEW r \in Notified, news'[r] = "unseen",
                      ~(age'[r] <= started')
               PROVE  \E q \in Pollers : WillTell(q, r)'
    BY DEF NoHole
  <1>1. /\ ~disturbed /\ ~(Cardinality(Matching(p)) > PageSize)
        /\ news[r] = "unseen" /\ ~(age[r] <= started)
        /\ r \in Records
    BY PollingAssumption DEF Fetch, records
  <1>2. PICK q \in Pollers : WillTell(q, r)
    BY <1>1 DEF NoHole
  <1>3. PICK found \in FirstPages(Matching(p)) :
           page' = [page EXCEPT ![p] = found]
    BY DEF Fetch
  <1>4. found = Matching(p)
    BY <1>1, <1>3, FirstPageHolds DEF Matching
  <1>5. CASE q = p
    <2>1. pc[p] = "fetch" /\ page[p] = {} /\ outdated[p] = {}
      BY DEF Fetch, TypeOK
    <2>2. r \in Matching(p)
      BY <1>1, <1>2, <1>5, <2>1 DEF WillTell, Matching
    <2>3. r \in page'[p] \ outdated'[p]
      BY <1>3, <1>4, <2>1, <2>2 DEF Fetch, TypeOK
    <2> QED
      BY <2>3 DEF WillTell
  <1>6. CASE q # p
    BY <1>2, <1>3, <1>6 DEF WillTell, Fetch, TypeOK, records, Window
  <1> QED
    BY <1>5, <1>6

LEMMA NoHoleProcess ==
    ASSUME TypeOK, NoHole, NEW p \in Pollers, NEW s \in Records, Process(p, s)
    PROVE  NoHole'
  <1> SUFFICES ASSUME ~disturbed', NEW r \in Notified, news'[r] = "unseen",
                      ~(age'[r] <= started')
               PROVE  \E q \in Pollers : WillTell(q, r)'
    BY DEF NoHole
  <1>1. ~disturbed /\ ~(age[r] <= started) /\ r \in Records
    BY PollingAssumption DEF Process, hist
  <1>2. news[r] = "unseen" /\ (r = s => s \in outdated[p])
    BY <1>1, PublishedNews DEF Process
  <1>3. PICK q \in Pollers : WillTell(q, r)
    BY <1>1, <1>2 DEF NoHole
  <1>4. WillTell(q, r)'
    BY <1>2, <1>3 DEF WillTell, Process, TypeOK, Window
  <1> QED
    BY <1>4

LEMMA NoHoleFinish ==
    ASSUME TypeOK, NoHole, NEW p \in Pollers, Finish(p)
    PROVE  NoHole'
  <1> SUFFICES ASSUME ~disturbed', NEW r \in Notified, news'[r] = "unseen",
                      ~(age'[r] <= started')
               PROVE  \E q \in Pollers : WillTell(q, r)'
    BY DEF NoHole
  <1>1. PICK q \in Pollers : WillTell(q, r)
    BY DEF NoHole, Finish, records, hist
  <1>2. q # p
    BY <1>1 DEF WillTell, Finish
  <1>3. WillTell(q, r)'
    BY <1>1, <1>2 DEF WillTell, Finish, Leave, TypeOK, records, Window
  <1> QED
    BY <1>3

LEMMA NoHoleModify ==
    ASSUME TypeOK, NoHole, NEW s \in Records, Modify(s)
    PROVE  NoHole'
  <1> SUFFICES ASSUME ~disturbed', NEW r \in Notified, news'[r] = "unseen",
                      ~(age'[r] <= started')
               PROVE  \E q \in Pollers : WillTell(q, r)'
    BY DEF NoHole
  <1>1. r \in Records
    BY PollingAssumption
  <1>2. r # s
    <2>1. started' \in Nat /\ age'[s] = 0
      BY DEF Modify, TypeOK, hist
    <2> QED
      BY <2>1
  <1>3. ~disturbed /\ age'[r] = age[r] /\ news'[r] = news[r] /\ started' = started
    BY <1>1, <1>2 DEF Modify, TypeOK, hist
  <1>4. PICK q \in Pollers : WillTell(q, r)
    BY <1>3 DEF NoHole
  <1>5. WillTell(q, r)'
    BY <1>2, <1>3, <1>4 DEF WillTell, Modify, Window
  <1> QED
    BY <1>5

LEMMA NoHoleTick ==
    ASSUME TypeOK, NoHole, Tick
    PROVE  NoHole'
  <1> SUFFICES ASSUME ~disturbed', NEW r \in Notified, news'[r] = "unseen"
               PROVE  age'[r] <= started' \/ \E q \in Pollers : WillTell(q, r)'
    BY DEF NoHole
  <1>1. /\ r \in Records
        /\ age[r] \in 0 .. Old /\ started \in 0 .. Old
        /\ age'[r] = Later(age[r]) /\ started' = Later(started)
        /\ ~disturbed /\ news[r] = "unseen"
    BY PollingAssumption DEF Tick, TypeOK
  <1>2. CASE age[r] <= started
    BY <1>1, <1>2, LaterAges
  <1>3. ASSUME NEW q \in Pollers, WillTell(q, r) PROVE WillTell(q, r)'
    <2>1. CASE r \in page[q] \ outdated[q]
      BY <2>1 DEF WillTell, Tick
    <2>2. CASE /\ pc[q] = "fetch"
               /\ elapsed[q] <= age[r] /\ age[r] <= elapsed[q] + Window
      <3>1. elapsed[q] \in 0 .. MaxLag - 1 /\ elapsed'[q] = elapsed[q] + 1
        BY <2>2, Numbers DEF Tick, TypeOK
      <3>2. elapsed[q] + 1 <= Later(age[r])
        BY <1>1, <2>2, <3>1, LaterAges
      <3>3. Later(age[r]) <= elapsed[q] + 1 + Window
        BY <1>1, <2>2, <3>1, Numbers, LaterAges
      <3> QED
        BY <1>1, <2>2, <3>1, <3>2, <3>3 DEF WillTell, Tick, Window
    <2> QED
      BY <1>3, <2>1, <2>2 DEF WillTell
  <1> QED
    BY <1>1, <1>2, <1>3 DEF NoHole

----------------------------------------------------------------------------
(* One at a time                                                           *)

LEMMA OneAtATimeStart ==
    ASSUME TypeOK, OneAtATime, NEW p \in Pollers, Start(p)
    PROVE  OneAtATime'
  BY DEF TypeOK, OneAtATime, Start, Idle, records

LEMMA OneAtATimeFetch ==
    ASSUME TypeOK, OneAtATime, NEW p \in Pollers, Fetch(p)
    PROVE  OneAtATime'
  BY DEF TypeOK, OneAtATime, Fetch, records

LEMMA OneAtATimeProcess ==
    ASSUME TypeOK, OneAtATime, NEW p \in Pollers, NEW s \in Records, Process(p, s)
    PROVE  OneAtATime'
  <1> SUFFICES ASSUME ~overlapped
               PROVE  /\ \A q \in Pollers : \A r \in outdated'[q] : news'[r] = "unseen"
                      /\ \A r \in Records : news'[r] # "overtaken"
    BY DEF OneAtATime, Process, hist
  <1>1. /\ pc[p] = "loop"
        /\ \A q \in Pollers : q # p => outdated[q] = {}
    BY DEF OneAtATime, Process, TypeOK
  <1>2. \A q \in Pollers : outdated'[q] \subseteq outdated[q] \ {s}
    BY <1>1 DEF Process, TypeOK
  <1>3. /\ \A r \in Records : r # s => news'[r] = news[r]
        /\ news'[s] # "overtaken"
    BY PublishedNews DEF OneAtATime, Process
  <1> QED
    BY <1>2, <1>3 DEF OneAtATime, TypeOK

LEMMA OneAtATimeLeave ==
    ASSUME TypeOK, OneAtATime, NEW p \in Pollers, Leave(p), UNCHANGED records,
           overlapped' = overlapped
    PROVE  OneAtATime'
  BY DEF TypeOK, OneAtATime, Leave, records

LEMMA OneAtATimeModify ==
    ASSUME TypeOK, OneAtATime, NEW s \in Records, Modify(s)
    PROVE  OneAtATime'
  <1>1. /\ \A r \in Records : news'[r] = IF r = s THEN "unseen" ELSE news[r]
        /\ \A q \in Pollers : outdated'[q] \subseteq outdated[q] \cup {s}
        /\ \A q \in Pollers : outdated[q] \subseteq Records
    BY DEF TypeOK, Modify
  <1> QED
    BY <1>1 DEF OneAtATime, Modify, hist

----------------------------------------------------------------------------
(* Inv is inductive                                                        *)

LEMMA InvInit == Init => Inv
  <1>1. Init => NoHole /\ OneAtATime
    BY PollingAssumption DEF Init, NoHole, OneAtATime
  <1> QED
    BY <1>1, TypeInit DEF Inv

LEMMA InvNext == Inv /\ [Next]_vars => Inv'
  <1> SUFFICES ASSUME TypeOK, NoHole, OneAtATime, [Next]_vars PROVE Inv'
    BY DEF Inv
  <1>1. ASSUME NEW p \in Pollers, Start(p) PROVE Inv'
    BY <1>1, TypeStart, NoHoleStart, OneAtATimeStart DEF Inv
  <1>2. ASSUME NEW p \in Pollers, Fetch(p) PROVE Inv'
    BY <1>2, TypeFetch, NoHoleFetch, OneAtATimeFetch DEF Inv
  <1>3. ASSUME NEW p \in Pollers, NEW r \in Records, Process(p, r) PROVE Inv'
    BY <1>3, TypeProcess, NoHoleProcess, OneAtATimeProcess DEF Inv
  <1>4. ASSUME NEW p \in Pollers, Finish(p) PROVE Inv'
    <2>1. TypeOK' /\ OneAtATime'
      BY <1>4, TypeLeave, OneAtATimeLeave DEF Finish, hist, TypeOK
    <2> QED
      BY <1>4, <2>1, NoHoleFinish DEF Inv
  <1>5. ASSUME NEW p \in Pollers, Abort(p) PROVE Inv'
    <2>1. TypeOK' /\ OneAtATime'
      BY <1>5, TypeLeave, OneAtATimeLeave DEF Abort
    <2> QED
      BY <1>5, <2>1 DEF Inv, Abort, NoHole
  <1>6. ASSUME NEW r \in Records, Modify(r) PROVE Inv'
    BY <1>6, TypeModify, NoHoleModify, OneAtATimeModify DEF Inv
  <1>7. CASE Tick
    <2>1. OneAtATime'
      BY <1>7 DEF OneAtATime, Tick
    <2> QED
      BY <1>7, <2>1, TypeTick, NoHoleTick DEF Inv
  <1>8. CASE UNCHANGED vars
    BY <1>8 DEF vars, records, polls, hist, Inv, TypeOK, NoHole, OneAtATime,
                WillTell, Window
  <1> QED
    BY <1>1, <1>2, <1>3, <1>4, <1>5, <1>6, <1>7, <1>8 DEF Next, Run

LEMMA InvHolds == Spec => []Inv
  BY InvInit, InvNext, PTL DEF Spec

----------------------------------------------------------------------------
(* What follows                                                            *)

(* Every variable keeps its shape: an idle poll holds nothing, and what is *)
(* outdated is part of what a poll has still to process.                   *)
THEOREM PollingTypeCorrect == Spec => []TypeOK
  <1>1. Inv => TypeOK
    BY DEF Inv
  <1> QED
    BY InvHolds, <1>1, PTL

(* poll_yclients: for every interval, overlap, page size and delay of the  *)
(* answer, polls that start in time, succeed and fit on a page leave no    *)
(* change unseen, without a watermark and also when they overlap.          *)
THEOREM NothingMissed == Spec => []TimelyPollsMissNothing
  <1>1. Inv => TimelyPollsMissNothing
    <2> SUFFICES ASSUME Inv, ~disturbed, Idle, NEW r \in Notified,
                        age[r] > started, news[r] = "unseen"
                 PROVE  FALSE
      BY DEF TimelyPollsMissNothing
    <2>1. age[r] \in Nat /\ started \in Nat
      BY PollingAssumption DEF Inv, TypeOK
    <2>2. ~(age[r] <= started)
      BY <2>1
    <2>3. \A p \in Pollers : ~WillTell(p, r)
      BY DEF Inv, TypeOK, Idle, WillTell
    <2> QED
      BY <2>2, <2>3 DEF Inv, NoHole
  <1> QED
    BY InvHolds, <1>1, PTL

(* poll_yclients: unless two polls run at once, no task with an older      *)
(* version of a record is published after one with a newer version.        *)
THEOREM VersionsInOrder == Spec => []InVersionOrder
  <1>1. Inv => InVersionOrder
    BY DEF Inv, OneAtATime, InVersionOrder
  <1> QED
    BY InvHolds, <1>1, PTL
============================================================================
