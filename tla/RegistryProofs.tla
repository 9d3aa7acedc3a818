--------------------------- MODULE RegistryProofs ---------------------------
(***************************************************************************)
(* Proofs about Registry, for any number of clients, users and phone       *)
(* numbers, any updates, restarts, failures and numbers that change hands: *)
(* first the type invariant, then the four invariants of the bindings,     *)
(* then what a repeated page does to them.                                 *)
(***************************************************************************)
EXTENDS Registry, TLAPS

\* The four invariants about the bindings hold each other up: a number that is
\* linked finds the one client with it, unsubscribing takes the row of exactly
\* the clients it unbinds, and both keep the administrator's word.
Bindings == OnePerPhone /\ BoundIffSetUp /\ LastWordHolds /\ DeactivationSticks

Inv == TypeOK /\ Bindings

-----------------------------------------------------------------------------
(* An element of a sequence is one of its set.                             *)
LEMMA ElementInSet ==
    ASSUME NEW S, NEW s \in Seq(S), NEW i \in 1 .. Len(s)
    PROVE  s[i] \in S
  OBVIOUS

(* What the loop handles is an update some user sent.                      *)
LEMMA PageUpdate ==
    ASSUME TypeOK, pc = "page", at <= last
    PROVE  /\ at \in 1 .. Len(stream)
           /\ at + 1 \in acked + 1 .. last + 1
           /\ Update \in [user : Users, says : Words]
           /\ Update.user \in Users
  <1>1. /\ at \in acked + 1 .. last + 1
        /\ acked \in Nat
        /\ last \in 0 .. Len(stream)
        /\ Len(stream) \in Nat
        /\ stream \in Seq([user : Users, says : Words])
    BY DEF TypeOK
  <1>2. at \in 1 .. Len(stream) /\ at + 1 \in acked + 1 .. last + 1
    BY <1>1
  <1>3. stream[at] \in [user : Users, says : Words]
    BY <1>1, <1>2, ElementInSet
  <1> QED
    BY <1>2, <1>3 DEF Update

(* An event that is counted stays within its bound.                        *)
LEMMA SpendCounts ==
    ASSUME TypeOK, NEW what \in DOMAIN Limit, Spend(what)
    PROVE  /\ spent' \in [DOMAIN Limit -> Nat]
           /\ \A w \in DOMAIN Limit : spent'[w] <= Limit[w]
  <1>1. Limit \in [DOMAIN Limit -> Nat]
    BY BoundsAssumption DEF Limit
  <1> QED
    BY <1>1 DEF TypeOK, Spend

(* The server continues somewhere in the stream, not before what it saw    *)
(* confirmed.                                                              *)
LEMMA FromInStream ==
    ASSUME TypeOK
    PROVE  From \in acked .. Len(stream)
  BY NoneAssumption DEF TypeOK, From

LEMMA LimitNames ==
    {"crash", "error", "move", "deactivate"} = DOMAIN Limit
  BY DEF Limit

-----------------------------------------------------------------------------
(* The type invariant                                                      *)

LEMMA TypeInit == Init => TypeOK
  BY OwnerAssumption, BoundsAssumption DEF Init, TypeOK, Limit

LEMMA TypeSend ==
    ASSUME TypeOK, NEW u \in Users, NEW says \in Words, Send(u, says)
    PROVE  TypeOK'
  <1>1. /\ stream' \in Seq([user : Users, says : Words])
        /\ Len(stream') = Len(stream) + 1
        /\ Len(stream') <= MaxUpdates
        /\ Len(stream) \in Nat
    BY BoundsAssumption DEF TypeOK, Send
  <1> QED
    BY <1>1 DEF TypeOK, Send, db, loop

LEMMA TypeMove ==
    ASSUME TypeOK, NEW p \in Phones, NEW c \in Clients, Move(p, c)
    PROVE  TypeOK'
  BY SpendCounts, LimitNames DEF TypeOK, Move, server, db, loop

LEMMA TypeDeactivate ==
    ASSUME TypeOK, NEW c \in Clients, Deactivate(c)
    PROVE  TypeOK'
  BY SpendCounts, LimitNames DEF TypeOK, Deactivate, server, loop

LEMMA TypeStart ==
    ASSUME TypeOK, StartPolling
    PROVE  TypeOK'
  BY DEF TypeOK, StartPolling, server, db

LEMMA TypeFetch ==
    ASSUME TypeOK, Fetch
    PROVE  TypeOK'
  <1>1. From \in acked .. Len(stream) /\ (marker # None => From = marker)
    BY FromInStream DEF From
  <1>2. /\ acked' \in 0 .. Len(stream)
        /\ at' \in acked' + 1 .. last' + 1
        /\ last' \in 0 .. Len(stream)
        /\ marker' \in (acked' .. Len(stream)) \cup {None}
    BY <1>1 DEF TypeOK, Fetch
  <1> QED
    BY <1>2 DEF TypeOK, Fetch, db

LEMMA TypeFetchFails ==
    ASSUME TypeOK, FetchFails
    PROVE  TypeOK'
  <1>1. From \in acked .. Len(stream) /\ (marker # None => From = marker)
    BY FromInStream DEF From
  <1>2. /\ acked' \in 0 .. Len(stream)
        /\ marker' \in (acked' .. Len(stream)) \cup {None}
    BY <1>1 DEF TypeOK, FetchFails
  <1>3. /\ spent' \in [DOMAIN Limit -> Nat]
        /\ \A w \in DOMAIN Limit : spent'[w] <= Limit[w]
    BY SpendCounts, LimitNames DEF FetchFails
  <1> QED
    BY <1>2, <1>3 DEF TypeOK, FetchFails, db

LEMMA TypeWake ==
    ASSUME TypeOK, Wake
    PROVE  TypeOK'
  BY DEF TypeOK, Wake, server, db

(* The part every handler shares.                                          *)
LEMMA TypeHandled ==
    ASSUME TypeOK, pc = "page", at <= last, Handled,
           phone' \in [Clients -> Phones \cup {None}],
           maxId' \in [Clients -> Users \cup {None}],
           row' \in [Clients -> {"none", "enabled", "disabled"}],
           word' \in [Users -> {"nothing", "linked", "unsubscribed"}],
           erred' \subseteq Users,
           silenced' \subseteq Clients,
           before' \in [Clients -> SUBSET (1 .. Len(stream))],
           spent' \in [DOMAIN Limit -> Nat],
           \A w \in DOMAIN Limit : spent'[w] <= Limit[w]
    PROVE  TypeOK'
  BY PageUpdate DEF TypeOK, Handled, server

LEMMA CandidateIsClient ==
    ASSUME TypeOK, NEW p \in Phones, Candidate(p) # None
    PROVE  /\ Candidate(p) \in Clients
           /\ \A d \in Clients : phone[d] = p => phone[Candidate(p)] = p
  BY DEF TypeOK, Candidate

LEMMA SettingsEnsured ==
    ASSUME TypeOK, NEW c \in Clients
    PROVE  /\ EnsureSettings(c) \in [Clients -> {"none", "enabled", "disabled"}]
           /\ EnsureSettings(c)[c] # "none"
           /\ \A d \in Clients :
                d # c \/ row[d] # "none" => EnsureSettings(c)[d] = row[d]
  BY DEF TypeOK, EnsureSettings

LEMMA TypeLinkMax ==
    ASSUME TypeOK, NEW p \in Phones, LinkMax(p)
    PROVE  TypeOK'
  <1>1. pc = "page" /\ at <= last /\ Handled
    BY DEF LinkMax, Handling
  <1>2. Update.user \in Users
    BY <1>1, PageUpdate
  <1>3. Candidate(p) \in Clients
    BY CandidateIsClient DEF LinkMax
  <1>4. /\ phone' \in [Clients -> Phones \cup {None}]
        /\ maxId' \in [Clients -> Users \cup {None}]
        /\ word' \in [Users -> {"nothing", "linked", "unsubscribed"}]
    BY <1>2, <1>3 DEF TypeOK, LinkMax
  <1>5. row' \in [Clients -> {"none", "enabled", "disabled"}]
    BY <1>3, SettingsEnsured DEF LinkMax
  <1>6. /\ erred' \subseteq Users /\ silenced' \subseteq Clients
        /\ before' \in [Clients -> SUBSET (1 .. Len(stream))]
        /\ spent' \in [DOMAIN Limit -> Nat]
        /\ \A w \in DOMAIN Limit : spent'[w] <= Limit[w]
    BY DEF TypeOK, LinkMax
  <1> QED
    BY <1>1, <1>4, <1>5, <1>6, TypeHandled

LEMMA TypeLinkMisses ==
    ASSUME TypeOK, NEW p \in Phones, LinkMisses(p)
    PROVE  TypeOK'
  <1>1. pc = "page" /\ at <= last /\ Handled
    BY DEF LinkMisses, Handling
  <1>2. Update.user \in Users
    BY <1>1, PageUpdate
  <1>3. /\ spent' \in [DOMAIN Limit -> Nat]
        /\ \A w \in DOMAIN Limit : spent'[w] <= Limit[w]
    <2>1. Limit["error"] = MaxErrors /\ MaxErrors \in Nat
      BY BoundsAssumption DEF Limit
    <2> QED
      BY <2>1, LimitNames DEF TypeOK, LinkMisses
  <1> QED
    BY <1>1, <1>2, <1>3, TypeHandled DEF TypeOK, LinkMisses, db

LEMMA TypeUnsubscribe ==
    ASSUME TypeOK, HandleUnsubscribe
    PROVE  TypeOK'
  <1>1. pc = "page" /\ at <= last /\ Handled
    BY DEF HandleUnsubscribe, Handling
  <1>2. Update.user \in Users
    BY <1>1, PageUpdate
  <1> QED
    BY <1>1, <1>2, TypeHandled DEF TypeOK, HandleUnsubscribe

LEMMA TypeRaised ==
    ASSUME TypeOK, UnsubscribeAmbiguous
    PROVE  TypeOK'
  <1>1. pc = "page" /\ at <= last /\ Handled
    BY DEF UnsubscribeAmbiguous, Handling, Raised
  <1>2. Update.user \in Users
    BY <1>1, PageUpdate
  <1> QED
    BY <1>1, <1>2, TypeHandled DEF TypeOK, UnsubscribeAmbiguous, Raised, db

LEMMA TypeOther ==
    ASSUME TypeOK, HandleOther
    PROVE  TypeOK'
  <1>1. pc = "page" /\ at <= last /\ Handled
    BY DEF HandleOther, Handling
  <1> QED
    BY <1>1, TypeHandled DEF TypeOK, HandleOther, db

LEMMA TypeHandlerFails ==
    ASSUME TypeOK, HandlerFails
    PROVE  TypeOK'
  <1>1. pc = "page" /\ at <= last /\ Handled
    BY DEF HandlerFails
  <1>2. Update.user \in Users
    BY <1>1, PageUpdate
  <1>3. /\ spent' \in [DOMAIN Limit -> Nat]
        /\ \A w \in DOMAIN Limit : spent'[w] <= Limit[w]
    BY SpendCounts, LimitNames DEF HandlerFails
  <1> QED
    BY <1>1, <1>2, <1>3, TypeHandled DEF TypeOK, HandlerFails, db

LEMMA TypeAdvance ==
    ASSUME TypeOK, Advance
    PROVE  TypeOK'
  BY DEF TypeOK, Advance, server, db

LEMMA TypeCrash ==
    ASSUME TypeOK, Crash
    PROVE  TypeOK'
  <1>1. /\ spent' \in [DOMAIN Limit -> Nat]
        /\ \A w \in DOMAIN Limit : spent'[w] <= Limit[w]
    BY SpendCounts, LimitNames DEF Crash
  <1> QED
    BY <1>1 DEF TypeOK, Crash, server, db

-----------------------------------------------------------------------------
(* The bindings                                                            *)

(* Most steps touch neither the bindings nor what was said about them.     *)
LEMMA BindingsUntouched ==
    ASSUME Bindings, UNCHANGED <<db, word, silenced, before>>
    PROVE  Bindings'
  BY DEF Bindings, OnePerPhone, BoundIffSetUp, LastWordHolds, DeactivationSticks,
         Linked, db

LEMMA BindingsDeactivate ==
    ASSUME TypeOK, Bindings, NEW c \in Clients, Deactivate(c)
    PROVE  Bindings'
  <1>1. OnePerPhone' /\ LastWordHolds'
    BY DEF Bindings, OnePerPhone, LastWordHolds, Linked, Deactivate
  <1>2. BoundIffSetUp'
    BY DEF TypeOK, Bindings, BoundIffSetUp, Deactivate
  <1>3. DeactivationSticks'
    BY DEF TypeOK, Bindings, DeactivationSticks, Deactivate
  <1> QED
    BY <1>1, <1>2, <1>3 DEF Bindings

LEMMA BindingsLinkMax ==
    ASSUME TypeOK, Bindings, NEW p \in Phones, LinkMax(p)
    PROVE  Bindings'
  <1> DEFINE c == Candidate(p)
             u == Update.user
  <1>1. /\ c \in Clients
        /\ \A d \in Clients : phone[d] = p => phone[c] = p
    BY CandidateIsClient DEF LinkMax
  <1>2. u \in Users
    BY PageUpdate DEF LinkMax, Handling
  <1>3. /\ phone' = [phone EXCEPT ![c] = p]
        /\ maxId' = [maxId EXCEPT ![c] = u]
        /\ row' = EnsureSettings(c)
        /\ word' = [word EXCEPT ![u] = "linked"]
        /\ UNCHANGED <<silenced, before>>
    BY DEF LinkMax
  <1>4. /\ phone \in [Clients -> Phones \cup {None}]
        /\ maxId \in [Clients -> Users \cup {None}]
        /\ word \in [Users -> {"nothing", "linked", "unsubscribed"}]
        /\ silenced \subseteq Clients
    BY DEF TypeOK
  <1>5. /\ row' \in [Clients -> {"none", "enabled", "disabled"}]
        /\ row'[c] # "none"
        /\ \A d \in Clients : d # c \/ row[d] # "none" => row'[d] = row[d]
    BY <1>1, <1>3, SettingsEnsured
  <1>6. p # None /\ u # None
    BY <1>2, NoneAssumption
  <1> HIDE DEF c, u
  \* Only one client has p afterwards: the one that had it, or the first.
  <1>7. OnePerPhone'
    BY <1>1, <1>3, <1>4 DEF Bindings, OnePerPhone
  <1>8. BoundIffSetUp'
    BY <1>1, <1>3, <1>4, <1>5, <1>6 DEF Bindings, BoundIffSetUp
  <1>9. LastWordHolds'
    BY <1>1, <1>2, <1>3, <1>4 DEF Bindings, LastWordHolds, Linked
  <1>10. DeactivationSticks'
    BY <1>1, <1>3, <1>4, <1>5 DEF Bindings, DeactivationSticks
  <1> QED
    BY <1>7, <1>8, <1>9, <1>10 DEF Bindings

LEMMA BindingsUnsubscribe ==
    ASSUME TypeOK, Bindings, HandleUnsubscribe
    PROVE  Bindings'
  <1> DEFINE u == Update.user
             gone == Linked(u)
  <1>1. u \in Users
    BY PageUpdate DEF HandleUnsubscribe, Handling
  <1>2. /\ phone' = phone
        /\ maxId' = [c \in Clients |-> IF c \in gone THEN None ELSE maxId[c]]
        /\ row' = [c \in Clients |-> IF c \in gone THEN "none" ELSE row[c]]
        /\ silenced' = {c \in silenced : c \in gone => at \in before[c]}
        /\ before' = before
        /\ word' = [word EXCEPT ![u] = "unsubscribed"]
    BY DEF HandleUnsubscribe
  <1>3. /\ gone = {c \in Clients : maxId[c] = u}
        /\ word \in [Users -> {"nothing", "linked", "unsubscribed"}]
        /\ silenced \subseteq Clients
    BY DEF TypeOK, Linked
  <1>4. None \notin Users
    BY NoneAssumption
  <1> HIDE DEF u, gone
  <1>5. OnePerPhone'
    BY <1>2 DEF Bindings, OnePerPhone
  <1>6. BoundIffSetUp'
    BY <1>2 DEF Bindings, BoundIffSetUp
  <1>7. LastWordHolds'
    BY <1>1, <1>2, <1>3, <1>4 DEF Bindings, LastWordHolds, Linked
  \* The row goes and the client stays in the history only for an /unsubscribe
  \* that had been handled before.
  <1>8. DeactivationSticks'
    BY <1>2, <1>3 DEF Bindings, DeactivationSticks
  <1> QED
    BY <1>5, <1>6, <1>7, <1>8 DEF Bindings

-----------------------------------------------------------------------------
(* Inv is inductive                                                        *)

LEMMA InvInit == Init => Inv
  <1> SUFFICES ASSUME Init PROVE Inv
    OBVIOUS
  <1>1. TypeOK
    BY TypeInit
  <1>2. Bindings
    BY DEF Init, Bindings, OnePerPhone, BoundIffSetUp, LastWordHolds,
           DeactivationSticks
  <1> QED
    BY <1>1, <1>2 DEF Inv

LEMMA InvNext == Inv /\ [Next]_vars => Inv'
  <1> SUFFICES ASSUME TypeOK, Bindings, [Next]_vars
               PROVE  TypeOK' /\ Bindings'
    BY DEF Inv
  <1>1. ASSUME NEW u \in Users, NEW says \in Words, Send(u, says)
        PROVE  TypeOK' /\ Bindings'
    BY <1>1, TypeSend, BindingsUntouched DEF Send
  <1>2. ASSUME NEW p \in Phones, NEW c \in Clients, Move(p, c)
        PROVE  TypeOK' /\ Bindings'
    BY <1>2, TypeMove, BindingsUntouched DEF Move
  <1>3. ASSUME NEW c \in Clients, Deactivate(c)
        PROVE  TypeOK' /\ Bindings'
    BY <1>3, TypeDeactivate, BindingsDeactivate
  <1>4. CASE StartPolling
    BY <1>4, TypeStart, BindingsUntouched DEF StartPolling
  <1>5. CASE Fetch
    BY <1>5, TypeFetch, BindingsUntouched DEF Fetch
  <1>6. CASE FetchFails
    BY <1>6, TypeFetchFails, BindingsUntouched DEF FetchFails
  <1>7. CASE Wake
    BY <1>7, TypeWake, BindingsUntouched DEF Wake
  <1>8. CASE Advance
    BY <1>8, TypeAdvance, BindingsUntouched DEF Advance
  <1>9. CASE HandleUnsubscribe
    BY <1>9, TypeUnsubscribe, BindingsUnsubscribe
  <1>10. CASE UnsubscribeAmbiguous
    BY <1>10, TypeRaised, BindingsUntouched DEF UnsubscribeAmbiguous, Raised
  <1>11. CASE HandleOther
    BY <1>11, TypeOther, BindingsUntouched DEF HandleOther
  <1>12. CASE HandlerFails
    BY <1>12, TypeHandlerFails, BindingsUntouched DEF HandlerFails
  <1>13. ASSUME NEW p \in Phones, LinkMax(p)
         PROVE  TypeOK' /\ Bindings'
    BY <1>13, TypeLinkMax, BindingsLinkMax
  <1>14. ASSUME NEW p \in Phones, LinkMisses(p)
         PROVE  TypeOK' /\ Bindings'
    BY <1>14, TypeLinkMisses, BindingsUntouched DEF LinkMisses
  <1>15. CASE Crash
    BY <1>15, TypeCrash, BindingsUntouched DEF Crash
  <1>16. CASE UNCHANGED vars
    <2>1. TypeOK'
      BY <1>16 DEF TypeOK, vars
    <2>2. Bindings'
      BY <1>16, BindingsUntouched DEF vars, db
    <2> QED
      BY <2>1, <2>2
  <1> QED
    BY <1>1, <1>2, <1>3, <1>4, <1>5, <1>6, <1>7, <1>8, <1>9, <1>10, <1>11,
       <1>12, <1>13, <1>14, <1>15, <1>16 DEF Next, Loop

LEMMA InvHolds == Spec => []Inv
  BY InvInit, InvNext, PTL DEF Spec

-----------------------------------------------------------------------------
(* What a restart repeats                                                  *)

\* Update i binds its sender to client c; update i unsubscribes user u.
Link(i, c) == stream[i].says \in Phones /\ owner[stream[i].says] = c
Unsub(i, u) == stream[i].user = u /\ stream[i].says = Unsubscribe

\* How far this pass of the loop has come: what it handles next is behind Pos.
Pos == IF pc = "page" THEN at - 1 ELSE IF marker # None THEN marker ELSE acked

\* Update l is the last of the first n that binds c.
LastLink(l, n, c) == Link(l, c) /\ \A i \in l + 1 .. n : ~Link(i, c)

\* The binding of c, n updates having been handled at least once.  If this pass
\* has gone by the last update that binds c, c has the sender of it or nobody:
\* the sender if they never unsubscribed since, nobody if they did so in this
\* pass, or before it and the update is not one that is repeated.
Right(c, n) ==
    \/ maxId[c] = None /\ \A i \in 1 .. n : ~Link(i, c)
    \/ \E l \in 1 .. n :
         /\ LastLink(l, n, c)
         /\ l <= Pos =>
              /\ maxId[c] \in {stream[l].user, None}
              /\ (\A i \in l + 1 .. n : ~Unsub(i, stream[l].user))
                   => maxId[c] = stream[l].user
              /\ (\E i \in l + 1 .. n :
                     Unsub(i, stream[l].user) /\ (i <= Pos \/ l <= acked))
                   => maxId[c] = None

\* The first n updates are those handled so far; the loop is within them or
\* at the next one, and a marker is behind all of them.
Passes(n) ==
    /\ handled = 1 .. n
    /\ acked <= n
    /\ pc = "off" => marker = None
    /\ pc = "page" => acked <= at - 1 /\ at - 1 <= n /\ n <= last
    /\ pc # "page" /\ marker # None => marker = n

\* No command failed and no number moved.
Quiet == erred = {} /\ spent["move"] = 0

\* Then the rows name the owners of the numbers, and every binding is right.
Bound(n) ==
    /\ \A c \in Clients : phone[c] # None => owner[phone[c]] = c
    /\ \A c \in Clients : Right(c, n)

ReplayInv == \E n \in 0 .. Len(stream) : Passes(n) /\ (Quiet => Bound(n))

(* A step that carries out no update keeps a binding right, whether the    *)
(* loop goes back (a restart) or the server sees what was handled          *)
(* confirmed.                                                              *)
LEMMA RightKept ==
    ASSUME NEW n \in Nat, NEW c \in Clients, Right(c, n),
           \A i \in 1 .. n : stream'[i] = stream[i],
           owner' = owner, maxId' = maxId,
           acked \in Nat, acked' \in Nat, Pos \in Nat, Pos' \in Nat, Pos' <= Pos,
           acked' = acked \/ (Pos' = Pos /\ Pos = n)
    PROVE  Right(c, n)'
  <1>1. \A i \in 1 .. n : /\ Link(i, c)' <=> Link(i, c)
                          /\ \A u : Unsub(i, u)' <=> Unsub(i, u)
    BY DEF Link, Unsub
  <1>2. CASE maxId[c] = None /\ \A i \in 1 .. n : ~Link(i, c)
    BY <1>1, <1>2 DEF Right
  <1>3. ASSUME NEW l \in 1 .. n, LastLink(l, n, c),
               l <= Pos =>
                 /\ maxId[c] \in {stream[l].user, None}
                 /\ (\A i \in l + 1 .. n : ~Unsub(i, stream[l].user))
                      => maxId[c] = stream[l].user
                 /\ (\E i \in l + 1 .. n :
                        Unsub(i, stream[l].user) /\ (i <= Pos \/ l <= acked))
                      => maxId[c] = None
        PROVE  Right(c, n)'
    <2>1. \A i \in l + 1 .. n : i \in 1 .. n
      OBVIOUS
    <2>2. LastLink(l, n, c)'
      BY <1>1, <1>3, <2>1 DEF LastLink
    <2>3. stream'[l].user = stream[l].user
      OBVIOUS
    <2>4. ASSUME l <= Pos'
          PROVE  /\ maxId'[c] \in {stream'[l].user, None}
                 /\ (\A i \in l + 1 .. n : ~Unsub(i, stream[l].user)')
                      => maxId'[c] = stream'[l].user
                 /\ (\E i \in l + 1 .. n :
                        Unsub(i, stream[l].user)' /\ (i <= Pos' \/ l <= acked'))
                      => maxId'[c] = None
      BY <1>1, <1>3, <2>1, <2>3, <2>4
    <2> QED
      BY <2>2, <2>3, <2>4 DEF Right
  <1> QED
    BY <1>2, <1>3 DEF Right

(* The next update does not bind c: its binding stays right, if it goes    *)
(* exactly when the sender unsubscribes.  Behind it, m updates have been   *)
(* handled at least once.                                                  *)
LEMMA RightPast ==
    ASSUME NEW n \in Nat, NEW m \in Nat, NEW c \in Clients, Right(c, n),
           stream' = stream, owner' = owner, acked' = acked,
           at \in Nat \ {0}, at - 1 <= n, m = IF n < at THEN at ELSE n,
           acked \in Nat, Pos = at - 1, Pos' = at,
           ~Link(at, c), \A i \in 1 .. m : stream[i].user # None,
           maxId'[c] = IF Unsub(at, maxId[c]) THEN None ELSE maxId[c]
    PROVE  Right(c, m)'
  <1>1. n <= m /\ at \in 1 .. m /\ \A i \in 1 .. m : i \in 1 .. n \/ i = at
    OBVIOUS
  <1>2. \A i : /\ Link(i, c)' <=> Link(i, c)
               /\ \A u : Unsub(i, u)' <=> Unsub(i, u)
    BY DEF Link, Unsub
  <1>3. CASE maxId[c] = None /\ \A i \in 1 .. n : ~Link(i, c)
    BY <1>1, <1>2, <1>3 DEF Right
  <1>4. ASSUME NEW l \in 1 .. n, LastLink(l, n, c),
               l <= Pos =>
                 /\ maxId[c] \in {stream[l].user, None}
                 /\ (\A i \in l + 1 .. n : ~Unsub(i, stream[l].user))
                      => maxId[c] = stream[l].user
                 /\ (\E i \in l + 1 .. n :
                        Unsub(i, stream[l].user) /\ (i <= Pos \/ l <= acked))
                      => maxId[c] = None
        PROVE  Right(c, m)'
    <2>1. l \in 1 .. m /\ \A i \in l + 1 .. m : i \in l + 1 .. n \/ i = at
      BY <1>1
    <2>2. LastLink(l, m, c)'
      BY <1>2, <1>4, <2>1 DEF LastLink
    <2>3. ASSUME l <= Pos'
          PROVE  /\ maxId'[c] \in {stream'[l].user, None}
                 /\ (\A i \in l + 1 .. m : ~Unsub(i, stream[l].user)')
                      => maxId'[c] = stream'[l].user
                 /\ (\E i \in l + 1 .. m :
                        Unsub(i, stream[l].user)' /\ (i <= Pos' \/ l <= acked'))
                      => maxId'[c] = None
      <3> DEFINE v == stream[l].user
      <3>1. l <= Pos /\ at \in l + 1 .. m
        <4>1. l # at
          BY <1>4 DEF LastLink
        <4> QED
          BY <1>1, <2>3, <4>1
      <3>2. maxId[c] \in {v, None}
        BY <1>4, <3>1
      <3>3. ~Unsub(at, None)
        BY <1>1 DEF Unsub
      <3>4. (\A i \in l + 1 .. m : ~Unsub(i, v)) => maxId'[c] = v
        <4>1. SUFFICES ASSUME \A i \in l + 1 .. m : ~Unsub(i, v)
                       PROVE  maxId'[c] = v
          OBVIOUS
        <4>2. maxId[c] = v
          BY <1>1, <1>4, <3>1, <4>1
        <4> QED
          BY <3>1, <4>1, <4>2
      <3>5. ASSUME NEW i \in l + 1 .. m, Unsub(i, v), i <= Pos' \/ l <= acked
            PROVE  maxId'[c] = None
        <4>1. CASE i = at
          BY <3>2, <3>5, <4>1
        <4>2. CASE i # at
          <5>1. i \in l + 1 .. n /\ (i <= Pos \/ l <= acked)
            BY <2>1, <3>5, <4>2
          <5>2. maxId[c] = None
            BY <1>4, <3>1, <3>5, <5>1
          <5> QED
            BY <5>2
        <4> QED
          BY <4>1, <4>2
      <3> QED
        BY <1>2, <3>2, <3>4, <3>5
    <2> QED
      BY <2>1, <2>2, <2>3 DEF Right
  <1> QED
    BY <1>3, <1>4 DEF Right

(* The next update binds c.  If it is the last that does, the binding is   *)
(* right at once; if a later one does, this pass has not come to that one. *)
LEMMA RightLinked ==
    ASSUME NEW n \in Nat, NEW m \in Nat, NEW c \in Clients, Right(c, n),
           stream' = stream, owner' = owner, acked' = acked,
           at \in Nat \ {0}, at - 1 <= n, m = IF n < at THEN at ELSE n,
           acked \in Nat, acked <= at - 1, Pos = at - 1, Pos' = at,
           Link(at, c), maxId'[c] = stream[at].user
    PROVE  Right(c, m)'
  <1>1. \A i : /\ Link(i, c)' <=> Link(i, c)
               /\ \A u : Unsub(i, u)' <=> Unsub(i, u)
    BY DEF Link, Unsub
  <1>2. ASSUME \A i \in at + 1 .. m : ~Link(i, c)
        PROVE  Right(c, m)'
    <2>1. PICK l \in 1 .. m : l = at
      OBVIOUS
    <2>2. LastLink(l, m, c)'
      BY <1>1, <1>2, <2>1 DEF LastLink
    <2>3. /\ maxId'[c] = stream'[l].user
          /\ ~ \E i \in l + 1 .. m : i <= Pos' \/ l <= acked'
      BY <2>1
    <2> QED
      BY <2>2, <2>3 DEF Right
  <1>3. ASSUME NEW j \in at + 1 .. m, Link(j, c)
        PROVE  Right(c, m)'
    <2>1. m = n /\ at \in 1 .. n
      BY <1>3
    <2>2. PICK l \in 1 .. n : LastLink(l, n, c)
      BY <2>1 DEF Right
    <2>3. l > Pos'
      BY <1>3, <2>1, <2>2 DEF LastLink
    <2>4. LastLink(l, m, c)'
      BY <1>1, <2>1, <2>2 DEF LastLink
    <2>5. ~(l <= Pos')
      BY <2>3
    <2> QED
      BY <2>1, <2>4, <2>5 DEF Right
  <1> QED
    BY <1>2, <1>3

(* Every update has a sender.                                              *)
LEMMA SenderKnown ==
    ASSUME TypeOK, NEW i \in 1 .. Len(stream)
    PROVE  stream[i].user # None
  <1>1. stream \in Seq([user : Users, says : Words])
    BY DEF TypeOK
  <1>2. stream[i] \in [user : Users, says : Words]
    BY <1>1, ElementInSet
  <1> QED
    BY <1>2, NoneAssumption

(* No event that is counted but a move undoes or makes a quiet run.        *)
LEMMA SpendQuiet ==
    ASSUME TypeOK, NEW what \in DOMAIN Limit, what # "move", Spend(what), Quiet',
           erred' = erred
    PROVE  Quiet
  BY LimitNames DEF TypeOK, Quiet, Spend

(* A step that carries out no update keeps every binding right.            *)
LEMMA BoundKept ==
    ASSUME TypeOK, TypeOK', NEW n \in Nat, Quiet => Bound(n), Quiet' => Quiet,
           \A i \in 1 .. n : stream'[i] = stream[i],
           UNCHANGED <<owner, phone, maxId>>,
           Pos' <= Pos, acked' = acked \/ (Pos' = Pos /\ Pos = n)
    PROVE  Quiet' => Bound(n)'
  <1>1. /\ Pos \in Nat /\ acked \in Nat
        /\ Pos' \in Nat /\ acked' \in Nat
    BY NoneAssumption DEF TypeOK, Pos
  <1>2. ASSUME NEW c \in Clients, Right(c, n)
        PROVE  Right(c, n)'
    BY <1>1, <1>2, RightKept
  <1> QED
    BY <1>2 DEF Bound

(* What every handler does to the places of the loop: m updates have been  *)
(* handled at least once behind it.                                        *)
LEMMA PassesHandled ==
    ASSUME TypeOK, NEW n \in 0 .. Len(stream), Passes(n),
           pc = "page", at <= last, Handled,
           NEW m, m = IF n < at THEN at ELSE n
    PROVE  /\ m \in 0 .. Len(stream') /\ m \in Nat /\ n \in Nat
           /\ Passes(m)'
           /\ at \in Nat \ {0} /\ at \in 1 .. Len(stream)
           /\ acked \in Nat /\ acked <= at - 1 /\ at - 1 <= n
           /\ Pos = at - 1 /\ Pos' = at
           /\ stream' = stream /\ owner' = owner /\ acked' = acked
  <1>1. /\ at \in acked + 1 .. last + 1 /\ acked \in Nat
        /\ last \in 0 .. Len(stream) /\ Len(stream) \in Nat
    BY DEF TypeOK
  <1>2. /\ handled = 1 .. n /\ acked <= at - 1 /\ at - 1 <= n /\ n <= last
    BY DEF Passes
  <1>3. /\ at' = at + 1 /\ handled' = handled \cup {at}
        /\ UNCHANGED <<owner, stream, acked, pc, marker, last>>
    BY DEF Handled, server
  <1>4. m \in Nat /\ at <= m /\ m <= last /\ m \in 0 .. Len(stream')
    BY <1>1, <1>2, <1>3
  <1>5. handled' = 1 .. m
    BY <1>1, <1>2, <1>3
  <1>6. Passes(m)'
    BY <1>1, <1>2, <1>3, <1>4, <1>5 DEF Passes
  <1>7. Pos = at - 1 /\ Pos' = at
    BY <1>1, <1>3 DEF Pos
  <1> QED
    BY <1>1, <1>2, <1>3, <1>4, <1>6, <1>7

(* A command that binds nobody: a client's binding goes exactly if its     *)
(* user unsubscribes.                                                      *)
LEMMA ReplayNoLink ==
    ASSUME TypeOK, NEW n \in 0 .. Len(stream), Passes(n), Quiet => Bound(n),
           pc = "page", at <= last, Handled, Update.says \notin Phones,
           UNCHANGED <<phone, erred, spent>>,
           \A c \in Clients :
              maxId'[c] = IF Unsub(at, maxId[c]) THEN None ELSE maxId[c]
    PROVE  ReplayInv'
  <1>1. PICK m : m = IF n < at THEN at ELSE n
    OBVIOUS
  <1>2. /\ m \in 0 .. Len(stream') /\ m \in Nat /\ n \in Nat
        /\ Passes(m)'
        /\ at \in Nat \ {0}
        /\ acked \in Nat /\ at - 1 <= n
        /\ Pos = at - 1 /\ Pos' = at
        /\ stream' = stream /\ owner' = owner /\ acked' = acked
    BY <1>1, PassesHandled
  <1>3. \A i \in 1 .. m : stream[i].user # None
    <2>1. \A i \in 1 .. m : i \in 1 .. Len(stream)
      BY <1>2 DEF TypeOK
    <2> QED
      BY <2>1, SenderKnown
  <1>4. ASSUME NEW c \in Clients, Right(c, n)
        PROVE  Right(c, m)'
    <2>1. ~Link(at, c)
      BY DEF Link, Update
    <2> QED
      BY <1>1, <1>2, <1>3, <1>4, <2>1, RightPast
  <1>5. Quiet' => Bound(m)'
    BY <1>2, <1>4 DEF Quiet, Bound
  <1> QED
    BY <1>2, <1>5 DEF ReplayInv

(* A number binds its sender to its owner, and to nobody else.             *)
LEMMA ReplayLinks ==
    ASSUME TypeOK, NEW n \in 0 .. Len(stream), Passes(n), Quiet => Bound(n),
           NEW p \in Phones, LinkMax(p)
    PROVE  ReplayInv'
  <1>1. pc = "page" /\ at <= last /\ Handled /\ Update.says = p
    BY DEF LinkMax, Handling
  <1>2. PICK m : m = IF n < at THEN at ELSE n
    OBVIOUS
  <1>3. /\ m \in 0 .. Len(stream') /\ m \in Nat /\ n \in Nat
        /\ Passes(m)'
        /\ at \in Nat \ {0}
        /\ acked \in Nat /\ acked <= at - 1 /\ at - 1 <= n
        /\ Pos = at - 1 /\ Pos' = at
        /\ stream' = stream /\ owner' = owner /\ acked' = acked
    BY <1>1, <1>2, PassesHandled
  <1>4. \A i \in 1 .. m : stream[i].user # None
    <2>1. \A i \in 1 .. m : i \in 1 .. Len(stream)
      BY <1>3 DEF TypeOK
    <2> QED
      BY <2>1, SenderKnown
  <1>5. ~ \E u : Unsub(at, u)
    BY <1>1, PhoneAssumption DEF Unsub, Update
  <1>6. ASSUME Quiet
        PROVE  Bound(m)'
    <2>1. /\ \A c \in Clients : phone[c] # None => owner[phone[c]] = c
          /\ \A c \in Clients : Right(c, n)
      BY <1>6 DEF Bound
    <2>2. Candidate(p) \in Clients /\ Candidate(p) = owner[p]
      <3>1. Candidate(p) \in Clients
        BY CandidateIsClient DEF LinkMax
      <3>2. CASE \E c \in Clients : phone[c] = p
        <4>1. phone[Candidate(p)] = p
          BY <3>1, <3>2, CandidateIsClient DEF LinkMax
        <4>2. p # None
          BY NoneAssumption
        <4> QED
          BY <2>1, <3>1, <4>1, <4>2
      <3>3. CASE ~ \E c \in Clients : phone[c] = p
        BY <3>1, <3>3 DEF Candidate
      <3> QED
        BY <3>2, <3>3
    <2>3. /\ phone' = [phone EXCEPT ![owner[p]] = p]
          /\ maxId' = [maxId EXCEPT ![owner[p]] = Update.user]
      BY <2>2 DEF LinkMax
    <2>4. \A c \in Clients : phone'[c] # None => owner'[phone'[c]] = c
      BY <1>3, <2>1, <2>2, <2>3 DEF TypeOK
    <2>5. ASSUME NEW c \in Clients
          PROVE  Right(c, m)'
      <3>1. CASE c = owner[p]
        <4>1. Link(at, c)
          BY <1>1, <3>1 DEF Link, Update
        <4>2. maxId'[c] = stream[at].user
          BY <2>3, <3>1 DEF TypeOK, Update
        <4>3. Right(c, n)
          BY <2>1
        <4> QED
          BY <1>2, <1>3, <4>1, <4>2, <4>3, RightLinked
      <3>2. CASE c # owner[p]
        <4>1. ~Link(at, c)
          BY <1>1, <3>2 DEF Link, Update
        <4>2. maxId'[c] = IF Unsub(at, maxId[c]) THEN None ELSE maxId[c]
          BY <1>5, <2>3, <3>2 DEF TypeOK
        <4>3. Right(c, n)
          BY <2>1
        <4> QED
          BY <1>2, <1>3, <1>4, <4>1, <4>2, <4>3, RightPast
      <3> QED
        BY <3>1, <3>2
    <2> QED
      BY <2>4, <2>5 DEF Bound
  <1>7. Quiet' => Quiet
    BY DEF LinkMax, Quiet
  <1> QED
    BY <1>3, <1>6, <1>7 DEF ReplayInv

(* A handler that fails leaves no promise about the bindings.              *)
LEMMA ReplayFails ==
    ASSUME TypeOK, NEW n \in 0 .. Len(stream), Passes(n),
           pc = "page", at <= last, Handled, erred' # {}
    PROVE  ReplayInv'
  <1>1. PICK m : m = IF n < at THEN at ELSE n
    OBVIOUS
  <1>2. m \in 0 .. Len(stream') /\ Passes(m)'
    BY <1>1, PassesHandled
  <1> QED
    BY <1>2 DEF Quiet, ReplayInv

LEMMA ReplayInit == Init => ReplayInv
  <1> SUFFICES ASSUME Init PROVE ReplayInv
    OBVIOUS
  <1>1. Len(stream) = 0 /\ 0 \in 0 .. Len(stream)
    BY DEF Init
  <1>2. Passes(0)
    BY DEF Init, Passes
  <1>3. \A c \in Clients : phone[c] = None /\ Right(c, 0)
    BY DEF Init, Right
  <1> QED
    BY <1>1, <1>2, <1>3 DEF ReplayInv, Bound

LEMMA ReplaySend ==
    ASSUME TypeOK, TypeOK', NEW n \in 0 .. Len(stream), Passes(n),
           Quiet => Bound(n), NEW u \in Users, NEW says \in Words, Send(u, says)
    PROVE  ReplayInv'
  <1>1. /\ stream \in Seq([user : Users, says : Words])
        /\ stream' = Append(stream, [user |-> u, says |-> says])
        /\ UNCHANGED <<owner, acked, phone, maxId, pc, marker, at, last, handled,
                       erred, spent>>
    BY DEF TypeOK, Send, db, loop
  <1>2. /\ n \in 0 .. Len(stream') /\ n \in Nat
        /\ \A i \in 1 .. n : stream'[i] = stream[i]
    BY <1>1
  <1>3. Passes(n)'
    BY <1>1 DEF Passes
  <1>4. Pos' <= Pos
    <2>1. Pos' = Pos /\ Pos \in Int
      BY <1>1, NoneAssumption DEF TypeOK, Pos
    <2> QED
      BY <2>1
  <1>5. Quiet' => Quiet
    BY <1>1 DEF Quiet
  <1>6. Quiet' => Bound(n)'
    BY <1>1, <1>2, <1>4, <1>5, BoundKept
  <1> QED
    BY <1>2, <1>3, <1>6 DEF ReplayInv

(* The loop goes from the last update of the page to behind it; a request  *)
(* confirms what was handled, or goes back to what was not confirmed.      *)
LEMMA ReplayMoves ==
    ASSUME TypeOK, TypeOK', NEW n \in 0 .. Len(stream), Passes(n),
           Quiet => Bound(n),
           \/ StartPolling \/ Fetch \/ FetchFails \/ Wake \/ Advance \/ Crash
           \/ \E c \in Clients : Deactivate(c)
    PROVE  ReplayInv'
  <1>1. /\ UNCHANGED <<owner, stream, phone, maxId, handled, erred>>
        /\ n \in Nat /\ n \in 0 .. Len(stream')
        /\ \A i \in 1 .. n : stream'[i] = stream[i]
    BY DEF StartPolling, Fetch, FetchFails, Wake, Advance, Crash, Deactivate,
           db, server, loop
  <1>2. Quiet' => Quiet
    BY <1>1, SpendQuiet, LimitNames
       DEF StartPolling, Fetch, FetchFails, Wake, Advance, Crash, Deactivate, Quiet
  <1>3. /\ acked \in Nat /\ Len(stream) \in Nat
        /\ marker \in (acked .. Len(stream)) \cup {None}
        /\ pc = "page" => at \in acked + 1 .. last + 1
        /\ last \in 0 .. Len(stream)
        /\ None \notin Nat
    BY NoneAssumption DEF TypeOK
  <1>4. /\ handled = 1 .. n
        /\ acked <= n
        /\ pc = "off" => marker = None
        /\ pc = "page" => acked <= at - 1 /\ at - 1 <= n /\ n <= last
        /\ pc # "page" /\ marker # None => marker = n
    BY DEF Passes
  <1>5. Passes(n)' /\ Pos' <= Pos /\ (acked' = acked \/ (Pos' = Pos /\ Pos = n))
    <2>1. CASE StartPolling
      BY <1>3, <1>4, <2>1 DEF StartPolling, Passes, Pos, server
    <2>2. CASE Fetch
      BY <1>3, <1>4, <2>2 DEF Fetch, Passes, Pos, From
    <2>3. CASE FetchFails
      BY <1>3, <1>4, <2>3 DEF FetchFails, Passes, Pos, From
    <2>4. CASE Wake
      BY <1>3, <1>4, <2>4 DEF Wake, Passes, Pos, server
    <2>5. CASE Advance
      BY <1>3, <1>4, <2>5 DEF Advance, Passes, Pos, server
    <2>6. CASE Crash
      BY <1>3, <1>4, <2>6 DEF Crash, Passes, Pos, server
    <2>7. ASSUME NEW c \in Clients, Deactivate(c)
          PROVE  Passes(n)' /\ Pos' <= Pos /\ acked' = acked
      BY <1>3, <1>4, <2>7 DEF Deactivate, Passes, Pos, server, loop
    <2> QED
      BY <2>1, <2>2, <2>3, <2>4, <2>5, <2>6, <2>7
  <1>6. Quiet' => Bound(n)'
    BY <1>1, <1>2, <1>5, BoundKept
  <1> QED
    BY <1>1, <1>5, <1>6 DEF ReplayInv

LEMMA ReplayNext == Inv /\ ReplayInv /\ [Next]_vars => ReplayInv'
  <1> SUFFICES ASSUME Inv, ReplayInv, [Next]_vars PROVE ReplayInv'
    OBVIOUS
  <1>1. TypeOK /\ TypeOK'
    BY InvNext DEF Inv
  <1>2. PICK n \in 0 .. Len(stream) : Passes(n) /\ (Quiet => Bound(n))
    BY DEF ReplayInv
  <1>3. ASSUME NEW u \in Users, NEW says \in Words, Send(u, says)
        PROVE  ReplayInv'
    BY <1>1, <1>2, <1>3, ReplaySend
  <1>4. ASSUME NEW p \in Phones, NEW c \in Clients, Move(p, c)
        PROVE  ReplayInv'
    <2>1. spent'["move"] # 0
      BY <1>1, <1>4, LimitNames DEF TypeOK, Move, Spend
    <2>2. n \in 0 .. Len(stream') /\ Passes(n)'
      BY <1>2, <1>4 DEF Move, Passes, server, loop
    <2> QED
      BY <2>1, <2>2 DEF ReplayInv, Quiet
  <1>5. CASE \/ StartPolling \/ Fetch \/ FetchFails \/ Wake \/ Advance \/ Crash
             \/ \E c \in Clients : Deactivate(c)
    BY <1>1, <1>2, <1>5, ReplayMoves
  <1>6. CASE HandleUnsubscribe
    <2>1. /\ pc = "page" /\ at <= last /\ Handled /\ Update.says = Unsubscribe
          /\ UNCHANGED <<phone, erred, spent>>
      BY <1>6 DEF HandleUnsubscribe, Handling
    <2>2. Update.says \notin Phones
      BY <2>1, PhoneAssumption
    <2>3. \A c \in Clients :
             maxId'[c] = IF Unsub(at, maxId[c]) THEN None ELSE maxId[c]
      BY <1>6, <2>1 DEF HandleUnsubscribe, Unsub, Update, Linked
    <2> QED
      BY <1>1, <1>2, <2>1, <2>2, <2>3, ReplayNoLink
  <1>7. CASE HandleOther
    <2>1. /\ pc = "page" /\ at <= last /\ Handled /\ Update.says = Other
          /\ UNCHANGED <<phone, maxId, erred, spent>>
      BY <1>7 DEF HandleOther, Handling, db
    <2>2. Update.says \notin Phones
      BY <2>1, PhoneAssumption
    <2>3. \A c \in Clients :
             maxId'[c] = IF Unsub(at, maxId[c]) THEN None ELSE maxId[c]
      BY <2>1 DEF Unsub, Update, Other, Unsubscribe
    <2> QED
      BY <1>1, <1>2, <2>1, <2>2, <2>3, ReplayNoLink
  <1>8. ASSUME NEW p \in Phones, LinkMax(p)
        PROVE  ReplayInv'
    BY <1>1, <1>2, <1>8, ReplayLinks
  <1>9. CASE \/ UnsubscribeAmbiguous \/ HandlerFails
             \/ \E p \in Phones : LinkMisses(p)
    <2>1. pc = "page" /\ at <= last /\ Handled /\ erred' # {}
      BY <1>9 DEF UnsubscribeAmbiguous, Raised, HandlerFails, LinkMisses, Handling
    <2> QED
      BY <1>1, <1>2, <2>1, ReplayFails
  <1>10. CASE UNCHANGED vars
    <2>1. ReplayInv' <=> ReplayInv
      BY <1>10 DEF vars, ReplayInv, Passes, Quiet, Bound, Right, LastLink, Link,
                   Unsub, Pos
    <2> QED
      BY <2>1
  <1> QED
    BY <1>3, <1>4, <1>5, <1>6, <1>7, <1>8, <1>9, <1>10 DEF Next, Loop

(* A caught-up loop: the last link of each client and what its user did    *)
(* since decide who is bound, and that is what Wanted says.                *)
LEMMA RightIsWanted ==
    ASSUME TypeOK, NEW n \in 0 .. Len(stream), Pos = n,
           NEW c \in Clients, Right(c, n)
    PROVE  IF Wanted(n, c) = {} THEN maxId[c] = None ELSE maxId[c] \in Wanted(n, c)
  <1>1. \A i \in 1 .. n :
           /\ stream[i] \in [user : Users, says : Words]
           /\ stream[i].user \in Users
           /\ \A u : Unsub(i, u) <=> stream[i] = [user |-> u, says |-> Unsubscribe]
    <2>1. ASSUME NEW i \in 1 .. n
          PROVE  stream[i] \in [user : Users, says : Words]
      <3>1. i \in 1 .. Len(stream) /\ stream \in Seq([user : Users, says : Words])
        BY DEF TypeOK
      <3> QED
        BY <3>1, ElementInSet
    <2> QED
      BY <2>1 DEF Unsub
  <1>2. Wanted(n, c) =
          {u \in Users : \E j \in 1 .. n :
              /\ stream[j].user = u /\ LastLink(j, n, c)
              /\ \A i \in j + 1 .. n : ~Unsub(i, u)}
    <2>1. ASSUME NEW u \in Users, NEW j \in 1 .. n
          PROVE  (/\ stream[j].says \in Phones /\ owner[stream[j].says] = c
                  /\ \A k \in j + 1 .. n :
                       /\ stream[k].says \in Phones => owner[stream[k].says] # c
                       /\ stream[k] # [user |-> u, says |-> Unsubscribe])
                 <=> LastLink(j, n, c) /\ \A i \in j + 1 .. n : ~Unsub(i, u)
      <3>1. \A i \in j + 1 .. n : i \in 1 .. n
        OBVIOUS
      <3> QED
        BY <1>1, <3>1 DEF LastLink, Link
    <2> QED
      BY <2>1 DEF Wanted
  <1>3. CASE maxId[c] = None /\ \A i \in 1 .. n : ~Link(i, c)
    BY <1>2, <1>3 DEF LastLink
  <1>4. ASSUME NEW l \in 1 .. n, LastLink(l, n, c),
               l <= Pos =>
                 /\ maxId[c] \in {stream[l].user, None}
                 /\ (\A i \in l + 1 .. n : ~Unsub(i, stream[l].user))
                      => maxId[c] = stream[l].user
                 /\ (\E i \in l + 1 .. n :
                        Unsub(i, stream[l].user) /\ (i <= Pos \/ l <= acked))
                      => maxId[c] = None
        PROVE  IF Wanted(n, c) = {} THEN maxId[c] = None ELSE maxId[c] \in Wanted(n, c)
    <2>1. \A j \in 1 .. n : LastLink(j, n, c) => j = l
      BY <1>4 DEF LastLink
    <2>2. CASE \A i \in l + 1 .. n : ~Unsub(i, stream[l].user)
      BY <1>1, <1>2, <1>4, <2>2
    <2>3. CASE \E i \in l + 1 .. n : Unsub(i, stream[l].user)
      BY <1>2, <1>4, <2>1, <2>3
    <2> QED
      BY <2>2, <2>3
  <1> QED
    BY <1>3, <1>4 DEF Right

-----------------------------------------------------------------------------
(* What follows                                                            *)

(* Every variable keeps its shape: the marker never points outside what    *)
(* was sent and what was confirmed, and the loop never handles an update   *)
(* outside its page.                                                       *)
THEOREM RegistryTypeCorrect == Spec => []TypeOK
  <1>1. Inv => TypeOK
    BY DEF Inv
  <1> QED
    BY InvHolds, <1>1, PTL

(* link_max and find_by_phone_hash: whatever numbers change hands in       *)
(* YClients and whatever pages are handled twice, no two client rows ever  *)
(* hold the same phone hash.                                               *)
THEOREM PhonesUnique == Spec => []OnePerPhone
  <1>1. Inv => OnePerPhone
    BY DEF Inv, Bindings
  <1> QED
    BY InvHolds, <1>1, PTL

(* _ensure_channel_settings and handle_unsubscribe: a client has a MAX     *)
(* settings row exactly while a user is bound to it.                       *)
THEOREM SetUpIffBound == Spec => []BoundIffSetUp
  <1>1. Inv => BoundIffSetUp
    BY DEF Inv, Bindings
  <1> QED
    BY InvHolds, <1>1, PTL

(* handle_unsubscribe: a user whose last successful command was            *)
(* /unsubscribe is bound to no client, with any number of clients, users   *)
(* and numbers.                                                            *)
THEOREM UnsubscribedStays == Spec => []LastWordHolds
  <1>1. Inv => LastWordHolds
    BY DEF Inv, Bindings
  <1> QED
    BY InvHolds, <1>1, PTL

(* deactivate_channel: a channel the administrator switched off is not     *)
(* switched on again before a user bound to the client sends another       *)
(* /unsubscribe, unless an /unsubscribe handled before was still           *)
(* unconfirmed, so that a restart could repeat it.                         *)
THEOREM SilencedStays == Spec => []DeactivationSticks
  <1>1. Inv => DeactivationSticks
    BY DEF Inv, Bindings
  <1> QED
    BY InvHolds, <1>1, PTL

(* MaxAdapter.start_polling and the handlers behind it: however often the  *)
(* application restarts, and whatever part of whatever page is carried out *)
(* again, a loop that has caught up leaves the bindings of every command   *)
(* carried out once, unless a command failed or a number moved.            *)
THEOREM RepeatsHarmless == Spec => []RepeatsConverge
  <1>1. Inv /\ ReplayInv => RepeatsConverge
    <2> SUFFICES ASSUME Inv, ReplayInv, pc = "poll", marker # None, Quiet,
                        NEW c \in Clients
                 PROVE  IF Wanted(marker, c) = {} THEN maxId[c] = None
                        ELSE maxId[c] \in Wanted(marker, c)
      BY DEF RepeatsConverge, Quiet
    <2>1. PICK n \in 0 .. Len(stream) : Passes(n) /\ Bound(n)
      BY DEF ReplayInv
    <2>2. marker = n /\ Pos = n
      BY <2>1 DEF Passes, Pos
    <2>3. Right(c, n)
      BY <2>1 DEF Bound
    <2> QED
      BY <2>2, <2>3, RightIsWanted DEF Inv
  <1> QED
    BY InvHolds, ReplayInit, ReplayNext, <1>1, PTL DEF Spec

(* The poll marker (start_polling): an update that was confirmed to the    *)
(* server, which will never return it again, has reached its handler, and  *)
(* so has every update before it.                                          *)
THEOREM ConfirmedHandled == Spec => [](1 .. acked \subseteq handled)
  <1>1. Inv /\ ReplayInv => 1 .. acked \subseteq handled
    <2> SUFFICES ASSUME Inv, ReplayInv
                 PROVE  1 .. acked \subseteq handled
      OBVIOUS
    <2>1. PICK n \in 0 .. Len(stream) : Passes(n)
      BY DEF ReplayInv
    <2>2. acked \in Nat /\ n \in Nat
      BY DEF Inv, TypeOK
    <2> QED
      BY <2>1, <2>2 DEF Passes
  <1> QED
    BY InvHolds, ReplayInit, ReplayNext, <1>1, PTL DEF Spec
=============================================================================
