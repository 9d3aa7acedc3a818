------------------------------ MODULE Registry ------------------------------
(***************************************************************************)
(* Who is reached over MAX: the client rows, their bindings and channel    *)
(* settings (app/services/client_registry.py), changed by the commands     *)
(* users send to the bot, which one background task of the application     *)
(* reads with long polling (app/adapters/max_adapter.py), and by the       *)
(* administrator.                                                          *)
(*                                                                         *)
(* The poll marker lives in memory only.  A request confirms to the server *)
(* the updates up to its marker; one without a marker returns whatever was *)
(* not confirmed yet.  A restart therefore repeats the last page.          *)
(*                                                                         *)
(* MAX is the one channel a user can bind: nothing calls link_telegram or  *)
(* link_whatsapp, so no client has a Telegram id, /unsubscribe in Telegram *)
(* finds nobody, and the settings rows are those of MAX.                   *)
(***************************************************************************)
EXTENDS Integers, Sequences, FiniteSets

CONSTANTS
    Clients,            \* client ids of YClients
    Phones,             \* phone numbers, as hashed
    Users,              \* MAX user ids
    FirstOwner,         \* the client a number belongs to in the beginning
    None,               \* no value
    MaxUpdates,         \* bound: updates users send
    MaxCrashes,         \* bound: restarts of the application
    MaxErrors,          \* bound: failed requests, queries and lookups
    MaxMoves,           \* bound: numbers that change hands in YClients
    MaxDeactivations    \* bound: channels the administrator switches off

ASSUME BoundsAssumption ==
    {MaxUpdates, MaxCrashes, MaxErrors, MaxMoves, MaxDeactivations} \subseteq Nat

ASSUME OwnerAssumption == FirstOwner \in [Phones -> Clients]

ASSUME NoneAssumption ==
    None \notin Clients \cup Users \cup Nat /\ None \notin Phones

VARIABLES
    owner,      \* YClients: the client a phone number belongs to
    stream,     \* MAX server: the updates sent so far
    acked,      \* MAX server: updates up to here were confirmed by a marker
    phone,      \* whatsapp_phone_hash of each client; None: no client row yet
    maxId,      \* max_user_id of each client
    row,        \* the MAX settings row of each client: none, enabled, disabled
    pc,         \* the polling task: off, poll, page, sleep
    marker,     \* _polling_marker
    at,         \* the update of the page handled next
    last,       \* the last update of the page
    handled,    \* history: updates a handler was called for
    word,       \* history: what the last command of a user that succeeded did
    erred,      \* history: users one of whose commands failed or found nobody
    silenced,   \* history: clients switched off by the administrator, until
                \* their user unsubscribes with an update not handled before
    before,     \* history: the /unsubscribes that a restart could repeat when
                \* the client was switched off: handled but not confirmed
    spent       \* how often each bounded event has happened

db == <<phone, maxId, row>>
server == <<stream, acked>>
loop == <<pc, marker, at, last>>
vars == <<owner, stream, acked, phone, maxId, row, pc, marker, at, last,
          handled, word, erred, silenced, before, spent>>

\* What a user can send: a phone number, /unsubscribe, or something else
\* (bot_started, any other text), which is answered and changes nothing.
Unsubscribe == "unsubscribe"
Other == "other"
Words == Phones \cup {Unsubscribe, Other}

\* A text is a number if it begins with + or has only digits: no command does.
ASSUME PhoneAssumption == {Unsubscribe, Other} \cap Phones = {}

Limit == [crash |-> MaxCrashes, error |-> MaxErrors, move |-> MaxMoves,
          deactivate |-> MaxDeactivations]

Spend(what) ==
    /\ spent[what] < Limit[what]
    /\ spent' = [spent EXCEPT ![what] = @ + 1]

TypeOK ==
    /\ owner \in [Phones -> Clients \cup {None}]
    /\ stream \in Seq([user : Users, says : Words])
    /\ Len(stream) <= MaxUpdates
    /\ acked \in 0 .. Len(stream)
    /\ phone \in [Clients -> Phones \cup {None}]
    /\ maxId \in [Clients -> Users \cup {None}]
    /\ row \in [Clients -> {"none", "enabled", "disabled"}]
    /\ pc \in {"off", "poll", "page", "sleep"}
    /\ marker \in (acked .. Len(stream)) \cup {None}
    /\ pc = "page" => at \in acked + 1 .. last + 1
    /\ last \in 0 .. Len(stream)
    /\ handled \subseteq 1 .. Len(stream)
    /\ word \in [Users -> {"nothing", "linked", "unsubscribed"}]
    /\ erred \subseteq Users
    /\ silenced \subseteq Clients
    /\ before \in [Clients -> SUBSET (1 .. Len(stream))]
    /\ spent \in [DOMAIN Limit -> Nat]
    /\ \A what \in DOMAIN Limit : spent[what] <= Limit[what]

Init ==
    /\ owner = FirstOwner
    /\ stream = <<>>
    /\ acked = 0
    /\ phone = [c \in Clients |-> None]
    /\ maxId = [c \in Clients |-> None]
    /\ row = [c \in Clients |-> "none"]
    /\ pc = "off"
    /\ marker = None
    /\ at = 0
    /\ last = 0
    /\ handled = {}
    /\ word = [u \in Users |-> "nothing"]
    /\ erred = {}
    /\ silenced = {}
    /\ before = [c \in Clients |-> {}]
    /\ spent = [what \in DOMAIN Limit |-> 0]

-----------------------------------------------------------------------------
(* The environment: users, YClients, the administrator                     *)

\* A user sends the bot a number, a command or anything else.
Send(u, says) ==
    /\ Len(stream) < MaxUpdates
    /\ stream' = Append(stream, [user |-> u, says |-> says])
    /\ UNCHANGED <<owner, acked, db, loop, handled, word, erred,
                   silenced, before, spent>>

\* A number gets a new owner in YClients, who drops the one they had.
Move(p, c) ==
    /\ owner[p] # c
    /\ Spend("move")
    /\ owner' = [q \in Phones |-> IF q = p THEN c
                                  ELSE IF owner[q] = c THEN None ELSE owner[q]]
    /\ UNCHANGED <<server, db, loop, handled, word, erred, silenced, before>>

\* POST /admin/clients/{id}/deactivate-channel: the row, if there is one, is
\* switched off.
Deactivate(c) ==
    /\ row[c] = "enabled"
    /\ Spend("deactivate")
    /\ row' = [row EXCEPT ![c] = "disabled"]
    /\ silenced' = silenced \cup {c}
    /\ before' = [before EXCEPT ![c] =
                    {i \in handled : i > acked /\ stream[i].says = Unsubscribe}]
    /\ UNCHANGED <<owner, server, phone, maxId, loop, handled, word, erred>>

-----------------------------------------------------------------------------
(* The polling loop                                                        *)

\* The start of the application starts the loop; the marker is unset.
\* Faulty variant: what was sent while it was down is dropped.
StartPolling_DropsPending ==
    /\ pc = "off"
    /\ pc' = "poll"
    /\ marker' = Len(stream)
    /\ UNCHANGED <<owner, server, db, at, last, handled, word, erred,
                   silenced, before, spent>>

StartPolling ==
    /\ pc = "off"
    /\ pc' = "poll"
    /\ UNCHANGED <<owner, server, db, marker, at, last, handled, word, erred,
                   silenced, before, spent>>

\* Where the server continues: after the marker, or after what it last saw
\* confirmed.
From == IF marker = None THEN acked ELSE marker

\* A long poll returns the updates there are; it waits while there is none.
Fetch ==
    /\ pc = "poll"
    /\ From < Len(stream)
    /\ pc' = "page"
    /\ acked' = From
    /\ at' = From + 1
    /\ last' = Len(stream)
    /\ UNCHANGED <<owner, stream, db, marker, handled, word, erred,
                   silenced, before, spent>>

\* The request fails, or its answer is lost; the loop sleeps for 30 seconds.
FetchFails ==
    /\ pc = "poll"
    /\ Spend("error")
    /\ pc' = "sleep"
    /\ acked' \in {acked, From}
    /\ UNCHANGED <<owner, stream, db, marker, at, last, handled, word, erred,
                   silenced, before>>

Wake ==
    /\ pc = "sleep"
    /\ pc' = "poll"
    /\ UNCHANGED <<owner, server, db, marker, at, last, handled, word, erred,
                   silenced, before, spent>>

\* The update being handled, and its sender.
Update == stream[at]
Handling(says) == pc = "page" /\ at <= last /\ Update.says = says

\* Its handler is done, whatever came of it: an exception is logged and the
\* page goes on.
Handled ==
    /\ at' = at + 1
    /\ handled' = handled \cup {at}
    /\ UNCHANGED <<owner, server, pc, marker, last>>

Raised ==
    /\ Handled
    /\ erred' = erred \cup {Update.user}
    /\ UNCHANGED <<db, word, silenced, before, spent>>

\* _ensure_channel_settings: an existing row stays as it is.
\* Faulty variant: linking switches the channel on again.
EnsureSettings_Enables(c) == [row EXCEPT ![c] = "enabled"]

EnsureSettings(c) == IF row[c] = "none" THEN [row EXCEPT ![c] = "enabled"] ELSE row

\* link_max: the client with this phone hash, else the one YClients names.
\* Faulty variant: YClients is always asked.
Candidate_AsksYClients(p) == owner[p]

Candidate(p) ==
    IF \E c \in Clients : phone[c] = p
    THEN CHOOSE c \in Clients : phone[c] = p
    ELSE owner[p]

\* handle_max_phone_link: one transaction finds or creates the client, binds
\* the user and makes sure there is a settings row.
LinkMax(p) ==
    /\ Handling(p)
    /\ Candidate(p) # None
    /\ LET c == Candidate(p) IN
         /\ phone' = [phone EXCEPT ![c] = p]
         /\ maxId' = [maxId EXCEPT ![c] = Update.user]
         /\ row' = EnsureSettings(c)
    /\ word' = [word EXCEPT ![Update.user] = "linked"]
    /\ Handled
    /\ UNCHANGED <<erred, silenced, before, spent>>

\* No client has the number, and YClients knows none, or does not answer: its
\* errors are answered with None.  Nothing is written and nobody is told.
LinkMisses(p) ==
    /\ Handling(p)
    /\ \A c \in Clients : phone[c] # p
    /\ owner[p] = None \/ spent["error"] < MaxErrors
    /\ spent' = IF owner[p] = None THEN spent
                ELSE [spent EXCEPT !["error"] = @ + 1]
    /\ erred' = erred \cup {Update.user}
    /\ Handled
    /\ UNCHANGED <<db, word, silenced, before>>

Linked(u) == {c \in Clients : maxId[c] = u}

\* handle_unsubscribe: the row goes and the id is cleared; an unknown user is
\* fine.  With two clients of this user scalar_one_or_none raises.
\* Faulty variants: the first client found is unsubscribed; the id stays.
HandleUnsubscribe_First ==
    /\ Handling(Unsubscribe)
    /\ LET u == Update.user
           gone == IF Linked(u) = {} THEN {} ELSE {CHOOSE c \in Linked(u) : TRUE} IN
         /\ maxId' = [c \in Clients |-> IF c \in gone THEN None ELSE maxId[c]]
         /\ row' = [c \in Clients |-> IF c \in gone THEN "none" ELSE row[c]]
         /\ silenced' = {c \in silenced : c \in gone => at \in before[c]}
         /\ word' = [word EXCEPT ![u] = "unsubscribed"]
    /\ Handled
    /\ UNCHANGED <<phone, erred, before, spent>>

HandleUnsubscribe_KeepsId ==
    /\ Handling(Unsubscribe)
    /\ LET u == Update.user  gone == Linked(u) IN
         /\ Cardinality(gone) <= 1
         /\ row' = [c \in Clients |-> IF c \in gone THEN "none" ELSE row[c]]
         /\ silenced' = {c \in silenced : c \in gone => at \in before[c]}
         /\ word' = [word EXCEPT ![u] = "unsubscribed"]
    /\ Handled
    /\ UNCHANGED <<phone, maxId, erred, before, spent>>

HandleUnsubscribe ==
    /\ Handling(Unsubscribe)
    /\ LET u == Update.user  gone == Linked(u) IN
         /\ Cardinality(gone) <= 1
         /\ maxId' = [c \in Clients |-> IF c \in gone THEN None ELSE maxId[c]]
         /\ row' = [c \in Clients |-> IF c \in gone THEN "none" ELSE row[c]]
         /\ silenced' = {c \in silenced : c \in gone => at \in before[c]}
         /\ word' = [word EXCEPT ![u] = "unsubscribed"]
    /\ Handled
    /\ UNCHANGED <<phone, erred, before, spent>>

UnsubscribeAmbiguous ==
    /\ Handling(Unsubscribe)
    /\ Cardinality(Linked(Update.user)) > 1
    /\ Raised

\* bot_started and other texts are answered, nothing is stored.
HandleOther ==
    /\ Handling(Other)
    /\ Handled
    /\ UNCHANGED <<db, word, erred, silenced, before, spent>>

\* The database fails: the transaction of the handler is rolled back.
HandlerFails ==
    /\ pc = "page" /\ at <= last
    /\ Spend("error")
    /\ Handled
    /\ erred' = erred \cup {Update.user}
    /\ UNCHANGED <<db, word, silenced, before>>

\* After the page the marker moves behind it.
\* Faulty variants: the marker moves one too far; behind everything sent
\* meanwhile.
Advance_OneTooFar ==
    /\ pc = "page" /\ at > last
    /\ marker' = at
    /\ pc' = "poll"
    /\ UNCHANGED <<owner, server, db, at, last, handled, word, erred,
                   silenced, before, spent>>

Advance_Latest ==
    /\ pc = "page" /\ at > last
    /\ marker' = Len(stream)
    /\ pc' = "poll"
    /\ UNCHANGED <<owner, server, db, at, last, handled, word, erred,
                   silenced, before, spent>>

Advance ==
    /\ pc = "page" /\ at > last
    /\ marker' = last
    /\ pc' = "poll"
    /\ UNCHANGED <<owner, server, db, at, last, handled, word, erred,
                   silenced, before, spent>>

\* The application stops between two steps, the marker with it.
Crash ==
    /\ pc # "off"
    /\ Spend("crash")
    /\ pc' = "off"
    /\ marker' = None
    /\ at' = 0
    /\ last' = 0
    /\ UNCHANGED <<owner, server, db, handled, word, erred, silenced, before>>

Loop ==
    \/ Fetch
    \/ Wake
    \/ Advance
    \/ HandleUnsubscribe
    \/ UnsubscribeAmbiguous
    \/ HandleOther
    \/ \E p \in Phones : LinkMax(p) \/ LinkMisses(p)

Next ==
    \/ \E u \in Users, says \in Words : Send(u, says)
    \/ \E p \in Phones, c \in Clients : Move(p, c)
    \/ \E c \in Clients : Deactivate(c)
    \/ StartPolling
    \/ Loop
    \/ FetchFails
    \/ HandlerFails
    \/ Crash

Spec == Init /\ [][Next]_vars

\* The loop runs for ever in its own task and the container is restarted
\* (restart: unless-stopped); nothing is assumed of users or failures.
FairSpec == Spec /\ WF_vars(StartPolling) /\ WF_vars(Loop)

-----------------------------------------------------------------------------
(* Properties                                                              *)

\* A phone hash names at most one client, also when numbers change hands:
\* with two, scalar_one_or_none in find_by_phone_hash would raise for every
\* later message with that number.
OnePerPhone ==
    \A c, d \in Clients : phone[c] # None /\ phone[c] = phone[d] => c = d

\* A channel is set up exactly for the clients a user is bound to, so the
\* dispatcher never picks a channel without an address, and a user is bound
\* only to a client whose number is known.
BoundIffSetUp ==
    \A c \in Clients :
        /\ row[c] = "none" <=> maxId[c] = None
        /\ maxId[c] # None => phone[c] # None

\* A user for whom the command carried out last was /unsubscribe is bound to
\* nobody, however many numbers they sent before.  "Last" is the order in which
\* the commands were carried out: a restart that repeats an older number binds
\* its sender again until it repeats the /unsubscribe behind it, and
\* RepeatsConverge is about where that ends.
LastWordHolds ==
    \A u \in Users : word[u] = "unsubscribed" => Linked(u) = {}

\* What the administrator switched off stays off until a user bound to the
\* client unsubscribes: sending the number again, by the same or another user,
\* does not undo it, after a restart neither.  The exception: an /unsubscribe
\* that was handled before, and not yet confirmed to the server, is repeated by
\* a restart, takes the row with it, and the number repeated after it sets the
\* channel up again, switched on.
DeactivationSticks ==
    \A c \in silenced : row[c] = "disabled" \/ before[c] # {}

\* The commands of the first n updates: the users bound to c at the end when
\* each is carried out once, in order.
Wanted(n, c) ==
    {u \in Users :
        \E j \in 1 .. n :
            /\ stream[j].user = u
            /\ stream[j].says \in Phones /\ owner[stream[j].says] = c
            /\ \A k \in j + 1 .. n :
                 /\ stream[k].says \in Phones => owner[stream[k].says] # c
                 /\ stream[k] # [user |-> u, says |-> Unsubscribe]}

\* Repeating a page after a restart changes nothing in the end: whenever the
\* loop has caught up, the bindings are those of every command carried out
\* once, if none failed and no number moved.  (A repeated number can leave a
\* user bound to two clients for a while; an /unsubscribe that meets this
\* raises, which is a failure.)
RepeatsConverge ==
    pc = "poll" /\ marker # None /\ erred = {} /\ spent["move"] = 0
    => \A c \in Clients :
         IF Wanted(marker, c) = {} THEN maxId[c] = None ELSE maxId[c] \in Wanted(marker, c)

\* Nothing a user sends is skipped: whatever fails and however often the
\* application restarts, every update reaches its handler.
EveryUpdateHandled ==
    \A i \in 1 .. MaxUpdates : Len(stream) >= i ~> i \in handled
=============================================================================
