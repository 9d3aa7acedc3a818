----------------------------- MODULE Templates ------------------------------
(***************************************************************************)
(* The message templates: the rows the application seeds when it starts,   *)
(* the administrator's updates, and the engine that reads and renders them *)
(* (app/services/template_engine.py, update_template in app/api/admin.py). *)
(*                                                                         *)
(* Every execution of a notification builds its own TemplateEngine, and    *)
(* none is given a Redis client.  The cache of an engine has no lifetime   *)
(* and nobody else can clear it: that of update_template is another one.   *)
(* Texts are fresh only because no engine outlives its execution.          *)
(***************************************************************************)
EXTENDS Naturals, FiniteSets

CONSTANTS
    Keys,          \* the (type, channel) pairs of the instance
    Bodies,        \* template texts
    DefaultBody,   \* the text the seed data has for a pair
    Allowed,       \* ALLOWED_VARIABLES
    Editors,       \* administrators
    Processes,     \* worker processes
    Nothing,       \* no text, no row, nothing requested
    MaxStarts,     \* bound: starts of the application
    MaxEdits,      \* bound: updates administrators begin
    MaxJobs        \* bound: notifications each process carries out

Types == {"new_appointment", "confirmed", "cancelled", "in_progress", "changed",
          "reminder_24h", "reminder_2h", "birthday"}

\* DEFAULT_TEMPLATES: every type has a text for every channel.
DefaultKeys == Types \X {"telegram", "whatsapp", "max"}

\* A text: its plain {{variable}} placeholders, whether it has any other Jinja2
\* expression or statement, whether Jinja2 can parse it, and what compiling and
\* rendering it end in, at worst: a message, an UndefinedError, or another
\* exception (an unknown filter, a wrong type, a division by zero).  With
\* nothing but placeholders of allowed variables, each of which has a value, a
\* text that parses renders.
ASSUME BodyAssumption ==
    \A b \in Bodies :
        /\ DOMAIN b = {"name", "plain", "expressions", "parses", "outcome"}
        /\ b.expressions \in BOOLEAN /\ b.parses \in BOOLEAN
        /\ b.outcome \in {"message", "undefined", "exception"}
        /\ ~b.parses => b.outcome = "exception"
        /\ b.parses /\ b.plain \subseteq Allowed /\ ~b.expressions
             => b.outcome = "message"

ASSUME DefaultAssumption ==
    /\ Keys \subseteq DefaultKeys
    /\ DefaultBody \in Bodies
    /\ DefaultBody.plain \subseteq Allowed
    /\ ~DefaultBody.expressions
    /\ DefaultBody.parses

ASSUME BoundsAssumption == {MaxStarts, MaxEdits, MaxJobs} \subseteq Nat

Row == [body : Bodies, active : BOOLEAN]

ASSUME NothingAssumption ==
    Nothing \notin Bodies /\ Nothing \notin BOOLEAN /\ Nothing \notin Row

VARIABLES
    table,     \* the row of each pair: its text and is_active
    start,     \* the application: "down", "seeding", "up"
    unseen,    \* while it seeds: pairs not looked up yet
    missing,   \* while it seeds: rows added to the session, not yet committed
    edit,      \* update_template of each editor: what was read and asked for
    engine,    \* the cache of the engine in each process, by pair
    todo,      \* pairs the execution in a process has still to render
    made,      \* texts and outcomes of the execution in a process
    current,   \* history: texts active at some time during that execution
    starts, edits, jobs

app  == <<start, unseen, missing, starts>>
work == <<engine, todo, made, current, jobs>>
vars == <<table, app, edit, edits, work>>

Fields == {"body", "active"}
Request == [body : Bodies \cup {Nothing}, active : BOOLEAN \cup {Nothing}]
Idle == [key |-> Nothing]

Active(tab, k) == tab[k] # Nothing /\ tab[k].active

\* What get_template_body can return for each pair now.
Readable(tab) == {<<k, tab[k].body>> : k \in {q \in Keys : Active(tab, q)}}

TypeOK ==
    /\ table \in [Keys -> Row \cup {Nothing}]
    /\ start \in {"down", "seeding", "up"}
    /\ unseen \subseteq Keys /\ missing \subseteq Keys
    /\ edit \in [Editors -> {Idle} \cup [key : Keys, read : Row, ask : Request]]
    /\ engine \in [Processes -> [Keys -> Bodies \cup {Nothing}]]
    /\ todo \in [Processes -> SUBSET Keys]
    /\ made \in [Processes -> SUBSET (Keys \X Bodies)]
    /\ current \in [Processes -> SUBSET (Keys \X Bodies)]
    /\ starts \in 0 .. MaxStarts /\ edits \in 0 .. MaxEdits
    /\ jobs \in [Processes -> 0 .. MaxJobs]

Init ==
    /\ table = [k \in Keys |-> Nothing]
    /\ start = "down"
    /\ unseen = {}
    /\ missing = {}
    /\ edit = [e \in Editors |-> Idle]
    /\ engine = [p \in Processes |-> [k \in Keys |-> Nothing]]
    /\ todo = [p \in Processes |-> {}]
    /\ made = [p \in Processes |-> {}]
    /\ current = [p \in Processes |-> {}]
    /\ starts = 0
    /\ edits = 0
    /\ jobs = [p \in Processes |-> 0]

\* History: what can be read after the step was current in every execution.
Observe == current' = [p \in Processes |->
                          IF todo[p] = {} THEN current[p]
                          ELSE current[p] \cup Readable(table')]

-----------------------------------------------------------------------------
(* Seeding, while the application starts                                   *)

StartUp ==
    /\ start = "down"
    /\ starts < MaxStarts
    /\ starts' = starts + 1
    /\ start' = "seeding"
    /\ unseen' = Keys
    /\ missing' = {}
    /\ UNCHANGED <<table, edit, edits, work>>

\* One turn of the loop: a pair that has a row, active or not, is left alone.
LookUp(k) ==
    /\ start = "seeding" /\ k \in unseen
    /\ unseen' = unseen \ {k}
    /\ missing' = IF table[k] = Nothing THEN missing \cup {k} ELSE missing
    /\ UNCHANGED <<table, start, starts, edit, edits, work>>

\* All missing rows are inserted in one commit.
CommitSeed ==
    /\ start = "seeding" /\ unseen = {}
    /\ table' = [k \in Keys |-> IF k \in missing
                                THEN [body |-> DefaultBody, active |-> TRUE]
                                ELSE table[k]]
    /\ start' = "up"
    /\ missing' = {}
    /\ Observe
    /\ UNCHANGED <<unseen, starts, edit, edits, engine, todo, made, jobs>>

\* The database fails: a warning is logged, the application starts without.
SeedFails ==
    /\ start = "seeding"
    /\ start' = "up"
    /\ unseen' = {}
    /\ missing' = {}
    /\ UNCHANGED <<table, starts, edit, edits, work>>

\* The application stops, at any time; requests in progress are rolled back.
Stop ==
    /\ start # "down"
    /\ start' = "down"
    /\ unseen' = {}
    /\ missing' = {}
    /\ edit' = [e \in Editors |-> Idle]
    /\ UNCHANGED <<table, starts, edits, work>>

-----------------------------------------------------------------------------
(* PUT /admin/templates/{id}                                               *)

\* validate_template: unknown plain placeholders, and the syntax.  The
\* pattern does not see variables inside other expressions, and parsing finds
\* neither unknown filters nor what fails only when it is evaluated.
\* Faulty variant: only the placeholders are looked at.
Valid_PatternOnly(b) == b.plain \subseteq Allowed

Valid(b) == b.plain \subseteq Allowed /\ b.parses

\* The row is read; what is asked is validated.  A missing row is answered
\* with 404, an invalid text with 422.
BeginUpdate(e, k, ask) ==
    /\ start = "up"
    /\ edit[e] = Idle
    /\ edits < MaxEdits
    /\ edits' = edits + 1
    /\ edit' = IF table[k] # Nothing /\ (ask.body = Nothing \/ Valid(ask.body))
               THEN [edit EXCEPT ![e] = [key |-> k, read |-> table[k], ask |-> ask]]
               ELSE edit
    /\ UNCHANGED <<table, app, work>>

\* The UPDATE names the columns whose value differs from what was read.
\* Faulty variant: it writes the whole row as this request sees it.
Written_WholeRow(read, ask, now) ==
    [f \in Fields |-> IF ask[f] = Nothing THEN read[f] ELSE ask[f]]

Written(read, ask, now) ==
    [f \in Fields |-> IF ask[f] = Nothing \/ ask[f] = read[f] THEN now[f] ELSE ask[f]]

\* The commit; the cache then invalidated is that of a new engine, empty, and
\* there is no Redis to clear.
CommitUpdate(e) ==
    /\ edit[e] # Idle
    /\ LET k == edit[e].key IN
         table' = [table EXCEPT ![k] = Written(edit[e].read, edit[e].ask, @)]
    /\ edit' = [edit EXCEPT ![e] = Idle]
    /\ Observe
    /\ UNCHANGED <<app, edits, engine, todo, made, jobs>>

UpdateFails(e) ==
    /\ edit[e] # Idle
    /\ edit' = [edit EXCEPT ![e] = Idle]
    /\ UNCHANGED <<table, app, edits, work>>

-----------------------------------------------------------------------------
(* Rendering, in the worker processes and in test-send                     *)

\* A notification for some channels: the service builds a new engine.
\* Faulty variant: the engine of the process is kept.
BeginJob_KeepsEngine(p, ks) ==
    /\ todo[p] = {} /\ ks # {} /\ jobs[p] < MaxJobs
    /\ jobs' = [jobs EXCEPT ![p] = @ + 1]
    /\ todo' = [todo EXCEPT ![p] = ks]
    /\ made' = [made EXCEPT ![p] = {}]
    /\ current' = [current EXCEPT ![p] = Readable(table)]
    /\ UNCHANGED <<table, app, edit, edits, engine>>

BeginJob(p, ks) ==
    /\ todo[p] = {} /\ ks # {} /\ jobs[p] < MaxJobs
    /\ jobs' = [jobs EXCEPT ![p] = @ + 1]
    /\ todo' = [todo EXCEPT ![p] = ks]
    /\ made' = [made EXCEPT ![p] = {}]
    /\ current' = [current EXCEPT ![p] = Readable(table)]
    /\ engine' = [engine EXCEPT ![p] = [k \in Keys |-> Nothing]]
    /\ UNCHANGED <<table, app, edit, edits>>

\* get_template_body: the cache of the engine, else the active row.
TemplateBody(p, k) ==
    IF engine[p][k] # Nothing THEN engine[p][k]
    ELSE IF Active(table, k) THEN table[k].body ELSE Nothing

\* One channel of the loop: its text is fetched and rendered; without a text
\* the channel is passed over.
Render(p, k) ==
    /\ k \in todo[p]
    /\ todo' = [todo EXCEPT ![p] = @ \ {k}]
    /\ LET b == TemplateBody(p, k) IN
         IF b = Nothing THEN UNCHANGED <<engine, made>>
         ELSE /\ engine' = [engine EXCEPT ![p][k] = b]
              /\ made' = [made EXCEPT ![p] = @ \cup {<<k, b>>}]
    /\ UNCHANGED <<table, app, edit, edits, current, jobs>>

\* The fallbacks of render_body: after an UndefinedError the plain placeholders
\* are filled in, by nothing if need be, and the rest stays as it is written;
\* after any other exception the whole text does.
ShowsSyntax(b) ==
    \/ b.outcome = "exception"
    \/ b.outcome = "undefined" /\ b.expressions

Next ==
    \/ StartUp
    \/ \E k \in Keys : LookUp(k)
    \/ CommitSeed
    \/ SeedFails
    \/ Stop
    \/ \E e \in Editors, k \in Keys, ask \in Request : BeginUpdate(e, k, ask)
    \/ \E e \in Editors : CommitUpdate(e) \/ UpdateFails(e)
    \/ \E p \in Processes, ks \in SUBSET Keys : BeginJob(p, ks)
    \/ \E p \in Processes, k \in Keys : Render(p, k)

Spec == Init /\ [][Next]_vars

-----------------------------------------------------------------------------
(* Properties                                                              *)

\* A message is rendered from a text that was active at some time while its
\* notification was carried out, never from an earlier one.
NeverStale == \A p \in Processes : made[p] \subseteq current[p]

\* A client sees raw template syntax only from a text that parses and has an
\* expression or statement other than a plain placeholder, which is what the
\* validation does not look into: a misspelt variable, an unknown filter or a
\* calculation that fails there passes it.  A text that does not parse, or a
\* plain placeholder with an unknown name, never gets past the validation, the
\* seed data and the fallbacks of the rendering.
RawOnlyFromExpressions ==
    \A p \in Processes, m \in Keys \X Bodies :
        m \in made[p] /\ ShowsSyntax(m[2]) => m[2].parses /\ m[2].expressions

\* No step takes back what another wrote: a committed update changes only the
\* fields it asks for, whatever was committed since it read the row, and
\* seeding leaves every existing row as it is.
EditsKept ==
    [][\A k \in Keys, f \in Fields :
         table[k] # Nothing /\ table'[k][f] # table[k][f] =>
           \E e \in Editors :
             /\ edit[e] # Idle /\ edit'[e] = Idle
             /\ edit[e].key = k /\ table'[k][f] = edit[e].ask[f]]_vars
=============================================================================
