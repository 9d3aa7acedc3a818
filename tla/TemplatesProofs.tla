-------------------------- MODULE TemplatesProofs --------------------------
(***************************************************************************)
(* Proofs about Templates, for any set of texts, pairs, administrators and *)
(* worker processes, and any number of updates, starts and notifications.  *)
(***************************************************************************)
EXTENDS Templates, TLAPS

\* What a request in progress relies on: its row is there, its text valid, and
\* the seeding is over.  A row the seeding is about to insert is not there.
RequestsSound ==
    /\ \A e \in Editors :
         edit[e] # Idle =>
           /\ start = "up"
           /\ table[edit[e].key] \in Row
           /\ edit[e].ask.body = Nothing \/ Valid(edit[e].ask.body)
    /\ \A k \in missing : table[k] = Nothing
    /\ start # "seeding" => missing = {}

\* Every text that is stored, or was while a notification is carried out, has
\* passed the validation.
TextsValid ==
    /\ \A k \in Keys : table[k] \in Row => Valid(table[k].body)
    /\ \A p \in Processes : \A m \in current[p] : Valid(m[2])

\* The cache of an engine holds texts its execution has seen active; while an
\* execution runs, what is active now is among them.
CacheFresh ==
    \A p \in Processes :
        /\ \A k \in Keys :
             engine[p][k] # Nothing => <<k, engine[p][k]>> \in current[p]
        /\ todo[p] # {} => Readable(table) \subseteq current[p]

Inv == TypeOK /\ RequestsSound /\ TextsValid /\ CacheFresh /\ NeverStale

-----------------------------------------------------------------------------
(* Lemmas about the operators                                              *)

(* A written row is a row.                                                 *)
LEMMA WrittenIsRow ==
    ASSUME NEW read \in Row, NEW ask \in Request, NEW now \in Row
    PROVE  /\ Written(read, ask, now) \in Row
           /\ \A f \in Fields :
                Written(read, ask, now)[f] # now[f]
                  => Written(read, ask, now)[f] = ask[f]
           /\ \/ Written(read, ask, now).body = now.body
              \/ /\ ask.body # Nothing
                 /\ Written(read, ask, now).body = ask.body
  BY DEF Written, Row, Request, Fields

(* What can be read is the text of an active row.                          *)
LEMMA ReadableIs ==
    ASSUME NEW tab \in [Keys -> Row \cup {Nothing}]
    PROVE  /\ Readable(tab) \subseteq Keys \X Bodies
           /\ \A m \in Readable(tab) :
                /\ m[1] \in Keys /\ tab[m[1]] \in Row /\ m[2] = tab[m[1]].body
           /\ \A k \in Keys : Active(tab, k) => <<k, tab[k].body>> \in Readable(tab)
  BY DEF Readable, Active, Row

(* A text that passed the validation shows syntax only through an          *)
(* expression.                                                             *)
LEMMA ValidShowsExpressions ==
    ASSUME NEW b \in Bodies, Valid(b), ShowsSyntax(b)
    PROVE  b.parses /\ b.expressions
  BY BodyAssumption DEF Valid, ShowsSyntax

(* What a step that writes rows adds to the texts that were current.       *)
LEMMA Observed ==
    ASSUME TypeOK, Observe, table' \in [Keys -> Row \cup {Nothing}]
    PROVE  /\ current' \in [Processes -> SUBSET (Keys \X Bodies)]
           /\ \A p \in Processes :
                /\ current[p] \subseteq current'[p]
                /\ todo[p] # {} => Readable(table') \subseteq current'[p]
                /\ \A m \in current'[p] : m \in current[p] \/ m \in Readable(table')
  <1>1. Readable(table') \subseteq Keys \X Bodies
    BY ReadableIs
  <1>2. current \in [Processes -> SUBSET (Keys \X Bodies)]
    BY DEF TypeOK
  <1> QED
    BY <1>1, <1>2 DEF Observe

-----------------------------------------------------------------------------
(* Inv is inductive                                                        *)

LEMMA InvInit == Init => Inv
  <1> SUFFICES ASSUME Init PROVE Inv
    OBVIOUS
  <1>1. TypeOK
    BY BoundsAssumption DEF Init, TypeOK
  <1>2. RequestsSound
    BY DEF Init, RequestsSound
  <1>3. \A k \in Keys : table[k] \notin Row
    BY NothingAssumption DEF Init
  <1>4. TextsValid /\ CacheFresh /\ NeverStale
    BY <1>3 DEF Init, TextsValid, CacheFresh, NeverStale
  <1> QED
    BY <1>1, <1>2, <1>4 DEF Inv

(* Steps that write no row and read no text.                               *)
LEMMA WorkUntouched ==
    ASSUME TextsValid, CacheFresh, NeverStale, UNCHANGED <<table, work>>
    PROVE  TextsValid' /\ CacheFresh' /\ NeverStale'
  BY DEF TextsValid, CacheFresh, NeverStale, Readable, Active, work

LEMMA InvStartUp ==
    ASSUME Inv, StartUp
    PROVE  Inv'
  <1>1. TypeOK'
    BY BoundsAssumption DEF Inv, TypeOK, StartUp, work
  <1>2. RequestsSound'
    BY DEF Inv, RequestsSound, StartUp
  <1> QED
    BY <1>1, <1>2, WorkUntouched DEF Inv, StartUp

LEMMA InvLookUp ==
    ASSUME Inv, NEW k \in Keys, LookUp(k)
    PROVE  Inv'
  <1>1. TypeOK'
    BY DEF Inv, TypeOK, LookUp, work
  <1>2. RequestsSound'
    BY DEF Inv, RequestsSound, LookUp
  <1> QED
    BY <1>1, <1>2, WorkUntouched DEF Inv, LookUp

LEMMA InvSeedFails ==
    ASSUME Inv, SeedFails
    PROVE  Inv'
  <1>1. TypeOK'
    BY DEF Inv, TypeOK, SeedFails, work
  <1>2. RequestsSound'
    BY DEF Inv, RequestsSound, SeedFails
  <1> QED
    BY <1>1, <1>2, WorkUntouched DEF Inv, SeedFails

LEMMA InvStop ==
    ASSUME Inv, Stop
    PROVE  Inv'
  <1>1. TypeOK'
    BY DEF Inv, TypeOK, Stop, work
  <1>2. RequestsSound'
    BY DEF Inv, RequestsSound, Stop
  <1> QED
    BY <1>1, <1>2, WorkUntouched DEF Inv, Stop

LEMMA InvUpdateFails ==
    ASSUME Inv, NEW e \in Editors, UpdateFails(e)
    PROVE  Inv'
  <1>1. TypeOK'
    BY DEF Inv, TypeOK, UpdateFails, work, app
  <1>2. RequestsSound'
    BY DEF Inv, TypeOK, RequestsSound, UpdateFails, app
  <1> QED
    BY <1>1, <1>2, WorkUntouched DEF Inv, UpdateFails

LEMMA InvBeginUpdate ==
    ASSUME Inv, NEW e \in Editors, NEW k \in Keys, NEW ask \in Request,
           BeginUpdate(e, k, ask)
    PROVE  Inv'
  <1>1. TypeOK'
    BY BoundsAssumption DEF Inv, TypeOK, BeginUpdate, work, app
  <1>2. RequestsSound'
    BY DEF Inv, TypeOK, RequestsSound, BeginUpdate, app
  <1> QED
    BY <1>1, <1>2, WorkUntouched DEF Inv, BeginUpdate

(* After a step that writes valid rows only, everything is still valid and *)
(* fresh.                                                                  *)
LEMMA RowsWritten ==
    ASSUME Inv, Observe, table' \in [Keys -> Row \cup {Nothing}],
           UNCHANGED <<engine, todo, made>>,
           \A k \in Keys : table'[k] \in Row => Valid(table'[k].body)
    PROVE  TextsValid' /\ CacheFresh' /\ NeverStale'
  <1>1. /\ current' \in [Processes -> SUBSET (Keys \X Bodies)]
        /\ \A p \in Processes :
             /\ current[p] \subseteq current'[p]
             /\ todo[p] # {} => Readable(table') \subseteq current'[p]
             /\ \A m \in current'[p] : m \in current[p] \/ m \in Readable(table')
    BY Observed DEF Inv
  <1>2. \A m \in Readable(table') : Valid(m[2])
    BY ReadableIs
  <1>3. TextsValid'
    BY <1>1, <1>2 DEF Inv, TextsValid
  <1>4. NeverStale'
    BY <1>1 DEF Inv, NeverStale
  <1>5. CacheFresh'
    BY <1>1 DEF Inv, CacheFresh
  <1> QED
    BY <1>3, <1>4, <1>5

LEMMA DefaultIsValid ==
    /\ [body |-> DefaultBody, active |-> TRUE] \in Row
    /\ Valid(DefaultBody)
  BY DefaultAssumption DEF Row, Valid

LEMMA InvCommitSeed ==
    ASSUME Inv, CommitSeed
    PROVE  Inv'
  <1>1. table' \in [Keys -> Row \cup {Nothing}]
    BY DefaultIsValid DEF Inv, TypeOK, CommitSeed
  <1>2. \A k \in Keys : table'[k] \in Row => Valid(table'[k].body)
    BY DefaultIsValid DEF Inv, TextsValid, CommitSeed
  <1>3. TypeOK'
    BY <1>1, Observed DEF Inv, TypeOK, CommitSeed
  <1>4. RequestsSound'
    BY DEF Inv, TypeOK, RequestsSound, CommitSeed
  <1> QED
    BY <1>1, <1>2, <1>3, <1>4, RowsWritten DEF Inv, CommitSeed

(* What a request in progress finds and writes.                            *)
LEMMA WhatIsWritten ==
    ASSUME Inv, NEW e \in Editors, edit[e] # Idle
    PROVE  /\ edit[e].key \in Keys
           /\ edit[e].read \in Row
           /\ edit[e].ask \in Request
           /\ table[edit[e].key] \in Row
           /\ start = "up"
           /\ edit[e].ask.body = Nothing \/ Valid(edit[e].ask.body)
  BY DEF Inv, TypeOK, RequestsSound

LEMMA InvCommitUpdate ==
    ASSUME Inv, NEW e \in Editors, CommitUpdate(e)
    PROVE  Inv'
  <1> DEFINE k == edit[e].key
             new == Written(edit[e].read, edit[e].ask, table[k])
  <1>1. edit[e] # Idle
    BY DEF CommitUpdate
  <1>2. /\ k \in Keys
        /\ table[k] \in Row
        /\ start = "up"
        /\ new \in Row
        /\ Valid(table[k].body)
        /\ Valid(new.body)
    BY <1>1, WhatIsWritten, WrittenIsRow DEF Inv, TextsValid
  <1>3. /\ table' = [table EXCEPT ![k] = new]
        /\ edit' = [edit EXCEPT ![e] = Idle]
        /\ UNCHANGED <<start, unseen, missing, starts, edits, engine, todo, made, jobs>>
        /\ Observe
    BY DEF CommitUpdate, app
  <1> HIDE DEF k, new
  <1>4. table' \in [Keys -> Row \cup {Nothing}]
    BY <1>2, <1>3 DEF Inv, TypeOK
  <1>5. \A q \in Keys : table'[q] \in Row => Valid(table'[q].body)
    BY <1>2, <1>3 DEF Inv, TypeOK, TextsValid
  <1>6. TypeOK'
    BY <1>3, <1>4, Observed DEF Inv, TypeOK
  <1>7. RequestsSound'
    BY <1>2, <1>3 DEF Inv, TypeOK, RequestsSound
  <1> QED
    BY <1>3, <1>4, <1>5, <1>6, <1>7, RowsWritten DEF Inv

LEMMA InvBeginJob ==
    ASSUME Inv, NEW p \in Processes, NEW ks \in SUBSET Keys, BeginJob(p, ks)
    PROVE  Inv'
  <1>1. /\ Readable(table) \subseteq Keys \X Bodies
        /\ \A m \in Readable(table) : Valid(m[2])
    BY ReadableIs DEF Inv, TypeOK, TextsValid
  <1>2. TypeOK'
    BY <1>1, BoundsAssumption DEF Inv, TypeOK, BeginJob, app
  <1>3. RequestsSound'
    BY DEF Inv, RequestsSound, BeginJob, app
  <1>4. TextsValid'
    BY <1>1 DEF Inv, TypeOK, TextsValid, BeginJob
  <1>5. NeverStale'
    BY DEF Inv, TypeOK, NeverStale, BeginJob
  <1>6. CacheFresh'
    <2>1. Readable(table)' = Readable(table)
      BY DEF BeginJob, Readable, Active
    <2> QED
      BY <2>1 DEF Inv, TypeOK, CacheFresh, BeginJob
  <1> QED
    BY <1>2, <1>3, <1>4, <1>5, <1>6 DEF Inv

(* The text a running execution gets is one it has seen active.            *)
LEMMA BodyIsCurrent ==
    ASSUME Inv, NEW p \in Processes, NEW k \in Keys, todo[p] # {},
           TemplateBody(p, k) # Nothing
    PROVE  /\ <<k, TemplateBody(p, k)>> \in current[p]
           /\ TemplateBody(p, k) \in Bodies
  <1>1. CASE engine[p][k] # Nothing
    BY <1>1 DEF Inv, TypeOK, CacheFresh, TemplateBody
  <1>2. CASE engine[p][k] = Nothing
    <2>1. Active(table, k) /\ TemplateBody(p, k) = table[k].body
      BY <1>2 DEF TemplateBody
    <2>2. /\ <<k, table[k].body>> \in Readable(table)
          /\ Readable(table) \subseteq current[p]
          /\ Readable(table) \subseteq Keys \X Bodies
      BY <2>1, ReadableIs DEF Inv, TypeOK, CacheFresh
    <2> QED
      BY <2>1, <2>2
  <1> QED
    BY <1>1, <1>2

LEMMA InvRender ==
    ASSUME Inv, NEW p \in Processes, NEW k \in Keys, Render(p, k)
    PROVE  Inv'
  <1> DEFINE b == TemplateBody(p, k)
  <1>1. /\ k \in todo[p]
        /\ todo' = [todo EXCEPT ![p] = @ \ {k}]
        /\ UNCHANGED <<table, start, unseen, missing, starts, edit, edits, current, jobs>>
    BY DEF Render, app
  <1>2. \/ UNCHANGED <<engine, made>>
        \/ /\ b \in Bodies
           /\ <<k, b>> \in current[p]
           /\ engine' = [engine EXCEPT ![p][k] = b]
           /\ made' = [made EXCEPT ![p] = @ \cup {<<k, b>>}]
    BY <1>1, BodyIsCurrent DEF Render
  <1> HIDE DEF b
  <1>3. /\ engine \in [Processes -> [Keys -> Bodies \cup {Nothing}]]
        /\ todo \in [Processes -> SUBSET Keys]
        /\ made \in [Processes -> SUBSET (Keys \X Bodies)]
        /\ \A q \in Processes, j \in Keys :
             engine[q][j] # Nothing => <<j, engine[q][j]>> \in current[q]
        /\ \A q \in Processes : made[q] \subseteq current[q]
    BY DEF Inv, TypeOK, CacheFresh, NeverStale
  <1>4. /\ engine' \in [Processes -> [Keys -> Bodies \cup {Nothing}]]
        /\ \A q \in Processes, j \in Keys :
             engine'[q][j] # Nothing => <<j, engine'[q][j]>> \in current[q]
    <2>1. CASE UNCHANGED engine
      BY <1>3, <2>1
    <2>2. CASE /\ b \in Bodies
               /\ <<k, b>> \in current[p]
               /\ engine' = [engine EXCEPT ![p][k] = b]
      BY <1>3, <2>2
    <2> QED
      BY <1>2, <2>1, <2>2
  <1>5. /\ made' \in [Processes -> SUBSET (Keys \X Bodies)]
        /\ \A q \in Processes : made'[q] \subseteq current[q]
    <2>1. CASE UNCHANGED made
      BY <1>3, <2>1
    <2>2. CASE /\ b \in Bodies
               /\ <<k, b>> \in current[p]
               /\ made' = [made EXCEPT ![p] = @ \cup {<<k, b>>}]
      BY <1>3, <2>2
    <2> QED
      BY <1>2, <2>1, <2>2
  <1>6. /\ todo' \in [Processes -> SUBSET Keys]
        /\ \A q \in Processes : todo'[q] # {} => todo[q] # {}
    BY <1>1, <1>3
  <1>7. TypeOK'
    BY <1>1, <1>4, <1>5, <1>6 DEF Inv, TypeOK
  <1>8. RequestsSound' /\ TextsValid'
    BY <1>1 DEF Inv, RequestsSound, TextsValid
  <1>9. NeverStale'
    BY <1>1, <1>5 DEF NeverStale
  <1>10. Readable(table)' = Readable(table)
    BY <1>1 DEF Readable, Active
  <1>11. CacheFresh'
    BY <1>1, <1>4, <1>6, <1>10 DEF Inv, CacheFresh
  <1> QED
    BY <1>7, <1>8, <1>9, <1>11 DEF Inv

LEMMA InvNext == Inv /\ [Next]_vars => Inv'
  <1> SUFFICES ASSUME Inv, [Next]_vars PROVE Inv'
    OBVIOUS
  <1>1. CASE UNCHANGED vars
    BY <1>1 DEF vars, app, work, Inv, TypeOK, RequestsSound, TextsValid, CacheFresh,
                NeverStale, Readable, Active
  <1> QED
    BY <1>1, InvStartUp, InvLookUp, InvCommitSeed, InvSeedFails, InvStop,
       InvBeginUpdate, InvCommitUpdate, InvUpdateFails, InvBeginJob, InvRender
       DEF Next

LEMMA InvHolds == Spec => []Inv
  BY InvInit, InvNext, PTL DEF Spec

-----------------------------------------------------------------------------
(* What follows                                                            *)

(* get_template_body and the cache of the engine: whatever administrators  *)
(* commit and however often the application restarts, no notification is   *)
(* rendered from a text that was not active while it was carried out.      *)
THEOREM TextsNeverStale == Spec => []NeverStale
  <1>1. Inv => NeverStale
    BY DEF Inv
  <1> QED
    BY InvHolds, <1>1, PTL

(* validate_template, the seed data and both fallbacks of render_body: raw *)
(* template syntax reaches a client only from a text that parses and has   *)
(* an expression or statement other than a plain placeholder.              *)
THEOREM OnlyExpressionsShow == Spec => []RawOnlyFromExpressions
  <1>1. Inv => RawOnlyFromExpressions
    <2> SUFFICES ASSUME Inv, NEW p \in Processes, NEW m \in Keys \X Bodies,
                        m \in made[p], ShowsSyntax(m[2])
                 PROVE  m[2].parses /\ m[2].expressions
      BY DEF RawOnlyFromExpressions
    <2>1. Valid(m[2])
      BY DEF Inv, NeverStale, TextsValid
    <2> QED
      BY <2>1, ValidShowsExpressions
  <1> QED
    BY InvHolds, <1>1, PTL

(* update_template and seed_default_templates: no step takes back what     *)
(* another one wrote.                                                      *)
THEOREM EditsAreKept == Spec => EditsKept
  <1> DEFINE Kept ==
        \A k \in Keys, f \in Fields :
          table[k] # Nothing /\ table'[k][f] # table[k][f] =>
            \E e \in Editors :
              /\ edit[e] # Idle /\ edit'[e] = Idle
              /\ edit[e].key = k /\ table'[k][f] = edit[e].ask[f]
  <1>1. ASSUME Inv, Next PROVE Kept
    <2>1. CASE UNCHANGED table
      BY <2>1
    <2>2. CASE CommitSeed
      BY <1>1, <2>2 DEF Inv, RequestsSound, CommitSeed
    <2>3. ASSUME NEW e \in Editors, CommitUpdate(e) PROVE Kept
      <3> SUFFICES ASSUME NEW k \in Keys, NEW f \in Fields,
                          table[k] # Nothing, table'[k][f] # table[k][f]
                   PROVE  /\ edit[e] # Idle /\ edit'[e] = Idle
                          /\ edit[e].key = k /\ table'[k][f] = edit[e].ask[f]
        OBVIOUS
      <3>1. edit[e] # Idle /\ edit'[e] = Idle
        BY <1>1, <2>3 DEF CommitUpdate, Inv, TypeOK
      <3>2. edit[e].key = k
        BY <1>1, <2>3 DEF CommitUpdate, Inv, TypeOK
      <3>3. table'[k] = Written(edit[e].read, edit[e].ask, table[k])
        BY <1>1, <2>3, <3>2 DEF CommitUpdate, Inv, TypeOK
      <3> QED
        BY <1>1, <3>1, <3>2, <3>3, WhatIsWritten, WrittenIsRow
    <2> QED
      BY <1>1, <2>1, <2>2, <2>3
         DEF Next, StartUp, LookUp, SeedFails, Stop, BeginUpdate, UpdateFails,
             BeginJob, Render
  <1>2. ASSUME Inv, UNCHANGED vars PROVE Kept
    BY <1>2 DEF vars
  <1>3. Inv /\ [Next]_vars => [Kept]_vars
    BY <1>1, <1>2
  <1>4. EditsKept <=> [][Kept]_vars
    BY DEF EditsKept
  <1> QED
    BY InvHolds, <1>3, <1>4, PTL DEF Spec
=============================================================================
