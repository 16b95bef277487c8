--------------------------- MODULE CalendarProofs ---------------------------
(***************************************************************************)
(* Theorems about the importer for every number of runs, requests and      *)
(* crashes (ImportJobs), for any records, fields and corrections           *)
(* (ImportSync), about what an import file is read as and marks            *)
(* (ImportFile), the categories of riders (Racing), the starts of a series *)
(* (Recurrence) and the groups of duplicates (Duplicates).                 *)
(*                                                                         *)
(* What an import is about to save is what the record makes of the event   *)
(* as it is, unless somebody corrected that since (Fresh); without         *)
(* corrections it goes through what it fetched, record by record           *)
(* (TakenOver, AllSeen).  The union-find of the duplicates leaves a forest *)
(* (Forest) whose chains are no longer than there are events (Depth).      *)
(***************************************************************************)
EXTENDS MCCalendar, FiniteSetTheorems, WellFoundedInduction, TLAPS

\* Saving the outcome of a run keeps the type of its table.
LEMMA EndType ==
  ASSUME TypeOK, NEW r \in Run, NEW o \in {"completed", "failed"}, End(r, o)
  PROVE  /\ status' \in [Run -> {"none", "running", "completed", "failed"}]
         /\ finished' \in Seq(Run)
         /\ cooled \in 0..Len(finished')
<1>1. finished' = Append(finished, r) /\ finished \in Seq(Run)
  BY DEF End, TypeOK
<1>2. Len(finished') = Len(finished) + 1 /\ Len(finished) \in Nat /\ finished' \in Seq(Run)
  BY <1>1
<1>3. cooled \in 0..Len(finished')
  BY <1>2 DEF TypeOK
<1> QED BY <1>2, <1>3 DEF TypeOK, End

\* Types hold in every state.
THEOREM TypeCorrect == Spec => []TypeOK
<1> USE DEF TypeOK
<1>1. Init => TypeOK
  <2> SUFFICES ASSUME Init PROVE TypeOK
    OBVIOUS
  <2>1. finished \in Seq(Run) /\ cooled \in 0..Len(finished) /\ crashes \in 0..MaxCrashes
    BY CrashBound DEF Init
  <2>2. req \in [Proc -> Request] /\ recovery \in Recovery
    BY DEF Init, Request, Recovery, Recovered
  <2> QED BY <2>1, <2>2 DEF Init
<1>2. TypeOK /\ [Next]_vars => TypeOK'
  <2> SUFFICES ASSUME TypeOK, [Next]_vars PROVE TypeOK'
    OBVIOUS
  <2> USE DEF table
  <2>1. ASSUME NEW p \in Proc, BeginScrape(p) PROVE TypeOK'
    BY <2>1 DEF BeginScrape, Request
  <2>2. ASSUME NEW p \in Proc, BeginFile(p) PROVE TypeOK'
    BY <2>2 DEF BeginFile, Request
  <2>3. ASSUME NEW p \in Proc, CheckCooldown(p) PROVE TypeOK'
    <3>1. up
      BY <2>3 DEF CheckCooldown, Idle
    <3> QED BY <2>3, <3>1 DEF CheckCooldown, Request
  <2>4. ASSUME NEW p \in Proc, NEW r \in Run, StartRun(p, r) PROVE TypeOK'
    <3>1. up
      BY <2>4 DEF StartRun, Idle
    <3> QED BY <2>4, <3>1 DEF StartRun, Request
  <2>5. ASSUME NEW r \in Run, FinishRun(r) PROVE TypeOK'
    <3>1. End(r, "completed")
      BY <2>5 DEF FinishRun
    <3>2. /\ status' \in [Run -> {"none", "running", "completed", "failed"}]
          /\ finished' \in Seq(Run) /\ cooled' \in 0..Len(finished')
      BY <2>5, <3>1, EndType DEF FinishRun
    <3> QED BY <2>5, <3>1, <3>2 DEF FinishRun, End
  <2>6. ASSUME NEW r \in Run, FailRun(r) PROVE TypeOK'
    <3>1. End(r, "failed")
      BY <2>6 DEF FailRun
    <3>2. /\ status' \in [Run -> {"none", "running", "completed", "failed"}]
          /\ finished' \in Seq(Run) /\ cooled' \in 0..Len(finished')
      BY <2>6, <3>1, EndType DEF FailRun
    <3> QED BY <2>6, <3>1, <3>2 DEF FailRun, End
  <2>7. ASSUME NEW r \in Run, RecoverRun(r) PROVE TypeOK'
    <3>1. End(r, "failed")
      BY <2>7 DEF RecoverRun
    <3>2. recovery' \in Recovery
      BY <2>7 DEF RecoverRun, Recovery
    <3>3. /\ status' \in [Run -> {"none", "running", "completed", "failed"}]
          /\ finished' \in Seq(Run) /\ cooled' \in 0..Len(finished')
      BY <2>7, <3>1, EndType DEF RecoverRun
    <3> QED BY <2>7, <3>1, <3>2, <3>3 DEF RecoverRun, End
  <2>8. CASE CoolOff
    BY <2>8 DEF CoolOff
  <2>9. CASE Crash
    <3>1. crashes' \in 0..MaxCrashes
      BY <2>9, CrashBound DEF Crash
    <3>2. req' \in [Proc -> Request] /\ recovery' \in Recovery
      BY <2>9 DEF Crash, Request, Recovery, Reading
    <3> QED BY <2>9, <3>1, <3>2 DEF Crash
  <2>10. CASE Boot
    BY <2>10 DEF Boot
  <2>11. CASE RecoverRead
    BY <2>11 DEF RecoverRead, ReadStale, Recovery, Running
  <2>12. CASE UNCHANGED vars
    BY <2>12 DEF vars
  <2> QED
    BY <2>1, <2>2, <2>3, <2>4, <2>5, <2>6, <2>7, <2>8, <2>9, <2>10, <2>11, <2>12 DEF Next
<1> QED BY <1>1, <1>2, PTL DEF Spec

\* A crash never leaves a run marked as running that nobody will end.
THEOREM NoRunIsForgotten == Spec => []NoForgottenRun
<1>1. Init => NoForgottenRun
  BY DEF Init, NoForgottenRun, Running
<1>2. TypeOK /\ NoForgottenRun /\ [Next]_vars => NoForgottenRun'
  <2> SUFFICES ASSUME TypeOK, NoForgottenRun, [Next]_vars PROVE NoForgottenRun'
    OBVIOUS
  <2> USE DEF NoForgottenRun, Running, table
  <2>1. ASSUME NEW p \in Proc, BeginScrape(p) \/ BeginFile(p) \/ CheckCooldown(p)
        PROVE  NoForgottenRun'
    BY <2>1 DEF BeginScrape, BeginFile, CheckCooldown
  <2>2. ASSUME NEW p \in Proc, NEW r \in Run, StartRun(p, r) PROVE NoForgottenRun'
    BY <2>2 DEF StartRun, TypeOK
  <2>3. ASSUME NEW r \in Run, FinishRun(r) \/ FailRun(r) PROVE NoForgottenRun'
    BY <2>3 DEF FinishRun, FailRun, End, TypeOK
  <2>4. ASSUME NEW r \in Run, RecoverRun(r) PROVE NoForgottenRun'
    BY <2>4 DEF RecoverRun, End, TypeOK
  <2>5. CASE CoolOff
    BY <2>5 DEF CoolOff
  <2>6. CASE Crash
    BY <2>6 DEF Crash, Reading
  <2>7. CASE Boot
    BY <2>7 DEF Boot
  <2>8. CASE RecoverRead
    BY <2>8 DEF RecoverRead, ReadStale
  <2>9. CASE UNCHANGED vars
    BY <2>9 DEF vars
  <2> QED BY <2>1, <2>2, <2>3, <2>4, <2>5, <2>6, <2>7, <2>8, <2>9 DEF Next
<1> QED BY <1>1, <1>2, TypeCorrect, PTL DEF Spec

-----------------------------------------------------------------------------
(***************************************************************************)
(* An import against corrections by hand (ImportSync).                     *)
(***************************************************************************)
SyncTypes ==
    /\ listing \in S!Listing
    /\ row \in [Record -> {S!NoRow} \cup S!Entity]
    /\ job \in S!Job
    /\ edit \in [Editor -> S!Edit]
    /\ mix \in Mixes
    /\ job.phase = "save" => job.entity \in S!Entity
    /\ \A p \in Editor : edit[p].busy => edit[p].entity \in S!Entity

LEMMA AppliedType ==
  ASSUME NEW e \in {S!NoRow} \cup S!Entity, NEW c \in S!Content
  PROVE  S!Applied(e, c) \in S!Entity
  <1>1. CASE e.exists
    <2>1. e \in S!Entity
      BY <1>1 DEF S!NoRow
    <2>2. [f \in Field |-> IF f \in S!Changes(e, c) THEN c[f] ELSE e.val[f]] \in S!Content
      BY <2>1 DEF S!Content, S!Entity
    <2> QED BY <1>1, <2>1, <2>2 DEF S!Applied, S!Entity
  <1>2. CASE ~e.exists
    BY <1>2 DEF S!Applied, S!Entity
  <1> QED BY <1>1, <1>2

LEMMA IdleTyped == S!IdleJob \in S!Job /\ S!NoEdit \in S!Edit
  BY SyncAssumption DEF S!IdleJob, S!NoEdit, S!Job, S!Edit, S!Unlisted, S!Listing, S!Content

LEMMA SourceType ==
  ASSUME NEW r \in Record, NEW c \in S!Content, listing \in S!Listing, S!SourceChanges(r, c)
  PROVE  listing' \in S!Listing
  <1>1. CASE listing' = [listing EXCEPT !.listed = @ \ {r}]
    BY <1>1 DEF S!Listing
  <1>2. CASE listing' = [listing EXCEPT !.listed = @ \cup {r}, !.content[r] = c]
    <2>1. [listing EXCEPT !.listed = @ \cup {r}, !.content[r] = c] \in S!Listing
      BY DEF S!Listing
    <2> QED BY <1>2, <2>1
  <1> QED BY <1>1, <1>2 DEF S!SourceChanges

LEMMA SyncTypesStep ==
  ASSUME SyncTypes, S!Next
  PROVE  SyncTypes'
  <1> USE DEF SyncTypes
  <1>1. ASSUME NEW r \in Record, NEW c \in S!Content, S!SourceChanges(r, c) PROVE SyncTypes'
    <2>1. listing' \in S!Listing
      BY <1>1, SourceType
    <2> QED BY <1>1, <2>1 DEF S!SourceChanges
  <1>2. ASSUME NEW records \in SUBSET listing.listed, NEW complete \in BOOLEAN, S!Fetch(records, complete)
        PROVE  SyncTypes'
    <2>1. job' \in S!Job /\ job'.phase = "plan"
      BY <1>2, IdleTyped DEF S!Fetch, S!Job, S!Listing, S!IdleJob
    <2>2. \A e \in S!Entity : S!Unseen(e) \in S!Entity
      BY DEF S!Unseen, S!Entity
    <2>3. S!Unseen(S!NoRow) = S!NoRow
      BY DEF S!Unseen, S!NoRow
    <2>4. row' \in [Record -> {S!NoRow} \cup S!Entity]
      BY <1>2, <2>2, <2>3 DEF S!Fetch
    <2>5. edit' \in [Editor -> S!Edit] /\ \A p \in Editor : edit'[p].busy => edit'[p].entity \in S!Entity
      BY <1>2, <2>2, <2>3 DEF S!Fetch, S!Edit
    <2> QED BY <1>2, <2>1, <2>4, <2>5 DEF S!Fetch
  <1>3. ASSUME NEW r \in Record, S!PlanUnchanged(r) PROVE SyncTypes'
    BY <1>3 DEF S!PlanUnchanged, S!Job
  <1>4. ASSUME NEW r \in Record, S!Plan(r) PROVE SyncTypes'
    <2>1. S!Applied(row[r], job.fetched.content[r]) \in S!Entity
      BY AppliedType DEF S!Job, S!Listing
    <2>2. job' \in S!Job /\ job'.entity \in S!Entity
      BY <1>4, <2>1 DEF S!Plan, S!Job
    <2> QED BY <1>4, <2>2 DEF S!Plan
  <1>5. CASE S!SaveRecord
    BY <1>5 DEF S!SaveRecord, S!Job
  <1>6. CASE S!SaveFails
    BY <1>6 DEF S!SaveFails, S!Job
  <1>7. CASE S!Stamp
    <2>1. \A e \in S!Entity : S!Stamped(e) \in S!Entity
      BY DEF S!Stamped, S!Entity
    <2>2. ~S!NoRow.exists
      BY DEF S!NoRow
    <2>3. row' \in [Record -> {S!NoRow} \cup S!Entity]
      <3>1. \A r \in Record : row[r].exists => row[r] \in S!Entity
        BY <2>2
      <3>2. row' = [r \in Record |-> IF r \in job.seen /\ row[r].exists THEN S!Stamped(row[r]) ELSE row[r]]
        BY <1>7 DEF S!Stamp
      <3> QED BY <2>1, <3>1, <3>2
    <2> QED BY <1>7, <2>3 DEF S!Stamp, S!Job
  <1>8. CASE S!Flag
    <2>1. row' \in [Record -> {S!NoRow} \cup S!Entity]
      <3>1. \A e \in S!Entity : [e EXCEPT !.missing = TRUE] \in S!Entity
        BY DEF S!Entity
      <3>2. \A r \in Record : row[r].exists => row[r] \in S!Entity
        BY DEF S!NoRow
      <3>3. row' = [r \in Record |-> IF S!Lost(row[r]) THEN [row[r] EXCEPT !.missing = TRUE] ELSE row[r]]
        BY <1>8 DEF S!Flag
      <3>4. \A e : S!Lost(e) => e.exists
        BY DEF S!Lost
      <3> QED BY <3>1, <3>2, <3>3, <3>4
    <2>2. job' \in S!Job /\ job'.phase = "idle"
      BY <1>8, IdleTyped DEF S!Flag, S!IdleJob
    <2> QED BY <1>8, <2>1, <2>2 DEF S!Flag
  <1>9. CASE S!RunFails
    BY <1>9, IdleTyped DEF S!RunFails, S!IdleJob
  <1>10. ASSUME NEW p \in Editor, NEW r \in Record, NEW f \in Field, NEW v \in Value, S!BeginUpdate(p, r, f, v)
         PROVE  SyncTypes'
    <2>1. row[r] \in S!Entity
      BY <1>10 DEF S!BeginUpdate, S!NoRow
    <2>2. edit'[p] \in S!Edit /\ edit'[p].entity \in S!Entity
      BY <1>10, <2>1 DEF S!BeginUpdate, S!Edit, S!Entity, S!Content
    <2> QED BY <1>10, <2>2 DEF S!BeginUpdate
  <1>11. ASSUME NEW p \in Editor, S!Update(p) PROVE SyncTypes'
    BY <1>11, IdleTyped DEF S!Update, S!Edit, S!NoEdit
  <1>12. mix.records \subseteq Record /\ mix.fields \subseteq Field
    BY SyncAssumption
  <1> QED BY <1>1, <1>2, <1>3, <1>4, <1>5, <1>6, <1>7, <1>8, <1>9, <1>10, <1>11, <1>12
          DEF S!Next, S!ImportStep, S!EditStep

-----------------------------------------------------------------------------
\* What an import is about to save is made from the event as it is, unless
\* somebody corrected it since the import read it.
Fresh ==
    job.phase = "save" /\ job.cur \notin corrected =>
        job.entity = S!Applied(row[job.cur], job.fetched.content[job.cur])

\* Where nobody corrects events, nobody has.
Uncorrected == "edit" \notin mix.ops => corrected = {} /\ \A p \in Editor : ~edit[p].busy

SeenExist == \A r \in job.seen : row[r].exists

\* What an import has seen has the values of the source already.
TakenOver ==
    "edit" \notin mix.ops =>
        \A r \in job.seen, f \in Field :
            job.fetched.content[r][f] # S!Absent /\ f \notin row[r].editedFields
                => row[r].val[f] = job.fetched.content[r][f]

\* Where no save fails, what was fetched is seen or still to come, and what was seen gets its stamp.
AllSeen ==
    mix.ops \subseteq {"source", "runFails"} =>
        /\ job.phase = "plan" => job.fetched.listed \subseteq job.todo \cup job.seen
        /\ job.phase = "save" => job.fetched.listed \subseteq job.todo \cup job.seen \cup {job.cur}
        /\ job.phase = "flag" => \A r \in job.fetched.listed : row[r].seen

SyncInv == SyncTypes /\ Fresh /\ Uncorrected /\ SeenExist /\ TakenOver /\ AllSeen

LEMMA FreshStep ==
  ASSUME SyncTypes, Fresh, S!Next
  PROVE  Fresh'
  <1> USE DEF Fresh
  <1>1. ASSUME NEW r \in Record, NEW c \in S!Content, S!SourceChanges(r, c) PROVE Fresh'
    BY <1>1 DEF S!SourceChanges
  <1>2. ASSUME NEW records, NEW complete, S!Fetch(records, complete) PROVE Fresh'
    BY <1>2 DEF S!Fetch, S!IdleJob
  <1>3. ASSUME NEW r \in Record, S!PlanUnchanged(r) PROVE Fresh'
    BY <1>3 DEF S!PlanUnchanged, SyncTypes, S!Job
  <1>4. ASSUME NEW r \in Record, S!Plan(r) PROVE Fresh'
    BY <1>4 DEF S!Plan, SyncTypes, S!Job
  <1>5. CASE S!SaveRecord \/ S!SaveFails \/ S!Stamp
    BY <1>5 DEF S!SaveRecord, S!SaveFails, S!Stamp, SyncTypes, S!Job
  <1>6. CASE S!Flag \/ S!RunFails
    BY <1>6 DEF S!Flag, S!RunFails, S!IdleJob
  <1>7. ASSUME NEW p \in Editor, NEW r \in Record, NEW f \in Field, NEW v \in Value, S!BeginUpdate(p, r, f, v)
        PROVE  Fresh'
    BY <1>7 DEF S!BeginUpdate
  <1>8. ASSUME NEW p \in Editor, S!Update(p) PROVE Fresh'
    BY <1>8 DEF S!Update, SyncTypes
  <1>9. mix.records \subseteq Record /\ mix.fields \subseteq Field
    BY SyncAssumption, SMTT(30) DEF SyncTypes
  <1> QED BY <1>1, <1>2, <1>3, <1>4, <1>5, <1>6, <1>7, <1>8, <1>9 DEF S!Next, S!ImportStep, S!EditStep

LEMMA UncorrectedStep ==
  ASSUME SyncTypes, Uncorrected, S!Next
  PROVE  Uncorrected'
  <1> SUFFICES ASSUME "edit" \notin mix.ops, mix' = mix
               PROVE  corrected' = {} /\ \A p \in Editor : ~edit'[p].busy
    BY DEF Uncorrected, S!Next, S!ImportStep, S!EditStep, S!SourceChanges, S!Fetch, S!PlanUnchanged, S!Plan,
           S!SaveRecord, S!SaveFails, S!Stamp, S!Flag, S!RunFails, S!BeginUpdate, S!Update
  <1>1. corrected = {} /\ \A p \in Editor : ~edit[p].busy
    BY DEF Uncorrected
  <1>2. ASSUME NEW records, NEW complete, S!Fetch(records, complete)
        PROVE  corrected' = {} /\ \A p \in Editor : ~edit'[p].busy
    BY <1>1, <1>2 DEF S!Fetch, SyncTypes, S!Edit
  <1>3. ASSUME NEW r \in Record, S!Plan(r) PROVE corrected' = {} /\ edit' = edit
    BY <1>3 DEF S!Plan
  <1>4. ASSUME NEW p \in Editor PROVE ~S!Update(p)
    BY <1>1 DEF S!Update
  <1> QED
    BY <1>1, <1>2, <1>3, <1>4 DEF S!Next, S!ImportStep, S!EditStep, S!SourceChanges, S!PlanUnchanged,
       S!SaveRecord, S!SaveFails, S!Stamp, S!Flag, S!RunFails

\* Stamps and flags leave the contents of an event alone.
LEMMA MarksKeepContent ==
  ASSUME NEW e \in {S!NoRow} \cup S!Entity
  PROVE  /\ S!Unseen(e).exists = e.exists
         /\ e.exists => /\ S!Unseen(e).val = e.val
                        /\ S!Unseen(e).editedFields = e.editedFields
                        /\ S!Stamped(e).exists
                        /\ S!Stamped(e).val = e.val
                        /\ S!Stamped(e).editedFields = e.editedFields
                        /\ S!Stamped(e).seen
                        /\ [e EXCEPT !.missing = TRUE].exists
                        /\ [e EXCEPT !.missing = TRUE].val = e.val
                        /\ [e EXCEPT !.missing = TRUE].editedFields = e.editedFields
  <1>1. CASE e \in S!Entity
    BY <1>1 DEF S!Unseen, S!Stamped, S!Entity
  <1>2. CASE e = S!NoRow
    BY <1>2 DEF S!Unseen, S!NoRow
  <1> QED BY <1>1, <1>2

LEMMA SeenExistStep ==
  ASSUME SyncTypes, SeenExist, S!Next
  PROVE  SeenExist'
  <1> USE DEF SeenExist
  <1>1. ASSUME NEW r \in Record, NEW c \in S!Content, S!SourceChanges(r, c) PROVE SeenExist'
    BY <1>1 DEF S!SourceChanges
  <1>2. ASSUME NEW records, NEW complete, S!Fetch(records, complete) PROVE SeenExist'
    BY <1>2 DEF S!Fetch, S!IdleJob
  <1>3. ASSUME NEW r \in Record, S!PlanUnchanged(r) PROVE SeenExist'
    BY <1>3 DEF S!PlanUnchanged, SyncTypes, S!Job
  <1>4. ASSUME NEW r \in Record, S!Plan(r) PROVE SeenExist'
    BY <1>4 DEF S!Plan, SyncTypes, S!Job
  <1>5. CASE S!SaveRecord
    <2>1. job.entity.exists
      BY <1>5 DEF S!SaveRecord, SyncTypes, S!Entity
    <2> QED BY <1>5, <2>1 DEF S!SaveRecord, SyncTypes, S!Job
  <1>6. CASE S!SaveFails
    BY <1>6 DEF S!SaveFails, SyncTypes, S!Job
  <1>7. CASE S!Stamp
    BY <1>7, MarksKeepContent DEF S!Stamp, SyncTypes, S!Job
  <1>8. CASE S!Flag \/ S!RunFails
    BY <1>8 DEF S!Flag, S!RunFails, S!IdleJob
  <1>9. ASSUME NEW p \in Editor, NEW r \in Record, NEW f \in Field, NEW v \in Value, S!BeginUpdate(p, r, f, v)
        PROVE  SeenExist'
    BY <1>9 DEF S!BeginUpdate
  <1>10. ASSUME NEW p \in Editor, S!Update(p) PROVE SeenExist'
    <2>1. edit[p].entity.exists
      BY <1>10 DEF S!Update, SyncTypes, S!Entity
    <2> QED BY <1>10, <2>1 DEF S!Update, SyncTypes, S!Job
  <1>11. mix.records \subseteq Record /\ mix.fields \subseteq Field
    BY SyncAssumption DEF SyncTypes
  <1> QED BY <1>1, <1>2, <1>3, <1>4, <1>5, <1>6, <1>7, <1>8, <1>9, <1>10, <1>11
          DEF S!Next, S!ImportStep, S!EditStep

\* What applying a record does to a field: it takes over the source's value, but
\* for a corrected field, and never clears one.
LEMMA AppliedTakesOver ==
  ASSUME NEW e \in {S!NoRow} \cup S!Entity, NEW c \in S!Content, NEW f \in Field
  PROVE  /\ c[f] # S!Absent /\ f \notin S!Applied(e, c).editedFields => S!Applied(e, c).val[f] = c[f]
         /\ e.exists => /\ S!Applied(e, c).editedFields = e.editedFields
                        /\ e.val[f] # S!Absent => S!Applied(e, c).val[f] # S!Absent
                        /\ f \in e.editedFields => S!Applied(e, c).val[f] = e.val[f]
  <1>1. CASE ~e.exists
    BY <1>1 DEF S!Applied
  <1>2. CASE e.exists
    <2>1. e \in S!Entity
      BY <1>2 DEF S!NoRow
    <2>2. S!Applied(e, c).val[f] = IF f \in S!Changes(e, c) THEN c[f] ELSE e.val[f]
      BY <1>2, <2>1 DEF S!Applied, S!Entity
    <2>3. S!Applied(e, c).editedFields = e.editedFields
      BY <1>2, <2>1 DEF S!Applied, S!Entity
    <2> QED BY <1>2, <2>2, <2>3 DEF S!Changes, S!Differs
  <1> QED BY <1>1, <1>2

\* Without corrections a save writes what the record makes of the event.
LEMMA SavesFresh ==
  ASSUME SyncTypes, Fresh, Uncorrected, "edit" \notin mix.ops, S!SaveRecord
  PROVE  /\ row' = [row EXCEPT ![job.cur] = S!Applied(row[job.cur], job.fetched.content[job.cur])]
         /\ job.cur \in Record /\ row[job.cur] \in {S!NoRow} \cup S!Entity
         /\ job.fetched.content[job.cur] \in S!Content
  <1>1. job.cur \in Record /\ job.fetched \in S!Listing
    BY DEF SyncTypes, S!Job
  <1> QED BY <1>1 DEF SyncTypes, Fresh, Uncorrected, S!SaveRecord, S!Listing

LEMMA TakenOverStep ==
  ASSUME SyncInv, S!Next, "edit" \notin mix.ops
  PROVE  TakenOver'
  <1> USE DEF SyncInv, TakenOver
  <1>1. ASSUME NEW r \in Record, NEW c \in S!Content, S!SourceChanges(r, c) PROVE TakenOver'
    BY <1>1 DEF S!SourceChanges
  <1>2. ASSUME NEW records, NEW complete, S!Fetch(records, complete) PROVE TakenOver'
    BY <1>2 DEF S!Fetch, S!IdleJob
  <1>3. ASSUME NEW r \in Record, S!PlanUnchanged(r) PROVE TakenOver'
    <2>1. job'.seen = job.seen \cup {r} /\ job'.fetched = job.fetched /\ row' = row
      BY <1>3 DEF S!PlanUnchanged, SyncTypes, S!Job
    <2>2. S!Changes(row[r], job.fetched.content[r]) = {}
      BY <1>3 DEF S!PlanUnchanged
    <2>3. \A f \in Field : job.fetched.content[r][f] # S!Absent /\ f \notin row[r].editedFields
                              => row[r].val[f] = job.fetched.content[r][f]
      BY <2>2 DEF S!Changes, S!Differs
    <2> QED BY <1>3, <2>1, <2>3 DEF S!PlanUnchanged
  <1>4. ASSUME NEW r \in Record, S!Plan(r) PROVE TakenOver'
    BY <1>4 DEF S!Plan, SyncTypes, S!Job
  <1>5. CASE S!SaveRecord
    <2> DEFINE c == job.fetched.content[job.cur]
    <2>1. job'.seen = job.seen \cup {job.cur} /\ job'.fetched = job.fetched /\ mix' = mix
      BY <1>5 DEF S!SaveRecord, SyncTypes, S!Job
    <2>2. /\ row' = [row EXCEPT ![job.cur] = S!Applied(row[job.cur], c)]
          /\ job.cur \in Record /\ row[job.cur] \in {S!NoRow} \cup S!Entity /\ c \in S!Content
      BY <1>5, SavesFresh
    <2>3. \A f \in Field :
             c[f] # S!Absent /\ f \notin S!Applied(row[job.cur], c).editedFields
                 => S!Applied(row[job.cur], c).val[f] = c[f]
      BY <2>2, AppliedTakesOver
    <2>4. \A r \in Record : row'[r] = IF r = job.cur THEN S!Applied(row[job.cur], c) ELSE row[r]
      BY <2>2 DEF SyncTypes
    <2>5. job.seen \subseteq Record
      BY DEF SyncTypes, S!Job
    <2> QED BY <2>1, <2>2, <2>3, <2>4, <2>5
  <1>6. CASE S!SaveFails
    BY <1>6 DEF S!SaveFails, SyncTypes, S!Job
  <1>7. CASE S!Stamp
    <2>1. job'.seen = job.seen /\ job'.fetched = job.fetched /\ mix' = mix
      BY <1>7 DEF S!Stamp, SyncTypes, S!Job
    <2>2. \A r \in job.seen : row'[r] = S!Stamped(row[r]) /\ row[r].exists /\ row[r] \in {S!NoRow} \cup S!Entity
      BY <1>7 DEF S!Stamp, SeenExist, SyncTypes, S!Job
    <2>3. \A r \in job.seen : row'[r].val = row[r].val /\ row'[r].editedFields = row[r].editedFields
      BY <2>2, MarksKeepContent
    <2> QED BY <2>1, <2>3
  <1>8. CASE S!Flag \/ S!RunFails
    BY <1>8 DEF S!Flag, S!RunFails, S!IdleJob
  <1>9. ASSUME NEW p \in Editor, NEW r \in Record, NEW f \in Field, NEW v \in Value, S!BeginUpdate(p, r, f, v)
        PROVE  TakenOver'
    BY <1>9 DEF S!BeginUpdate
  <1>10. ASSUME NEW p \in Editor PROVE ~S!Update(p)
    BY DEF S!Update, Uncorrected
  <1>11. mix.records \subseteq Record /\ mix.fields \subseteq Field
    BY SyncAssumption DEF SyncTypes
  <1> QED BY <1>1, <1>2, <1>3, <1>4, <1>5, <1>6, <1>7, <1>8, <1>9, <1>10, <1>11
          DEF S!Next, S!ImportStep, S!EditStep

LEMMA AllSeenStep ==
  ASSUME SyncInv, S!Next, mix.ops \subseteq {"source", "runFails"}
  PROVE  AllSeen'
  <1> USE DEF SyncInv, AllSeen
  <1>1. ASSUME NEW r \in Record, NEW c \in S!Content, S!SourceChanges(r, c) PROVE AllSeen'
    BY <1>1 DEF S!SourceChanges
  <1>2. ASSUME NEW records, NEW complete, S!Fetch(records, complete) PROVE AllSeen'
    <2>1. listing \in S!Listing
      BY DEF SyncTypes
    <2>2. job'.phase = "plan" /\ job'.todo = records /\ job'.fetched.listed = records
      BY <1>2, <2>1 DEF S!Fetch, S!IdleJob, S!Listing
    <2> QED BY <2>2
  <1>3. ASSUME NEW r \in Record, S!PlanUnchanged(r) PROVE AllSeen'
    BY <1>3 DEF S!PlanUnchanged, SyncTypes, S!Job
  <1>4. ASSUME NEW r \in Record, S!Plan(r) PROVE AllSeen'
    BY <1>4 DEF S!Plan, SyncTypes, S!Job
  <1>5. CASE S!SaveRecord
    BY <1>5 DEF S!SaveRecord, SyncTypes, S!Job
  <1>6. CASE S!Stamp
    <2>1. job.fetched.listed \subseteq job.seen /\ job.seen \subseteq Record
      BY <1>6 DEF S!Stamp, SyncTypes, S!Job
    <2>2. \A r \in job.seen : row'[r] = S!Stamped(row[r]) /\ row[r].exists /\ row[r] \in {S!NoRow} \cup S!Entity
      BY <1>6 DEF S!Stamp, SeenExist, SyncTypes, S!Job
    <2>3. \A r \in job.seen : row'[r].seen
      BY <2>2, MarksKeepContent
    <2>4. job'.phase = "flag" /\ job'.fetched = job.fetched
      BY <1>6 DEF S!Stamp, SyncTypes, S!Job
    <2> QED BY <2>1, <2>3, <2>4
  <1>7. CASE S!Flag \/ S!RunFails
    BY <1>7 DEF S!Flag, S!RunFails, S!IdleJob
  <1>8. ASSUME NEW p \in Editor, NEW r \in Record, NEW f \in Field, NEW v \in Value, S!BeginUpdate(p, r, f, v)
        PROVE  AllSeen'
    BY <1>8 DEF S!BeginUpdate
  <1>9. ASSUME NEW p \in Editor PROVE ~S!Update(p)
    BY DEF S!Update, Uncorrected
  <1>10. mix.records \subseteq Record /\ mix.fields \subseteq Field
    BY SyncAssumption DEF SyncTypes
  <1> QED BY <1>1, <1>2, <1>3, <1>4, <1>5, <1>6, <1>7, <1>8, <1>9, <1>10
          DEF S!Next, S!ImportStep, S!EditStep

LEMMA SyncInvStep ==
  ASSUME SyncInv, S!Next
  PROVE  SyncInv'
  <1>1. mix' = mix
    BY DEF S!Next, S!ImportStep, S!EditStep, S!SourceChanges, S!Fetch, S!PlanUnchanged, S!Plan, S!SaveRecord,
           S!SaveFails, S!Stamp, S!Flag, S!RunFails, S!BeginUpdate, S!Update
  <1>2. TakenOver'
    BY <1>1, TakenOverStep DEF TakenOver
  <1>3. AllSeen'
    BY <1>1, AllSeenStep DEF AllSeen
  <1> QED BY <1>2, <1>3, SyncTypesStep, FreshStep, UncorrectedStep, SeenExistStep, SMTT(30) DEF SyncInv

LEMMA SyncInvInit ==
  ASSUME S!Init
  PROVE  SyncInv
  <1>1. listing \in S!Listing /\ row \in [Record -> {S!NoRow} \cup S!Entity] /\ mix \in Mixes
    BY DEF S!Init
  <1>2. job \in S!Job /\ edit \in [Editor -> S!Edit]
    BY IdleTyped DEF S!Init
  <1>3. job.phase = "idle" /\ job.seen = {} /\ corrected = {} /\ \A p \in Editor : ~edit[p].busy
    BY DEF S!Init, S!IdleJob, S!NoEdit
  <1> QED BY <1>1, <1>2, <1>3 DEF SyncInv, SyncTypes, Fresh, Uncorrected, SeenExist, TakenOver, AllSeen

\* Of a behaviour of the calendar that is an import.
Syncs == part = "sync" => SyncInv

LEMMA SyncsHolds == CalendarSpec => []Syncs
  <1>1. CalendarInit => Syncs
    BY SyncInvInit DEF CalendarInit, SyncInit, FileInit, RecurrenceInit, RacingInit, DuplicatesInit, Syncs
  <1>2. Syncs /\ [CalendarNext]_all => Syncs'
    <2> SUFFICES ASSUME Syncs, [CalendarNext]_all PROVE Syncs'
      OBVIOUS
    <2>1. CASE SyncStep
      BY <2>1, SyncInvStep DEF SyncStep, Syncs
    <2>2. CASE FileStep \/ RecurrenceStep \/ RacingStep \/ DuplicatesStep
      BY <2>2 DEF FileStep, RecurrenceStep, RacingStep, DuplicatesStep, Syncs
    <2>3. CASE UNCHANGED all
      BY <2>3 DEF all, syncVars, Syncs, SyncInv, SyncTypes, Fresh, Uncorrected, SeenExist, TakenOver, AllSeen
    <2> QED BY <2>1, <2>2, <2>3 DEF CalendarNext
  <1> QED BY <1>1, <1>2, PTL DEF CalendarSpec

\* The event of a record changes in steps of a few kinds only.
LEMMA RowSteps ==
  ASSUME SyncInv, S!Next, NEW r \in Record, row'[r] # row[r]
  PROVE  \/ row'[r] = S!Unseen(row[r])
         \/ row'[r] = S!Stamped(row[r]) /\ row[r].exists
         \/ S!Flag /\ S!Lost(row[r]) /\ row'[r] = [row[r] EXCEPT !.missing = TRUE] /\ row[r].exists
         \/ S!SaveRecord /\ r = job.cur
         \/ \E p \in Editor : S!Update(p) /\ edit[p].rec = r
  <1> USE DEF SyncInv, SyncTypes
  <1>1. ASSUME NEW c \in S!Content, NEW s \in Record PROVE ~S!SourceChanges(s, c)
    BY DEF S!SourceChanges
  <1>2. ASSUME NEW records, NEW complete, S!Fetch(records, complete) PROVE row'[r] = S!Unseen(row[r])
    BY <1>2 DEF S!Fetch
  <1>3. ASSUME NEW s \in Record PROVE ~S!PlanUnchanged(s) /\ ~S!Plan(s)
    BY DEF S!PlanUnchanged, S!Plan
  <1>4. CASE S!SaveRecord
    <2>1. r = job.cur
      BY <1>4 DEF S!SaveRecord
    <2> QED BY <1>4, <2>1
  <1>5. ~S!SaveFails /\ ~S!RunFails
    BY DEF S!SaveFails, S!RunFails
  <1>6. CASE S!Stamp
    BY <1>6 DEF S!Stamp
  <1>7. CASE S!Flag
    BY <1>7 DEF S!Flag, S!Lost
  <1>8. ASSUME NEW p \in Editor, NEW s \in Record, NEW f \in Field, NEW v \in Value PROVE ~S!BeginUpdate(p, s, f, v)
    BY DEF S!BeginUpdate
  <1>9. ASSUME NEW p \in Editor, S!Update(p) PROVE edit[p].rec = r
    BY <1>9 DEF S!Update
  <1>10. mix.records \subseteq Record /\ mix.fields \subseteq Field
    BY SyncAssumption
  <1> QED BY <1>1, <1>2, <1>3, <1>4, <1>5, <1>6, <1>7, <1>8, <1>9, <1>10 DEF S!Next, S!ImportStep, S!EditStep

\* Saving an event that nobody corrected since it was read.
LEMMA FreshSave ==
  ASSUME SyncInv, S!SaveRecord, job.cur \notin corrected, row[job.cur].exists, NEW f \in Field
  PROVE  /\ row'[job.cur].editedFields = row[job.cur].editedFields
         /\ row[job.cur].val[f] # S!Absent => row'[job.cur].val[f] # S!Absent
         /\ f \in row[job.cur].editedFields => row'[job.cur].val[f] = row[job.cur].val[f]
  <1> DEFINE c == job.fetched.content[job.cur]
  <1>1. job.cur \in Record /\ job.fetched \in S!Listing
    BY DEF SyncInv, SyncTypes, S!Job
  <1>2. c \in S!Content /\ row[job.cur] \in {S!NoRow} \cup S!Entity
    BY <1>1 DEF SyncInv, SyncTypes, S!Listing
  <1>3. row'[job.cur] = S!Applied(row[job.cur], c)
    BY <1>1 DEF SyncInv, SyncTypes, Fresh, S!SaveRecord
  <1> QED BY <1>2, <1>3, AppliedTakesOver

LEMMA CorrectionsStep ==
  ASSUME SyncInv, S!Next
  PROVE  S!CorrectionsLostOnlyToStaleSave
  <1> SUFFICES ASSUME NEW r \in Record, NEW f \in Field, S!CorrectionLost(r, f),
                      ~\E p \in Editor : S!Update(p) /\ edit[p].rec = r,
                      ~(job.phase = "save" /\ job.cur = r /\ r \in corrected)
               PROVE  FALSE
    BY DEF S!CorrectionsLostOnlyToStaleSave
  <1>1. /\ row[r].exists /\ f \in row[r].editedFields /\ row'[r] # row[r]
        /\ row'[r].val[f] # row[r].val[f] \/ f \notin row'[r].editedFields
    BY DEF S!CorrectionLost
  <1>2. row[r] \in {S!NoRow} \cup S!Entity
    BY DEF SyncInv, SyncTypes
  <1>3. CASE S!SaveRecord /\ r = job.cur
    <2>1. job.cur \notin corrected
      BY <1>3 DEF S!SaveRecord
    <2> QED BY <1>1, <1>3, <2>1, FreshSave
  <1>4. CASE \/ row'[r] = S!Unseen(row[r]) \/ row'[r] = S!Stamped(row[r])
             \/ row'[r] = [row[r] EXCEPT !.missing = TRUE]
    BY <1>1, <1>2, <1>4, MarksKeepContent
  <1> QED BY <1>1, <1>3, <1>4, RowSteps

\* Whatever interleaves, for any number of records, fields and editors: an import
\* undoes a correction only by saving an event that it read before the
\* correction was saved (import.service.ts, applyChanges and createEvent).
THEOREM CorrectionsOutlive == CalendarSpec => CorrectionsOutliveImports
<1>1. Syncs /\ [CalendarNext]_all => [part = "sync" => S!CorrectionsLostOnlyToStaleSave]_all
  BY CorrectionsStep DEF Syncs, CalendarNext, SyncStep, FileStep, RecurrenceStep, RacingStep, DuplicatesStep
<1> QED BY <1>1, SyncsHolds, PTL DEF CalendarSpec, CorrectionsOutliveImports

LEMMA NeverClearedStep ==
  ASSUME SyncInv, S!Next
  PROVE  S!NeverCleared
  <1> SUFFICES ASSUME NEW r \in Record, NEW f \in Field, "edit" \notin mix.ops, row[r].exists,
                      row[r].val[f] # S!Absent, row'[r] # row[r]
               PROVE  row'[r].val[f] # S!Absent
    BY DEF S!NeverCleared
  <1>1. row[r] \in {S!NoRow} \cup S!Entity /\ corrected = {} /\ \A p \in Editor : ~edit[p].busy
    BY DEF SyncInv, SyncTypes, Uncorrected
  <1>2. CASE S!SaveRecord /\ r = job.cur
    BY <1>1, <1>2, FreshSave
  <1>3. CASE \/ row'[r] = S!Unseen(row[r]) \/ row'[r] = S!Stamped(row[r])
             \/ row'[r] = [row[r] EXCEPT !.missing = TRUE]
    BY <1>1, <1>3, MarksKeepContent
  <1>4. ASSUME NEW p \in Editor PROVE ~S!Update(p)
    BY <1>1 DEF S!Update
  <1> QED BY <1>2, <1>3, <1>4, RowSteps

LEMMA FlagsStep ==
  ASSUME SyncInv, S!Next
  PROVE  S!FlagsOnlyUnlisted
  <1> SUFFICES ASSUME NEW r \in Record, mix.ops \subseteq {"source", "runFails"}, S!Flag,
                      row[r].exists, ~row[r].missing, row'[r].missing
               PROVE  job.complete /\ r \notin job.fetched.listed
    BY DEF S!FlagsOnlyUnlisted
  <1>1. row'[r] = IF S!Lost(row[r]) THEN [row[r] EXCEPT !.missing = TRUE] ELSE row[r]
    BY DEF S!Flag
  <1>2. S!Lost(row[r])
    BY <1>1
  <1>3. job.complete /\ ~row[r].seen
    BY <1>2 DEF S!Lost
  <1>4. \A s \in job.fetched.listed : row[s].seen
    BY DEF SyncInv, AllSeen, S!Flag
  <1> QED BY <1>3, <1>4

\* Imports without corrections, for any number of records and fields: a missing
\* field clears nothing, only what a complete run did not find is flagged, and
\* what a run has seen has the values of the source, but for what is corrected
\* (import.service.ts, applyChanges and recordSeen; import-diff.ts).
THEOREM ImportsFollow == CalendarSpec => ImportsFollowTheSource
<1>1. SyncInv => S!TakesOver
  BY DEF SyncInv, TakenOver, S!TakesOver
<1>2. Syncs /\ Syncs' /\ [CalendarNext]_all
        => [part = "sync" => S!NeverCleared /\ S!FlagsOnlyUnlisted /\ S!TakesOver']_all
  <2> SUFFICES ASSUME Syncs, Syncs', CalendarNext, part = "sync"
               PROVE  S!NeverCleared /\ S!FlagsOnlyUnlisted /\ S!TakesOver'
    OBVIOUS
  <2>1. SyncInv /\ SyncInv' /\ S!Next
    BY DEF Syncs, CalendarNext, SyncStep, FileStep, RecurrenceStep, RacingStep, DuplicatesStep
  <2>2. S!TakesOver'
    BY <1>1, <2>1, PTL
  <2> QED BY <2>1, <2>2, NeverClearedStep, FlagsStep
<1> QED BY <1>2, SyncsHolds, PTL DEF CalendarSpec, ImportsFollowTheSource

-----------------------------------------------------------------------------
(***************************************************************************)
(* Import files, repeating events and categories.                          *)
(***************************************************************************)
\* What is true of the events at each stage of an import.  Untouched: nobody else wrote it
\* since the admin was told.
Untouched(id) == id \notin past.changed
MarksTypes ==
    /\ fileJob \in {"read", "checked", "refused", "start", "run", "flag", "imported", "failed"}
    /\ stored \in [Ids -> F!Event \cup {F!NoEvent}]
    /\ work.at \in Nat
    /\ past = [told |-> past.told, unsaved |-> past.unsaved, changed |-> past.changed] /\ past.told \subseteq Ids
    /\ correction = F!NoCorrection \/ correction \in [id : Ids, event : F!Event]
\* Before the run nothing counts as seen, and no correction can save that something was.
Unbegun ==
    /\ \A id \in Ids : stored[id].exists => ~stored[id].seen
    /\ correction # F!NoCorrection => ~correction.event.seen
    /\ work = [at |-> 0, seen |-> {}]
\* The admin was told of all that would be marked now, and of nothing else.
ToldOf ==
    /\ \A id \in Ids : F!Complete /\ F!Expected(id) /\ id \notin F!Listed /\ Untouched(id) => id \in past.told
    /\ \A id \in past.told : Untouched(id) => F!Complete /\ F!Expected(id) /\ id \notin F!Listed /\ ~stored[id].seen
\* The event of a record that the run has been through counts as seen, could not be saved,
\* or does not exist.
Through ==
    /\ work.seen \subseteq F!Listed
    /\ \A i \in 1 .. work.at : kept[i] # null /\ F!Id(i) \in Ids /\ Untouched(F!Id(i)) =>
           F!Id(i) \in work.seen \cup past.unsaved \/ ~stored[F!Id(i)].exists
Stamped ==
    /\ work.at = Len(kept)
    /\ \A id \in Ids \cap work.seen : Untouched(id) /\ stored[id].exists => stored[id].seen
MarksInv ==
    /\ MarksTypes
    /\ fileJob \in {"read", "checked", "start"} => Unbegun
    /\ fileJob \in {"checked", "start", "run", "flag"} => ToldOf
    /\ fileJob \in {"run", "flag"} => Through
    /\ fileJob = "flag" => Stamped
    /\ fileJob # "imported" => flagged = {}
    /\ F!MarksNothingUnconfirmed

\* Writing a field leaves an event one.
LEMMA EventFields ==
  ASSUME NEW e \in F!Event \cup {F!NoEvent}, e.exists
  PROVE  /\ \A u \in BOOLEAN : [e EXCEPT !.upcoming = u] \in F!Event /\ [e EXCEPT !.upcoming = u].seen = e.seen
         /\ [e EXCEPT !.missing = TRUE] \in F!Event
         /\ LET d == [e EXCEPT !.seen = TRUE, !.missing = FALSE] IN d \in F!Event /\ d.seen
<1>1. e \in F!Event
  BY DEF F!NoEvent
<1>2. \A u \in BOOLEAN : [e EXCEPT !.upcoming = u] \in F!Event /\ [e EXCEPT !.upcoming = u].seen = e.seen
  BY <1>1 DEF F!Event
<1>3. [e EXCEPT !.missing = TRUE] \in F!Event
  BY <1>1 DEF F!Event
<1>4. LET d == [e EXCEPT !.seen = TRUE, !.missing = FALSE] IN d \in F!Event /\ d.seen
  BY <1>1 DEF F!Event
<1> QED BY <1>2, <1>3, <1>4

LEMMA MarksInit == F!Init => MarksInv
<1> SUFFICES ASSUME F!Init PROVE MarksInv
  OBVIOUS
<1>1. F!Upcoming \in F!Event /\ F!Upcoming.seen = FALSE
  BY DEF F!Upcoming, F!Event
<1>2. stored \in [Ids -> {e \in F!Event : ~e.seen} \cup {F!NoEvent}]
  BY <1>1 DEF F!Init
<1>3. \A id \in Ids : stored[id].exists => ~stored[id].seen
  BY <1>2 DEF F!NoEvent
<1>4. /\ fileJob = "read" /\ work = [at |-> 0, seen |-> {}] /\ correction = F!NoCorrection /\ flagged = {}
      /\ past = [told |-> {}, unsaved |-> {}, changed |-> {}]
  BY DEF F!Init
<1> QED BY <1>2, <1>3, <1>4 DEF MarksInv, MarksTypes, Unbegun, F!MarksNothingUnconfirmed

\* A step of the run that leaves the events as they are, as far as they are told.
LEMMA SameFile ==
  ASSUME UNCHANGED F!reading
  PROVE  F!Complete' = F!Complete /\ F!Listed' = F!Listed /\ \A i : F!Id(i)' = F!Id(i)
BY DEF F!reading, F!Complete, F!Listed, F!Id

\* The check, and the decision of the admin.
LEMMA MarksDecided ==
  ASSUME MarksInv, F!ReadEvent \/ F!CheckFile \/ \E accept, alike \in BOOLEAN : F!StartFileImport(accept, alike)
  PROVE  MarksInv'
<1>1. CASE F!ReadEvent
  <2>1. /\ fileJob = "read" /\ fileJob' = "read" /\ UNCHANGED <<stored, work, correction, flagged, past>>
    BY <1>1 DEF F!ReadEvent
  <2> QED BY <2>1 DEF MarksInv, MarksTypes, Unbegun, F!MarksNothingUnconfirmed
<1> DEFINE Told(t) == /\ fileJob' = "checked" /\ past' = [past EXCEPT !.told = t, !.changed = {}]
                      /\ UNCHANGED <<F!reading, stored, work, correction, flagged>>
<1>2. ASSUME fileJob \in {"read", "checked"}, Told(F!WillMark) PROVE MarksInv'
  <2>1. past' = [told |-> F!WillMark, unsaved |-> past.unsaved, changed |-> {}]
    BY <1>2 DEF MarksInv, MarksTypes
  <2>2. Unbegun' /\ Unbegun /\ flagged' = {} /\ MarksTypes'
    <3>1. Unbegun /\ MarksTypes /\ flagged = {} /\ F!WillMark \subseteq Ids
      BY <1>2 DEF MarksInv, F!WillMark
    <3> QED BY <1>2, <2>1, <3>1 DEF MarksTypes, Unbegun
  <2>3. \A id \in Ids : F!Expected(id)' = F!Expected(id)
    BY <1>2 DEF F!Expected
  <2>4. ToldOf'
    <3>1. F!WillMark \subseteq Ids /\ past'.told = F!WillMark /\ UNCHANGED stored
      BY <1>2, <2>1 DEF F!WillMark
    <3>2. \A id \in F!WillMark : F!Complete /\ F!Expected(id) /\ id \notin F!Listed /\ stored[id].exists
      BY DEF F!WillMark, F!Expected
    <3>3. \A id \in F!WillMark : ~stored[id].seen
      BY <2>2, <3>1, <3>2 DEF Unbegun
    <3>4. \A id \in Ids : F!Complete /\ F!Expected(id) /\ id \notin F!Listed => id \in F!WillMark
      BY DEF F!WillMark
    <3> QED BY <1>2, <2>3, <3>1, <3>2, <3>3, <3>4, SameFile DEF ToldOf
  <2> QED BY <1>2, <2>2, <2>4 DEF MarksInv, F!MarksNothingUnconfirmed
<1>3. CASE F!CheckFile
  BY <1>2, <1>3 DEF F!CheckFile
<1>4. ASSUME NEW accept \in BOOLEAN, NEW alike \in BOOLEAN, F!StartFileImport(accept, alike) PROVE MarksInv'
  <2>1. fileJob = "checked" /\ UNCHANGED <<F!reading, stored, work, correction, busy, flagged>> /\ flagged = {}
    BY <1>4 DEF F!StartFileImport, MarksInv
  <2>2. CASE fileJob' = "refused" /\ UNCHANGED past
    BY <2>1, <2>2 DEF MarksInv, MarksTypes, F!MarksNothingUnconfirmed
  <2>3. CASE Told(F!WillMark)
    BY <1>2, <2>1, <2>3
  <2>4. CASE /\ fileJob' = "start" /\ past' = [past EXCEPT !.told = IF accept THEN @ ELSE {}]
             /\ accept \/ F!WillMark = {}
    <3>1. past' = [told |-> IF accept THEN past.told ELSE {}, unsaved |-> past.unsaved, changed |-> past.changed]
      BY <2>4 DEF MarksInv, MarksTypes
    <3>2. Unbegun' /\ MarksTypes'
      BY <2>1, <2>4, <3>1 DEF MarksInv, MarksTypes, Unbegun
    <3>3. \A id \in Ids : F!Expected(id)' = F!Expected(id)
      BY <2>1 DEF F!Expected
    <3>4. ToldOf /\ MarksTypes
      BY <2>1 DEF MarksInv
    <3>5. ToldOf'
      <4>1. CASE accept
        BY <2>1, <3>1, <3>3, <3>4, <4>1, SameFile DEF ToldOf, Untouched, MarksTypes
      <4>2. CASE ~accept
        BY <2>1, <2>4, <3>1, <3>3, <4>2, SameFile DEF ToldOf, Untouched, F!WillMark
      <4> QED BY <4>1, <4>2
    <3> QED BY <2>1, <2>4, <3>2, <3>5 DEF MarksInv, F!MarksNothingUnconfirmed
  <2> QED BY <1>4, <2>1, <2>2, <2>3, <2>4 DEF F!StartFileImport
<1> QED BY <1>1, <1>3, <1>4

\* A record that the run goes through: its event may be written, and counts as seen, could
\* not be saved or does not exist.
LEMMA MarksRecord ==
  ASSUME MarksInv, fileJob = "run", NEW i \in 1 .. Len(kept), i = work.at + 1, NEW found,
         kept[i] = null \/ found \subseteq {F!Id(i)}, kept[i] = null => found = {}, F!Through(i, found),
         stored' = stored \/ (kept[i] # null /\ \E e \in F!Event : stored' = [stored EXCEPT ![F!Id(i)] = e]),
         past' = past \/ (kept[i] # null /\ past' = [past EXCEPT !.unsaved = @ \cup {F!Id(i)}]),
         kept[i] # null /\ F!Id(i) \in Ids => F!Id(i) \in found \cup past'.unsaved \/ ~stored'[F!Id(i)].exists
  PROVE  MarksInv'
<1>1. /\ fileJob' = "run" /\ UNCHANGED <<F!reading, correction, flagged>> /\ flagged = {}
      /\ work'.at = i /\ work'.seen = work.seen \cup found
  BY DEF F!Through, MarksInv
<1>2. MarksTypes /\ ToldOf /\ Through
  BY DEF MarksInv
<1>3. /\ past'.told = past.told /\ past'.changed = past.changed /\ past.unsaved \subseteq past'.unsaved
      /\ past' = [told |-> past'.told, unsaved |-> past'.unsaved, changed |-> past'.changed]
  BY <1>2 DEF MarksTypes
<1>4. stored' \in [Ids -> F!Event \cup {F!NoEvent}]
  BY <1>2 DEF MarksTypes
<1>5. MarksTypes'
  BY <1>1, <1>2, <1>3, <1>4 DEF MarksTypes
<1>6. kept[i] # null => F!Id(i) \in F!Listed
  BY DEF F!Listed, F!Id
<1>7. \A id \in Ids : id \notin F!Listed => stored'[id] = stored[id] /\ F!Expected(id)' = F!Expected(id)
  BY <1>2, <1>6 DEF MarksTypes, F!Expected
<1>8. ToldOf'
  BY <1>1, <1>2, <1>3, <1>7, SameFile DEF ToldOf, Untouched, MarksTypes
<1>9. Through'
  <2>1. work'.seen \subseteq F!Listed
    BY <1>1, <1>2, <1>6 DEF Through
  <2>2. ASSUME NEW j \in 1 .. i, kept[j] # null, F!Id(j) \in Ids, F!Id(j) \notin past.changed
        PROVE  F!Id(j) \in work'.seen \cup past'.unsaved \/ ~stored'[F!Id(j)].exists
    <3>1. CASE j = i
      BY <1>1, <2>2, <3>1
    <3>2. CASE F!Id(j) = F!Id(i) /\ kept[i] # null
      BY <1>1, <2>2, <3>2
    <3>3. CASE j # i /\ ~(F!Id(j) = F!Id(i) /\ kept[i] # null)
      <4>1. j \in 1 .. work.at
        BY <1>2, <3>3 DEF MarksTypes
      <4>2. F!Id(j) \in work.seen \cup past.unsaved \/ ~stored[F!Id(j)].exists
        BY <1>2, <2>2, <4>1 DEF Through, Untouched
      <4>3. stored'[F!Id(j)] = stored[F!Id(j)]
        BY <1>2, <2>2, <3>3 DEF MarksTypes
      <4> QED BY <1>1, <1>3, <4>2, <4>3
    <3> QED BY <3>1, <3>2, <3>3
  <2>3. kept' = kept
    BY <1>1 DEF F!reading
  <2> QED BY <1>1, <1>3, <2>1, <2>2, <2>3, SameFile DEF Through, Untouched
<1> QED BY <1>1, <1>5, <1>8, <1>9 DEF MarksInv, F!MarksNothingUnconfirmed

\* The run.
LEMMA MarksRun ==
  ASSUME MarksInv, F!Import
  PROVE  MarksInv'
<1>1. CASE F!BeginRun
  <2>1. /\ fileJob = "start" /\ fileJob' = "run" /\ UNCHANGED <<F!reading, stored, work, correction, flagged, past>>
    BY <1>1 DEF F!BeginRun
  <2>2. Through'
    BY <2>1, SameFile DEF MarksInv, Unbegun, Through
  <2>3. ToldOf'
    BY <2>1, SameFile DEF MarksInv, ToldOf, Untouched, F!Expected
  <2> QED BY <2>1, <2>2, <2>3 DEF MarksInv, MarksTypes, F!MarksNothingUnconfirmed
<1>2. CASE F!RunFails
  BY <1>2 DEF F!RunFails, MarksInv, MarksTypes, F!MarksNothingUnconfirmed
<1>3. CASE F!Stamp
  <2>1. /\ fileJob = "run" /\ fileJob' = "flag" /\ UNCHANGED <<F!reading, work, correction, flagged, past>> /\ work.at = Len(kept)
        /\ stored' = [id \in Ids |-> IF id \in work.seen /\ stored[id].exists
                                     THEN [stored[id] EXCEPT !.seen = TRUE, !.missing = FALSE] ELSE stored[id]]
    BY <1>3 DEF F!Stamp
  <2>2. MarksTypes /\ ToldOf /\ Through /\ flagged = {}
    BY <2>1 DEF MarksInv
  <2>3. ASSUME NEW id \in Ids PROVE stored'[id] \in F!Event \cup {F!NoEvent} /\ (id \in work.seen /\ stored'[id].exists => stored'[id].seen)
    <3>1. stored[id] \in F!Event \cup {F!NoEvent}
      BY <2>2 DEF MarksTypes
    <3>2. CASE id \in work.seen /\ stored[id].exists
      BY <2>1, <3>1, <3>2, EventFields
    <3>3. CASE ~(id \in work.seen /\ stored[id].exists)
      BY <2>1, <3>1, <3>3
    <3> QED BY <3>2, <3>3
  <2>4. MarksTypes'
    BY <2>1, <2>2, <2>3 DEF MarksTypes
  <2>5. \A id \in Ids : id \notin F!Listed => stored'[id] = stored[id] /\ F!Expected(id)' = F!Expected(id)
    BY <2>1, <2>2 DEF Through, F!Expected
  <2>6. ToldOf'
    <3>1. past.told \subseteq Ids /\ UNCHANGED <<F!reading, past>> /\ ToldOf
      BY <2>1, <2>2 DEF MarksTypes
    <3> QED BY <2>5, <3>1, SameFile DEF ToldOf, Untouched
  <2>7. Through'
    <3>1. \A id \in Ids : ~stored[id].exists => stored'[id] = stored[id]
      BY <2>1
    <3>2. kept' = kept
      BY <2>1 DEF F!reading
    <3> QED BY <2>1, <2>2, <3>1, <3>2, SameFile DEF Through, Untouched
  <2>8. Stamped'
    BY <2>1, <2>3 DEF Stamped, F!reading
  <2> QED BY <2>1, <2>2, <2>4, <2>6, <2>7, <2>8 DEF MarksInv, F!MarksNothingUnconfirmed
<1>4. CASE F!Flag
  <2>1. /\ fileJob = "flag" /\ fileJob' = "imported" /\ UNCHANGED <<F!reading, work, correction, past>>
        /\ flagged' = {id \in Ids : F!Complete /\ F!Expected(id) /\ ~stored[id].seen}
        /\ stored' = [id \in Ids |-> IF id \in flagged' THEN [stored[id] EXCEPT !.missing = TRUE] ELSE stored[id]]
    BY <1>4 DEF F!Flag
  <2>2. MarksTypes /\ ToldOf /\ Through /\ Stamped
    BY <2>1 DEF MarksInv
  <2>3. ASSUME NEW id \in flagged', Untouched(id), id \notin past.unsaved PROVE id \in past.told
    <3>1. id \in Ids /\ F!Complete /\ F!Expected(id) /\ ~stored[id].seen /\ stored[id].exists
      BY <2>1, <2>3 DEF F!Expected
    <3>2. ASSUME id \in F!Listed PROVE FALSE
      <4>1. PICK i \in 1 .. Len(kept) : kept[i] # null /\ F!Id(i) = id
        BY <3>2 DEF F!Listed, F!Id
      <4>2. id \in work.seen
        BY <2>2, <2>3, <3>1, <4>1 DEF Through, Stamped
      <4> QED BY <2>2, <2>3, <3>1, <4>2 DEF Stamped
    <3> QED BY <2>2, <2>3, <3>1, <3>2 DEF ToldOf
  <2>4. ASSUME NEW id \in past.told, Untouched(id) PROVE id \in flagged'
    BY <2>1, <2>2, <2>4 DEF ToldOf, MarksTypes
  <2>5. stored' \in [Ids -> F!Event \cup {F!NoEvent}]
    <3>1. ASSUME NEW id \in Ids PROVE stored'[id] \in F!Event \cup {F!NoEvent}
      <4>1. CASE id \in flagged'
        <5>1. stored[id] \in F!Event \cup {F!NoEvent} /\ stored[id].exists
          BY <2>1, <2>2, <4>1 DEF MarksTypes, F!Expected
        <5> QED BY <2>1, <4>1, <5>1, EventFields
      <4>2. CASE id \notin flagged'
        BY <2>1, <2>2, <4>2 DEF MarksTypes
      <4> QED BY <4>1, <4>2
    <3> QED BY <2>1, <3>1
  <2>6. MarksTypes'
    BY <2>1, <2>2, <2>5 DEF MarksTypes
  <2> QED BY <2>1, <2>3, <2>4, <2>6 DEF MarksInv, F!MarksNothingUnconfirmed, Untouched
<1>5. ASSUME NEW i \in 1 .. Len(kept), F!NextRecord(i),
             F!PassRecord(i) \/ F!CreateEvent(i) \/ F!UpdateEvent(i) \/ F!KeepEvent(i) \/ F!SkipRecord(i) \/ F!SaveFails(i)
      PROVE  MarksInv'
  <2>1. fileJob = "run" /\ i = work.at + 1 /\ MarksTypes
    BY <1>5 DEF F!NextRecord, MarksInv
  <2>2. CASE F!PassRecord(i)
    BY <2>1, <2>2, MarksRecord DEF F!PassRecord
  <2>3. CASE F!CreateEvent(i)
    <3>1. PICK u \in BOOLEAN : stored' = [stored EXCEPT ![F!Id(i)] = [F!Upcoming EXCEPT !.upcoming = u, !.seen = TRUE]]
      BY <2>3 DEF F!CreateEvent
    <3>2. [F!Upcoming EXCEPT !.upcoming = u, !.seen = TRUE] \in F!Event
      BY DEF F!Upcoming, F!Event
    <3>3. \E e \in F!Event : stored' = [stored EXCEPT ![F!Id(i)] = e]
      BY <3>1, <3>2
    <3> QED BY <2>1, <2>3, <3>3, MarksRecord DEF F!CreateEvent
  <2>4. CASE F!UpdateEvent(i)
    <3>1. PICK u \in BOOLEAN : stored' = [stored EXCEPT ![F!Id(i)].upcoming = u]
      BY <2>4 DEF F!UpdateEvent
    <3>2. stored' = stored \/ \E e \in F!Event : stored' = [stored EXCEPT ![F!Id(i)] = e]
      <4>1. CASE F!Id(i) \in Ids
        <5>1. [stored[F!Id(i)] EXCEPT !.upcoming = u] \in F!Event
          BY <2>1, <2>4, <4>1, EventFields DEF F!UpdateEvent, MarksTypes
        <5> QED BY <3>1, <5>1
      <4>2. CASE F!Id(i) \notin Ids
        BY <2>1, <3>1, <4>2 DEF MarksTypes
      <4> QED BY <4>1, <4>2
    <3> QED BY <2>1, <2>4, <3>2, MarksRecord DEF F!UpdateEvent
  <2>5. CASE F!KeepEvent(i)
    BY <2>1, <2>5, MarksRecord DEF F!KeepEvent
  <2>6. CASE F!SkipRecord(i)
    BY <2>1, <2>6, MarksRecord DEF F!SkipRecord
  <2>7. CASE F!SaveFails(i)
    <3>1. F!Id(i) \in past'.unsaved
      BY <2>1, <2>7 DEF F!SaveFails, MarksTypes
    <3> QED BY <2>1, <2>7, <3>1, MarksRecord DEF F!SaveFails
  <2> QED BY <1>5, <2>2, <2>3, <2>4, <2>5, <2>6, <2>7
<1>6. ASSUME NEW i \in 1 .. Len(kept)
      PROVE  F!PassRecord(i) \/ F!CreateEvent(i) \/ F!UpdateEvent(i) \/ F!KeepEvent(i) \/ F!SkipRecord(i) \/ F!SaveFails(i) => F!NextRecord(i)
  BY DEF F!PassRecord, F!CreateEvent, F!UpdateEvent, F!KeepEvent, F!SkipRecord, F!SaveFails
<1> QED BY <1>1, <1>2, <1>3, <1>4, <1>5, <1>6 DEF F!Import

\* What others write meanwhile.
LEMMA MarksWrite ==
  ASSUME MarksInv, F!Underway, NEW id \in Ids, NEW e \in F!Event, F!Writes(id, e),
         fileJob \in {"read", "checked", "start"} => ~e.seen,
         correction' = correction \/ correction' = F!NoCorrection
  PROVE  MarksInv'
<1>1. /\ UNCHANGED <<F!reading, fileJob, work, flagged>> /\ stored' = [stored EXCEPT ![id] = e]
      /\ past' = [past EXCEPT !.changed = @ \cup {id}]
      /\ fileJob \in {"read", "checked", "start", "run", "flag"}
  BY DEF F!Writes, F!Underway
<1>2. MarksTypes /\ flagged = {}
  BY <1>1 DEF MarksInv
<1>3. past'.told = past.told /\ past'.unsaved = past.unsaved /\ past'.changed = past.changed \cup {id}
  BY <1>1, <1>2 DEF MarksTypes
<1>4. MarksTypes'
  BY <1>1, <1>2 DEF MarksTypes
<1>5. \A x \in Ids : ~Untouched(id)' /\ (x # id => stored'[x] = stored[x] /\ F!Expected(x)' = F!Expected(x))
  BY <1>1, <1>2, <1>3 DEF MarksTypes, F!Expected, Untouched
<1>6. \A x : Untouched(x)' => Untouched(x) /\ x # id
  BY <1>3 DEF Untouched
<1>7. Unbegun => (fileJob \in {"read", "checked", "start"} => Unbegun')
  BY <1>1, <1>2 DEF Unbegun, MarksTypes
<1>8. ToldOf => ToldOf'
  BY <1>1, <1>2, <1>3, <1>5, <1>6, SameFile DEF ToldOf, MarksTypes
<1>9. Through => Through'
  <2>1. kept' = kept
    BY <1>1 DEF F!reading
  <2> QED BY <1>1, <1>3, <1>5, <1>6, <2>1, SameFile DEF Through
<1>10. Stamped => Stamped'
  BY <1>1, <1>5, <1>6 DEF Stamped, F!reading
<1> QED BY <1>1, <1>2, <1>4, <1>7, <1>8, <1>9, <1>10 DEF MarksInv, F!MarksNothingUnconfirmed

LEMMA MarksOthers ==
  ASSUME MarksInv, F!Others
  PROVE  MarksInv'
<1>1. ASSUME NEW id \in Ids, F!OtherImport(id) PROVE MarksInv'
  <2>1. PICK u \in BOOLEAN : F!Writes(id, [exists |-> TRUE, upcoming |-> u, missing |-> FALSE, seen |-> fileJob \in {"run", "flag"}])
    BY <1>1 DEF F!OtherImport
  <2>2. [exists |-> TRUE, upcoming |-> u, missing |-> FALSE, seen |-> fileJob \in {"run", "flag"}] \in F!Event
    BY DEF F!Event
  <2> QED BY <1>1, <2>1, <2>2, MarksWrite DEF F!OtherImport
<1>2. ASSUME NEW id \in Ids, F!EventBegins(id) PROVE MarksInv'
  <2>1. [stored[id] EXCEPT !.upcoming = FALSE] \in F!Event /\ [stored[id] EXCEPT !.upcoming = FALSE].seen = stored[id].seen
    BY <1>2, EventFields DEF F!EventBegins, MarksInv, MarksTypes
  <2>2. fileJob \in {"read", "checked", "start"} => ~stored[id].seen
    BY <1>2 DEF F!EventBegins, MarksInv, Unbegun
  <2> QED BY <1>2, <2>1, <2>2, MarksWrite DEF F!EventBegins
<1>3. ASSUME NEW id \in Ids, NEW u \in BOOLEAN, F!ReadEventToCorrect(id, u) PROVE MarksInv'
  <2>1. /\ UNCHANGED <<F!reading, stored, fileJob, work, flagged, past>> /\ stored[id].exists
        /\ correction' = [id |-> id, event |-> [stored[id] EXCEPT !.upcoming = u]]
    BY <1>3 DEF F!ReadEventToCorrect
  <2>2. correction' \in [id : Ids, event : F!Event] /\ correction'.event.seen = stored[id].seen
    BY <2>1, EventFields DEF MarksInv, MarksTypes
  <2>3. MarksTypes'
    BY <2>1, <2>2 DEF MarksInv, MarksTypes
  <2>4. Unbegun => Unbegun'
    BY <2>1, <2>2 DEF Unbegun
  <2>5. ToldOf => ToldOf'
    BY <2>1, SameFile DEF ToldOf, Untouched, F!Expected
  <2>6. (Through => Through') /\ (Stamped => Stamped')
    BY <2>1, SameFile DEF Through, Stamped, Untouched, F!reading
  <2> QED BY <2>1, <2>3, <2>4, <2>5, <2>6 DEF MarksInv, F!MarksNothingUnconfirmed
<1>4. CASE F!SaveCorrection
  <2>1. /\ correction \in [id : Ids, event : F!Event] /\ correction' = F!NoCorrection /\ F!Underway
        /\ F!Writes(correction.id, correction.event) /\ (fileJob \in {"read", "checked", "start"} => ~correction.event.seen)
    BY <1>4 DEF F!SaveCorrection, MarksInv, MarksTypes, Unbegun
  <2> QED BY <2>1, MarksWrite
<1> QED BY <1>1, <1>2, <1>3, <1>4 DEF F!Others

\* For every file, every calendar and whoever writes meanwhile: a run marks nothing that the
\* admin was not told of and confirmed, but for an event whose record could not be saved and
\* one that somebody else wrote since, and all of that when it is through (import.service.ts,
\* executeImport and recordSeen).
THEOREM NothingUnconfirmedIsMarked == CalendarSpec => []MarksNothingUnconfirmed
<1> DEFINE Inv == part = "file" => MarksInv
<1>1. CalendarInit => Inv
  BY MarksInit DEF CalendarInit, SyncInit, FileInit, RecurrenceInit, RacingInit, DuplicatesInit
<1>2. Inv /\ [CalendarNext]_all => Inv'
  <2> SUFFICES ASSUME Inv, [CalendarNext]_all, part' = "file" PROVE MarksInv'
    OBVIOUS
  <2>1. CASE FileStep
    BY <2>1, MarksDecided, MarksRun, MarksOthers DEF FileStep, F!Next
  <2>2. CASE UNCHANGED all
    <3>1. UNCHANGED <<part, F!reading, stored, fileJob, work, correction, flagged, past>>
      BY <2>2 DEF all, fileVars, F!reading
    <3>2. MarksInv
      BY <3>1
    <3>3. (ToldOf => ToldOf') /\ (Through => Through') /\ (Stamped => Stamped')
      BY <3>1, SameFile DEF ToldOf, Through, Stamped, Untouched, F!Expected, F!reading
    <3> QED BY <3>1, <3>2, <3>3 DEF MarksInv, MarksTypes, Unbegun, F!MarksNothingUnconfirmed
  <2>3. CASE SyncStep \/ RecurrenceStep \/ RacingStep \/ DuplicatesStep
    BY <2>3 DEF SyncStep, RecurrenceStep, RacingStep, DuplicatesStep
  <2> QED BY <2>1, <2>2, <2>3 DEF CalendarNext
<1>3. Inv => MarksNothingUnconfirmed
  BY DEF MarksInv, MarksNothingUnconfirmed
<1> QED BY <1>1, <1>2, <1>3, PTL DEF CalendarSpec

\* The rider's age is one a rider may have; the classes of the event are what forms make.
Riders ==
    part = "racing" => /\ rider.age \in Ages \cup {null} /\ DOMAIN rider = {"age", "gender", "license", "licenseClass"}
                       /\ event.classes \subseteq Q!Class

LEMMA RidersHolds == CalendarSpec => []Riders
<1>1. CalendarInit => Riders
  BY DEF CalendarInit, SyncInit, FileInit, RecurrenceInit, RacingInit, DuplicatesInit, Riders, Q!Init, Q!Rider
<1>2. Riders /\ [CalendarNext]_all => Riders'
  BY DEF CalendarNext, SyncStep, FileStep, RecurrenceStep, RacingStep, DuplicatesStep, Riders, all, racingVars,
         Q!Next, Q!Forget
<1> QED BY <1>1, <1>2, PTL DEF CalendarSpec

LEMMA CountedAlike == \A T : Q!Cardinality(T) = Cardinality(T)
  BY DEF Q!Cardinality, Cardinality, Q!IsFiniteSet, IsFiniteSet

\* The category of an age, and that there is no other.
LEMMA OneCategory ==
  ASSUME NEW age \in -200 .. 200
  PROVE  \E k \in Q!Category : {l \in Q!Category : age \in Q!Categories[l][1] .. Q!Categories[l][2]} = {k}
<1> DEFINE In(l) == age \in Q!Categories[l][1] .. Q!Categories[l][2]
<1>1. Q!Category = {"u7", "u9", "u11", "u13", "u15", "u17", "u19", "u23", "elite",
                    "masters1", "masters2", "masters3", "masters4"}
  BY DEF Q!Category, Q!Categories
<1>2. /\ (In("u7") <=> age \in -200 .. 6) /\ (In("u9") <=> age \in 7 .. 8) /\ (In("u11") <=> age \in 9 .. 10)
      /\ (In("u13") <=> age \in 11 .. 12) /\ (In("u15") <=> age \in 13 .. 14) /\ (In("u17") <=> age \in 15 .. 16)
      /\ (In("u19") <=> age \in 17 .. 18) /\ (In("u23") <=> age \in 19 .. 22) /\ (In("elite") <=> age \in 23 .. 29)
      /\ (In("masters1") <=> age \in 30 .. 39) /\ (In("masters2") <=> age \in 40 .. 49)
      /\ (In("masters3") <=> age \in 50 .. 59) /\ (In("masters4") <=> age \in 60 .. 200)
  BY DEF Q!Categories
<1> HIDE DEF In
<1>3. \E k \in Q!Category : In(k)
  BY <1>1, <1>2
<1> DEFINE young == IF age < 7 THEN "u7" ELSE IF age < 9 THEN "u9" ELSE IF age < 11 THEN "u11" ELSE
                    IF age < 13 THEN "u13" ELSE IF age < 15 THEN "u15" ELSE IF age < 17 THEN "u17" ELSE "u19"
           grown == IF age < 23 THEN "u23" ELSE IF age < 30 THEN "elite" ELSE IF age < 40 THEN "masters1" ELSE
                    IF age < 50 THEN "masters2" ELSE IF age < 60 THEN "masters3" ELSE "masters4"
<1>4. \A k \in Q!Category : In(k) => k = IF age < 19 THEN young ELSE grown
  BY <1>1, <1>2
<1> QED BY <1>3, <1>4 DEF In

\* A class that names its category, without other ages, takes the ages of the category.
LEMMA CategoryAges ==
  ASSUME NEW age \in -200 .. 200, NEW c, c.category \in Q!Category,
         c.min \in {null, Q!Categories[c.category][1]}, c.max \in {null, Q!Categories[c.category][2]},
         rider.age = age
  PROVE  Q!FitsAge(rider, c) <=> age \in Q!Categories[c.category][1] .. Q!Categories[c.category][2]
  BY AgesAssumption DEF Q!FitsAge, Q!AgeMin, Q!AgeMax, Q!Or, Q!Category, Q!Categories

\* Every age is in one category, and a class that names a category fits exactly the
\* ages of it (racing.ts, RIDER_CATEGORIES, classAges and classFitCondition).
THEOREM CategoriesAreAPartition == CalendarSpec => []CategoriesPartition
<1>1. Riders => CategoriesPartition
  <2> SUFFICES ASSUME Riders, part = "racing", rider.age # null PROVE Q!CategoriesPartition
    BY DEF CategoriesPartition, Q!CategoriesPartition
  <2> DEFINE In == {k \in Q!Category : rider.age \in Q!Categories[k][1] .. Q!Categories[k][2]}
  <2>1. rider.age \in -200 .. 200
    BY AgesAssumption DEF Riders
  <2>2. PICK k \in Q!Category : In = {k}
    BY <2>1, OneCategory
  <2>3. Q!Cardinality(In) = 1
    BY <2>2, CountedAlike, FS_Singleton
  <2>4. Q!CategoryForAge(rider.age) = k
    BY <2>2 DEF Q!CategoryForAge
  <2>5. ASSUME NEW c \in event.classes, c.category # null,
               c.min \in {null, Q!Categories[c.category][1]}, c.max \in {null, Q!Categories[c.category][2]}
        PROVE  Q!FitsAge(rider, c) <=> Q!CategoryForAge(rider.age) = c.category
    <3>1. c.category \in Q!Category
      <4>1. c \in Q!Class
        BY DEF Riders
      <4>2. c.category \in {"u13", "elite", null}
        BY ONLY <4>1 DEF Q!Class
      <4>3. c.category \in {"u13", "elite"}
        BY ONLY <2>5, <4>2, SMTT(30)
      <4> QED BY ONLY <4>3 DEF Q!Category, Q!Categories
    <3>2. Q!FitsAge(rider, c) <=> c.category \in In
      BY <2>1, <2>5, <3>1, CategoryAges
    <3> QED BY <2>2, <2>4, <3>2
  <2> QED BY <2>3, <2>5 DEF Q!CategoriesPartition
<1> QED BY <1>1, RidersHolds, PTL

\* The second look at the offset finds an instant that shows the time, if there is one.
LEMMA WallToUtcShows ==
  ASSUME NEW z, z.std \in -15 .. 15, z.from \in Int, z.to \in Int, NEW w \in Int, NEW t \in Int,
         R!WallTimeOf(z, t) = w
  PROVE  /\ R!WallTimeOf(z, R!WallToUtc(z, w)) = w
         /\ R!WallToUtc(z, w) \in w - 26 .. w + 26
  BY DEF R!WallTimeOf, R!WallToUtc, R!Offset

LEMMA WallToUtcNear ==
  ASSUME NEW z, z.std \in -15 .. 15, z.from \in Int, z.to \in Int, NEW w \in Int
  PROVE  R!WallToUtc(z, w) \in w - z.std - 1 .. w - z.std
  BY DEF R!WallToUtc, R!Offset

SeriesGiven ==
    /\ first \in Int /\ frequency \in {"weekly", "biweekly"}
    /\ zone.std \in -15 .. 15 /\ zone.from \in Int /\ zone.to \in Int
    /\ limit.until \in Int \cup {null} /\ limit.count \in (Nat \ {0, 1}) \cup {null}

\* What has been collected: the starts of the turns so far, none beyond the limits.
Collected ==
    /\ starts \in Seq(Int) /\ index = Len(starts) /\ index <= R!Turns
    /\ \A i \in 1 .. Len(starts) : starts[i] = R!Occurrence(i - 1) /\ ~R!Beyond(i - 1)
    /\ done => index = R!Turns \/ R!Beyond(index)

Series == part = "recurrence" => SeriesGiven /\ Collected

LEMMA OccurrenceType ==
  ASSUME SeriesGiven, NEW i \in Nat
  PROVE  /\ R!StepHours \in {168, 336} /\ R!Turns \in Nat \ {0} /\ R!LastAllowed \in Int
         /\ R!WallTimeOf(zone, first) \in first + zone.std .. first + zone.std + 1
         /\ R!Occurrence(i) \in first + i * R!StepHours - 1 .. first + i * R!StepHours + 1
         /\ R!Occurrence(i + 1) - R!Occurrence(i) \in R!StepHours - 1 .. R!StepHours + 1
  <1>1. R!StepHours \in {168, 336}
    BY DEF SeriesGiven, R!StepHours
  <1>2. R!Turns \in Nat \ {0} /\ R!LastAllowed \in Int
    BY SeriesAssumption, AgesAssumption DEF SeriesGiven, R!Turns, R!LastAllowed, R!Span
  <1>3. R!WallTimeOf(zone, first) \in first + zone.std .. first + zone.std + 1
    BY DEF SeriesGiven, R!WallTimeOf, R!Offset
  <1> DEFINE w == R!WallTimeOf(zone, first)
             here == w + i * R!StepHours
             next == w + (i + 1) * R!StepHours
  <1>4. here \in Int /\ next = here + R!StepHours /\ next \in Int /\ w \in Int /\ i * R!StepHours \in Int
    BY <1>1, <1>3 DEF SeriesGiven
  <1>5. R!Occurrence(i) = R!WallToUtc(zone, here) /\ R!Occurrence(i + 1) = R!WallToUtc(zone, next)
    BY DEF R!Occurrence
  <1>6. here = w + i * R!StepHours
    OBVIOUS
  <1>7. w \in first + zone.std .. first + zone.std + 1
    BY <1>3
  <1> HIDE DEF w, here, next
  <1>8. /\ R!Occurrence(i) \in here - zone.std - 1 .. here - zone.std
        /\ R!Occurrence(i + 1) \in next - zone.std - 1 .. next - zone.std
    BY <1>4, <1>5, WallToUtcNear DEF SeriesGiven
  <1>9. R!Occurrence(i) \in first + i * R!StepHours - 1 .. first + i * R!StepHours + 1
    BY <1>1, <1>4, <1>6, <1>7, <1>8 DEF SeriesGiven
  <1>10. R!Occurrence(i + 1) - R!Occurrence(i) \in R!StepHours - 1 .. R!StepHours + 1
    BY <1>1, <1>4, <1>8 DEF SeriesGiven
  <1> QED BY <1>1, <1>2, <1>3, <1>9, <1>10

LEMMA SeriesStep ==
  ASSUME SeriesGiven, Collected, R!Next
  PROVE  SeriesGiven' /\ Collected'
  <1>1. UNCHANGED <<first, frequency, zone, limit>>
    BY DEF R!Next, R!Push, R!Stop
  <1>2. SeriesGiven'
    BY <1>1 DEF SeriesGiven
  <1>3. R!Turns' = R!Turns /\ \A i \in Nat : R!Occurrence(i)' = R!Occurrence(i) /\ R!Beyond(i)' = R!Beyond(i)
    BY <1>1 DEF R!Turns, R!Occurrence, R!Beyond, R!LastAllowed, R!StepHours, R!Span
  <1>4. CASE R!Push
    <2>1. index \in Nat /\ R!Turns \in Nat /\ R!Occurrence(index) \in Int
      <3>1. index \in Nat
        BY DEF Collected
      <3>2. R!Occurrence(index) \in first + index * R!StepHours - 1 .. first + index * R!StepHours + 1
        BY <3>1, OccurrenceType
      <3> QED BY <3>1, <3>2, OccurrenceType
    <2>2. /\ starts' = Append(starts, R!Occurrence(index)) /\ index' = index + 1
          /\ ~done' /\ index < R!Turns /\ ~R!Beyond(index)
      BY <1>4 DEF R!Push
    <2>3. starts' \in Seq(Int) /\ Len(starts') = Len(starts) + 1
      BY <2>1, <2>2 DEF Collected
    <2>4. ASSUME NEW i \in 1 .. Len(starts') PROVE starts'[i] = R!Occurrence(i - 1) /\ ~R!Beyond(i - 1)
      BY <2>1, <2>2, <2>3 DEF Collected
    <2> QED BY <1>2, <1>3, <2>1, <2>2, <2>3, <2>4 DEF Collected
  <1>5. CASE R!Stop
    <2>1. index \in Nat /\ UNCHANGED <<starts, index>> /\ (index = R!Turns \/ R!Beyond(index))
      BY <1>5 DEF R!Stop, Collected
    <2> QED BY <1>2, <1>3, <2>1 DEF Collected
  <1> QED BY <1>4, <1>5 DEF R!Next

LEMMA SeriesHolds == CalendarSpec => []Series
<1>1. CalendarInit => Series
  <2> SUFFICES ASSUME RecurrenceInit PROVE SeriesGiven /\ Collected
    BY DEF CalendarInit, SyncInit, FileInit, RacingInit, DuplicatesInit, Series
  <2>1. SeriesGiven
    BY SeriesAssumption DEF RecurrenceInit, R!Init, SeriesGiven
  <2>2. R!Turns \in Nat
    BY <2>1, OccurrenceType
  <2> QED BY <2>1, <2>2 DEF RecurrenceInit, R!Init, Collected
<1>2. Series /\ [CalendarNext]_all => Series'
  <2> SUFFICES ASSUME Series, [CalendarNext]_all PROVE Series'
    OBVIOUS
  <2>1. CASE RecurrenceStep
    BY <2>1, SeriesStep DEF RecurrenceStep, Series
  <2>2. CASE SyncStep \/ FileStep \/ RacingStep \/ DuplicatesStep
    BY <2>2 DEF SyncStep, FileStep, RacingStep, DuplicatesStep, Series
  <2>3. CASE UNCHANGED all
    BY <2>3 DEF all, recurrenceVars, Series, SeriesGiven, Collected, R!Turns, R!Occurrence, R!Beyond, R!LastAllowed,
       R!StepHours, R!Span
  <2> QED BY <2>1, <2>2, <2>3 DEF CalendarNext
<1> QED BY <1>1, <1>2, PTL DEF CalendarSpec

\* A repeating event keeps its time of day wherever the clock shows it, and its starts
\* are a week or two apart, within its limits, with none left out, for every zone
\* whose clock is changed there and back (recurrence.ts, occurrenceStarts).
THEOREM SeriesKeepTheClock == CalendarSpec => []OccurrencesStand
<1>1. ASSUME SeriesGiven, Collected PROVE R!KeepsTheClock
  <2> SUFFICES ASSUME NEW i \in 1 .. Len(starts)
               PROVE  LET wall == R!WallTimeOf(zone, first) + (i - 1) * R!StepHours IN
                      /\ R!Showing(wall) # {} => starts[i] \in R!Showing(wall)
                      /\ i = 1 /\ R!Showing(wall) = {first} => starts[i] = first
    BY DEF R!KeepsTheClock
  <2> DEFINE wall == R!WallTimeOf(zone, first) + (i - 1) * R!StepHours
  <2>1. wall \in Int
    <3>1. i - 1 \in Nat
      BY <1>1 DEF Collected
    <3>2. R!StepHours \in {168, 336} /\ R!WallTimeOf(zone, first) \in first + zone.std .. first + zone.std + 1
      BY <1>1, <3>1, OccurrenceType
    <3>3. R!WallTimeOf(zone, first) \in Int /\ (i - 1) * R!StepHours \in Int
      BY <1>1, <3>1, <3>2 DEF SeriesGiven
    <3> QED BY <3>3
  <2>2. starts[i] = R!WallToUtc(zone, wall)
    BY <1>1 DEF Collected, R!Occurrence
  <2> HIDE DEF wall
  <2>3. ASSUME R!Showing(wall) # {} PROVE starts[i] \in R!Showing(wall)
    <3>1. PICK t \in wall - 26 .. wall + 26 : R!WallTimeOf(zone, t) = wall
      BY <2>3 DEF R!Showing
    <3>2. t \in Int
      BY <2>1
    <3>3. /\ R!WallTimeOf(zone, R!WallToUtc(zone, wall)) = wall
          /\ R!WallToUtc(zone, wall) \in wall - 26 .. wall + 26
      BY <1>1, <2>1, <3>1, <3>2, WallToUtcShows DEF SeriesGiven
    <3> QED BY <2>2, <3>3 DEF R!Showing
  <2> QED BY <2>3 DEF wall
<1>2. ASSUME SeriesGiven, Collected PROVE R!WithinLimits
  <2>1. Len(starts) \in Nat /\ Len(starts) <= R!Turns /\ R!Turns \in Nat \ {0}
    BY <1>2, OccurrenceType DEF Collected
  <2>2. ASSUME NEW i \in 2 .. Len(starts)
        PROVE  /\ starts[i] - starts[i - 1] \in R!StepHours - 1 .. R!StepHours + 1
               /\ starts[i] <= R!LastAllowed /\ starts[i] - first <= R!Span
    <3>1. i - 2 \in Nat /\ (i - 2) + 1 = i - 1 /\ i \in 1 .. Len(starts) /\ i - 1 \in 1 .. Len(starts) /\ (i - 1) - 1 = i - 2
      BY <2>1
    <3>2. starts[i] = R!Occurrence(i - 1) /\ starts[i - 1] = R!Occurrence(i - 2) /\ ~R!Beyond(i - 1)
      BY <1>2, <3>1 DEF Collected
    <3>3. R!Occurrence(i - 1) - R!Occurrence(i - 2) \in R!StepHours - 1 .. R!StepHours + 1
      BY <1>2, <3>1, OccurrenceType
    <3>4. R!Occurrence(i - 1) \in Int /\ R!LastAllowed \in Int /\ R!Span \in Int /\ first \in Int
      BY <1>2, <3>1, <3>2, OccurrenceType, SeriesAssumption DEF Collected, SeriesGiven, R!Span
    <3> QED BY <3>1, <3>2, <3>3, <3>4 DEF R!Beyond
  <2>3. ASSUME done, Len(starts) < R!Turns
        PROVE  R!Occurrence(Len(starts)) > R!LastAllowed \/ R!Occurrence(Len(starts)) > first + R!Span
    <3>1. R!Beyond(Len(starts))
      BY <1>2, <2>1, <2>3 DEF Collected
    <3>2. R!Occurrence(Len(starts)) \in first + Len(starts) * R!StepHours - 1 .. first + Len(starts) * R!StepHours + 1
      BY <1>2, <2>1, OccurrenceType
    <3>3. R!Occurrence(Len(starts)) \in Int /\ first \in Int /\ R!Span \in Int
      BY <1>2, <3>2, SeriesAssumption DEF SeriesGiven, R!Span
    <3> QED BY <3>1, <3>3 DEF R!Beyond
  <2>4. ASSUME done PROVE starts # <<>>
    <3> SUFFICES ASSUME starts = <<>> PROVE FALSE
      OBVIOUS
    <3>1. index = 0 /\ R!Beyond(0)
      BY <1>2, <2>1, <2>4 DEF Collected
    <3>2. R!Occurrence(0) \in first + 0 * R!StepHours - 1 .. first + 0 * R!StepHours + 1 /\ R!StepHours \in {168, 336}
      BY <1>2, OccurrenceType
    <3>3. R!Span \in Int /\ R!Span >= 24
      BY SeriesAssumption DEF R!Span
    <3> QED BY <1>2, <3>1, <3>2, <3>3 DEF R!Beyond, SeriesGiven
  <2> QED BY <2>1, <2>2, <2>3, <2>4 DEF R!WithinLimits
<1>3. Series => OccurrencesStand
  BY <1>1, <1>2 DEF Series, OccurrencesStand
<1> QED BY <1>3, SeriesHolds, PTL
-----------------------------------------------------------------------------
(***************************************************************************)
(* Import files: any event, whatever stands in how many of its fields.     *)
(***************************************************************************)
\* An event with something in each field that may stand there.
Readable(e) == \A f \in F!AnyField : e[f] \in F!Reading(f)
Markless(v) == v \notin Marks
Plain == F!Coordinate \cup F!ClassValue \cup F!ParkingValue
         \cup {"championship", "format", "series.kind", "series.round", "source.name", "source.url", "parking.kinds", "source.checkedAt"}

\* The marks are seven things, and nothing else that may stand in a field is one.
LEMMA MarksDiffer ==
  /\ undefined # null /\ undefined # wrongType /\ undefined # spaces /\ undefined # tooShort /\ undefined # tooLong /\ undefined # unknown
  /\ null # wrongType /\ null # spaces /\ null # tooShort /\ null # tooLong /\ null # unknown
  /\ wrongType # spaces /\ wrongType # tooShort /\ wrongType # tooLong /\ wrongType # unknown
  /\ spaces # tooShort /\ spaces # tooLong /\ spaces # unknown
  /\ tooShort # tooLong /\ tooShort # unknown /\ tooLong # unknown
BY FileAssumption

\* What else may stand in a field is no mark.
LEMMA NoMarks ==
  /\ \A v \in Ids : Markless(v)
  /\ \A v \in BOOLEAN : Markless(v)
  /\ \A v \in Int : Markless(v)
  /\ \A v \in F!Date : Markless(v)
  /\ \A v \in Words : Markless(v)
BY FileAssumption DEF Markless, Marks

\* What may stand in each kind of field.
LEMMA Readings ==
  /\ \A v \in F!Reading("externalId") : v \in Ids \cup {undefined, null, wrongType, spaces, tooLong}
  /\ \A v \in F!Reading("name") : v \in {undefined, null, wrongType, spaces, tooShort, tooLong, "name", "other name"}
  /\ \A v \in F!Reading("locationName") : v \in {undefined, null, wrongType, spaces, tooLong, unknown, "vague", "known"}
  /\ \A f \in F!ChosenText : \A v \in F!Reading(f) : v \in {undefined, null, wrongType, spaces, tooLong, unknown, "known"}
  /\ \A f \in F!DateField : \A v \in F!Reading(f) : v \in {undefined, null, wrongType, spaces, unknown} \cup F!Date
  /\ \A f \in {"description", "address"} \cup F!EntryText : \A v \in F!Reading(f) : v \in {undefined, null, wrongType, spaces, tooLong, "text"}
  /\ \A f \in {"startTimeKnown", "allDay", "class.dayLicense"} : \A v \in F!Reading(f) : v \in {undefined, null, wrongType} \cup BOOLEAN
  /\ \A v \in F!Reading("parking") : v \in {undefined, null, wrongType, "empty", "no object", "entry", "too many"}
  /\ \A f \in F!ListField \ {"parking"} : \A v \in F!Reading(f) : v \in {undefined, null, wrongType, "empty", "no object", "entry"}
  /\ \A f \in F!EntryName : \A v \in F!Reading(f) : v \in {undefined, wrongType, spaces, tooLong, "name"}
  /\ \A v \in F!Reading("parking.place") : v \in {undefined, unknown, "near", "far"}
  /\ \A f \in F!AgeField : \A v \in F!Reading(f) : v \in {undefined, null, wrongType, 10, 12, 30}
  /\ \A f \in Plain : \A v \in F!Reading(f) : v \in {undefined, null, wrongType, unknown, "known"}
<1> USE DEF F!Reading, F!ChosenText, F!DateField, F!EntryText, F!ListField, F!Extra, F!EntryName, F!AgeField
<1>1. \A v \in F!Reading("externalId") : v \in Ids \cup {undefined, null, wrongType, spaces, tooLong}
  OBVIOUS
<1>2. \A v \in F!Reading("name") : v \in {undefined, null, wrongType, spaces, tooShort, tooLong, "name", "other name"}
  OBVIOUS
<1>3. \A v \in F!Reading("locationName") : v \in {undefined, null, wrongType, spaces, tooLong, unknown, "vague", "known"}
  OBVIOUS
<1>4. \A f \in F!ChosenText : \A v \in F!Reading(f) : v \in {undefined, null, wrongType, spaces, tooLong, unknown, "known"}
  BY ZenonT(40)
<1>5. \A f \in F!DateField : \A v \in F!Reading(f) : v \in {undefined, null, wrongType, spaces, unknown} \cup F!Date
  BY ZenonT(40)
<1>6. \A f \in {"description", "address"} \cup F!EntryText : \A v \in F!Reading(f) : v \in {undefined, null, wrongType, spaces, tooLong, "text"}
  BY ZenonT(40)
<1>7. \A f \in {"startTimeKnown", "allDay", "class.dayLicense"} : \A v \in F!Reading(f) : v \in {undefined, null, wrongType} \cup BOOLEAN
  BY ZenonT(40)
<1>8. \A v \in F!Reading("parking") : v \in {undefined, null, wrongType, "empty", "no object", "entry", "too many"}
  OBVIOUS
<1>9. \A f \in F!ListField \ {"parking"} : \A v \in F!Reading(f) : v \in {undefined, null, wrongType, "empty", "no object", "entry"}
  BY ZenonT(40)
<1>10. \A f \in F!EntryName : \A v \in F!Reading(f) : v \in {undefined, wrongType, spaces, tooLong, "name"}
  BY ZenonT(40)
<1>11. \A v \in F!Reading("parking.place") : v \in {undefined, unknown, "near", "far"}
  OBVIOUS
<1>12. \A f \in F!AgeField : \A v \in F!Reading(f) : v \in {undefined, null, wrongType, 10, 12, 30}
  BY Zenon
<1>13. ASSUME NEW f \in Plain, NEW v \in F!Reading(f) PROVE v \in {undefined, null, wrongType, unknown, "known"}
  <2>1. CASE f \in F!Coordinate \cup {"championship", "format", "series.kind", "series.round"}
    BY <1>13, <2>1, Zenon DEF F!Coordinate
  <2>2. CASE f \in F!ClassValue
    BY <1>13, <2>2, Zenon DEF F!ClassValue
  <2>3. CASE f \in F!ParkingValue
    BY <1>13, <2>3, Zenon DEF F!ParkingValue
  <2>4. CASE f \in {"source.name", "source.url", "parking.kinds", "source.checkedAt"}
    BY <1>13, <2>4, Zenon
  <2> HIDE DEF F!Reading, F!ChosenText, F!DateField, F!EntryText, F!ListField, F!Extra, F!EntryName, F!AgeField
  <2> QED BY <2>1, <2>2, <2>3, <2>4 DEF Plain
<1> HIDE DEF F!Reading, F!ChosenText, F!DateField, F!EntryText, F!ListField, F!Extra, F!EntryName, F!AgeField
<1> QED BY <1>1, <1>2, <1>3, <1>4, <1>5, <1>6, <1>7, <1>8, <1>9, <1>10, <1>11, <1>12, <1>13

\* A field of an event, and what may stand there.
LEMMA FieldsAre ==
  /\ \A f \in F!TextField : f \in {"externalId", "name", "locationName", "description", "address"} \cup F!ChosenText \cup F!DateField
  /\ F!TextField \cup F!Coordinate \cup F!ListField \cup F!EntryName \cup F!AgeField \cup Plain \cup F!EntryText
       \cup {"startTimeKnown", "allDay", "class.dayLicense", "parking.place"} \subseteq F!AnyField
<1>1. \A f \in F!TextField : f \in {"externalId", "name", "locationName", "description", "address"} \cup F!ChosenText \cup F!DateField
  BY DEF F!TextField, F!ChosenText, F!DateField
<1>2. Plain \subseteq F!AnyField
  BY DEF F!AnyField, Plain, F!EntryValue, F!EntryNeeds
<1>3. "parking.place" \in F!AnyField
  BY DEF F!AnyField, F!EntryNeeds
<1> QED BY <1>1, <1>2, <1>3 DEF F!AnyField

\* The texts: without a text of spaces, those without an error are what the document allows.
TextFine(e, f) == /\ f \notin F!TextErrors(e) /\ f \notin F!ChoiceErrors(e)
                  /\ f \in F!DateField => ~F!Said(e, f) \/ F!IsDate(e, f)

\* A text that is not one of spaces is fine exactly if it may be there.
LEMMA TextsAreRead ==
  ASSUME NEW e, Readable(e), NEW f \in F!TextField, e[f] # spaces
  PROVE  TextFine(e, f) <=> F!May(e, f)
<1> DEFINE v == e[f]
           fits == /\ v # wrongType /\ v # tooLong /\ (v \in {undefined, null} => f \notin F!Required)
                   /\ (f = "name" => v # tooShort)
                   /\ (f \in F!ChosenText \cup {"locationName"} => v # unknown)
                   /\ (f \in F!DateField => v \in {undefined, null, wrongType} \cup F!Date)
           may == v \notin F!Unfit /\ (v \in {undefined, null} => f \notin F!Required)
<1>1. v \in F!Reading(f)
  BY FieldsAre DEF Readable
<1>2. TextFine(e, f) <=> fits
  <2>1. f \notin F!TextErrors(e) <=> /\ v # wrongType /\ v # tooLong /\ (v \in {undefined, null} => f \notin F!Required)
                                     /\ (f = "name" => v # tooShort)
    BY DEF F!TextErrors, F!Unset
  <2>2. f \notin F!ChoiceErrors(e) <=> (f \in F!ChosenText \cup {"locationName"} => v # unknown)
    BY MarksDiffer DEF F!ChoiceErrors, F!Said, F!Unset
  <2>3. (f \in F!DateField => ~F!Said(e, f) \/ F!IsDate(e, f)) <=> (f \in F!DateField => v \in {undefined, null, wrongType} \cup F!Date)
    BY DEF F!Said, F!IsDate, F!Unset
  <2> QED BY <2>1, <2>2, <2>3 DEF TextFine
<1>3. F!May(e, f) <=> may
  <2>1. f \notin F!ListField /\ f \notin F!Coordinate \cup {"championship", "format", "series"}
    BY DEF F!TextField, F!ListField, F!Coordinate
  <2> QED BY <2>1, MarksDiffer DEF F!May
<1> HIDE DEF v
<1>4. \A x \in Ids \cup F!Date \cup Words : x \notin F!Unfit
  BY NoMarks DEF F!Unfit, Markless, Marks
<1>5. v \in F!Unfit <=> v \in {wrongType, tooShort, tooLong, unknown}
  BY DEF F!Unfit, v
<1>6. CASE f = "externalId"
  <2>1. v \in Ids \cup {undefined, null, wrongType, tooLong}
    BY <1>1, <1>6, Readings DEF v
  <2>2. f \in F!Required /\ f \notin F!ChosenText /\ f \notin F!DateField
    BY <1>6 DEF F!Required, F!ChosenText, F!DateField
  <2>3. fits <=> may
    BY <1>4, <1>5, <1>6, <2>1, <2>2
  <2> QED BY <1>2, <1>3, <2>3
<1>7. CASE f = "name"
  <2>1. v \in {undefined, null, wrongType, tooShort, tooLong, "name", "other name"}
    BY <1>1, <1>7, Readings DEF v
  <2>2. f \in F!Required /\ f \notin F!ChosenText /\ f \notin F!DateField
    BY <1>7 DEF F!Required, F!ChosenText, F!DateField
  <2>3. fits <=> may
    BY <1>4, <1>5, <1>7, <2>1, <2>2 DEF Words
  <2> QED BY <1>2, <1>3, <2>3
<1>8. CASE f = "locationName"
  <2>1. v \in {undefined, null, wrongType, tooLong, unknown, "vague", "known"}
    BY <1>1, <1>8, Readings DEF v
  <2>2. f \in F!Required /\ f \notin F!DateField
    BY <1>8 DEF F!Required, F!DateField
  <2>3. fits <=> may
    BY <1>4, <1>5, <1>8, <2>1, <2>2 DEF Words
  <2> QED BY <1>2, <1>3, <2>3
<1>9. CASE f \in {"description", "address"}
  <2>1. v \in {undefined, null, wrongType, tooLong, "text"}
    BY <1>1, <1>9, Readings DEF v
  <2>2. f \notin F!Required /\ f \notin F!ChosenText /\ f \notin F!DateField /\ f # "name" /\ f # "locationName"
    BY <1>9 DEF F!Required, F!ChosenText, F!DateField
  <2>3. fits <=> may
    BY <1>4, <1>5, <1>9, <2>1, <2>2, MarksDiffer DEF Words
  <2> QED BY <1>2, <1>3, <2>3
<1>10. CASE f \in F!ChosenText
  <2>1. v \in {undefined, null, wrongType, tooLong, unknown, "known"}
    BY <1>1, <1>10, Readings DEF v
  <2>2. f # "name" /\ f \notin F!DateField
    BY <1>10 DEF F!ChosenText, F!DateField
  <2>3. fits <=> may
    BY <1>4, <1>5, <1>10, <2>1, <2>2, MarksDiffer DEF Words
  <2> QED BY <1>2, <1>3, <2>3
<1>11. CASE f \in F!DateField
  <2>1. v \in {undefined, null, wrongType, unknown} \cup F!Date
    BY <1>1, <1>11, Readings DEF v
  <2>2. f # "name" /\ f # "locationName" /\ f \notin F!ChosenText
    BY <1>11 DEF F!ChosenText, F!DateField
  <2>3. fits <=> may
    BY <1>4, <1>5, <1>11, <2>1, <2>2, MarksDiffer
  <2> QED BY <1>2, <1>3, <2>3
<1> QED BY <1>6, <1>7, <1>8, <1>9, <1>10, <1>11, FieldsAre

\* Coordinates, lists and what is said of the start time.
LEMMA CoordinatesAreRead ==
  ASSUME NEW e, Readable(e)
  PROVE  F!CoordinateErrors(e) = {} <=> (\A f \in F!Coordinate : F!May(e, f)) /\ (F!Unset(e["lat"]) <=> F!Unset(e["lng"]))
<1>1. \A f \in F!Coordinate : e[f] \in {undefined, null, wrongType, unknown, "known"}
  BY FieldsAre, Readings DEF Readable, Plain
<1>2. \A f \in F!Coordinate : f \notin F!Required /\ f \notin F!ListField
  BY DEF F!Coordinate, F!Required, F!ListField
<1>3. "known" \notin F!Unfit
  BY NoMarks DEF F!Unfit, Markless, Marks, Words
<1>4. \A f \in F!Coordinate : F!May(e, f) <=> e[f] \notin {wrongType, unknown}
  <2> SUFFICES ASSUME NEW f \in F!Coordinate PROVE F!May(e, f) <=> e[f] \notin {wrongType, unknown}
    OBVIOUS
  <2>1. e[f] \in F!Unfit <=> e[f] \in {wrongType, unknown}
    BY <1>1, <1>3, MarksDiffer DEF F!Unfit
  <2> QED BY <1>2, <2>1 DEF F!May
<1>5. {f \in F!Coordinate : e[f] \in {wrongType, unknown}} = {} <=> \A f \in F!Coordinate : e[f] \notin {wrongType, unknown}
  OBVIOUS
<1>6. {f \in F!Coordinate : F!Unset(e[f]) /\ \E g \in F!Coordinate : ~F!Unset(e[g])} = {}
        <=> (F!Unset(e["lat"]) <=> F!Unset(e["lng"]))
  <2>1. \A f : f \in F!Coordinate <=> f = "lat" \/ f = "lng"
    BY DEF F!Coordinate
  <2> QED BY <2>1
<1>7. F!CoordinateErrors(e) = {f \in F!Coordinate : e[f] \in {wrongType, unknown}}
                              \cup {f \in F!Coordinate : F!Unset(e[f]) /\ \E g \in F!Coordinate : ~F!Unset(e[g])}
  BY DEF F!CoordinateErrors
<1> QED BY <1>4, <1>5, <1>6, <1>7

\* Lists: those that may be there, with at most one entry here.
LEMMA ListsAreRead ==
  ASSUME NEW e, Readable(e)
  PROVE  F!ListErrors(e) = {} <=> \A f \in F!ListField : F!May(e, f)
<1>1. \A f \in F!ListField : e[f] \in {undefined, null, wrongType, "empty", "no object", "entry", "too many"}
  BY FieldsAre, Readings DEF Readable
<1>2. \A f \in F!ListField : f \notin F!Required /\ (f \in (F!TextField \ F!Required) \cup F!Coordinate \cup {"championship", "format", "series"} <=> f = "series")
  BY DEF F!Coordinate, F!Required, F!ListField, F!TextField
<1>3. \A v \in Words : v \notin F!Unfit /\ v # undefined /\ v # null /\ v # wrongType
  BY NoMarks DEF F!Unfit, Markless, Marks
<1>4. \A f \in F!ListField : F!May(e, f) <=> e[f] \in {undefined, "empty", "entry"} \/ (f = "series" /\ e[f] = null)
  <2> SUFFICES ASSUME NEW f \in F!ListField
               PROVE  F!May(e, f) <=> e[f] \in {undefined, "empty", "entry"} \/ (f = "series" /\ e[f] = null)
    OBVIOUS
  <2>1. undefined \notin F!Unfit /\ null \notin F!Unfit
    BY MarksDiffer DEF F!Unfit
  <2> QED BY <1>1, <1>2, <1>3, <2>1, MarksDiffer DEF F!May, Words
<1>5. F!ListErrors(e) = {} <=> \A f \in F!ListField : ~(e[f] = wrongType \/ e[f] = "no object" \/ (f # "series" /\ e[f] = null) \/ e[f] = "too many")
  BY DEF F!ListErrors
<1> QED BY <1>1, <1>3, <1>4, <1>5, MarksDiffer DEF Words

\* startTimeKnown and allDay: a Boolean or nothing.
LEMMA FlagsAreRead ==
  ASSUME NEW e, Readable(e), NEW f \in {"startTimeKnown", "allDay"}
  PROVE  e[f] \in BOOLEAN \cup {undefined} <=> F!May(e, f)
<1>1. e[f] \in {undefined, null, wrongType} \cup BOOLEAN
  BY FieldsAre, Readings DEF Readable
<1>2. \A v \in BOOLEAN : v \notin F!Unfit /\ v # undefined /\ v # null
  BY NoMarks, Zenon DEF F!Unfit, Markless, Marks
<1>3. f \notin F!Required /\ f \notin F!ListField /\ f \notin (F!TextField \ F!Required) \cup F!Coordinate \cup {"championship", "format", "series"}
  BY DEF F!Required, F!ListField, F!TextField, F!Coordinate
<1>4. undefined \notin F!Unfit /\ undefined # null /\ wrongType \in F!Unfit /\ null \notin BOOLEAN \cup {undefined} /\ wrongType \notin BOOLEAN \cup {undefined}
  BY MarksDiffer, <1>2, NoMarks DEF F!Unfit, Markless, Marks
<1> QED BY <1>1, <1>2, <1>3, <1>4, Zenon DEF F!May

\* The level of a championship and the format.
LEMMA LevelsAreRead ==
  ASSUME NEW e, Readable(e)
  PROVE  F!LevelErrors(e) = {} <=> \A f \in {"championship", "format"} : F!May(e, f)
<1>1. \A f \in {"championship", "format"} : e[f] \in {undefined, null, wrongType, unknown, "known"}
  BY FieldsAre, Readings DEF Readable, Plain
<1>2. \A f \in {"championship", "format"} : f \notin F!Required /\ f \notin F!ListField
  BY DEF F!Required, F!ListField
<1>3. "known" \notin F!Unfit
  BY NoMarks DEF F!Unfit, Markless, Marks, Words
<1>4. \A f \in {"championship", "format"} : F!May(e, f) <=> e[f] \notin {wrongType, unknown}
  <2> SUFFICES ASSUME NEW f \in {"championship", "format"} PROVE F!May(e, f) <=> e[f] \notin {wrongType, unknown}
    OBVIOUS
  <2>1. e[f] \in F!Unfit <=> e[f] \in {wrongType, unknown}
    BY <1>1, <1>3, MarksDiffer DEF F!Unfit
  <2> QED BY <1>2, <2>1 DEF F!May
<1>5. wrongType \notin {undefined, null, "known", "name"} /\ unknown \notin {undefined, null, "known", "name"}
  BY MarksDiffer, NoMarks DEF Markless, Marks, Words
<1>6. \A f \in {"championship", "format"} : F!Known(e, f) <=> e[f] \notin {wrongType, unknown}
  BY <1>1, <1>5 DEF F!Known, F!Unset
<1>7. F!LevelErrors(e) = {} <=> \A f \in {"championship", "format"} : F!Known(e, f)
  BY DEF F!LevelErrors
<1> QED BY <1>4, <1>6, <1>7

\* The values that are fit, and those that are there.
LEMMA FitValues ==
  /\ undefined \notin F!Unfit /\ null \notin F!Unfit
  /\ \A v \in Words : v \notin F!Unfit /\ ~F!Unset(v)
  /\ \A v \in BOOLEAN : v \notin F!Unfit /\ ~F!Unset(v)
  /\ \A v \in Int : v \notin F!Unfit /\ ~F!Unset(v)
  /\ F!Unset(undefined) /\ F!Unset(null)
  /\ \A v \in F!Unfit : ~F!Unset(v)
<1>1. undefined \notin F!Unfit /\ null \notin F!Unfit /\ F!Unset(undefined) /\ F!Unset(null) /\ \A v \in F!Unfit : ~F!Unset(v)
  BY MarksDiffer DEF F!Unfit, F!Unset
<1>2. \A v : Markless(v) => v \notin F!Unfit /\ ~F!Unset(v)
  BY DEF F!Unfit, F!Unset, Markless, Marks
<1> QED BY <1>1, <1>2, NoMarks

\* Entries: what one of them needs, and what it may have.
LEMMA PlainsAreRead ==
  ASSUME NEW e, Readable(e), NEW f \in Plain
  PROVE  /\ F!Known(e, f) <=> e[f] \notin F!Unfit
         /\ F!MayInEntry(e, f) <=> IF f \in F!EntryNeeds THEN e[f] = "known"
                                   ELSE IF f = "source.checkedAt" THEN e[f] \in {undefined, "known"} ELSE F!Known(e, f)
<1>1. e[f] \in {undefined, null, wrongType, unknown, "known"}
  BY FieldsAre, Readings DEF Readable
<1>2. "known" \notin F!Unfit /\ ~F!Unset("known") /\ wrongType \in F!Unfit /\ unknown \in F!Unfit /\ "known" # undefined /\ "known" # null
  BY FitValues DEF Words, F!Unfit, F!Unset
<1>3. wrongType \notin {undefined, null, "known", "name"} /\ unknown \notin {undefined, null, "known", "name"}
  BY MarksDiffer, NoMarks DEF Markless, Marks, Words
<1>4. F!Known(e, f) <=> e[f] \notin F!Unfit
  BY <1>1, <1>2, <1>3, FitValues DEF F!Known, F!Unset
<1>5. f \notin F!EntryName /\ f # "class.dayLicense" /\ (f = "source.checkedAt" => f \notin F!EntryNeeds)
  BY DEF Plain, F!EntryName, F!EntryNeeds, F!Coordinate, F!ClassValue, F!ParkingValue
<1>6. F!MayInEntry(e, f) <=> /\ e[f] \notin F!Unfit
                             /\ F!Unset(e[f]) => f \notin F!EntryNeeds
                             /\ e[f] = null => f # "source.checkedAt"
  BY <1>5 DEF F!MayInEntry
<1>7. F!Unset(e[f]) <=> e[f] \in {undefined, null}
  BY DEF F!Unset
<1>8. CASE f \in F!EntryNeeds
  BY <1>1, <1>2, <1>3, <1>5, <1>6, <1>7, <1>8, <1>4
<1>9. CASE f = "source.checkedAt"
  BY <1>1, <1>2, <1>3, <1>5, <1>6, <1>7, <1>9, <1>4, MarksDiffer, FitValues
<1>10. CASE f \notin F!EntryNeeds /\ f # "source.checkedAt"
  BY <1>4, <1>6, <1>10
<1> QED BY <1>4, <1>8, <1>9, <1>10

\* Names of entries are there.
LEMMA NamesAreRead ==
  ASSUME NEW e, Readable(e), NEW f \in F!EntryName
  PROVE  F!MayInEntry(e, f) <=> e[f] = "name"
<1>1. e[f] \in {undefined, wrongType, spaces, tooLong, "name"}
  BY FieldsAre, Readings DEF Readable
<1>2. "name" \notin F!Unfit /\ ~F!Unset("name") /\ "name" # null
  BY FitValues DEF Words, F!Unset
<1> QED BY <1>1, <1>2 DEF F!MayInEntry, F!Unfit, F!Unset

\* The entry of a list, for each list: its errors are the fields that may not be so.
LEMMA SourcesAreRead ==
  ASSUME NEW e, Readable(e), e["source"] = "entry"
  PROVE  F!SourceErrors(e) = {} <=> \A f \in F!EntryFields("source") : F!MayInEntry(e, f)
<1>1. F!EntryFields("source") = {"source.name", "source.url", "source.checkedAt"}
  BY DEF F!EntryFields
<1>2. {"source.name", "source.url"} \subseteq F!EntryNeeds /\ "source.checkedAt" \notin F!EntryNeeds
  BY DEF F!EntryNeeds
<1>3. \A f \in {"source.name", "source.url"} : F!MayInEntry(e, f) <=> e[f] = "known"
  BY <1>2, PlainsAreRead DEF Plain
<1>4. F!MayInEntry(e, "source.checkedAt") <=> e["source.checkedAt"] \in {undefined, "known"}
  BY <1>2, PlainsAreRead DEF Plain
<1>5. F!SourceErrors(e) = {} <=> e["source.name"] = "known" /\ e["source.url"] = "known" /\ e["source.checkedAt"] \in {undefined, "known"}
  BY DEF F!SourceErrors, F!Entries
<1> QED BY <1>1, <1>3, <1>4, <1>5

\* The series.
LEMMA SeriesIsRead ==
  ASSUME NEW e, Readable(e), e["series"] = "entry"
  PROVE  F!SeriesErrors(e) = {} <=> \A f \in F!EntryFields("series") : F!MayInEntry(e, f)
<1>1. F!EntryFields("series") = {"series.key", "series.name", "series.kind", "series.round"}
  BY DEF F!EntryFields
<1>2. \A f \in {"series.kind", "series.round"} : F!MayInEntry(e, f) <=> F!Known(e, f)
  <2>1. \A f \in {"series.kind", "series.round"} : f \in Plain /\ f \notin F!EntryNeeds /\ f # "source.checkedAt"
    BY DEF Plain, F!EntryNeeds
  <2> QED BY <2>1, PlainsAreRead
<1>3. \A f \in {"series.key", "series.name"} : F!MayInEntry(e, f) <=> e[f] = "name"
  BY NamesAreRead DEF F!EntryName
<1>4. F!SeriesErrors(e) = {} <=> (\A f \in {"series.kind", "series.round"} : F!Known(e, f)) /\ \A f \in {"series.key", "series.name"} : e[f] = "name"
  BY DEF F!SeriesErrors, F!Entries
<1> QED BY <1>1, <1>2, <1>3, <1>4

\* Classes: the given ages, or those of the category, are in order.
LEMMA AgesAreRead ==
  ASSUME NEW e, Readable(e), \A f \in F!AgeField : e[f] # wrongType
  PROVE  {f \in {"class.ageMax"} : LET ages == F!ClassAges(e) IN null \notin {ages[1], ages[2]} /\ ages[1] > ages[2]} = {}
           <=> F!Youngest(e) <= F!Oldest(e)
<1>1. e["class.ageMin"] \in {undefined, null, 10, 12, 30} /\ e["class.ageMax"] \in {undefined, null, 10, 12, 30}
  BY FieldsAre, Readings DEF Readable, F!AgeField
<1>2. undefined \notin Int /\ null \notin Int /\ wrongType \notin Int /\ undefined # wrongType /\ null # wrongType
  BY FileAssumption DEF Marks
<1> DEFINE lower == IF e["class.category"] = "known" THEN 11 ELSE null
           upper == IF e["class.category"] = "known" THEN 12 ELSE null
           young == IF e["class.ageMin"] \in {10, 12, 30} THEN e["class.ageMin"] ELSE lower
           old == IF e["class.ageMax"] \in {10, 12, 30} THEN e["class.ageMax"] ELSE upper
<1>3. F!ClassAges(e) = <<young, old>>
  <2>1. \A f \in F!AgeField : e[f] \notin {undefined, null, wrongType} <=> e[f] \in {10, 12, 30}
    BY <1>1, <1>2 DEF F!AgeField
  <2> QED BY <2>1 DEF F!ClassAges, F!AgeField
<1>4. F!Youngest(e) = IF young = null THEN 0 ELSE young
  BY <1>1, <1>2 DEF F!Youngest
<1>5. F!Oldest(e) = IF old = null THEN 120 ELSE old
  BY <1>1, <1>2 DEF F!Oldest
<1>6. young \in {null, 10, 11, 12, 30} /\ old \in {null, 10, 11, 12, 30}
  OBVIOUS
<1> HIDE DEF young, old
<1>7. (null \notin {young, old} /\ young > old) <=> ~(F!Youngest(e) <= F!Oldest(e))
  <2>1. CASE young = null
    <3>1. F!Youngest(e) = 0 /\ F!Oldest(e) \in {10, 11, 12, 30, 120}
      BY <1>2, <1>4, <1>5, <1>6, <2>1
    <3> QED BY <2>1, <3>1
  <2>2. CASE old = null
    <3>1. F!Oldest(e) = 120 /\ F!Youngest(e) \in {0, 10, 11, 12, 30}
      BY <1>2, <1>4, <1>5, <1>6, <2>2
    <3> QED BY <2>2, <3>1
  <2>3. CASE young # null /\ old # null
    <3>1. F!Youngest(e) = young /\ F!Oldest(e) = old /\ young \in Int /\ old \in Int
      BY <1>4, <1>5, <1>6, <2>3
    <3> QED BY <2>3, <3>1
  <2> QED BY <2>1, <2>2, <2>3
<1> QED BY <1>3, <1>7

\* The classes, with the order of their ages.
LEMMA ClassesAreRead ==
  ASSUME NEW e, Readable(e), e["classes"] = "entry"
  PROVE  F!ClassErrors(e) = {} <=> (\A f \in F!EntryFields("classes") : F!MayInEntry(e, f)) /\ F!Youngest(e) <= F!Oldest(e)
<1>1. F!EntryFields("classes") = F!ClassValue \cup F!AgeField \cup {"class.name", "class.dayLicense"}
  BY DEF F!EntryFields
<1>2. \A f \in F!ClassValue : F!MayInEntry(e, f) <=> F!Known(e, f)
  <2>1. \A f \in F!ClassValue : f \in Plain /\ f \notin F!EntryNeeds /\ f # "source.checkedAt"
    BY DEF Plain, F!EntryNeeds, F!ClassValue
  <2> QED BY <2>1, PlainsAreRead
<1>3. F!MayInEntry(e, "class.name") <=> e["class.name"] = "name"
  BY NamesAreRead DEF F!EntryName
<1>4. F!MayInEntry(e, "class.dayLicense") <=> e["class.dayLicense"] \in BOOLEAN \cup {undefined}
  <2> DEFINE v == e["class.dayLicense"]
  <2>1. v \in {undefined, null, wrongType} \cup BOOLEAN
    BY FieldsAre, Readings DEF Readable
  <2>2. "class.dayLicense" \notin F!EntryNeeds \cup F!EntryName
    BY DEF F!EntryNeeds, F!EntryName
  <2>3. F!MayInEntry(e, "class.dayLicense") <=> v \notin F!Unfit /\ v # null
    BY <2>2 DEF F!MayInEntry
  <2>4. undefined \notin F!Unfit /\ undefined # null /\ wrongType \in F!Unfit /\ wrongType # undefined
    BY MarksDiffer DEF F!Unfit
  <2>5. \A b \in BOOLEAN : b \notin F!Unfit /\ b # null /\ b # wrongType
    BY FitValues, Zenon DEF F!Unset, F!Unfit
  <2> HIDE DEF v
  <2>6. v \notin F!Unfit /\ v # null <=> v \in BOOLEAN \cup {undefined}
    BY <2>1, <2>4, <2>5, Zenon
  <2> QED BY <2>3, <2>6 DEF v
<1>5. \A f \in F!AgeField : F!MayInEntry(e, f) <=> e[f] # wrongType
  <2> SUFFICES ASSUME NEW f \in F!AgeField PROVE F!MayInEntry(e, f) <=> e[f] # wrongType
    OBVIOUS
  <2>1. e[f] \in {undefined, null, wrongType, 10, 12, 30}
    BY FieldsAre, Readings DEF Readable
  <2>2. f \notin F!EntryNeeds \cup F!EntryName /\ f \notin {"class.dayLicense", "source.checkedAt"}
    BY DEF F!EntryNeeds, F!EntryName, F!AgeField
  <2>3. \A v \in {undefined, null, 10, 12, 30} : v \notin F!Unfit
    BY FitValues
  <2> QED BY <2>1, <2>2, <2>3 DEF F!MayInEntry, F!Unfit
<1>6. F!ClassErrors(e) = {} <=> /\ \A f \in F!ClassValue : F!Known(e, f)
                                /\ e["class.name"] = "name" /\ e["class.dayLicense"] \in BOOLEAN \cup {undefined}
                                /\ \A f \in F!AgeField : e[f] # wrongType
                                /\ {f \in {"class.ageMax"} : LET ages == F!ClassAges(e) IN null \notin {ages[1], ages[2]} /\ ages[1] > ages[2]} = {}
  <2>1. {f \in F!ClassValue : ~F!Known(e, f)} = {} <=> \A f \in F!ClassValue : F!Known(e, f)
    OBVIOUS
  <2>2. {f \in {"class.name"} : e[f] # "name"} = {} <=> e["class.name"] = "name"
    OBVIOUS
  <2>3. {f \in {"class.dayLicense"} : e[f] \notin BOOLEAN \cup {undefined}} = {} <=> e["class.dayLicense"] \in BOOLEAN \cup {undefined}
    BY Zenon
  <2>4. {f \in F!AgeField : e[f] = wrongType} = {} <=> \A f \in F!AgeField : e[f] # wrongType
    OBVIOUS
  <2> DEFINE turned == {f \in {"class.ageMax"} : LET ages == F!ClassAges(e) IN null \notin {ages[1], ages[2]} /\ ages[1] > ages[2]}
  <2>5. F!ClassErrors(e) = {f \in F!ClassValue : ~F!Known(e, f)} \cup {f \in {"class.name"} : e[f] # "name"}
                           \cup {f \in {"class.dayLicense"} : e[f] \notin BOOLEAN \cup {undefined}}
                           \cup {f \in F!AgeField : e[f] = wrongType} \cup turned
    BY Zenon DEF F!ClassErrors, F!Entries
  <2> HIDE DEF turned
  <2>6. \A s1, s2, s3, s4, s5 : s1 \cup s2 \cup s3 \cup s4 \cup s5 = {} <=> s1 = {} /\ s2 = {} /\ s3 = {} /\ s4 = {} /\ s5 = {}
    OBVIOUS
  <2>7. F!ClassErrors(e) = {} <=> /\ \A f \in F!ClassValue : F!Known(e, f)
                                  /\ e["class.name"] = "name" /\ e["class.dayLicense"] \in BOOLEAN \cup {undefined}
                                  /\ \A f \in F!AgeField : e[f] # wrongType
                                  /\ turned = {}
    BY <2>1, <2>2, <2>3, <2>4, <2>5, <2>6, Zenon
  <2> QED BY <2>7 DEF turned
<1>7. (\A f \in F!EntryFields("classes") : F!MayInEntry(e, f))
        <=> /\ \A f \in F!ClassValue : F!Known(e, f)
            /\ e["class.name"] = "name" /\ e["class.dayLicense"] \in BOOLEAN \cup {undefined}
            /\ \A f \in F!AgeField : e[f] # wrongType
  <2>1. (\A f \in F!EntryFields("classes") : F!MayInEntry(e, f))
          <=> /\ \A f \in F!ClassValue : F!MayInEntry(e, f)
              /\ F!MayInEntry(e, "class.name") /\ F!MayInEntry(e, "class.dayLicense")
              /\ \A f \in F!AgeField : F!MayInEntry(e, f)
    BY ONLY <1>1
  <2>2. (\A f \in F!ClassValue : F!MayInEntry(e, f)) <=> \A f \in F!ClassValue : F!Known(e, f)
    BY ONLY <1>2
  <2>3. (\A f \in F!AgeField : F!MayInEntry(e, f)) <=> \A f \in F!AgeField : e[f] # wrongType
    BY ONLY <1>5
  <2> QED BY ONLY <2>1, <2>2, <2>3, <1>3, <1>4, Zenon
<1>8. (\A f \in F!AgeField : e[f] # wrongType) =>
        ({f \in {"class.ageMax"} : LET ages == F!ClassAges(e) IN null \notin {ages[1], ages[2]} /\ ages[1] > ages[2]} = {}
           <=> F!Youngest(e) <= F!Oldest(e))
  BY AgesAreRead
<1> QED BY ONLY <1>6, <1>7, <1>8

\* Parking, whose texts are not of spaces.
LEMMA ParkingIsRead ==
  ASSUME NEW e, Readable(e), e["parking"] = "entry", e["parking.name"] # spaces, e["parking.address"] # spaces
  PROVE  F!ParkingErrors(e) = {} <=> \A f \in F!EntryFields("parking") : F!MayInEntry(e, f)
<1>1. F!EntryFields("parking") = F!ParkingValue \cup {"parking.name", "parking.kinds", "parking.place", "parking.address"}
  BY DEF F!EntryFields
<1>2. \A f \in F!ParkingValue : F!MayInEntry(e, f) <=> F!Known(e, f)
  <2>1. \A f \in F!ParkingValue : f \in Plain /\ f \notin F!EntryNeeds /\ f # "source.checkedAt"
    BY DEF Plain, F!EntryNeeds, F!ParkingValue
  <2> QED BY <2>1, PlainsAreRead
<1>3. F!MayInEntry(e, "parking.name") <=> e["parking.name"] \in {"name", spaces}
  BY NamesAreRead DEF F!EntryName
<1>4. F!MayInEntry(e, "parking.kinds") <=> e["parking.kinds"] = "known"
  BY PlainsAreRead DEF Plain, F!EntryNeeds
<1>5. F!MayInEntry(e, "parking.place") <=> e["parking.place"] \in {"near", "far"}
  <2>1. e["parking.place"] \in {undefined, unknown, "near", "far"} /\ "parking.place" \in F!EntryNeeds
    BY FieldsAre, Readings DEF Readable, F!EntryNeeds
  <2>2. \A v \in {"near", "far"} : v \notin F!Unfit /\ ~F!Unset(v)
    BY FitValues DEF Words
  <2>3. F!Unset(undefined) /\ unknown \in F!Unfit
    BY FitValues DEF F!Unfit
  <2>4. \A v \in {"near", "far"} : v # null
    BY <2>2 DEF F!Unset
  <2> QED BY <2>1, <2>2, <2>3, <2>4 DEF F!MayInEntry
<1>6. F!MayInEntry(e, "parking.address") <=> e["parking.address"] \notin {wrongType, tooLong}
  <2>1. e["parking.address"] \in {undefined, null, wrongType, tooLong, "text"}
    BY FieldsAre, Readings DEF Readable, F!EntryText
  <2>2. "parking.address" \notin F!EntryNeeds \cup F!EntryName
    BY DEF F!EntryNeeds, F!EntryName
  <2>3. \A v \in {undefined, null, "text"} : v \notin F!Unfit
    BY FitValues DEF Words
  <2> QED BY <2>1, <2>2, <2>3 DEF F!MayInEntry, F!Unfit
<1>7. F!ParkingErrors(e) = {} <=> /\ \A f \in F!ParkingValue : F!Known(e, f)
                                  /\ e["parking.name"] \in {"name", spaces} /\ e["parking.kinds"] = "known"
                                  /\ e["parking.place"] \in {"near", "far"} /\ e["parking.address"] \notin {wrongType, tooLong}
  BY DEF F!ParkingErrors, F!Entries
<1> QED BY <1>1, <1>2, <1>3, <1>4, <1>5, <1>6, <1>7, Zenon

\* A text without an error that has to be there is.
LEMMA RequiredAreSaid ==
  ASSUME NEW e, NEW f \in F!TextField \cap F!Required, TextFine(e, f), e[f] # spaces
  PROVE  F!Said(e, f) /\ (f \in F!DateField => F!IsDate(e, f))
<1>1. e[f] # wrongType /\ ~F!Unset(e[f])
  BY DEF TextFine, F!TextErrors
<1> QED BY <1>1 DEF TextFine, F!Said

\* The dates: none is wrong, and they go together.
InOrder(e) == /\ F!IsDate(e, "endDate") => F!Instant(e["endDate"]) >= F!Instant(e["startDate"])
              /\ e["startTimeKnown"] = TRUE => e["startDate"].timed

\* Instants can be compared.
LEMMA InstantsAreInts == \A d \in F!Date : F!Instant(d) \in Int
<1> SUFFICES ASSUME NEW d \in F!Date PROVE d.day \in Int /\ d.half \in Int
  BY DEF F!Instant
<1>1. CASE d \in [day : 0 .. 4, half : {0}, timed : {FALSE}]
  BY <1>1
<1>2. CASE d \in [day : {2}, half : {0, 1}, timed : {TRUE}]
  BY <1>2
<1> QED BY <1>1, <1>2 DEF F!Date

\* With a start, the dates have no error exactly if they are dates and in order.
LEMMA DatesAreRead ==
  ASSUME NEW e, F!IsDate(e, "startDate")
  PROVE  F!DateErrors(e) = {} <=> /\ \A f \in F!DateField : ~F!Said(e, f) \/ F!IsDate(e, f)
                                  /\ \A f \in {"startTimeKnown", "allDay"} : e[f] \in BOOLEAN \cup {undefined}
                                  /\ InOrder(e)
<1> DEFINE wrong == {f \in F!DateField : F!Said(e, f) /\ ~F!IsDate(e, f)}
           flags == {f \in {"startTimeKnown", "allDay"} : e[f] \notin BOOLEAN \cup {undefined}}
           clock == {f \in {"startTimeKnown"} : F!IsDate(e, "startDate") /\ e[f] = TRUE /\ ~e["startDate"].timed}
           ends == {f \in {"endDate"} : /\ F!IsDate(e, f) /\ F!IsDate(e, "startDate")
                                        /\ F!Instant(e[f]) < F!Instant(e["startDate"])}
<1>1. F!DateErrors(e) = wrong \cup flags \cup clock \cup ends
  BY Zenon DEF F!DateErrors
<1>2. wrong = {} <=> \A f \in F!DateField : ~F!Said(e, f) \/ F!IsDate(e, f)
  OBVIOUS
<1>3. flags = {} <=> \A f \in {"startTimeKnown", "allDay"} : e[f] \in BOOLEAN \cup {undefined}
  BY Zenon
<1>4. clock = {} <=> (e["startTimeKnown"] = TRUE => e["startDate"].timed)
  BY Zenon
<1>5. ends = {} <=> (F!IsDate(e, "endDate") => F!Instant(e["endDate"]) >= F!Instant(e["startDate"]))
  <2>1. ends = {} <=> (F!IsDate(e, "endDate") => ~(F!Instant(e["endDate"]) < F!Instant(e["startDate"])))
    BY Zenon
  <2>2. F!IsDate(e, "endDate") => F!Instant(e["endDate"]) \in Int /\ F!Instant(e["startDate"]) \in Int
    BY InstantsAreInts DEF F!IsDate
  <2>3. F!IsDate(e, "endDate") => (~(F!Instant(e["endDate"]) < F!Instant(e["startDate"])) <=> F!Instant(e["endDate"]) >= F!Instant(e["startDate"]))
    BY <2>2
  <2> QED BY ONLY <2>1, <2>3, Zenon
<1> HIDE DEF wrong, flags, clock, ends
<1>6. F!DateErrors(e) = {} <=> wrong = {} /\ flags = {} /\ clock = {} /\ ends = {}
  BY ONLY <1>1
<1> QED BY ONLY <1>2, <1>3, <1>4, <1>5, <1>6, Zenon DEF InOrder

\* No errors at all.
LEMMA NoErrors ==
  ASSUME NEW e
  PROVE  F!Errors(e) = {} <=> /\ \A f \in F!TextField : f \notin F!TextErrors(e) /\ f \notin F!ChoiceErrors(e)
                              /\ F!DateErrors(e) = {} /\ F!CoordinateErrors(e) = {} /\ F!ListErrors(e) = {}
                              /\ F!SourceErrors(e) = {} /\ F!LevelErrors(e) = {} /\ F!ClassErrors(e) = {}
                              /\ F!SeriesErrors(e) = {} /\ F!ParkingErrors(e) = {}
<1>1. F!TextErrors(e) = {} <=> \A f \in F!TextField : f \notin F!TextErrors(e)
  BY DEF F!TextErrors
<1>2. F!ChoiceErrors(e) \subseteq F!TextField
  BY DEF F!ChoiceErrors, F!ChosenText, F!TextField
<1>3. F!ChoiceErrors(e) = {} <=> \A f \in F!TextField : f \notin F!ChoiceErrors(e)
  BY <1>2
<1>4. F!Errors(e) = {} <=> /\ F!TextErrors(e) = {} /\ F!ChoiceErrors(e) = {}
                           /\ F!DateErrors(e) = {} /\ F!CoordinateErrors(e) = {} /\ F!ListErrors(e) = {}
                           /\ F!SourceErrors(e) = {} /\ F!LevelErrors(e) = {} /\ F!ClassErrors(e) = {}
                           /\ F!SeriesErrors(e) = {} /\ F!ParkingErrors(e) = {}
  BY DEF F!Errors
<1> QED BY ONLY <1>1, <1>3, <1>4

\* An event is left out exactly if it does not follow the documented format, whatever
\* stands in each of its fields (checkImportFile and the readers of import-file.ts;
\* docs/IMPORT-FILE-FORMAT.md), unless some text is one of spaces.
THEOREM EventsAreReadAsDocumented ==
  ASSUME NEW e, Readable(e), ~F!Spaces(e)
  PROVE  F!LeftOut(e, F!Errors(e)) <=> ~F!Follows(e)
<1>1. \A f \in F!TextField \cup {"parking.name", "parking.address"} : e[f] # spaces
  BY DEF F!Spaces
<1>2. \A f \in F!TextField : TextFine(e, f) <=> F!May(e, f)
  BY <1>1, TextsAreRead
<1>3. \A f \in {"startTimeKnown", "allDay"} : e[f] \in BOOLEAN \cup {undefined} <=> F!May(e, f)
  BY FlagsAreRead
<1> DEFINE Entry(l) == \A f \in F!EntryFields(l) : F!MayInEntry(e, f)
<1>4. F!SourceErrors(e) = {} <=> (e["source"] = "entry" => Entry("source"))
  BY SourcesAreRead DEF F!SourceErrors, F!Entries
<1>5. F!ClassErrors(e) = {} <=> (e["classes"] = "entry" => Entry("classes") /\ F!Youngest(e) <= F!Oldest(e))
  BY ClassesAreRead DEF F!ClassErrors, F!Entries
<1>6. F!SeriesErrors(e) = {} <=> (e["series"] = "entry" => Entry("series"))
  BY SeriesIsRead DEF F!SeriesErrors, F!Entries
<1>7. F!ParkingErrors(e) = {} <=> (e["parking"] = "entry" => Entry("parking"))
  BY <1>1, ParkingIsRead DEF F!ParkingErrors, F!Entries
<1>8. (\A l \in F!ListField \ {"conflicts"} : e[l] = "entry" => Entry(l))
        <=> /\ e["source"] = "entry" => Entry("source")
            /\ e["classes"] = "entry" => Entry("classes")
            /\ e["series"] = "entry" => Entry("series")
            /\ e["parking"] = "entry" => Entry("parking")
  <2>1. \A l : l \in F!ListField \ {"conflicts"} <=> l \in {"source", "classes", "series", "parking"}
    BY DEF F!ListField
  <2> HIDE DEF Entry
  <2> QED BY ONLY <2>1
<1> HIDE DEF Entry
<1>9. F!Follows(e) <=> /\ \A f \in F!TextField : F!May(e, f)
                       /\ \A f \in F!Coordinate : F!May(e, f)
                       /\ \A f \in F!ListField : F!May(e, f)
                       /\ \A f \in {"startTimeKnown", "allDay"} : F!May(e, f)
                       /\ \A f \in {"championship", "format"} : F!May(e, f)
                       /\ \A l \in F!ListField \ {"conflicts"} : e[l] = "entry" => Entry(l)
                       /\ F!Unset(e["lat"]) <=> F!Unset(e["lng"])
                       /\ InOrder(e)
                       /\ e["classes"] = "entry" => F!Youngest(e) <= F!Oldest(e)
  <2>1. F!TextField \cup F!Coordinate \cup F!ListField \cup {"startTimeKnown", "allDay", "championship", "format"}
          = F!TextField \cup F!Coordinate \cup F!ListField \cup {"startTimeKnown", "allDay"} \cup {"championship", "format"}
    OBVIOUS
  <2> QED BY <2>1, Zenon DEF F!Follows, InOrder, Entry
<1> DEFINE texts == \A f \in F!TextField : f \notin F!TextErrors(e) /\ f \notin F!ChoiceErrors(e)
           said == \A f \in F!DateField : ~F!Said(e, f) \/ F!IsDate(e, f)
<1>10. texts /\ said <=> \A f \in F!TextField : F!May(e, f)
  <2>1. F!DateField \subseteq F!TextField
    BY DEF F!DateField, F!TextField
  <2> QED BY <1>2, <2>1 DEF TextFine
<1>11. texts /\ said => F!IsDate(e, "startDate") /\ F!Said(e, "externalId") /\ F!Said(e, "name")
  <2>1. {"startDate", "externalId", "name"} \subseteq F!TextField \cap F!Required /\ "startDate" \in F!DateField
    BY DEF F!TextField, F!Required, F!DateField
  <2>2. texts /\ said => \A f \in {"startDate", "externalId", "name"} : TextFine(e, f)
    BY <2>1 DEF TextFine
  <2> QED BY <1>1, <2>1, <2>2, RequiredAreSaid
<1>12. F!LeftOut(e, F!Errors(e)) <=> ~(F!Errors(e) = {} /\ F!IsDate(e, "startDate") /\ F!Said(e, "externalId") /\ F!Said(e, "name"))
  BY DEF F!LeftOut
<1>13. F!IsDate(e, "startDate") => (F!DateErrors(e) = {} <=> /\ said
                                                            /\ \A f \in {"startTimeKnown", "allDay"} : e[f] \in BOOLEAN \cup {undefined}
                                                            /\ InOrder(e))
  BY DatesAreRead
<1>14. F!Errors(e) = {} <=> /\ texts
                            /\ F!DateErrors(e) = {} /\ F!CoordinateErrors(e) = {} /\ F!ListErrors(e) = {}
                            /\ F!SourceErrors(e) = {} /\ F!LevelErrors(e) = {} /\ F!ClassErrors(e) = {}
                            /\ F!SeriesErrors(e) = {} /\ F!ParkingErrors(e) = {}
  BY NoErrors
<1> HIDE DEF texts, said
<1>15. F!CoordinateErrors(e) = {} <=> (\A f \in F!Coordinate : F!May(e, f)) /\ (F!Unset(e["lat"]) <=> F!Unset(e["lng"]))
  BY CoordinatesAreRead
<1>16. F!ListErrors(e) = {} <=> \A f \in F!ListField : F!May(e, f)
  BY ListsAreRead
<1>17. F!LevelErrors(e) = {} <=> \A f \in {"championship", "format"} : F!May(e, f)
  BY LevelsAreRead
<1>18. (\A f \in {"startTimeKnown", "allDay"} : e[f] \in BOOLEAN \cup {undefined}) <=> \A f \in {"startTimeKnown", "allDay"} : F!May(e, f)
  BY <1>3, Zenon
<1>19. F!Errors(e) = {} /\ F!IsDate(e, "startDate") /\ F!Said(e, "externalId") /\ F!Said(e, "name") <=> F!Follows(e)
  <2>1. CASE texts /\ said
    BY ONLY <2>1, <1>4, <1>5, <1>6, <1>7, <1>8, <1>9, <1>10, <1>11, <1>13, <1>14, <1>15, <1>16, <1>17, <1>18, Zenon
  <2>2. CASE ~(texts /\ said)
    <3>1. ~F!Follows(e)
      BY ONLY <2>2, <1>9, <1>10, Zenon
    <3>2. ~(F!Errors(e) = {} /\ F!IsDate(e, "startDate"))
      BY ONLY <2>2, <1>13, <1>14, Zenon
    <3> QED BY <3>1, <3>2
  <2> QED BY <2>1, <2>2
<1> QED BY ONLY <1>12, <1>19

\* The events of the files that are looked at: one that is good, with other readings in
\* some fields, or none at all.
LEMMA GoodIsReadable ==
  ASSUME NEW id \in Ids
  PROVE  Readable(F!Good(id)) /\ DOMAIN F!Good(id) = F!AnyField
<1> USE DEF F!Good, F!Reading, F!ChosenText, F!DateField, F!EntryText, F!ListField, F!Extra, F!EntryName, F!AgeField, F!EntryNeeds, F!Coordinate
<1>1. \A f \in F!AnyField : f = "externalId" => F!Good(id)[f] \in F!Reading(f)
  BY Zenon
<1>2. \A f \in F!AnyField : f = "startDate" => F!Good(id)[f] \in F!Reading(f)
  <2>1. [day |-> 2, half |-> 1, timed |-> TRUE] \in F!Date
    BY DEF F!Date
  <2> QED BY <2>1, Zenon
<1>3. \A f \in F!AnyField : f \in F!EntryName => F!Good(id)[f] \in F!Reading(f)
  BY ZenonT(40)
<1>4. \A f \in F!AnyField : f \in F!ChosenText => F!Good(id)[f] \in F!Reading(f)
  BY ZenonT(40)
<1>5. \A f \in F!AnyField : f \in F!EntryNeeds \ {"parking.place"} => F!Good(id)[f] \in F!Reading(f)
  BY ZenonT(40)
<1>6. \A f \in F!AnyField : f = "parking.place" => F!Good(id)[f] \in F!Reading(f)
  BY Zenon
<1>7. \A f \in F!AnyField : f = "locationName" => F!Good(id)[f] \in F!Reading(f)
  BY Zenon
<1>8. \A f \in F!AnyField : f = "name" => F!Good(id)[f] \in F!Reading(f)
  BY Zenon
<1>9. \A f \in F!AnyField : f \in F!Coordinate => F!Good(id)[f] \in F!Reading(f)
  BY ZenonT(40)
<1>10. \A f \in F!AnyField : f \in {"source", "classes", "series"} => F!Good(id)[f] \in F!Reading(f)
  BY ZenonT(40)
<1>11. \A f \in F!AnyField : f = "parking" => F!Good(id)[f] \in F!Reading(f)
  BY Zenon
<1>12. \A f \in F!AnyField : undefined \in F!Reading(f)
  BY Zenon
<1> DEFINE special == {"externalId", "startDate", "name", "locationName", "source", "classes", "series", "parking"}
                        \cup F!EntryName \cup F!ChosenText \cup F!EntryNeeds \cup F!Coordinate
<1>13. \A f \in F!AnyField : f \notin special => F!Good(id)[f] = undefined
  BY Zenon
<1> HIDE DEF F!Good, F!Reading, F!ChosenText, F!DateField, F!EntryText, F!ListField, F!Extra, F!EntryName, F!AgeField, F!EntryNeeds, F!Coordinate
<1>14. \A f \in F!AnyField : F!Good(id)[f] \in F!Reading(f)
  BY <1>1, <1>2, <1>3, <1>4, <1>5, <1>6, <1>7, <1>8, <1>9, <1>10, <1>11, <1>12, <1>13
<1> QED BY <1>14 DEF Readable, F!Good

\* What the list of events of a file is made of.
Lines == {wrongType} \cup {e \in FileEvent : Readable(e)}

\* A readable event is one of these.
LEMMA ReadableLines ==
  ASSUME NEW e, e = [f \in F!AnyField |-> e[f]], Readable(e)
  PROVE  e \in Lines
<1>1. \A f \in F!AnyField : e[f] \in UNION {F!Reading(g) : g \in F!AnyField}
  BY DEF Readable
<1>2. e \in FileEvent
  BY <1>1 DEF FileEvent
<1> QED BY <1>2 DEF Lines

\* Another reading in one field leaves an event readable.
LEMMA OtherReadings ==
  ASSUME NEW e, e = [f \in F!AnyField |-> e[f]], Readable(e), NEW g \in F!AnyField, NEW r \in F!Reading(g)
  PROVE  LET d == [e EXCEPT ![g] = r] IN Readable(d) /\ d = [f \in F!AnyField |-> d[f]]
BY DEF Readable

\* The files that are looked at are made of that.
LEMMA FilesStart ==
  ASSUME F!Init
  PROVE  file.events \in Seq(Lines)
<1>1. F!AnyId \in Ids
  BY FileAssumption DEF F!AnyId
<1>2. ASSUME NEW id \in Ids PROVE Readable(F!Good(id)) /\ F!Good(id) = [f \in F!AnyField |-> F!Good(id)[f]]
  BY GoodIsReadable DEF F!Good
<1> HIDE DEF F!Good
<1>3. ASSUME NEW id \in Ids, NEW f \in F!AnyField, NEW r \in F!Reading(f)
      PROVE  LET d == [F!Good(id) EXCEPT ![f] = r] IN Readable(d) /\ d = [g \in F!AnyField |-> d[g]]
  BY <1>2, OtherReadings
<1>4. ASSUME NEW id \in Ids PROVE F!Good(id) \in Lines
  BY <1>2, ReadableLines
<1>5. ASSUME NEW id \in Ids, NEW f \in F!AnyField, NEW r \in F!Reading(f) PROVE [F!Good(id) EXCEPT ![f] = r] \in Lines
  BY <1>3, ReadableLines
<1>6. ASSUME NEW f \in F!AnyField, NEW g \in F!AnyField, NEW r \in F!Reading(f), NEW q \in F!Reading(g)
      PROVE  [F!Good(F!AnyId) EXCEPT ![f] = r, ![g] = q] \in Lines
  <2> DEFINE d == [F!Good(F!AnyId) EXCEPT ![f] = r]
             c == [d EXCEPT ![g] = q]
  <2>1. Readable(d) /\ d = [h \in F!AnyField |-> d[h]]
    BY <1>1, <1>3
  <2> HIDE DEF d
  <2>2. c \in Lines
    BY <2>1, OtherReadings, ReadableLines
  <2> QED BY <2>2 DEF d
<1>7. F!SecondEvents \subseteq Lines
  <2>1. "name" \in F!AnyField /\ "other name" \in F!Reading("name")
    <3>1. "other name" \in F!Reading("name")
      BY Zenon DEF F!Reading, F!ChosenText, F!DateField, F!EntryText, F!ListField, F!Extra, F!EntryName, F!AgeField
    <3> QED BY <3>1, FieldsAre DEF F!TextField
  <2>2. \A id \in Ids : F!Good(id) \in Lines /\ [F!Good(id) EXCEPT !["name"] = "other name"] \in Lines
    BY <1>4, <1>5, <2>1
  <2> QED BY <2>2 DEF F!SecondEvents, Lines
<1>8. \A l \in Lines, k \in Lines : <<>> \in Seq(Lines) /\ <<l>> \in Seq(Lines) /\ <<l, k>> \in Seq(Lines)
  OBVIOUS
<1>9. CASE \E f, g \in F!AnyField : \E r \in F!Reading(f), q \in F!Reading(g) :
              file = F!File("known", TRUE, <<[F!Good(F!AnyId) EXCEPT ![f] = r, ![g] = q]>>)
  <2>1. PICK f \in F!AnyField, g \in F!AnyField : \E r \in F!Reading(f), q \in F!Reading(g) :
               file = F!File("known", TRUE, <<[F!Good(F!AnyId) EXCEPT ![f] = r, ![g] = q]>>)
    BY <1>9
  <2>2. PICK l \in Lines : file = F!File("known", TRUE, <<l>>)
    BY <1>6, <2>1
  <2> QED BY <1>8, <2>2 DEF F!File
<1>10. CASE \E f \in F!AnyField, d \in F!SecondEvents, complete \in BOOLEAN : \E r \in F!Reading(f) :
               file = F!File("known", complete, <<[F!Good(F!AnyId) EXCEPT ![f] = r], d>>)
  <2>1. PICK f \in F!AnyField, d \in F!SecondEvents, complete \in BOOLEAN : \E r \in F!Reading(f) :
               file = F!File("known", complete, <<[F!Good(F!AnyId) EXCEPT ![f] = r], d>>)
    BY <1>10
  <2>2. PICK l \in Lines : file = F!File("known", complete, <<l, d>>)
    BY <1>1, <1>5, <2>1
  <2> QED BY <1>7, <1>8, <2>2 DEF F!File
<1>11. CASE \E name_ \in {"known", unknown}, complete \in {undefined, TRUE, wrongType}, d \in F!SecondEvents :
               file \in {F!File(name_, complete, <<>>), F!File(name_, complete, <<d, F!Good(F!AnyId)>>)}
  <2>1. PICK name_ \in {"known", unknown}, complete \in {undefined, TRUE, wrongType}, d \in F!SecondEvents :
               file \in {F!File(name_, complete, <<>>), F!File(name_, complete, <<d, F!Good(F!AnyId)>>)}
    BY <1>11
  <2>2. F!Good(F!AnyId) \in Lines /\ d \in Lines
    BY <1>1, <1>4, <1>7
  <2>3. file.events = <<>> \/ file.events = <<d, F!Good(F!AnyId)>>
    BY <2>1 DEF F!File
  <2> QED BY <1>8, <2>2, <2>3
<1>12. CASE \E events \in {<<F!Good(F!AnyId)>>} \cup {<<F!Good(id), F!Good(F!AnyId)>> : id \in Ids}, complete \in BOOLEAN :
               file = F!File("known", complete, events)
  <2>1. PICK events \in {<<F!Good(F!AnyId)>>} \cup {<<F!Good(id), F!Good(F!AnyId)>> : id \in Ids}, complete \in BOOLEAN :
               file = F!File("known", complete, events)
    BY <1>12
  <2>2. events \in Seq(Lines)
    BY <1>1, <1>4, <1>8, <2>1
  <2> QED BY <2>1, <2>2 DEF F!File
<1> QED BY <1>9, <1>10, <1>11, <1>12, Zenon DEF F!Init, F!SomeFile

\* What was read so far: an event is kept unless it is left out, an error is noted, and no
\* file with errors is imported.
FileInv ==
    /\ file.events \in Seq(Lines)
    /\ at \in 0 .. Len(file.events) /\ kept \in Seq(Lines \cup {null}) /\ Len(kept) = at
    /\ \A i \in 1 .. at : kept[i] = IF F!LeftOut(file.events[i], F!EventErrors(i)) THEN null ELSE file.events[i]
    /\ \A i \in 1 .. at : F!EventErrors(i) # {} => F!Severe(issues, "error")
    /\ F!Accepted => ~F!Severe(issues, "error")

\* A run, and what others write meanwhile, leaves what was read alone, and begins nothing.
LEMMA RunReads ==
  ASSUME F!Import \/ F!Others
  PROVE  UNCHANGED F!reading /\ (F!Accepted' => F!Accepted)
<1>1. CASE F!Import
  BY <1>1 DEF F!Import, F!BeginRun, F!Stamp, F!Flag, F!RunFails, F!PassRecord, F!CreateEvent, F!UpdateEvent, F!KeepEvent,
              F!SkipRecord, F!SaveFails, F!Through, F!NextRecord, F!Accepted
<1>2. CASE F!Others
  BY <1>2 DEF F!Others, F!OtherImport, F!EventBegins, F!ReadEventToCorrect, F!SaveCorrection, F!Writes, F!Accepted
<1> QED BY <1>1, <1>2

\* Reading an event and importing the file keep the invariant.
LEMMA FileKept ==
  ASSUME FileInv, F!Next
  PROVE  FileInv'
<1>1. file' = file /\ \A i : F!EventErrors(i)' = F!EventErrors(i)
  <2>1. file' = file
    BY RunReads DEF F!Next, F!ReadEvent, F!CheckFile, F!StartFileImport, F!reading
  <2> QED BY <2>1 DEF F!EventErrors, F!RepeatedId, F!SameId
<1>2. CASE F!ReadEvent
  <2> DEFINE new == IF F!LeftOut(file.events[at + 1], F!EventErrors(at + 1)) THEN null ELSE file.events[at + 1]
  <2>1. at < Len(file.events) /\ kept' = Append(kept, new) /\ at' = at + 1 /\ fileJob = "read" /\ fileJob' = "read"
    BY <1>2 DEF F!ReadEvent
  <2>2. issues' = issues \cup F!Issue("error", at + 1, F!EventErrors(at + 1)) \cup F!Issue("warning", at + 1, F!EventWarnings(at + 1))
    BY <1>2 DEF F!ReadEvent
  <2>3. at \in Nat /\ at + 1 \in 1 .. Len(file.events) /\ file.events[at + 1] \in Lines /\ Len(kept) = at /\ kept \in Seq(Lines \cup {null})
    BY <2>1 DEF FileInv
  <2>4. new \in Lines \cup {null}
    BY <2>3
  <2> HIDE DEF new
  <2>5. kept' \in Seq(Lines \cup {null}) /\ Len(kept') = at' /\ at' \in 0 .. Len(file.events) /\ kept'[at + 1] = new /\ \A i \in 1 .. at : kept'[i] = kept[i]
    BY <2>1, <2>3, <2>4
  <2>6. \A i \in 1 .. at' : i \in 1 .. at \/ i = at + 1
    BY <2>1, <2>3
  <2>7. F!Severe(issues, "error") => F!Severe(issues', "error")
    BY <2>2 DEF F!Severe
  <2>8. F!EventErrors(at + 1) # {} => F!Severe(issues', "error")
    <3> SUFFICES ASSUME NEW x \in F!EventErrors(at + 1) PROVE F!Severe(issues', "error")
      OBVIOUS
    <3>1. [severity |-> "error", index |-> at + 1, field |-> x] \in F!Issue("error", at + 1, F!EventErrors(at + 1))
      BY DEF F!Issue
    <3> QED BY <2>2, <3>1 DEF F!Severe
  <2>9. \A i \in 1 .. at' : kept'[i] = IF F!LeftOut(file.events[i], F!EventErrors(i)) THEN null ELSE file.events[i]
    BY <2>5, <2>6 DEF FileInv, new
  <2>10. \A i \in 1 .. at' : F!EventErrors(i) # {} => F!Severe(issues', "error")
    BY <2>6, <2>7, <2>8 DEF FileInv
  <2>11. F!Severe(issues, "error")' <=> F!Severe(issues', "error")
    BY DEF F!Severe
  <2> QED BY <1>1, <2>1, <2>5, <2>9, <2>10, <2>11 DEF FileInv, F!Accepted
<1>3. ASSUME UNCHANGED F!reading, F!Accepted' => F!Accepted \/ ~F!Severe(issues, "error") PROVE FileInv'
  BY <1>1, <1>3 DEF FileInv, F!Severe, F!reading
<1>4. CASE F!CheckFile
  BY <1>3, <1>4 DEF F!CheckFile, F!Accepted
<1>5. ASSUME NEW accept \in BOOLEAN, NEW alike \in BOOLEAN, F!StartFileImport(accept, alike) PROVE FileInv'
  BY <1>3, <1>5 DEF F!StartFileImport, F!Accepted
<1>6. CASE F!Import \/ F!Others
  BY <1>3, <1>6, RunReads DEF F!Accepted
<1> QED BY <1>2, <1>4, <1>5, <1>6 DEF F!Next

\* Whatever a file says, what it keeps is what the documented format allows, but for texts
\* of spaces, and what is imported left out nothing else (checkImportFile and
\* startFileImport).
THEOREM FilesAreRead == CalendarSpec => []FilesAreReadAsDocumented
<1> DEFINE Inv == part = "file" => FileInv
<1>1. CalendarInit => Inv
  <2> SUFFICES ASSUME F!Init PROVE FileInv
    BY DEF CalendarInit, SyncInit, FileInit, RecurrenceInit, RacingInit, DuplicatesInit
  <2>1. at = 0 /\ kept = <<>> /\ fileJob = "read" /\ file.events \in Seq(Lines)
    BY FilesStart DEF F!Init
  <2> QED BY <2>1 DEF FileInv, F!Accepted
<1>2. Inv /\ [CalendarNext]_all => Inv'
  <2> SUFFICES ASSUME Inv, [CalendarNext]_all, part' = "file" PROVE FileInv'
    OBVIOUS
  <2>1. CASE FileStep
    BY <2>1, FileKept DEF FileStep
  <2>2. CASE UNCHANGED all
    <3>1. UNCHANGED <<part, file, at, kept, issues, fileJob>>
      BY <2>2 DEF all, fileVars
    <3>2. \A i : F!EventErrors(i)' = F!EventErrors(i)
      BY <3>1 DEF F!EventErrors, F!RepeatedId, F!SameId
    <3> QED BY <3>1, <3>2 DEF FileInv, F!Severe, F!Accepted
  <2>3. CASE SyncStep \/ RecurrenceStep \/ RacingStep \/ DuplicatesStep
    BY <2>3 DEF SyncStep, RecurrenceStep, RacingStep, DuplicatesStep
  <2> QED BY <2>1, <2>2, <2>3 DEF CalendarNext
<1>3. FileInv => F!KeepsWhatFollows
  <2> SUFFICES ASSUME FileInv, NEW i \in 1 .. at, file.events[i] # wrongType, ~F!Spaces(file.events[i])
               PROVE  kept[i] # null <=> F!Follows(file.events[i]) /\ F!SameId(i) = {}
    BY DEF F!KeepsWhatFollows
  <2> DEFINE e == file.events[i]
  <2>1. e \in Lines /\ kept[i] = IF F!LeftOut(e, F!EventErrors(i)) THEN null ELSE e
    BY DEF FileInv
  <2>2. Readable(e) /\ e # null
    BY <2>1, FileAssumption DEF Lines
  <2>3. kept[i] # null <=> ~F!LeftOut(e, F!EventErrors(i))
    BY <2>1, <2>2
  <2>4. F!EventErrors(i) = F!Errors(e) \cup {f \in {"externalId"} : F!RepeatedId(i)}
    BY DEF F!EventErrors
  <2>5. F!RepeatedId(i) <=> F!Said(e, "externalId") /\ F!SameId(i) # {}
    BY DEF F!RepeatedId
  <2> HIDE DEF e
  <2>6. F!LeftOut(e, F!EventErrors(i)) <=> F!LeftOut(e, F!Errors(e)) \/ (F!Said(e, "externalId") /\ F!SameId(i) # {})
    BY <2>4, <2>5 DEF F!LeftOut
  <2>7. ~F!LeftOut(e, F!Errors(e)) => F!Said(e, "externalId")
    BY DEF F!LeftOut
  <2>8. F!LeftOut(e, F!Errors(e)) <=> ~F!Follows(e)
    BY <2>2, EventsAreReadAsDocumented DEF e
  <2> QED BY <2>3, <2>6, <2>7, <2>8 DEF e
<1>4. FileInv => F!OnlySpacesLeftOut
  <2> SUFFICES ASSUME FileInv, F!Accepted, NEW i \in 1 .. at, kept[i] = null
               PROVE  file.events[i] # wrongType /\ spaces \in {file.events[i]["externalId"], file.events[i]["startDate"]}
    BY DEF F!OnlySpacesLeftOut
  <2> DEFINE e == file.events[i]
  <2>1. e \in Lines /\ kept[i] = (IF F!LeftOut(e, F!EventErrors(i)) THEN null ELSE e) /\ F!EventErrors(i) = {}
    BY DEF FileInv
  <2>2. e # wrongType
    BY <2>1 DEF F!EventErrors
  <2>3. Readable(e) /\ e # null
    BY <2>1, <2>2, FileAssumption DEF Lines
  <2>4. F!LeftOut(e, {}) /\ F!Errors(e) = {}
    BY <2>1, <2>2, <2>3 DEF F!EventErrors
  <2> HIDE DEF e
  <2>5. (\A f \in F!TextField : f \notin F!TextErrors(e)) /\ F!DateErrors(e) = {}
    BY <2>4, NoErrors
  <2>6. \A f \in {"externalId", "name", "startDate"} : e[f] # wrongType /\ ~F!Unset(e[f])
    <3>1. {"externalId", "name", "startDate"} \subseteq F!TextField \cap F!Required
      BY DEF F!TextField, F!Required
    <3> QED BY <2>5, <3>1 DEF F!TextErrors
  <2>7. \A f \in {"externalId", "name", "startDate"} : e[f] # spaces => F!Said(e, f)
    BY <2>6 DEF F!Said
  <2>8. e["name"] # spaces
    BY <2>5 DEF F!TextErrors, F!TextField
  <2>9. F!Said(e, "startDate") => F!IsDate(e, "startDate")
    BY <2>5 DEF F!DateErrors, F!DateField
  <2> QED BY <2>2, <2>4, <2>7, <2>8, <2>9 DEF F!LeftOut, e
<1> QED BY <1>1, <1>2, <1>3, <1>4, PTL DEF CalendarSpec, FilesAreReadAsDocumented

-----------------------------------------------------------------------------
(* Duplicates: the union-find.                                             *)

\* A set with 0 and the successors of its members has every natural number.
LEMMA Numbers ==
  ASSUME NEW T, 0 \in T, \A n \in Nat : n \in T => n + 1 \in T
  PROVE  Nat \subseteq T
<1> SUFFICES ASSUME Nat \ T # {} PROVE FALSE
  OBVIOUS
<1>1. PICK n \in Nat \ T : \A m \in Nat \ T : ~(<<m, n>> \in OpToRel(<, Nat))
  BY NatLessThanWellFounded, WFMin
<1>2. \A m \in Nat : m < n => m \in T
  BY <1>1 DEF OpToRel
<1>3. n \in Nat /\ n # 0
  OBVIOUS
<1>4. n - 1 \in Nat /\ n - 1 < n /\ (n - 1) + 1 = n
  BY <1>3
<1> QED BY <1>2, <1>4

\* r tells the root above each event when its parents are these.
Forest(parent, r) ==
    /\ parent \in [D!Event -> D!Event] /\ r \in [D!Event -> D!Event]
    /\ \A x \in D!Event : r[parent[x]] = r[x] /\ parent[r[x]] = r[x] /\ (parent[x] = x => r[x] = x)

RootsOf(parent) == {x \in D!Event : parent[x] = x}

\* d bounds the steps from each event to its root: one for every event that is no root.
Depth(parent, d) ==
    /\ d \in [D!Event -> Nat]
    /\ \A x \in D!Event :
        /\ parent[x] = x => d[x] = 0
        /\ parent[x] # x => d[parent[x]] < d[x]
        /\ d[x] + Cardinality(RootsOf(parent)) <= Events

LEMMA RootsAreFinite ==
  ASSUME NEW parent
  PROVE  IsFiniteSet(RootsOf(parent)) /\ Cardinality(RootsOf(parent)) \in Nat
<1>1. IsFiniteSet(D!Event)
  BY FS_Interval, EventsAssumption DEF D!Event
<1>2. RootsOf(parent) \subseteq D!Event
  BY DEF RootsOf
<1> QED BY <1>1, <1>2, FS_Subset, FS_CardinalityType

\* The search goes up far enough to find the root.
LEMMA RootIsFound ==
  ASSUME NEW parent, NEW r, NEW d, Forest(parent, r), Depth(parent, d)
  PROVE  D!Root(parent) = r
<1> DEFINE Steps == 0 .. Events
           Body(f, n, x) == IF n = 0 \/ parent[x] = x THEN x ELSE f[n - 1][parent[x]]
           Row(f, n) == [x \in D!Event |-> Body(f, n, x)]
           Good(f, k) == /\ f \in [Steps -> [D!Event -> D!Event]]
                         /\ \A n \in Steps : n <= k => f[n] = Row(f, n)
           climb == CHOOSE f : f = [n \in Steps |-> Row(f, n)]
<1>1. \A k \in Nat : \E f : Good(f, k)
  <2> DEFINE T == {k \in Nat : \E f : Good(f, k)}
  <2>1. 0 \in T
    <3> DEFINE f == [n \in Steps |-> [x \in D!Event |-> x]]
    <3>1. Good(f, 0)
      <4>1. f \in [Steps -> [D!Event -> D!Event]]
        OBVIOUS
      <4>2. ASSUME NEW n \in Steps, n <= 0 PROVE f[n] = Row(f, n)
        <5>1. n = 0
          BY <4>2
        <5> QED BY <5>1
      <4> QED BY <4>1, <4>2
    <3> QED BY <3>1
  <2>2. ASSUME NEW k \in Nat, k \in T PROVE k + 1 \in T
    <3>1. PICK f : Good(f, k)
      BY <2>2
    <3> DEFINE g == [n \in Steps |-> Row(f, n)]
    <3>2. g \in [Steps -> [D!Event -> D!Event]]
      <4> SUFFICES ASSUME NEW n \in Steps, NEW x \in D!Event PROVE Body(f, n, x) \in D!Event
        OBVIOUS
      <4>1. parent[x] \in D!Event /\ (n # 0 => n - 1 \in Steps)
        BY EventsAssumption DEF Forest
      <4>2. n # 0 => f[n - 1] \in [D!Event -> D!Event]
        BY <3>1, <4>1
      <4> QED BY <4>1, <4>2
    <3>3. ASSUME NEW n \in Steps, n <= k + 1 PROVE g[n] = Row(g, n)
      <4> SUFFICES ASSUME NEW x \in D!Event PROVE Body(f, n, x) = Body(g, n, x)
        OBVIOUS
      <4>1. parent[x] \in D!Event /\ (n # 0 => n - 1 \in Steps /\ n - 1 <= k)
        BY <3>3, EventsAssumption DEF Forest
      <4>2. n # 0 => g[n - 1] = f[n - 1]
        BY <3>1, <4>1
      <4> QED BY <4>2
    <3>4. Good(g, k + 1)
      BY <3>2, <3>3
    <3> HIDE DEF Good
    <3> QED BY <3>4
  <2> HIDE DEF T
  <2>3. Nat \subseteq T
    BY <2>1, <2>2, Numbers
  <2> QED BY <2>3 DEF T
<1>2. climb = [n \in Steps |-> Row(climb, n)]
  <2>1. PICK f : Good(f, Events)
    BY <1>1, EventsAssumption
  <2>2. \A n \in Steps : n <= Events
    BY EventsAssumption
  <2>3. f = [n \in Steps |-> Row(f, n)]
    BY <2>1, <2>2
  <2> HIDE DEF Row
  <2> QED BY <2>3
<1>3. D!Root(parent) = climb[Events]
  BY DEF D!Root
<1> HIDE DEF climb
<1>0. \A n \in Steps : climb[n] = Row(climb, n)
  BY <1>2
<1>4. \A n \in Steps, x \in D!Event : climb[n][x] = Body(climb, n, x)
  <2> TAKE n \in Steps, x \in D!Event
  <2>1. climb[n] = Row(climb, n)
    BY <1>0
  <2>2. Row(climb, n)[x] = Body(climb, n, x)
    OBVIOUS
  <2> QED BY <2>1, <2>2
<1>5. \A k \in Nat : k \in Steps => \A x \in D!Event : d[x] <= k => climb[k][x] = r[x]
  <2> DEFINE T == {k \in Nat : k \in Steps => \A x \in D!Event : d[x] <= k => climb[k][x] = r[x]}
  <2>1. 0 \in T
    <3> SUFFICES ASSUME NEW x \in D!Event, d[x] <= 0, 0 \in Steps PROVE climb[0][x] = r[x]
      OBVIOUS
    <3>1. parent[x] = x
      BY DEF Depth, Forest
    <3> QED BY <1>4, <3>1 DEF Forest
  <2>2. ASSUME NEW k \in Nat, k \in T PROVE k + 1 \in T
    <3> SUFFICES ASSUME k + 1 \in Steps, NEW x \in D!Event, d[x] <= k + 1 PROVE climb[k + 1][x] = r[x]
      OBVIOUS
    <3>1. CASE parent[x] = x
      BY <1>4, <3>1 DEF Forest
    <3>2. CASE parent[x] # x
      <4>1. parent[x] \in D!Event /\ d[parent[x]] \in Nat /\ d[x] \in Nat /\ d[parent[x]] < d[x]
        BY <3>2 DEF Depth, Forest
      <4>2. k \in Steps /\ (k + 1) - 1 = k /\ d[parent[x]] <= k
        BY <4>1, EventsAssumption
      <4>3. climb[k][parent[x]] = r[parent[x]]
        BY <2>2, <4>1, <4>2
      <4>4. climb[k + 1][x] = climb[(k + 1) - 1][parent[x]]
        BY <1>4, <3>2
      <4> QED BY <4>2, <4>3, <4>4 DEF Forest
    <3> QED BY <3>1, <3>2
  <2> HIDE DEF T
  <2>3. Nat \subseteq T
    BY <2>1, <2>2, Numbers
  <2> QED BY <2>3 DEF T
<1>6. \A x \in D!Event : d[x] <= Events
  <2> TAKE x \in D!Event
  <2>1. d[x] \in Nat /\ d[x] + Cardinality(RootsOf(parent)) <= Events
    BY DEF Depth
  <2> QED BY <2>1, RootsAreFinite, EventsAssumption
<1>7. \A x \in D!Event : climb[Events][x] = r[x]
  <2>1. Events \in Nat /\ Events \in Steps
    BY EventsAssumption
  <2> HIDE DEF Steps
  <2> QED BY <1>5, <1>6, <2>1
<1>8. climb[Events] = [x \in D!Event |-> Body(climb, Events, x)]
  BY <1>0, EventsAssumption
<1> QED BY <1>3, <1>7, <1>8 DEF Forest

\* The roots after a pair is joined: what was under the one hangs under the other.
Merged(r, p) == [x \in D!Event |-> IF r[x] = r[p[1]] THEN r[p[2]] ELSE r[x]]

LEMMA JoinedParents ==
  ASSUME NEW parent, NEW r, NEW d, Forest(parent, r), Depth(parent, d), NEW p \in D!Pair
  PROVE  /\ p[1] \in D!Event /\ p[2] \in D!Event
         /\ D!Joined(parent, p) \in [D!Event -> D!Event]
         /\ \A x \in D!Event : D!Joined(parent, p)[x] =
              IF x = r[p[1]] \/ x = p[2] THEN r[p[2]] ELSE IF x = p[1] THEN r[p[1]] ELSE parent[x]
<1>1. p[1] \in D!Event /\ p[2] \in D!Event
  BY DEF D!Pair
<1>2. D!Joined(parent, p) =
        [[parent EXCEPT ![p[1]] = r[p[1]], ![p[2]] = r[p[2]]] EXCEPT ![r[p[1]]] = r[p[2]]]
  BY RootIsFound DEF D!Joined
<1> QED BY <1>1, <1>2 DEF Forest

LEMMA JoinedForest ==
  ASSUME NEW parent, NEW r, NEW d, Forest(parent, r), Depth(parent, d), NEW p \in D!Pair
  PROVE  Forest(D!Joined(parent, p), Merged(r, p))
<1> DEFINE new == D!Joined(parent, p)
           a == r[p[1]]
           b == r[p[2]]
<1>1. p[1] \in D!Event /\ p[2] \in D!Event
  BY JoinedParents
<1>2. new \in [D!Event -> D!Event]
  BY JoinedParents
<1>3. \A x \in D!Event : new[x] = IF x = a \/ x = p[2] THEN b ELSE IF x = p[1] THEN a ELSE parent[x]
  BY JoinedParents
<1> HIDE DEF new
<1>4. a \in D!Event /\ b \in D!Event /\ parent[a] = a /\ parent[b] = b /\ r[a] = a /\ r[b] = b
  BY <1>1 DEF Forest
<1>5. Merged(r, p) \in [D!Event -> D!Event]
  BY <1>1 DEF Merged, Forest
<1>6. \A x \in D!Event : Merged(r, p)[x] = IF r[x] = a THEN b ELSE r[x]
  BY DEF Merged
<1>7. ASSUME NEW x \in D!Event
      PROVE  Merged(r, p)[new[x]] = Merged(r, p)[x] /\ new[Merged(r, p)[x]] = Merged(r, p)[x]
             /\ (new[x] = x => Merged(r, p)[x] = x)
  <2>1. r[x] \in D!Event /\ parent[x] \in D!Event /\ r[parent[x]] = r[x] /\ parent[r[x]] = r[x] /\ r[r[x]] = r[x]
        /\ (parent[x] = x => r[x] = x)
    BY DEF Forest
  <2>2. Merged(r, p)[b] = b
    BY <1>4, <1>6
  <2>3. Merged(r, p)[new[x]] = Merged(r, p)[x]
    <3>1. CASE x = a \/ x = p[2]
      BY <1>3, <1>4, <1>6, <2>2, <3>1
    <3>2. CASE x # a /\ x # p[2] /\ x = p[1]
      BY <1>3, <1>4, <1>6, <3>2
    <3>3. CASE x # a /\ x # p[2] /\ x # p[1]
      BY <1>3, <1>6, <2>1, <3>3
    <3> QED BY <3>1, <3>2, <3>3
  <2>4. new[Merged(r, p)[x]] = Merged(r, p)[x]
    <3>1. CASE r[x] = a
      <4>1. Merged(r, p)[x] = b
        BY <1>6, <3>1
      <4>2. new[b] = b
        BY <1>3, <1>4
      <4> QED BY <4>1, <4>2
    <3>2. CASE r[x] # a
      BY <1>3, <1>6, <2>1, <3>2
    <3> QED BY <3>1, <3>2
  <2>5. new[x] = x => Merged(r, p)[x] = x
    BY <1>3, <1>4, <1>6, <2>1
  <2> QED BY <2>3, <2>4, <2>5
<1> QED BY <1>2, <1>5, <1>7 DEF Forest, new

\* Roots that join lose one, and everything under it is one step further down.
LEMMA JoinedDepth ==
  ASSUME NEW parent, NEW r, NEW d, Forest(parent, r), Depth(parent, d), NEW p \in D!Pair
  PROVE  \E e : Depth(D!Joined(parent, p), e)
<1> DEFINE new == D!Joined(parent, p)
           a == r[p[1]]
           b == r[p[2]]
<1>1. p[1] \in D!Event /\ p[2] \in D!Event
  BY JoinedParents
<1>2. new \in [D!Event -> D!Event]
  BY JoinedParents
<1>3. \A x \in D!Event : new[x] = IF x = a \/ x = p[2] THEN b ELSE IF x = p[1] THEN a ELSE parent[x]
  BY JoinedParents
<1> HIDE DEF new
<1>4. a \in D!Event /\ b \in D!Event /\ parent[a] = a /\ parent[b] = b /\ r[a] = a /\ r[b] = b
  BY <1>1 DEF Forest
<1>5. \A x \in D!Event : parent[x] \in D!Event /\ (parent[x] = x => r[x] = x)
  BY DEF Forest
<1>6. d \in [D!Event -> Nat] /\ \A x \in D!Event : d[x] \in Nat
  BY DEF Depth
<1>7. \A x \in D!Event : (parent[x] = x => d[x] = 0) /\ (parent[x] # x => d[parent[x]] < d[x])
                         /\ d[x] + Cardinality(RootsOf(parent)) <= Events
  BY DEF Depth
<1>8. CASE a = b
  <2>1. \A x \in D!Event : new[x] = x <=> parent[x] = x
    BY <1>1, <1>3, <1>4, <1>5, <1>8
  <2>2. RootsOf(new) = RootsOf(parent)
    BY <2>1 DEF RootsOf
  <2>3. \A x \in D!Event : new[x] # x => d[new[x]] < d[x]
    <3> TAKE x \in D!Event
    <3>1. CASE x \in {p[1], p[2]}
      <4>1. new[x] = a /\ d[a] = 0
        BY <1>3, <1>4, <1>7, <1>8, <3>1
      <4>2. parent[x] # x => d[x] > 0
        BY <1>5, <1>6, <1>7
      <4> QED BY <2>1, <4>1, <4>2
    <3>2. CASE x \notin {p[1], p[2]}
      BY <1>3, <1>4, <1>7, <1>8, <3>2
    <3> QED BY <3>1, <3>2
  <2>4. Depth(new, d)
    BY <1>6, <1>7, <2>1, <2>2, <2>3 DEF Depth
  <2> QED BY <2>4 DEF new
<1>9. CASE a # b
  <2> DEFINE e == [x \in D!Event |-> IF new[x] = x THEN 0 ELSE d[x] + 1]
  <2>1. \A x \in D!Event : new[x] = x <=> parent[x] = x /\ x # a
    BY <1>1, <1>3, <1>4, <1>5, <1>9
  <2>2. RootsOf(new) = RootsOf(parent) \ {a} /\ a \in RootsOf(parent)
    BY <1>4, <2>1 DEF RootsOf
  <2>3. Cardinality(RootsOf(new)) = Cardinality(RootsOf(parent)) - 1
    <3>1. IsFiniteSet(RootsOf(parent))
      BY RootsAreFinite
    <3>2. Cardinality(RootsOf(parent) \ {a}) =
            IF a \in RootsOf(parent) THEN Cardinality(RootsOf(parent)) - 1 ELSE Cardinality(RootsOf(parent))
      BY <3>1, FS_RemoveElement
    <3> QED BY <2>2, <3>2
  <2>4. e \in [D!Event -> Nat]
    BY <1>6
  <2>5. \A x \in D!Event : new[x] # x => e[new[x]] < e[x]
    <3> TAKE x \in D!Event
    <3> SUFFICES ASSUME new[x] # x PROVE e[new[x]] < e[x]
      OBVIOUS
    <3>1. e[x] = d[x] + 1 /\ d[x] \in Nat /\ new[x] \in D!Event
      BY <1>2, <1>6
    <3>2. CASE new[new[x]] = new[x]
      BY <3>1, <3>2
    <3>3. CASE new[new[x]] # new[x]
      <4>1. x # a /\ x # p[2]
        <5>1. new[b] = b
          BY <1>3, <1>4
        <5>2. x = a \/ x = p[2] => new[x] = b
          BY <1>3
        <5> QED BY <3>3, <5>1, <5>2
      <4>2. d[new[x]] < d[x]
        <5>1. CASE x = p[1]
          <6>1. new[x] = a /\ d[a] = 0 /\ parent[x] # x
            BY <1>3, <1>4, <1>5, <1>7, <4>1, <5>1
          <6> QED BY <1>5, <1>6, <1>7, <6>1
        <5>2. CASE x # p[1]
          BY <1>3, <1>7, <4>1, <5>2
        <5> QED BY <5>1, <5>2
      <4>3. e[new[x]] = d[new[x]] + 1
        BY <3>1, <3>3
      <4> QED BY <1>6, <3>1, <4>2, <4>3
    <3> QED BY <3>2, <3>3
  <2>6. \A x \in D!Event : e[x] + Cardinality(RootsOf(new)) <= Events
    <3> TAKE x \in D!Event
    <3>1. e[x] <= d[x] + 1 /\ e[x] \in Nat /\ d[x] \in Nat
      BY <1>6
    <3>2. d[x] + Cardinality(RootsOf(parent)) <= Events
      BY <1>7
    <3> HIDE DEF e
    <3> QED BY <2>3, <3>1, <3>2, RootsAreFinite, EventsAssumption
  <2>7. Depth(new, e)
    BY <2>4, <2>5, <2>6 DEF Depth
  <2> HIDE DEF e
  <2> QED BY <2>7 DEF new
<1> QED BY <1>8, <1>9

LEMMA PairsAreFinite ==
  ASSUME NEW B \in SUBSET D!Pair
  PROVE  IsFiniteSet(B) /\ Cardinality(B) \in Nat
<1>1. IsFiniteSet(D!Event)
  BY FS_Interval, EventsAssumption DEF D!Event
<1>2. IsFiniteSet(D!Event \X D!Event)
  BY <1>1, FS_Product
<1>3. B \subseteq D!Event \X D!Event
  BY DEF D!Pair
<1> QED BY <1>2, <1>3, FS_Subset, FS_CardinalityType

\* Of some pairs one is the last.
LEMMA OneIsLast ==
  ASSUME NEW B \in SUBSET D!Pair, B # {}
  PROVE  D!Last(B) \in B
<1>0. \A p \in B : p \in D!Event \X D!Event /\ p[1] \in 1 .. Events /\ p[2] \in 1 .. Events
  BY DEF D!Pair, D!Event
<1> DEFINE T == {Events - p[1] : p \in B}
<1>1. T \subseteq Nat /\ T # {}
  BY <1>0, EventsAssumption
<1>2. PICK i \in T : \A j \in T : ~(<<j, i>> \in OpToRel(<, Nat))
  BY <1>1, NatLessThanWellFounded, WFMin
<1>3. \A j \in T : ~(j < i)
  BY <1>1, <1>2 DEF OpToRel
<1>4. PICK p \in B : i = Events - p[1]
  BY <1>2
<1>5. \A q \in B : ~(Events - q[1] < Events - p[1])
  BY <1>3, <1>4
<1>6. \A q \in B : q[1] <= p[1]
  BY <1>0, <1>5, EventsAssumption
<1> DEFINE U == {Events - q[2] : q \in {q \in B : q[1] = p[1]}}
<1>7. U \subseteq Nat /\ U # {}
  BY <1>0, EventsAssumption
<1>8. PICK k \in U : \A j \in U : ~(<<j, k>> \in OpToRel(<, Nat))
  BY <1>7, NatLessThanWellFounded, WFMin
<1>9. \A j \in U : ~(j < k)
  BY <1>7, <1>8 DEF OpToRel
<1>10. PICK l \in B : l[1] = p[1] /\ k = Events - l[2]
  BY <1>8
<1>11. \A q \in B : q[1] = l[1] => ~(Events - q[2] < Events - l[2])
  BY <1>9, <1>10
<1> HIDE DEF T, U
<1>12. \A q \in B : l = q \/ D!Before(q, l)
  <2> TAKE q \in B
  <2>1. q[1] <= l[1]
    BY <1>6, <1>10
  <2>2. q[1] = l[1] => q[2] <= l[2]
    BY <1>0, <1>11, EventsAssumption
  <2>3. q[1] = l[1] /\ q[2] = l[2] => q = l
    BY <1>0
  <2> QED BY <1>0, <2>1, <2>2, <2>3 DEF D!Before
<1> QED BY <1>12 DEF D!Last

\* r tells the groups that these pairs make: a pair has one root, and no set that the pairs
\* do not leave has an event without its root.
Tells(r, B) ==
    /\ \A p \in B : r[p[1]] = r[p[2]]
    /\ \A h \in SUBSET D!Event :
        (\A p \in B : p[1] \in h <=> p[2] \in h) => \A x \in D!Event : x \in h <=> r[x] \in h

LEMMA MergedTells ==
  ASSUME NEW B \in SUBSET D!Pair, NEW p \in B, NEW parent, NEW r, Forest(parent, r), Tells(r, B \ {p})
  PROVE  Tells(Merged(r, p), B)
<1>1. \A q \in B : q[1] \in D!Event /\ q[2] \in D!Event
  BY DEF D!Pair
<1>2. \A x \in D!Event : r[x] \in D!Event /\ Merged(r, p)[x] = IF r[x] = r[p[1]] THEN r[p[2]] ELSE r[x]
  BY DEF Merged, Forest
<1>3. ASSUME NEW q \in B PROVE Merged(r, p)[q[1]] = Merged(r, p)[q[2]]
  <2>1. CASE q = p
    BY <1>1, <1>2, <2>1
  <2>2. CASE q # p
    <3>1. r[q[1]] = r[q[2]]
      BY <2>2 DEF Tells
    <3> QED BY <1>1, <1>2, <3>1
  <2> QED BY <2>1, <2>2
<1>4. ASSUME NEW h \in SUBSET D!Event, \A q \in B : q[1] \in h <=> q[2] \in h, NEW x \in D!Event
      PROVE  x \in h <=> Merged(r, p)[x] \in h
  <2>1. \A y \in D!Event : y \in h <=> r[y] \in h
    BY <1>4 DEF Tells
  <2>2. p[1] \in h <=> p[2] \in h
    BY <1>4
  <2> QED BY <1>1, <1>2, <2>1, <2>2
<1> QED BY <1>3, <1>4 DEF Tells

\* The union-find leaves a forest whose roots tell the groups.
LEMMA ParentsTell ==
  ASSUME NEW pairs \in SUBSET D!Pair
  PROVE  \E r, d : /\ Forest(D!Parents(pairs), r) /\ Depth(D!Parents(pairs), d)
                   /\ Tells(r, pairs)
<1> DEFINE Body(f, B) == IF B = {} THEN [x \in D!Event |-> x]
                         ELSE D!Joined(f[B \ {D!Last(B)}], D!Last(B))
           Good(f, k) == /\ f = [B \in SUBSET pairs |-> f[B]]
                         /\ \A B \in SUBSET pairs : Cardinality(B) <= k => f[B] = Body(f, B)
           after == CHOOSE f : f = [B \in SUBSET pairs |-> Body(f, B)]
<1>1. ASSUME NEW B \in SUBSET pairs, B # {}
      PROVE  /\ B \ {D!Last(B)} \in SUBSET pairs /\ D!Last(B) \in B /\ B \in SUBSET D!Pair
             /\ Cardinality(B \ {D!Last(B)}) = Cardinality(B) - 1
             /\ Cardinality(B) \in Nat /\ Cardinality(B) - 1 \in Nat
  <2>1. B \in SUBSET D!Pair /\ D!Last(B) \in B
    BY <1>1, OneIsLast
  <2>2. IsFiniteSet(B) /\ Cardinality(B) \in Nat /\ Cardinality(B \ {D!Last(B)}) \in Nat
    BY <2>1, PairsAreFinite
  <2> QED BY <2>1, <2>2, FS_RemoveElement
<1>2. \A k \in Nat : \E f : Good(f, k)
  <2> DEFINE T == {k \in Nat : \E f : Good(f, k)}
  <2>1. 0 \in T
    <3> DEFINE f == [B \in SUBSET pairs |-> [x \in D!Event |-> x]]
    <3>1. ASSUME NEW B \in SUBSET pairs, Cardinality(B) <= 0 PROVE B = {}
      <4>1. IsFiniteSet(B) /\ Cardinality(B) \in Nat
        BY PairsAreFinite
      <4> QED BY <3>1, <4>1, FS_EmptySet
    <3>2. Good(f, 0)
      BY <3>1
    <3> HIDE DEF Good
    <3> QED BY <3>2
  <2>2. ASSUME NEW k \in Nat, k \in T PROVE k + 1 \in T
    <3>1. PICK f : Good(f, k)
      BY <2>2
    <3> DEFINE g == [B \in SUBSET pairs |-> Body(f, B)]
    <3>2. ASSUME NEW B \in SUBSET pairs, Cardinality(B) <= k + 1 PROVE g[B] = Body(g, B)
      <4>1. CASE B = {}
        BY <4>1
      <4>2. CASE B # {}
        <5>1. B \ {D!Last(B)} \in SUBSET pairs /\ Cardinality(B \ {D!Last(B)}) <= k
          BY <1>1, <3>2, <4>2
        <5>2. g[B \ {D!Last(B)}] = f[B \ {D!Last(B)}]
          BY <3>1, <5>1
        <5> QED BY <4>2, <5>2
      <4> QED BY <4>1, <4>2
    <3>3. Good(g, k + 1)
      BY <3>2
    <3> HIDE DEF Good
    <3> QED BY <3>3
  <2> HIDE DEF T
  <2>3. Nat \subseteq T
    BY <2>1, <2>2, Numbers
  <2> QED BY <2>3 DEF T
<1>3. after = [B \in SUBSET pairs |-> Body(after, B)]
  <2>1. PICK f : Good(f, Cardinality(pairs))
    BY <1>2, PairsAreFinite
  <2>2. \A B \in SUBSET pairs : Cardinality(B) <= Cardinality(pairs)
    BY PairsAreFinite, FS_Subset
  <2>3. f = [B \in SUBSET pairs |-> f[B]]
    BY <2>1
  <2>4. f = [B \in SUBSET pairs |-> Body(f, B)]
    BY <2>1, <2>2, <2>3
  <2> HIDE DEF Body
  <2> QED BY <2>4
<1>4. D!Parents(pairs) = after[pairs]
  BY DEF D!Parents
<1> HIDE DEF after
<1>5. \A B \in SUBSET pairs : after[B] = Body(after, B)
  BY <1>3
<1> DEFINE Told(B) == \E r, d : Forest(after[B], r) /\ Depth(after[B], d) /\ Tells(r, B)
<1>6. Told({})
  <2> DEFINE id == [x \in D!Event |-> x]
             zero == [x \in D!Event |-> 0]
  <2>1. after[{}] = id
    BY <1>5
  <2>2. Forest(id, id)
    BY DEF Forest
  <2>3. RootsOf(id) = 1 .. Events
    BY DEF RootsOf, D!Event
  <2>4. Cardinality(RootsOf(id)) = Events
    BY <2>3, FS_Interval, EventsAssumption
  <2>5. Depth(id, zero)
    BY <2>4, EventsAssumption DEF Depth
  <2>6. Tells(id, {})
    BY DEF Tells
  <2> HIDE DEF id, zero
  <2> QED BY <2>1, <2>2, <2>5, <2>6
<1>7. ASSUME NEW B \in SUBSET pairs, B # {}, Told(B \ {D!Last(B)}) PROVE Told(B)
  <2> DEFINE p == D!Last(B)
             old == after[B \ {p}]
  <2>1. p \in B /\ B \in SUBSET D!Pair /\ p \in D!Pair
    BY <1>1, <1>7
  <2>2. PICK r, d : Forest(old, r) /\ Depth(old, d) /\ Tells(r, B \ {p})
    BY <1>7
  <2>3. after[B] = D!Joined(old, p)
    BY <1>5, <1>7
  <2> HIDE DEF p, old
  <2>4. Forest(after[B], Merged(r, p))
    BY <2>1, <2>2, <2>3, JoinedForest
  <2>5. PICK e : Depth(after[B], e)
    BY <2>1, <2>2, <2>3, JoinedDepth
  <2>6. Tells(Merged(r, p), B)
    BY <2>1, <2>2, MergedTells
  <2> QED BY <2>4, <2>5, <2>6
<1> HIDE DEF Told
<1>8. \A k \in Nat : \A B \in SUBSET pairs : Cardinality(B) = k => Told(B)
  <2> DEFINE T == {k \in Nat : \A B \in SUBSET pairs : Cardinality(B) = k => Told(B)}
  <2>1. 0 \in T
    <3>1. ASSUME NEW B \in SUBSET pairs, Cardinality(B) = 0 PROVE B = {}
      <4>1. IsFiniteSet(B)
        BY PairsAreFinite
      <4> QED BY <3>1, <4>1, FS_EmptySet
    <3> QED BY <1>6, <3>1
  <2>2. ASSUME NEW k \in Nat, k \in T PROVE k + 1 \in T
    <3> SUFFICES ASSUME NEW B \in SUBSET pairs, Cardinality(B) = k + 1 PROVE Told(B)
      OBVIOUS
    <3>1. B # {}
      <4>1. Cardinality({}) = 0
        BY FS_EmptySet
      <4> QED BY <4>1
    <3>2. B \ {D!Last(B)} \in SUBSET pairs /\ Cardinality(B \ {D!Last(B)}) = k
      BY <1>1, <3>1
    <3>3. Told(B \ {D!Last(B)})
      BY <2>2, <3>2
    <3> QED BY <1>7, <3>1, <3>3
  <2> HIDE DEF T
  <2>3. Nat \subseteq T
    BY <2>1, <2>2, Numbers
  <2> QED BY <2>3 DEF T
<1>9. Told(pairs)
  BY <1>8, PairsAreFinite
<1> QED BY <1>4, <1>9 DEF Told

LEMMA CountedInD == \A B : D!Cardinality(B) = Cardinality(B)
  BY DEF D!Cardinality, Cardinality, D!IsFiniteSet, IsFiniteSet

\* The groups are the components: the union-find over all pairs loses and joins nothing.
LEMMA GroupsAre ==
  ASSUME NEW dismissed
  PROVE  D!Groups(dismissed) = {g \in SUBSET D!Event : Cardinality(g) > 1 /\ D!Component(g, dismissed)}
<1> DEFINE pairs == {p \in D!Pair : D!Joins(p, dismissed)}
           root == D!Root(D!Parents(pairs))
           V == UNION {{p[1], p[2]} : p \in pairs}
           GroupOf(k) == {x \in V : root[x] = k}
<1>1. D!Groups(dismissed) = {g \in {GroupOf(k) : k \in D!Event} : Cardinality(g) > 1}
  BY CountedInD DEF D!Groups
<1>2. pairs \in SUBSET D!Pair
  OBVIOUS
<1>3. PICK r, d : Forest(D!Parents(pairs), r) /\ Depth(D!Parents(pairs), d) /\ Tells(r, pairs)
  BY <1>2, ParentsTell
<1>4. root = r
  BY <1>3, RootIsFound
<1>5. \A x \in D!Event : r[x] \in D!Event /\ r[r[x]] = r[x]
  BY <1>3 DEF Forest
<1> HIDE DEF root
<1>6. \A p \in pairs : p[1] \in D!Event /\ p[2] \in D!Event /\ p[1] \in V /\ p[2] \in V
  BY DEF D!Pair
<1>7. V \subseteq D!Event
  BY <1>6
<1>8. \A h : D!Closed(h, dismissed) <=> \A p \in pairs : p[1] \in h <=> p[2] \in h
  BY DEF D!Closed
<1>9. ASSUME NEW h \in SUBSET D!Event, D!Closed(h, dismissed), NEW x \in D!Event PROVE x \in h <=> r[x] \in h
  BY <1>3, <1>8, <1>9 DEF Tells
<1>10. \A p \in pairs : r[p[1]] = r[p[2]]
  BY <1>3 DEF Tells
<1> HIDE DEF V, pairs
<1>11. ASSUME NEW k \in D!Event
       PROVE  GroupOf(k) \in SUBSET D!Event /\ D!Component(GroupOf(k), dismissed)
  <2>1. D!Closed(GroupOf(k), dismissed)
    BY <1>4, <1>6, <1>8, <1>10
  <2>2. ASSUME NEW h \in SUBSET GroupOf(k), h # {}, h # GroupOf(k), D!Closed(h, dismissed) PROVE FALSE
    <3>1. PICK x \in h : x \in D!Event /\ r[x] = k
      BY <1>4, <1>7, <2>2
    <3>2. PICK y \in GroupOf(k) : y \notin h /\ y \in D!Event /\ r[y] = k
      BY <1>4, <1>7, <2>2
    <3>3. h \in SUBSET D!Event
      BY <1>7
    <3> QED BY <1>9, <2>2, <3>1, <3>2, <3>3
  <2> QED BY <1>7, <2>1, <2>2 DEF D!Component
<1>12. ASSUME NEW g \in SUBSET D!Event, Cardinality(g) > 1, D!Component(g, dismissed)
       PROVE  \E k \in D!Event : g = GroupOf(k)
  <2>1. D!Closed(g, dismissed) /\ \A h \in SUBSET g : h = {} \/ h = g \/ ~D!Closed(h, dismissed)
    BY <1>12 DEF D!Component
  <2>2. g # {}
    <3>1. Cardinality({}) = 0
      BY FS_EmptySet
    <3> QED BY <1>12, <3>1
  <2>3. PICK x \in g : TRUE
    BY <2>2
  <2> DEFINE K == {y \in D!Event : r[y] = r[x]}
  <2>4. K \subseteq g /\ x \in K
    <3>1. r[x] \in g
      BY <1>9, <2>1
    <3> QED BY <1>9, <2>1, <3>1
  <2>5. D!Closed(K, dismissed)
    BY <1>6, <1>8, <1>10
  <2>6. K = g
    BY <2>1, <2>4, <2>5
  <2>7. ASSUME NEW y \in g PROVE y \in V
    <3> SUFFICES ASSUME y \notin V PROVE FALSE
      OBVIOUS
    <3>1. D!Closed({y}, dismissed)
      BY <1>6, <1>8
    <3>2. {y} = g
      BY <2>1, <3>1
    <3>3. Cardinality({y}) = 1
      BY FS_Singleton
    <3> QED BY <1>12, <3>2, <3>3
  <2>8. g = GroupOf(r[x])
    BY <1>4, <1>7, <2>6, <2>7
  <2> QED BY <1>5, <2>8
<1> HIDE DEF GroupOf
<1> QED BY <1>1, <1>11, <1>12

\* What is kept is what a scan makes of the dismissals it read.
Scanned == part = "duplicates" /\ cache # null => cache = [groups |-> D!Groups(cache.read), read |-> cache.read]

LEMMA ScannedHolds == CalendarSpec => []Scanned
<1>1. CalendarInit => Scanned
  BY DEF CalendarInit, SyncInit, FileInit, RecurrenceInit, RacingInit, DuplicatesInit, D!Init, Scanned
<1>2. Scanned /\ [CalendarNext]_all => Scanned'
  <2> SUFFICES ASSUME Scanned, [CalendarNext]_all PROVE Scanned'
    OBVIOUS
  <2>1. CASE UNCHANGED all
    BY <2>1 DEF all, duplicatesVars, Scanned, D!Groups, D!Joins
  <2>2. CASE SyncStep \/ FileStep \/ RecurrenceStep \/ RacingStep
    BY <2>2 DEF SyncStep, FileStep, RecurrenceStep, RacingStep, Scanned
  <2>3. CASE DuplicatesStep
    <3>1. UNCHANGED <<day, match>>
      BY <2>3 DEF DuplicatesStep, D!Next, D!FromCache, D!BeginScan, D!LoadIgnored, D!Keep, D!Ignore, D!BeginIgnore, D!Expire
    <3>2. \A dismissed : D!Groups(dismissed)' = D!Groups(dismissed)
      BY <3>1 DEF D!Groups, D!Joins
    <3>3. cache' \in {cache, null} \/ \E p \in Proc : cache' = [groups |-> D!Groups(scans[p].read), read |-> scans[p].read]
      BY <2>3 DEF DuplicatesStep, D!Next, D!FromCache, D!BeginScan, D!LoadIgnored, D!Keep, D!Ignore, D!BeginIgnore, D!Expire
    <3> QED BY <2>3, <3>2, <3>3 DEF DuplicatesStep, Scanned
  <2> QED BY <2>1, <2>2, <2>3 DEF CalendarNext
<1> QED BY <1>1, <1>2, PTL DEF CalendarSpec

\* event-duplicates.service.ts (scan): whatever the events, which of them match and what was
\* dismissed, the list shows the components of the pairs of one day that match and were not dismissed.
THEOREM GroupsAreTheComponents == CalendarSpec => []GroupsAreComponents
<1>1. Scanned => GroupsAreComponents
  BY GroupsAre, CountedInD DEF Scanned, GroupsAreComponents, D!GroupsAreComponents
<1> QED BY <1>1, ScannedHolds, PTL
=============================================================================
