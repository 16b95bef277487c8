----------------------------- MODULE ImportSync -----------------------------
(***************************************************************************)
(* One import of one source (import.service.ts, import-diff.ts) against    *)
(* the events it owns, while people correct them (events.service.ts).      *)
(*                                                                         *)
(* Both sides read an event, work on the entity (the place is looked up    *)
(* over the network), and save it: TypeORM's save writes every column in   *)
(* which the entity differs from the row of now, so the row becomes the    *)
(* entity, with the columns nobody meant to write.                         *)
(***************************************************************************)
EXTENDS Naturals, FiniteSets

CONSTANTS
  Record,   \* external ids of the source; each names one event, all upcoming
  Field,    \* the fields an import may set (IMPORT_FIELDS)
  Value,    \* what a field can hold
  Editor,   \* update requests the server can have in flight
  Mixes     \* of which a behaviour has one: the operations offered, the records and fields in use

Operation == {"source", "edit", "saveFails", "runFails"}

Absent == "absent"     \* undefined in a record, NULL in a row

Content == [Field -> Value \cup {Absent}]
NoRow == [exists |-> FALSE]
Entity == [exists : {TRUE}, val : Content, editedFields : SUBSET Field,
           missing : BOOLEAN, seen : BOOLEAN]

VARIABLES
  listing,  \* what the source lists: a subset of Record and its content
  row,      \* the event of each record; seen: lastSeenAt is not before the
            \* start of the import under way
  job,      \* the import: its phase, what it fetched and where it is
  edit,     \* Editor -> the entity an update request is about to save
  corrected, \* the records somebody corrected since the import last read an event: history
  mix       \* the mix this behaviour has

vars == <<listing, row, job, edit, corrected, mix>>

Listing == [listed : SUBSET Record, content : [Record -> Content]]
Job == [phase : {"idle", "plan", "save", "stamp", "flag"}, fetched : Listing, complete : BOOLEAN,
        todo : SUBSET Record, cur : Record, entity : {NoRow} \cup Entity, seen : SUBSET Record]
Edit == [busy : BOOLEAN, rec : Record, entity : {NoRow} \cup Entity]

NoEdit == [busy |-> FALSE, rec |-> CHOOSE r \in Record : TRUE, entity |-> NoRow]

Unlisted == [listed |-> {}, content |-> [r \in Record |-> [f \in Field |-> Absent]]]
IdleJob == [phase |-> "idle", fetched |-> Unlisted, complete |-> FALSE, todo |-> {},
            cur |-> CHOOSE r \in Record : TRUE, entity |-> NoRow, seen |-> {}]

\* Content of the fields in use.
Given(c) == \A f \in Field \ mix.fields : c[f] = Absent

\* Any calendar the past can have left: events with corrections or without.
Init ==
  /\ mix \in Mixes
  /\ listing \in {l \in Listing :
                     /\ l.listed \subseteq mix.records
                     /\ \A r \in Record : Given(l.content[r])
                     /\ \A r \in Record \ mix.records : l.content[r] = Unlisted.content[r]}
  /\ row \in {t \in [Record -> {NoRow} \cup {e \in Entity : ~e.seen}] :
                 \A r \in Record : t[r].exists =>
                     r \in mix.records /\ Given(t[r].val) /\ t[r].editedFields \subseteq mix.fields}
  /\ job = IdleJob
  /\ edit = [p \in Editor |-> NoEdit]
  /\ corrected = {}

(***************************************************************************)
(* The import.                                                             *)
(***************************************************************************)
SourceChanges(r, content) ==
  /\ \/ listing' = [listing EXCEPT !.listed = @ \ {r}]
     \/ listing' = [listing EXCEPT !.listed = @ \cup {r}, !.content[r] = content]
  /\ UNCHANGED <<row, job, edit, corrected, mix>>

Unseen(e) == IF e.exists THEN [e EXCEPT !.seen = FALSE] ELSE e

\* fetch: an incomplete one misses some of the records.
Fetch(records, complete) ==
  /\ job.phase = "idle"
  /\ complete => records = listing.listed
  /\ job' = [IdleJob EXCEPT !.phase = "plan", !.complete = complete, !.todo = records,
                            !.fetched = [listing EXCEPT !.listed = records]]
  /\ row' = [r \in Record |-> Unseen(row[r])]
  /\ edit' = [p \in Editor |-> [edit[p] EXCEPT !.entity = Unseen(@)]]
  /\ UNCHANGED <<listing, corrected, mix>>

\* diffImportedEvent: what the record would change, and what a correction keeps.
Differs_NullClears(e, c) == {f \in Field : c[f] # e.val[f]}
Differs(e, c) == {f \in Field : c[f] # Absent /\ c[f] # e.val[f]}
\* Fault: corrected fields are not left out.
Changes_Unprotected(e, c) == Differs(e, c)
Changes(e, c) == Differs(e, c) \ e.editedFields

\* planEvent and createEvent, or planUpdate and applyChanges.
Applied(e, c) ==
  IF ~e.exists THEN [exists |-> TRUE, val |-> c, editedFields |-> {}, missing |-> FALSE, seen |-> TRUE]
  ELSE [e EXCEPT !.val = [f \in Field |-> IF f \in Changes(e, c) THEN c[f] ELSE @[f]]]

\* An unchanged event is not saved.
PlanUnchanged(r) ==
  /\ job.phase = "plan" /\ r \in job.todo
  /\ row[r].exists /\ Changes(row[r], job.fetched.content[r]) = {}
  /\ job' = [job EXCEPT !.todo = @ \ {r}, !.seen = @ \cup {r}]
  /\ UNCHANGED <<listing, row, edit, corrected, mix>>

Plan(r) ==
  /\ job.phase = "plan" /\ r \in job.todo
  /\ row[r].exists => Changes(row[r], job.fetched.content[r]) # {}
  /\ job' = [job EXCEPT !.phase = "save", !.todo = @ \ {r}, !.cur = r,
                        !.entity = Applied(row[r], job.fetched.content[r])]
  /\ corrected' = {}
  /\ UNCHANGED <<listing, row, edit, mix>>

SaveRecord ==
  /\ job.phase = "save"
  /\ row' = [row EXCEPT ![job.cur] = job.entity]
  /\ job' = [job EXCEPT !.phase = "plan", !.entity = NoRow, !.seen = @ \cup {job.cur}]
  /\ UNCHANGED <<listing, edit, corrected, mix>>

\* One broken record does not abort the run.
SaveFails ==
  /\ job.phase = "save"
  /\ job' = [job EXCEPT !.phase = "plan", !.entity = NoRow]
  /\ UNCHANGED <<listing, row, edit, corrected, mix>>

\* recordSeen, first statement: stamp what was seen.
Stamped(e) == [e EXCEPT !.seen = TRUE, !.missing = FALSE]

Stamp ==
  /\ job.phase = "plan" /\ job.todo = {}
  /\ row' = [r \in Record |-> IF r \in job.seen /\ row[r].exists THEN Stamped(row[r]) ELSE row[r]]
  /\ job' = [job EXCEPT !.phase = "flag"]
  /\ UNCHANGED <<listing, edit, corrected, mix>>

\* recordSeen, second statement: flag what a complete run did not find.
Lost(e) == job.complete /\ e.exists /\ ~e.seen

Flag ==
  /\ job.phase = "flag"
  /\ row' = [r \in Record |-> IF Lost(row[r]) THEN [row[r] EXCEPT !.missing = TRUE] ELSE row[r]]
  /\ job' = IdleJob
  /\ UNCHANGED <<listing, edit, corrected, mix>>

\* A failure outside the records ends the run (failRun), as a crash does.
RunFails ==
  /\ job.phase # "idle"
  /\ job' = IdleJob
  /\ UNCHANGED <<listing, row, edit, corrected, mix>>

(***************************************************************************)
(* A correction by hand.                                                   *)
(***************************************************************************)
\* update marks the field as edited if the value it was read with differs.
BeginUpdate(p, r, f, v) ==
  /\ ~edit[p].busy
  /\ row[r].exists
  /\ edit' = [edit EXCEPT ![p] =
       [busy |-> TRUE, rec |-> r,
        entity |-> [row[r] EXCEPT !.val = [@ EXCEPT ![f] = v],
                                  !.editedFields = IF row[r].val[f] = v THEN @ ELSE @ \cup {f}]]]
  /\ UNCHANGED <<listing, row, job, corrected, mix>>

Update(p) ==
  /\ edit[p].busy
  /\ row' = [row EXCEPT ![edit[p].rec] = edit[p].entity]
  /\ edit' = [edit EXCEPT ![p] = NoEdit]
  /\ corrected' = corrected \cup {edit[p].rec}
  /\ UNCHANGED <<listing, job, mix>>

-----------------------------------------------------------------------------
ImportStep ==
  \/ \E records \in SUBSET listing.listed, complete \in BOOLEAN : Fetch(records, complete)
  \/ \E r \in Record : PlanUnchanged(r) \/ Plan(r)
  \/ SaveRecord
  \/ "saveFails" \in mix.ops /\ SaveFails
  \/ Stamp
  \/ Flag
  \/ "runFails" \in mix.ops /\ RunFails

EditStep ==
  \/ "edit" \in mix.ops /\ \E p \in Editor, r \in Record, f \in mix.fields, v \in Value : BeginUpdate(p, r, f, v)
  \/ \E p \in Editor : Update(p)

Next ==
  \/ "source" \in mix.ops /\ \E r \in mix.records, c \in {c \in Content : Given(c)} : SourceChanges(r, c)
  \/ ImportStep
  \/ EditStep

Spec == Init /\ [][Next]_vars

-----------------------------------------------------------------------------
\* Invariants, and what every step has to keep to ([][...]_vars).
\* Types; a run that has read an event and will save it holds an entity.
TypeOK ==
  /\ listing \in Listing
  /\ row \in [Record -> {NoRow} \cup Entity]
  /\ job \in Job
  /\ edit \in [Editor -> Edit]
  /\ job.phase = "save" => job.entity.exists
  /\ \A p \in Editor : edit[p].busy => edit[p].entity.exists
  /\ corrected \subseteq Record
  /\ \A r \in job.seen : row[r].exists

\* The value of a field that somebody corrected, or the mark, goes lost.
CorrectionLost(r, f) ==
  /\ row[r].exists /\ f \in row[r].editedFields
  /\ row'[r] # row[r]
  /\ row'[r].val[f] # row[r].val[f] \/ f \notin row'[r].editedFields

\* Whatever interleaves, an import undoes a correction only by saving an event
\* that it read before a correction of that event was saved; a fresh read protects it.
\* (People who edit the same event at the same time overwrite each other.)
CorrectionsLostOnlyToStaleSave ==
  \A r \in Record, f \in Field :
        CorrectionLost(r, f)
          => \/ \E p \in Editor : Update(p) /\ edit[p].rec = r
             \/ job.phase = "save" /\ job.cur = r /\ r \in corrected

\* docs/IMPORT-FILE-FORMAT.md: an import never overwrites a field that a person
\* edited after the import.
CorrectionsStand ==
  ImportStep => \A r \in Record, f \in Field : ~CorrectionLost(r, f)

\* docs/IMPORT-FILE-FORMAT.md: a missing field never clears a stored value, as
\* long as nobody fills the field at the same time.
NeverCleared ==
  \A r \in Record, f \in Field :
        "edit" \notin mix.ops /\ row[r].exists /\ row[r].val[f] # Absent => row'[r].val[f] # Absent

\* When an import without concurrent edits has gone through its records, every
\* event it saw has the values of the source, but for corrected fields.
TakesOver ==
  "edit" \notin mix.ops /\ job.phase = "flag" =>
    \A r \in job.seen, f \in Field :
      LET given == job.fetched.content[r][f]
      IN given # Absent /\ f \notin row[r].editedFields => row[r].val[f] = given

\* docs/IMPORTING.md: only a run that fetched the whole source flags events, and
\* only events it did not find any more - but for an event whose save failed or
\* whose stamp the save of a correction has written over.
FlagsOnlyUnlisted ==
  \A r \in Record :
        mix.ops \subseteq {"source", "runFails"} /\ Flag /\ row[r].exists /\ ~row[r].missing /\ row'[r].missing
          => job.complete /\ r \notin job.fetched.listed

\* docs/IMPORTING.md: the same for every mix; a failed save and a correction break it.
FlagsOnlyMissing ==
  \A r \in Record :
        Flag /\ row[r].exists /\ ~row[r].missing /\ row'[r].missing
          => job.complete /\ r \notin job.fetched.listed
=============================================================================
