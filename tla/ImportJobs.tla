----------------------------- MODULE ImportJobs -----------------------------
(***************************************************************************)
(* The jobs of import.service.ts: one flag in the memory of the process    *)
(* says whether an import runs, one row per run in the database says how   *)
(* it ended, and a start of the process fails the runs a crash left open.  *)
(***************************************************************************)
EXTENDS Naturals, Sequences, FiniteSets

CONSTANTS
  Run,         \* ids a row of import_runs can get
  Proc,        \* start requests the server can have in flight
  MaxCrashes,  \* bound on the crashes of the process
  Ops          \* operations the instance offers (see Operation)

Operation == {"scrape", "file", "fail", "crash"}

ASSUME CrashBound == MaxCrashes \in Nat
ASSUME OpsAssumption == Ops \subseteq Operation

VARIABLES
  status,         \* run -> status column, "none" before the row exists
  fileRun,        \* runs with a file name
  finished,       \* runs in the order of their finishedAt; a later entry overrides
  cooled,         \* how many of finished are longer ago than the cooldown
  up,             \* the process runs
  importRunning,  \* its flag
  exec,           \* runs whose executeImport is under way in it
  recovery,       \* recoverStaleRuns: what it has to fail yet
  req,            \* Proc -> where a start request waits
  crashes         \* crashes so far

vars == <<status, fileRun, finished, cooled, up, importRunning, exec, recovery, req, crashes>>
table == <<status, fileRun, finished, cooled>>

Idle == [op |-> "idle"]

\* "cooldown" awaits the last completed run, "save" the check of the file or
\* the insert of the run.
Request == {Idle} \cup [op : {"cooldown", "save"}, file : BOOLEAN]

Recovery == [phase : {"read", "fail"}, stale : SUBSET Run]
Recovered == [phase |-> "fail", stale |-> {}]
Reading == [phase |-> "read", stale |-> {}]

Running == {r \in Run : status[r] = "running"}

Init ==
  /\ status = [r \in Run |-> "none"]
  /\ fileRun = {}
  /\ finished = <<>>
  /\ cooled = 0
  /\ up = TRUE
  /\ importRunning = FALSE
  /\ exec = {}
  /\ recovery = Recovered
  /\ req = [p \in Proc |-> Idle]
  /\ crashes = 0

(***************************************************************************)
(* Starting an import.                                                     *)
(***************************************************************************)
Free == ~importRunning

BeginScrape(p) ==
  /\ up /\ Free
  /\ req[p] = Idle
  /\ req' = [req EXCEPT ![p] = [op |-> "cooldown", file |-> FALSE]]
  /\ UNCHANGED <<table, up, importRunning, exec, recovery, crashes>>

BeginFile(p) ==
  /\ up /\ Free
  /\ req[p] = Idle
  /\ req' = [req EXCEPT ![p] = [op |-> "save", file |-> TRUE]]
  /\ UNCHANGED <<table, up, importRunning, exec, recovery, crashes>>

\* The run that finished last among the completed ones is a scraper run of a
\* moment ago.
Completed == {i \in 1..Len(finished) : status[finished[i]] = "completed"}
OnCooldown ==
  \E i \in Completed :
    /\ \A j \in Completed : j <= i
    /\ finished[i] \notin fileRun
    /\ i > cooled

CheckCooldown(p) ==
  /\ req[p].op = "cooldown"
  /\ req' = [req EXCEPT ![p] = IF OnCooldown THEN Idle ELSE [op |-> "save", file |-> FALSE]]
  /\ UNCHANGED <<table, up, importRunning, exec, recovery, crashes>>

\* The row is inserted, then the flag set and executeImport called.
StartRun(p, r) ==
  /\ req[p].op = "save"
  /\ status[r] = "none"
  /\ status' = [status EXCEPT ![r] = "running"]
  /\ fileRun' = IF req[p].file THEN fileRun \cup {r} ELSE fileRun
  /\ importRunning' = TRUE
  /\ exec' = exec \cup {r}
  /\ req' = [req EXCEPT ![p] = Idle]
  /\ UNCHANGED <<finished, cooled, up, recovery, crashes>>

(***************************************************************************)
(* The end of a run.                                                       *)
(***************************************************************************)
\* finishRun and failRun save the outcome and clear the flag.
End(r, outcome) ==
  /\ status' = [status EXCEPT ![r] = outcome]
  /\ finished' = Append(finished, r)
  /\ importRunning' = FALSE

FinishRun(r) ==
  /\ r \in exec
  /\ End(r, "completed")
  /\ exec' = exec \ {r}
  /\ UNCHANGED <<fileRun, cooled, up, recovery, req, crashes>>

FailRun(r) ==
  /\ r \in exec
  /\ End(r, "failed")
  /\ exec' = exec \ {r}
  /\ UNCHANGED <<fileRun, cooled, up, recovery, req, crashes>>

\* The cooldown of the run that finished first is over.
CoolOff ==
  /\ cooled < Len(finished)
  /\ cooled' = cooled + 1
  /\ UNCHANGED <<status, fileRun, finished, up, importRunning, exec, recovery, req, crashes>>

(***************************************************************************)
(* The process: a crash, also the end of a process whose failRun could not *)
(* save; its start; and the recovery, which nobody waits for.              *)
(***************************************************************************)
Crash ==
  /\ up /\ crashes < MaxCrashes
  /\ up' = FALSE
  /\ importRunning' = FALSE
  /\ exec' = {}
  /\ recovery' = Reading
  /\ req' = [p \in Proc |-> Idle]
  /\ crashes' = crashes + 1
  /\ UNCHANGED table

Boot ==
  /\ ~up
  /\ up' = TRUE
  /\ UNCHANGED <<table, importRunning, exec, recovery, req, crashes>>

\* Fault: the recovery finds no run to end.
ReadStale_Nothing == recovery' = Recovered
ReadStale == recovery' = [phase |-> "fail", stale |-> Running]

RecoverRead ==
  /\ up
  /\ recovery.phase = "read"
  /\ ReadStale
  /\ UNCHANGED <<table, up, importRunning, exec, req, crashes>>

RecoverRun(r) ==
  /\ up
  /\ recovery.phase = "fail" /\ r \in recovery.stale
  /\ End(r, "failed")
  /\ recovery' = [phase |-> "fail", stale |-> recovery.stale \ {r}]
  /\ UNCHANGED <<fileRun, cooled, up, exec, req, crashes>>

-----------------------------------------------------------------------------
Next ==
  \/ \E p \in Proc :
       \/ "scrape" \in Ops /\ BeginScrape(p)
       \/ "file" \in Ops /\ BeginFile(p)
       \/ CheckCooldown(p)
       \/ \E r \in Run : StartRun(p, r)
  \/ \E r \in Run :
       \/ FinishRun(r)
       \/ "fail" \in Ops /\ FailRun(r)
       \/ RecoverRun(r)
  \/ CoolOff
  \/ "crash" \in Ops /\ Crash
  \/ Boot
  \/ RecoverRead

Spec == Init /\ [][Next]_vars

\* Fetching has timeouts, so executeImport ends; the container is restarted;
\* Node goes on with the recovery.
Fairness ==
  /\ WF_vars(Boot)
  /\ WF_vars(RecoverRead)
  /\ \A r \in Run : WF_vars(FinishRun(r)) /\ WF_vars(RecoverRun(r))

FairSpec == Spec /\ Fairness

-----------------------------------------------------------------------------
\* Types; the process that is down has nothing in memory.
TypeOK ==
  /\ status \in [Run -> {"none", "running", "completed", "failed"}]
  /\ fileRun \in SUBSET Run
  /\ finished \in Seq(Run)
  /\ cooled \in 0..Len(finished)
  /\ up \in BOOLEAN
  /\ importRunning \in BOOLEAN
  /\ exec \in SUBSET Run
  /\ recovery \in Recovery
  /\ req \in [Proc -> Request]
  /\ crashes \in 0..MaxCrashes
  /\ ~up => exec = {} /\ ~importRunning /\ \A p \in Proc : req[p] = Idle

\* Whatever crashes when, a run marked as running has somebody who will end
\* it: its executeImport, or a recovery that has it on its list or has not
\* read the list yet.
NoForgottenRun ==
  \A r \in Running : r \in exec \/ recovery.phase = "read" \/ r \in recovery.stale

\* docs/IMPORTING.md, Rate limiting: only one import can run at a time.
OneAtATime == Cardinality(exec) <= 1

\* Same place: the cooldown starts when the previous job finishes, completed
\* or failed.
CooldownHolds ==
  [][\A p \in Proc :
        req[p].op = "cooldown" /\ req'[p].op = "save" => cooled = Len(finished)]_vars

\* import.service.ts: the recovery fails the runs of a previous process.
RecoveryFailsOnlyOrphans ==
  [][\A r \in Run : RecoverRun(r) => r \notin exec]_vars

\* Every run comes to an end, through any number of crashes.
RunsEnd == \A r \in Run : status[r] = "running" ~> status[r] \in {"completed", "failed"}
=============================================================================
