------------------------------- MODULE Backups -------------------------------
(***************************************************************************)
(* Making backups at one provider (utils/backupService.js).  A backup, on  *)
(* request or on schedule, is packed and uploaded, and then the oldest     *)
(* ones beyond the retention are deleted.  Backups overlap, an             *)
(* administrator changes the retention (controllers/backup.js), every step *)
(* may fail, and the process may crash between two steps.                  *)
(*                                                                         *)
(* A backup is the number of its upload, so a larger one is newer; module  *)
(* Startup has what is in it.                                              *)
(*                                                                         *)
(* Bounds: MaxBackups uploads.  A job identifier serves again.             *)
(***************************************************************************)
EXTENDS Naturals, FiniteSets

CONSTANTS Jobs,         \* backups made at once
          Retentions,   \* what the retention may be set to
          MaxBackups

ASSUME BackupsAssumption == Retentions \subseteq Nat /\ MaxBackups \in Nat

VARIABLES stored,      \* what the provider lists
          uploads,     \* how many there were
          retention,
          due,         \* the schedule's interval has passed since the last mark
          job,
          least,       \* history: the least retention while a job lists or deletes
          disturbed    \* history: a failure, crash or setting since the last read of the retention

bkVars == <<stored, uploads, retention, due, job, least, disturbed>>

NoJob == [at |-> "idle", keep |-> 0, todo |-> {}]

BackupsTypeOK ==
    /\ uploads \in 0..MaxBackups
    /\ stored \subseteq 1..uploads
    /\ retention \in Retentions /\ least \in Retentions
    /\ due \in BOOLEAN /\ disturbed \in BOOLEAN
    /\ job \in [Jobs -> [at : {"idle", "pack", "upload", "settings", "list", "delete"},
                         keep : Retentions \cup {0}, todo : SUBSET (1..MaxBackups)]]

BackupsInit ==
    /\ stored = {} /\ uploads = 0
    /\ retention \in Retentions /\ least = retention
    /\ due \in BOOLEAN
    /\ job = [j \in Jobs |-> NoJob]
    /\ disturbed = FALSE

Step(j, record) == job' = [job EXCEPT ![j] = record]
Active == {j \in Jobs : job[j].at # "idle"}

(* runDueBackups: the run is marked before it is made *)
RunDue(j) ==
    /\ due /\ job[j].at = "idle"
    /\ due' = FALSE
    /\ Step(j, [NoJob EXCEPT !.at = "pack"])
    /\ UNCHANGED <<stored, uploads, retention, least, disturbed>>

TimePasses ==
    /\ ~due /\ due' = TRUE
    /\ UNCHANGED <<stored, uploads, retention, job, least, disturbed>>

Request(j) ==
    /\ job[j].at = "idle"
    /\ Step(j, [NoJob EXCEPT !.at = "pack"])
    /\ UNCHANGED <<stored, uploads, retention, due, least, disturbed>>

Pack(j) ==
    /\ job[j].at = "pack"
    /\ Step(j, [job[j] EXCEPT !.at = "upload"])
    /\ UNCHANGED <<stored, uploads, retention, due, least, disturbed>>

Upload(j) ==
    /\ job[j].at = "upload" /\ uploads < MaxBackups
    /\ uploads' = uploads + 1
    /\ stored' = stored \cup {uploads'}
    /\ Step(j, [job[j] EXCEPT !.at = "settings"])
    /\ UNCHANGED <<retention, due, least, disturbed>>

(* mutated: the retention counts from zero *)
BeyondBug(kept) == {b \in stored : Cardinality({c \in stored : c > b}) + 1 >= kept}

Beyond(kept) == {b \in stored : Cardinality({c \in stored : c > b}) >= kept}

(* enforceRetention reads the retention, then lists what is beyond it *)
ReadRetention(j) ==
    /\ job[j].at = "settings"
    /\ Step(j, [job[j] EXCEPT !.at = "list", !.keep = retention])
    /\ disturbed' = (disturbed /\ Active # {j})
    /\ UNCHANGED <<stored, uploads, retention, due, least>>

List(j) ==
    /\ job[j].at = "list"
    /\ Step(j, [job[j] EXCEPT !.at = "delete", !.todo = Beyond(job[j].keep)])
    /\ UNCHANGED <<stored, uploads, retention, due, least, disturbed>>

(* the newest of them first; one already gone is no failure *)
Delete(j) ==
    /\ job[j].at = "delete"
    /\ \E b \in job[j].todo :
          /\ \A c \in job[j].todo : c <= b
          /\ stored' = stored \ {b}
          /\ Step(j, [job[j] EXCEPT !.todo = @ \ {b}])
    /\ UNCHANGED <<uploads, retention, due, least, disturbed>>

(* what the history knows of past retentions is forgotten at rest *)
Rest(jobs) == IF jobs = {} THEN retention ELSE least

Made(j) ==
    /\ job[j].at = "delete" /\ job[j].todo = {}
    /\ Step(j, NoJob)
    /\ least' = Rest(Active \ {j})
    /\ UNCHANGED <<stored, uploads, retention, due, disturbed>>

(* any step fails, the removal of the archive after the upload included *)
Fail(j) ==
    /\ job[j].at # "idle"
    /\ Step(j, NoJob)
    /\ least' = Rest(Active \ {j})
    /\ disturbed' = TRUE
    /\ UNCHANGED <<stored, uploads, retention, due>>

SetRetention ==
    /\ \E r \in Retentions : /\ retention' = r
                             /\ least' = IF r < least \/ Active = {} THEN r ELSE least
    /\ disturbed' = TRUE
    /\ UNCHANGED <<stored, uploads, due, job>>

(* the mark stays: what was due is not made again *)
Crash ==
    /\ Active # {}
    /\ job' = [j \in Jobs |-> NoJob]
    /\ least' = retention
    /\ disturbed' = TRUE
    /\ UNCHANGED <<stored, uploads, retention, due>>

BackupsNext ==
    \/ \E j \in Jobs : \/ RunDue(j) \/ Request(j) \/ Pack(j) \/ Upload(j)
                       \/ ReadRetention(j) \/ List(j) \/ Delete(j) \/ Made(j) \/ Fail(j)
    \/ TimePasses \/ SetRetention \/ Crash

BackupsSpec == BackupsInit /\ [][BackupsNext]_bkVars

(* However backups overlap, one is deleted only while as many newer ones   *)
(* are stored as the retention asks for (the least it was set to while     *)
(* they were made).  When the backups that overlapped are made, no more    *)
(* are stored than the retention, unless one of them failed, the process   *)
(* crashed, or the retention was changed: the next backup makes up for it. *)
BackupKept ==
    [][/\ \A b \in stored \ stored' : Cardinality({c \in stored' : c > b}) >= least
       /\ Active # {} /\ Active' = {} /\ ~disturbed' => Cardinality(stored') <= retention]_bkVars

=============================================================================
