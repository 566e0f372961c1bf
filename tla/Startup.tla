------------------------------- MODULE Startup -------------------------------
(***************************************************************************)
(* From the start of the process to its end (index.js): migrations         *)
(* (utils/migrationRunner.js), serving, and the restore of a backup        *)
(* (utils/backupService.js), which puts another database and other files   *)
(* in place and ends the process.  The container starts it again.  The     *)
(* process may crash between any two steps.                                *)
(*                                                                         *)
(* A migration is a number and takes two steps.  Most look at every column *)
(* and table they add, or are rolled back, and so go on where an earlier   *)
(* run ended; some look at the first alone and return early when it is     *)
(* there (0002, 0029, 0041).  The contents of database, recordings and     *)
(* logs come from before ("live") or from the backup.                      *)
(*                                                                         *)
(* Bounds: the migrations, and one backup that is restored at will.        *)
(***************************************************************************)
EXTENDS Naturals

CONSTANTS Last,      \* the number of migrations
          Guarded,   \* those that return early
          Dirs       \* recordings, logs

Migrations == 1..Last

ASSUME MigrationsAssumption == Last \in Nat /\ Guarded \subseteq Migrations

VARIABLES proc,       \* what the process is doing
          from,       \* where the database in place is from
          done,       \* how far each migration is applied to it: 2 is all
          recorded,   \* the table SequelizeMeta
          up,         \* the migration under way, 0 for none
          making,     \* this run of it made the first step
          dir,        \* where each directory is from
          backup,     \* what the backup holds
          todo,       \* directories the restore under way has to replace
          partial,    \* history: those that return early and were ended inside
          cut         \* history: a restore failed or was ended after it began

stVars == <<proc, from, done, recorded, up, making, dir, backup, todo, partial, cut>>

Applied(n) == [m \in Migrations |-> IF m <= n THEN 2 ELSE 0]

StartupTypeOK ==
    /\ proc \in {"down", "migrating", "serving", "closing", "replacing", "closed", "exiting"}
    /\ from \in {"live", "backup"}
    /\ done \in [Migrations -> 0..2]
    /\ recorded \subseteq Migrations
    /\ up \in 0..Last
    /\ dir \in [Dirs -> {"live", "backup", "none"}]
    /\ backup \in [db : BOOLEAN, version : 0..Last, dirs : SUBSET Dirs]
    /\ todo \subseteq Dirs
    /\ partial \subseteq Migrations
    /\ making \in BOOLEAN /\ cut \in BOOLEAN

(* a database of any earlier release, or none *)
StartupInit ==
    /\ proc = "down"
    /\ from = "live"
    /\ \E n \in 0..Last : done = Applied(n) /\ recorded = 1..n
    /\ up = 0
    /\ dir = [d \in Dirs |-> "live"]
    /\ backup \in [db : BOOLEAN, version : 0..Last, dirs : SUBSET Dirs]
    /\ backup.db \/ backup.dirs # {}
    /\ todo = {}
    /\ partial = {} /\ making = FALSE /\ cut = FALSE

Data == <<from, dir, backup>>

Boot ==
    /\ proc = "down"
    /\ proc' = "migrating"
    /\ UNCHANGED <<Data, done, recorded, up, making, todo, partial, cut>>

(***************************************************************************)
(* runMigrations                                                           *)
(***************************************************************************)

Pending == Migrations \ recorded

(* the next file by name; one that finds its table has nothing to do *)
Take ==
    /\ proc = "migrating" /\ up = 0
    /\ \E m \in Pending : (\A n \in Pending : m <= n) /\ up' = m
    /\ UNCHANGED <<Data, proc, done, recorded, making, todo, partial, cut>>

Create ==
    /\ proc = "migrating" /\ up # 0 /\ done[up] = 0
    /\ done' = [done EXCEPT ![up] = 1]
    /\ making' = TRUE
    /\ UNCHANGED <<Data, proc, recorded, up, todo, partial, cut>>

ReturnsEarly == up \in Guarded /\ ~making

(* the run that made the table goes on to the indexes *)
Index ==
    /\ proc = "migrating" /\ up # 0 /\ done[up] = 1 /\ ~ReturnsEarly
    /\ done' = [done EXCEPT ![up] = 2]
    /\ UNCHANGED <<Data, proc, recorded, up, making, todo, partial, cut>>

Record ==
    /\ proc = "migrating" /\ up # 0
    /\ done[up] = 2 \/ (done[up] = 1 /\ ReturnsEarly)
    /\ recorded' = recorded \cup {up}
    /\ up' = 0 /\ making' = FALSE
    /\ UNCHANGED <<Data, proc, done, todo, partial, cut>>

Serve ==
    /\ proc = "migrating" /\ up = 0 /\ Pending = {}
    /\ proc' = "serving"
    /\ UNCHANGED <<Data, done, recorded, up, making, todo, partial, cut>>

(***************************************************************************)
(* restoreBackup, after the archive was unpacked                           *)
(***************************************************************************)

BeginRestore ==
    /\ proc = "serving"
    /\ proc' = IF backup.db THEN "closing" ELSE "replacing"
    /\ todo' = backup.dirs
    /\ UNCHANGED <<Data, done, recorded, up, making, partial, cut>>

(* db.close, and the file is replaced by rename *)
ReplaceDatabase ==
    /\ proc = "closing"
    /\ from' = "backup"
    /\ done' = Applied(backup.version) /\ recorded' = 1..backup.version
    /\ proc' = "replacing"
    /\ partial' = {}
    /\ UNCHANGED <<dir, backup, up, making, todo, cut>>

(* a directory is removed, then the other one renamed *)
RemoveDirectory ==
    /\ proc = "replacing"
    /\ \E d \in todo : dir[d] # "none" /\ dir' = [dir EXCEPT ![d] = "none"]
    /\ UNCHANGED <<from, backup, proc, done, recorded, up, making, todo, partial, cut>>

RenameDirectory ==
    /\ proc = "replacing"
    /\ \E d \in todo : dir[d] = "none" /\ dir' = [dir EXCEPT ![d] = "backup"] /\ todo' = todo \ {d}
    /\ UNCHANGED <<from, backup, proc, done, recorded, up, making, partial, cut>>

(* mutated: the process goes on with what was put in place *)
RestoredBug ==
    /\ proc = "replacing" /\ todo = {}
    /\ proc' = "serving"
    /\ UNCHANGED <<Data, done, recorded, up, making, todo, partial, cut>>

Restored ==
    /\ proc = "replacing" /\ todo = {}
    /\ proc' = "exiting"
    /\ UNCHANGED <<Data, done, recorded, up, making, todo, partial, cut>>

(* One of the steps throws.  The request ends, the process does not, and   *)
(* the database stays closed.                                              *)
RestoreFails ==
    /\ proc \in {"closing", "replacing"}
    /\ proc' = IF backup.db THEN "closed" ELSE "serving"
    /\ todo' = {}
    /\ cut' = TRUE
    /\ UNCHANGED <<Data, done, recorded, up, making, partial>>

(* a crash, the exit after a restore or a failed migration, a stop *)
Stop ==
    /\ proc # "down"
    /\ proc' = "down"
    /\ up' = 0 /\ making' = FALSE /\ todo' = {}
    /\ partial' = partial \cup {m \in {up} \cap Guarded : done[m] = 1}
    /\ cut' = (cut \/ proc \in {"closing", "replacing"})
    /\ UNCHANGED <<Data, done, recorded>>

StartupNext == \/ Boot \/ Take \/ Create \/ Index \/ Record \/ Serve
               \/ BeginRestore \/ ReplaceDatabase \/ RemoveDirectory \/ RenameDirectory
               \/ Restored \/ RestoreFails \/ Stop

StartupSpec == StartupInit /\ [][StartupNext]_stVars

Restorable == /\ backup.db => from = "backup"
              /\ \A d \in Dirs : dir[d] = IF d \in backup.dirs THEN "backup" ELSE "live"
Untouched == from = "live" /\ \A d \in Dirs : dir[d] = "live"

(* A process that serves has every migration recorded and applied, which   *)
(* ever database it found; what it serves is all from before or as the     *)
(* backup has it; and a process without its database is one that ends.     *)
(* The exceptions: a process that ended inside a migration that returns    *)
(* early, which no later start makes up for, and a restore that failed or  *)
(* was ended in the middle.                                                *)
StartsWhole ==
    /\ proc = "serving" => /\ Pending = {}
                           /\ \A m \in Migrations \ partial : done[m] = 2
                           /\ cut \/ Restorable \/ Untouched
    /\ proc = "closed" => cut

=============================================================================
