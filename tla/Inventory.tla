------------------------------ MODULE Inventory ------------------------------
(***************************************************************************)
(* Folders and entries (controllers/folder.js, controllers/entry.js, the   *)
(* access checks of utils/permission.js) of one account that is a member   *)
(* of one organization, so an owner is "me" or "org".  Permissions are     *)
(* therefore all granted; what is kept is the tree, and that everything    *)
(* has the owner of the folder it is in.                                   *)
(*                                                                         *)
(* A request is a record that moves through the awaits of its handler:     *)
(*   "asked"  its own row was read, the target folder was not              *)
(*   "walk"   a folder move climbs from the target to look for itself      *)
(*   "tasks"  it works through a list of folders, one query per step       *)
(*   "list"   reposition lists the target's entries next                   *)
(*   "write"  the last write is due                                        *)
(* No foreign key keeps parentId (migration 0001), so a parent may be gone *)
(* and its folders count as roots.  entries.folderId has one (migration    *)
(* 0011): it becomes NULL with its folder and a missing folder makes the   *)
(* write fail.                                                             *)
(*                                                                         *)
(* Bounds: a request, folder or entry identifier serves once; Init has     *)
(* every sound tree.                                                       *)
(***************************************************************************)
EXTENDS Sequences

CONSTANTS Folders, Entries,
          Jobs,      \* one request each
          Root       \* no folder

ASSUME RootAssumption == Root \notin Folders

Owned == {"me", "org"}

VARIABLES folder,   \* the folder rows
          entry,    \* the entry rows
          job,      \* requests under way
          stale,    \* history: a row the request had read was changed by another
          tainted   \* history: a request wrote although it was stale

invVars == <<folder, entry, job, stale, tainted>>

Here(f) == folder[f].at = "here"
Children(f) == {g \in Folders : Here(g) /\ folder[g].parent = f}
Inside(f) == {x \in Entries : entry[x].at = "here" /\ entry[x].folder = f}

NoJob == [at |-> "idle", op |-> "none", f |-> Root, e |-> Root, to |-> Root, cur |-> Root, seen |-> {},
          owner |-> "me", was |-> "me", tasks |-> <<>>, rest |-> {}]
EndedJob == [NoJob EXCEPT !.at = "done"]

FolderOps == {"createFolder", "deleteFolder", "moveFolder"}
EntryOps == {"createEntry", "deleteEntry", "editEntry", "copyEntry", "reposition"}

Task == [k : {"each", "drop", "gone", "own", "entries", "subs"}, s : SUBSET Folders]

InventoryJob ==
    [at : {"idle", "asked", "walk", "tasks", "list", "write", "done"},
     op : FolderOps \cup EntryOps \cup {"none"},
     f : Folders \cup {Root}, e : Entries \cup {Root}, to : Folders \cup {Root}, cur : Folders \cup {Root},
     seen : SUBSET Folders,   \* history: the folders a climb has read
     owner : Owned, was : Owned, tasks : Seq(Task), rest : SUBSET Entries]

InventoryTypeOK ==
    /\ folder \in [Folders -> [at : {"none", "here", "gone"}, parent : Folders \cup {Root}, owner : Owned]]
    /\ entry \in [Entries -> [at : {"none", "here", "gone"}, folder : Folders \cup {Root}, owner : Owned]]
    /\ job \in [Jobs -> InventoryJob]
    /\ stale \in [Jobs -> BOOLEAN]
    /\ tainted \in BOOLEAN

(* nothing is above itself: no set of folders has all its parents inside *)
NoCycle == ~ \E S \in SUBSET Folders \ {{}} : \A f \in S : Here(f) /\ folder[f].parent \in S

OwnersAgree ==
    /\ \A f \in Folders : Here(f) /\ folder[f].parent # Root /\ Here(folder[f].parent)
                             => folder[f].owner = folder[folder[f].parent].owner
    /\ \A f \in Folders : \A x \in Inside(f) : entry[x].owner = folder[f].owner

NoFolder == [at |-> "none", parent |-> Root, owner |-> "me"]
NoEntry == [at |-> "none", folder |-> Root, owner |-> "me"]

InventoryInit ==
    /\ folder \in [Folders -> {NoFolder} \cup [at : {"here"}, parent : Folders \cup {Root}, owner : Owned]]
    /\ entry \in [Entries -> {NoEntry} \cup [at : {"here"}, folder : Folders \cup {Root}, owner : Owned]]
    /\ \A f \in Folders : folder[f].parent # Root => Here(folder[f].parent)
    /\ \A x \in Entries : entry[x].folder # Root => Here(entry[x].folder)
    /\ NoCycle /\ OwnersAgree
    /\ job = [j \in Jobs |-> NoJob]
    /\ stale = [j \in Jobs |-> FALSE]
    /\ tainted = FALSE

Go(j, record) ==
    /\ job' = [job EXCEPT ![j] = record]
    /\ UNCHANGED <<folder, entry, stale, tainted>>

(***************************************************************************)
(* History.  A request is old when a row it has read, and still relies on, *)
(* was changed by another: the owner of the folder it places something in; *)
(* for a move also that of its own folder, of the folders it is about to   *)
(* work through and of those they are in, and the parent of a folder that  *)
(* its climb read or that it is about to work through; the entry it is     *)
(* copying; the place of a sibling it has listed.  A row that is deleted   *)
(* changed in none of these.                                               *)
(***************************************************************************)

Placing == {"createFolder", "createEntry", "editEntry", "reposition"}

Listed(k) == UNION {job[k].tasks[i].s : i \in DOMAIN job[k].tasks}

OwnersRead(k) ==
    IF job[k].op = "moveFolder"
    THEN {job[k].f} \cup (IF job[k].at = "asked" THEN {} ELSE {job[k].to})
         \cup Listed(k) \cup {folder[h].parent : h \in Listed(k)}
    ELSE IF job[k].op \in Placing /\ job[k].at # "asked" THEN {job[k].to} ELSE {}

ParentsRead(k) ==
    IF job[k].op = "moveFolder" THEN (job[k].seen \cup Listed(k)) \ {job[k].f} ELSE {}

Outdated(k) ==
    \/ \E f \in Folders : /\ Here(f) /\ folder'[f].at = "here"
                          /\ \/ f \in OwnersRead(k) /\ folder'[f].owner # folder[f].owner
                             \/ f \in ParentsRead(k) /\ folder'[f].parent # folder[f].parent
    \/ job[k].op = "copyEntry" /\ entry'[job[k].e] # entry[job[k].e]
    \/ \E x \in job[k].rest \ {job[k].e} : entry'[x].at = "here" /\ entry'[x].folder # job[k].to

Wrote(j, record) ==
    /\ job' = [job EXCEPT ![j] = record]
    /\ stale' = [k \in Jobs |->
                    IF k = j THEN stale[j] /\ record.at # "done"
                    ELSE stale[k] \/ (job[k].at \notin {"idle", "done"} /\ Outdated(k))]
    /\ tainted' = (tainted \/ (stale[j] /\ job[j].op \notin {"deleteFolder", "deleteEntry"}))

(***************************************************************************)
(* A request begins with the row it is about.                              *)
(***************************************************************************)

Begin(j) ==
    /\ job[j].at = "idle"
    /\ \/ \E op \in {"createFolder", "createEntry"}, to \in Folders \cup {Root}, o \in Owned :
             /\ to # Root => o = "me"
             /\ Go(j, [NoJob EXCEPT !.at = IF to = Root THEN "write" ELSE "asked",
                                    !.op = op, !.to = to, !.owner = o])
       \/ \E f \in Folders : Here(f) /\ Go(j, [NoJob EXCEPT !.at = "tasks", !.op = "deleteFolder", !.f = f,
                                                            !.tasks = <<[k |-> "each", s |-> {f}]>>])
       \/ \E f \in Folders, to \in Folders \cup {Root}, o \in Owned :
             /\ Here(f)
             /\ to # Root => o = "me"
             /\ Go(j, [NoJob EXCEPT !.at = "asked", !.op = "moveFolder", !.f = f, !.to = to,
                                    !.owner = o, !.was = folder[f].owner])
       \/ \E x \in Entries, op \in {"deleteEntry", "copyEntry"} :
             /\ entry[x].at = "here"
             /\ Go(j, [NoJob EXCEPT !.at = "write", !.op = op, !.e = x,
                                    !.to = entry[x].folder, !.owner = entry[x].owner])
       \/ \E x \in Entries, to \in Folders \cup {Root}, o \in Owned, op \in {"editEntry", "reposition"} :
             /\ entry[x].at = "here"
             /\ to # Root \/ op = "editEntry" => o = "me"
             /\ Go(j, [NoJob EXCEPT !.at = IF to # Root THEN "asked" ELSE IF op = "editEntry" THEN "write" ELSE "list",
                                    !.op = op, !.e = x, !.to = to, !.owner = o])

(* the target folder, and with it the owner of what is placed in it *)
ReadFolder(j) ==
    /\ job[j].at = "asked" /\ job[j].op # "moveFolder"
    /\ Go(j, IF ~Here(job[j].to) THEN EndedJob
             ELSE [job[j] EXCEPT !.at = IF job[j].op = "reposition" THEN "list" ELSE "write",
                                 !.owner = folder[job[j].to].owner])

(***************************************************************************)
(* Moving a folder: read the target, climb to the top, change the owner of *)
(* everything below when it differs, then write the parent.                *)
(***************************************************************************)

Sub(S) == IF S = {} THEN <<>> ELSE <<[k |-> "each", s |-> S]>>

Climbed(record) ==
    IF record.owner = record.was THEN [record EXCEPT !.at = "write"]
    ELSE [record EXCEPT !.at = "tasks", !.tasks = Sub({record.f})]

(* mutated: the climb looks at the target alone *)
ClimbBug(record, g) ==
    IF g = record.f THEN EndedJob ELSE Climbed(record)

(* one turn of the loop: the row of g is read *)
Climb(record, g) ==
    IF ~Here(g) THEN Climbed(record)
    ELSE IF g = record.f THEN EndedJob
    ELSE IF folder[g].parent = Root THEN Climbed(record)
    ELSE [record EXCEPT !.at = "walk", !.cur = folder[g].parent]

ReadTarget(j) ==
    /\ job[j].at = "asked" /\ job[j].op = "moveFolder"
    /\ LET to == job[j].to
       IN Go(j, IF to = Root THEN Climbed(job[j])
                ELSE IF ~Here(to) THEN EndedJob
                ELSE Climb([job[j] EXCEPT !.owner = folder[to].owner, !.seen = {to}], to))

Walk(j) ==
    /\ job[j].at = "walk"
    /\ Go(j, Climb([job[j] EXCEPT !.cur = Root, !.seen = @ \cup {job[j].cur}], job[j].cur))

(***************************************************************************)
(* Recursive work, one query per step.  "each" takes the folders of a list *)
(* one after the other; updateFolderContext sets the owner of a folder and *)
(* of its entries and then lists its subfolders; deleteFolder lists them,  *)
(* deletes them first and then the entries and the folder.                 *)
(***************************************************************************)

Top(j) == Head(job[j].tasks)
Rest(j) == Tail(job[j].tasks)
Working(j, k) == job[j].at = "tasks" /\ job[j].tasks # <<>> /\ Top(j).k = k

After(j, tasks) ==
    IF tasks # <<>> THEN [job[j] EXCEPT !.tasks = tasks]
    ELSE IF job[j].op = "moveFolder" THEN [job[j] EXCEPT !.at = "write", !.tasks = <<>>]
    ELSE EndedJob

TaskFor(k, f) == [k |-> k, s |-> {f}]

TakeFolder(j) ==
    /\ Working(j, "each")
    /\ \E f \in Top(j).s :
          LET others == Sub(Top(j).s \ {f}) \o Rest(j)
          IN IF job[j].op = "moveFolder"
             THEN Go(j, After(j, <<TaskFor("own", f), TaskFor("entries", f), TaskFor("subs", f)>> \o others))
             ELSE Go(j, After(j, IF Here(f) THEN Sub(Children(f)) \o <<TaskFor("drop", f), TaskFor("gone", f)>> \o others
                                 ELSE others))

SetFolderOwner(j) ==
    /\ Working(j, "own")
    /\ folder' = [f \in Folders |-> IF f \in Top(j).s /\ Here(f) THEN [folder[f] EXCEPT !.owner = job[j].owner]
                                    ELSE folder[f]]
    /\ UNCHANGED entry
    /\ Wrote(j, After(j, Rest(j)))

SetEntryOwner(j) ==
    /\ Working(j, "entries")
    /\ entry' = [x \in Entries |-> IF \E f \in Top(j).s : x \in Inside(f)
                                   THEN [entry[x] EXCEPT !.owner = job[j].owner] ELSE entry[x]]
    /\ UNCHANGED folder
    /\ Wrote(j, After(j, Rest(j)))

ListSubfolders(j) ==
    /\ Working(j, "subs")
    /\ Go(j, After(j, Sub(UNION {Children(f) : f \in Top(j).s}) \o Rest(j)))

DropEntries(j) ==
    /\ Working(j, "drop")
    /\ entry' = [x \in Entries |-> IF \E f \in Top(j).s : x \in Inside(f)
                                   THEN [entry[x] EXCEPT !.at = "gone", !.folder = Root] ELSE entry[x]]
    /\ UNCHANGED folder
    /\ Wrote(j, After(j, Rest(j)))

(* entries that came meanwhile stay, outside any folder *)
DropFolder(j) ==
    /\ Working(j, "gone")
    /\ folder' = [f \in Folders |-> IF f \in Top(j).s THEN [NoFolder EXCEPT !.at = "gone"] ELSE folder[f]]
    /\ entry' = [x \in Entries |-> IF \E f \in Top(j).s : x \in Inside(f)
                                   THEN [entry[x] EXCEPT !.folder = Root] ELSE entry[x]]
    /\ Wrote(j, After(j, Rest(j)))

(***************************************************************************)
(* Last writes.                                                            *)
(***************************************************************************)

Final(j, ops) == job[j].at = "write" /\ job[j].op \in ops

SetParent(j) ==
    /\ Final(j, {"moveFolder"})
    /\ folder' = [folder EXCEPT ![job[j].f].parent = IF Here(job[j].f) THEN job[j].to ELSE @]
    /\ UNCHANGED entry
    /\ Wrote(j, EndedJob)

CreateFolder(j) ==
    /\ Final(j, {"createFolder"})
    /\ \E f \in Folders :
          /\ folder[f].at = "none"
          /\ folder' = [folder EXCEPT ![f] = [at |-> "here", parent |-> job[j].to, owner |-> job[j].owner]]
    /\ UNCHANGED entry
    /\ Wrote(j, EndedJob)

FolderThere(to) == to \in {Root} \cup {f \in Folders : Here(f)}

CreateEntry(j) ==
    /\ Final(j, {"createEntry", "copyEntry"}) /\ FolderThere(job[j].to)
    /\ \E x \in Entries :
          /\ entry[x].at = "none"
          /\ entry' = [entry EXCEPT ![x] = [at |-> "here", folder |-> job[j].to, owner |-> job[j].owner]]
    /\ UNCHANGED folder
    /\ Wrote(j, EndedJob)

DeleteEntry(j) ==
    /\ Final(j, {"deleteEntry"})
    /\ entry' = [entry EXCEPT ![job[j].e] = IF @.at = "here" THEN [@ EXCEPT !.at = "gone", !.folder = Root] ELSE @]
    /\ UNCHANGED folder
    /\ Wrote(j, EndedJob)

(* an update finds the row or changes nothing *)
PutIn(x, to, o) == IF entry[x].at = "here" THEN [at |-> "here", folder |-> to, owner |-> o] ELSE entry[x]

(* out of every folder the entry keeps the owner it has *)
EditEntry(j) ==
    /\ Final(j, {"editEntry"}) /\ FolderThere(job[j].to)
    /\ LET x == job[j].e
       IN entry' = [entry EXCEPT ![x] =
                       PutIn(x, job[j].to, IF job[j].to = Root THEN entry[x].owner ELSE job[j].owner)]
    /\ UNCHANGED folder
    /\ Wrote(j, EndedJob)

(* the foreign key refuses the write *)
FolderMissing(j) ==
    /\ Final(j, {"createEntry", "copyEntry", "editEntry", "reposition"}) /\ ~FolderThere(job[j].to)
    /\ Go(j, EndedJob)

(* the entries of the target, one update each; the target of the drop may  *)
(* not be among them                                                       *)
ListSiblings(j) ==
    /\ job[j].at = "list"
    /\ LET siblings == {x \in Inside(job[j].to) : entry[x].owner = job[j].owner}
       IN \/ Go(j, [job[j] EXCEPT !.at = "write", !.rest = siblings \cup {job[j].e}])
          \/ Go(j, EndedJob)

Reposition(j) ==
    /\ Final(j, {"reposition"}) /\ FolderThere(job[j].to)
    /\ \E x \in job[j].rest :
          /\ entry' = [entry EXCEPT ![x] =
                          PutIn(x, job[j].to, IF x = job[j].e THEN job[j].owner ELSE entry[x].owner)]
          /\ UNCHANGED folder
          /\ Wrote(j, IF job[j].rest = {x} THEN EndedJob ELSE [job[j] EXCEPT !.rest = @ \ {x}])

JobStep(j) ==
    \/ Begin(j) \/ ReadFolder(j) \/ ReadTarget(j) \/ Walk(j)
    \/ TakeFolder(j) \/ SetFolderOwner(j) \/ SetEntryOwner(j) \/ ListSubfolders(j)
    \/ DropEntries(j) \/ DropFolder(j)
    \/ SetParent(j) \/ CreateFolder(j) \/ CreateEntry(j) \/ DeleteEntry(j) \/ EditEntry(j)
    \/ FolderMissing(j) \/ ListSiblings(j) \/ Reposition(j)

InventoryNext == \E j \in Jobs : JobStep(j)

InventorySpec == InventoryInit /\ [][InventoryNext]_invVars

(* a folder is changing its owner with all that is below it *)
Relocating == \E j \in Jobs : /\ job[j].op = "moveFolder" /\ job[j].owner # job[j].was
                              /\ job[j].at \in {"tasks", "write"}

(* Whatever requests overlap, the folders stay a tree and everything has   *)
(* the owner of its folder once no folder is on its way to another owner.  *)
(* This holds until a request writes after a row that it had read, and     *)
(* relied on, was changed by another (Outdated): requests elsewhere in the *)
(* tree, and deletions, disturb nobody.                                    *)
TreeSound == ~tainted => NoCycle /\ (Relocating \/ OwnersAgree)

=============================================================================
