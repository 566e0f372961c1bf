-------------------------- MODULE InventoryProofs --------------------------
(***************************************************************************)
(* The folder tree keeps its shape and its owners (controllers/folder.js,  *)
(* controllers/entry.js), for any number of folders, entries and requests. *)
(* InventoryInv is the inductive invariant: what a request names exists or *)
(* did (RowsNamed); what a request knows of the tables still holds unless  *)
(* another made it old (JobSound); and, unless a request wrote what it no  *)
(* longer knew, there is no cycle and each difference of owners between a  *)
(* folder and what is in it is one that a move is about to settle          *)
(* (FoldersExplained, EntriesExplained).  The latter stops where a move    *)
(* between owners was made old before its last write (Doomed): TreeSound   *)
(* speaks of no state in which a move between owners is under way, and     *)
(* that write makes the state tainted.                                     *)
(***************************************************************************)
EXTENDS Inventory, SequenceTheorems, TLAPS

----------------------------------------------------------------------------
(* What the lists of a request still hold *)

Await(k, tasks) == {f \in Folders : \E i \in DOMAIN tasks : tasks[i].k = k /\ f \in tasks[i].s}

Waits(j, k) == Await(k, job[j].tasks)
ToOwn(j) == Waits(j, "each") \cup Waits(j, "own")

(* a folder that is or was there *)
Existing == {f \in Folders : folder[f].at # "none"}
Placed == Existing \cup {Root}

(* a move and a deletion work through different lists *)
Kinds(op) == IF op = "moveFolder" THEN {"each", "own", "entries", "subs"} ELSE {"each", "drop", "gone"}
Lists(op, E) == Seq([k : Kinds(op), s : SUBSET E])

(* what a request names exists or did, and it is where its handler can be *)
NamedJob(q, E) ==
  /\ q.at \notin {"idle", "done"} /\ q.op \in {"moveFolder", "deleteFolder"} => q.f \in E
  /\ q.at = "walk" => q.cur \in E /\ q.op = "moveFolder"
  /\ q.at \notin {"idle", "done", "asked"} => q.to \in E \cup {Root}
  /\ q.at \notin {"idle", "done"} /\ q.op \in {"editEntry", "copyEntry", "reposition", "deleteEntry"} => q.e \in Entries
  /\ q.at = "tasks" => q.op \in {"moveFolder", "deleteFolder"}
  /\ q.at = "list" => q.op = "reposition"
  /\ q.at = "asked" /\ q.op # "moveFolder" => q.to # Root /\ q.op # "copyEntry"
  /\ q.seen \subseteq E
  /\ q.tasks \in Lists(q.op, E)

RowsNamed ==
  /\ \A f \in Folders : Here(f) => folder[f].parent \in Placed
  /\ \A x \in Entries : entry[x].at = "here" /\ entry[x].folder # Root => Here(entry[x].folder)
  /\ \A j \in Jobs : NamedJob(job[j], Existing)

(* the folders a climb has read: its target, not the folder that moves, and *)
(* with a folder that is there the one it is in, except where it goes next  *)
Traced(q, next) ==
  /\ q.to \in q.seen
  /\ Here(q.f) => q.f \notin q.seen
  /\ \A g \in q.seen : Here(g) => folder[g].parent \in q.seen \cup next

Relocates(j) == /\ job[j].op = "moveFolder" /\ job[j].owner # job[j].was
                /\ job[j].at \in {"tasks", "write"}
Fresh(j) == Relocates(j) /\ ~stale[j]
Doomed == \E j \in Jobs : Relocates(j) /\ stale[j]

(* the owner of a folder that is there *)
OwnedBy(f, o) == Here(f) => folder[f].owner = o

(* what a move that nothing made old knows *)
MoveSound(j) ==
  LET q == job[j]
  IN /\ q.at \in {"asked", "walk"} => OwnedBy(q.f, q.was) /\ q.tasks = <<>>
     /\ q.at = "walk" => q.to # Root /\ Traced(q, {q.cur})
     /\ q.at \in {"walk", "tasks", "write"} /\ q.to # Root => OwnedBy(q.to, q.owner)
     /\ q.at \in {"tasks", "write"} /\ q.to # Root => Traced(q, {Root})
     /\ q.at = "tasks" => q.owner # q.was /\ q.tasks # <<>>
     /\ q.at = "write" => q.tasks = <<>>
     /\ q.at \in {"tasks", "write"} =>
           /\ OwnedBy(q.f, q.owner) \/ q.f \in ToOwn(j)
           /\ q.tasks # <<>> => Await("own", Tail(q.tasks)) = {}
           /\ Waits(j, "own") \subseteq Waits(j, "entries") \cap Waits(j, "subs")
           /\ \A g \in Waits(j, "entries") \cup Waits(j, "subs") : OwnedBy(g, q.owner) \/ g \in Waits(j, "own")
           /\ \A h \in ToOwn(j) \ {q.f} :
                 Here(h) /\ folder[h].parent # Root => OwnedBy(folder[h].parent, q.owner)

(* what a request about an entry knows, or one that creates *)
PlaceSound(j) ==
  LET q == job[j]
  IN /\ q.op \in {"createFolder", "createEntry", "editEntry"} /\ q.at = "write" /\ q.to # Root => OwnedBy(q.to, q.owner)
     /\ q.op = "copyEntry" /\ q.at = "write" => entry[q.e] = [at |-> "here", folder |-> q.to, owner |-> q.owner]
     /\ q.op = "reposition" /\ q.at \in {"list", "write"} /\ q.to # Root => OwnedBy(q.to, q.owner)
     /\ q.op = "reposition" /\ q.at = "write" =>
           \A x \in q.rest \ {q.e} : entry[x].at = "here" => entry[x].folder = q.to

JobSound(j) == ~stale[j] => (job[j].op = "moveFolder" => MoveSound(j)) /\ PlaceSound(j)

(* a folder has the owner of the one it is in *)
Fits(h) == OwnedBy(folder[h].parent, folder[h].owner)

(* every difference of owners is one that a move is about to settle *)
Settles(j, h) == Fresh(j) /\ (h = job[j].f \/ h \in ToOwn(j) \/ folder[h].parent \in Waits(j, "subs"))
SettlesEntries(j, g) == Fresh(j) /\ g \in Waits(j, "entries")
FoldersExplained ==
  \A h \in Folders : Here(h) /\ folder[h].parent # Root =>
     Fits(h) \/ \E j \in Jobs : Settles(j, h)
EntriesExplained ==
  \A g \in Folders : \A x \in Inside(g) : entry[x].owner = folder[g].owner \/ \E j \in Jobs : SettlesEntries(j, g)

InventoryInv ==
  /\ InventoryTypeOK
  /\ RowsNamed
  /\ \A j \in Jobs : JobSound(j)
  /\ ~tainted => NoCycle /\ (Doomed \/ (FoldersExplained /\ EntriesExplained))

----------------------------------------------------------------------------
(* Lists of tasks *)

\* An empty list waits for nothing.
LEMMA AwaitNothing == ASSUME NEW k PROVE Await(k, <<>>) = {}
  BY DEF Await

\* A list waits for what its first task and its rest wait for.
LEMMA AwaitFirst ==
  ASSUME NEW tasks \in Seq(Task), tasks # <<>>, NEW k
  PROVE  /\ Head(tasks) \in Task /\ Tail(tasks) \in Seq(Task)
         /\ Await(k, tasks) = (IF Head(tasks).k = k THEN Head(tasks).s ELSE {}) \cup Await(k, Tail(tasks))
<1>1. /\ Head(tasks) \in Task /\ Tail(tasks) \in Seq(Task) /\ Len(tasks) \in Nat \ {0}
      /\ Len(Tail(tasks)) = Len(tasks) - 1 /\ Head(tasks) = tasks[1]
      /\ \A i \in 1..Len(Tail(tasks)) : Tail(tasks)[i] = tasks[i + 1]
      /\ DOMAIN tasks = 1..Len(tasks) /\ DOMAIN Tail(tasks) = 1..Len(Tail(tasks))
  BY HeadTailProperties, EmptySeq, LenProperties
<1>2. ASSUME NEW f \in Folders
      PROVE  f \in Await(k, tasks) <=> (Head(tasks).k = k /\ f \in Head(tasks).s) \/ f \in Await(k, Tail(tasks))
  <2>1. ASSUME NEW i \in DOMAIN tasks, tasks[i].k = k, f \in tasks[i].s, i # 1
        PROVE  f \in Await(k, Tail(tasks))
    <3>1. i - 1 \in DOMAIN Tail(tasks) /\ Tail(tasks)[i - 1] = tasks[i]
      BY <1>1, <2>1
    <3> QED
      BY <2>1, <3>1 DEF Await
  <2>2. ASSUME NEW i \in DOMAIN Tail(tasks), Tail(tasks)[i].k = k, f \in Tail(tasks)[i].s
        PROVE  f \in Await(k, tasks)
    <3>1. i + 1 \in DOMAIN tasks /\ Tail(tasks)[i] = tasks[i + 1]
      BY <1>1
    <3> QED
      BY <2>2, <3>1 DEF Await
  <2>3. Head(tasks).k = k /\ f \in Head(tasks).s => f \in Await(k, tasks)
    <3>1. 1 \in DOMAIN tasks
      BY <1>1
    <3> QED
      BY <1>1, <3>1 DEF Await
  <2> QED
    BY <1>1, <2>1, <2>2, <2>3 DEF Await
<1>3. Head(tasks).s \subseteq Folders
  BY <1>1 DEF Task
<1> QED
  BY <1>1, <1>2, <1>3 DEF Await

\* A list made of two waits for what either waits for.
LEMMA AwaitBoth ==
  ASSUME NEW s \in Seq(Task), NEW t \in Seq(Task), NEW k
  PROVE  s \o t \in Seq(Task) /\ Await(k, s \o t) = Await(k, s) \cup Await(k, t)
<1>1. /\ s \o t \in Seq(Task) /\ Len(s) \in Nat /\ Len(t) \in Nat
      /\ DOMAIN s = 1..Len(s) /\ DOMAIN t = 1..Len(t) /\ DOMAIN (s \o t) = 1..(Len(s) + Len(t))
      /\ \A i \in 1 .. Len(s) + Len(t) : (s \o t)[i] = IF i <= Len(s) THEN s[i] ELSE t[i - Len(s)]
  BY ConcatProperties, LenProperties
<1>2. ASSUME NEW f \in Await(k, s) PROVE f \in Await(k, s \o t)
  <2>1. PICK i \in DOMAIN s : s[i].k = k /\ f \in s[i].s
    BY DEF Await
  <2>2. i \in DOMAIN (s \o t) /\ (s \o t)[i] = s[i]
    BY <1>1
  <2> QED
    BY <2>1, <2>2 DEF Await
<1>3. ASSUME NEW f \in Await(k, t) PROVE f \in Await(k, s \o t)
  <2>1. PICK i \in DOMAIN t : t[i].k = k /\ f \in t[i].s
    BY DEF Await
  <2>2. i + Len(s) \in DOMAIN (s \o t) /\ (s \o t)[i + Len(s)] = t[i]
    BY <1>1
  <2> QED
    BY <2>1, <2>2 DEF Await
<1>4. ASSUME NEW f \in Await(k, s \o t) PROVE f \in Await(k, s) \cup Await(k, t)
  <2>1. PICK i \in DOMAIN (s \o t) : (s \o t)[i].k = k /\ f \in (s \o t)[i].s
    BY DEF Await
  <2>2. CASE i <= Len(s)
    <3>1. i \in DOMAIN s /\ (s \o t)[i] = s[i]
      BY <1>1, <2>2
    <3> QED
      BY <2>1, <3>1 DEF Await
  <2>3. CASE ~ (i <= Len(s))
    <3>1. i - Len(s) \in DOMAIN t /\ (s \o t)[i] = t[i - Len(s)]
      BY <1>1, <2>3
    <3> QED
      BY <2>1, <3>1 DEF Await
  <2> QED
    BY <2>2, <2>3
<1> QED
  BY <1>1, <1>2, <1>3, <1>4

\* The folders of a list wait their turn.
LEMMA AwaitSub ==
  ASSUME NEW S \in SUBSET Folders, NEW k
  PROVE  Sub(S) \in Seq(Task) /\ Await(k, Sub(S)) = IF k = "each" THEN S ELSE {}
<1>1. CASE S = {}
  BY <1>1, AwaitNothing, EmptySeq DEF Sub
<1>2. CASE S # {}
  <2> DEFINE r == [k |-> "each", s |-> S]
  <2>1. r \in Task /\ r.k = "each" /\ r.s = S
    BY DEF Task
  <2>2. Sub(S) = <<r>>
    BY <1>2 DEF Sub
  <2> HIDE DEF r
  <2>3. <<r>> \in Seq(Task) /\ DOMAIN <<r>> = {1} /\ <<r>>[1] = r
    BY <2>1
  <2> QED
    BY <2>1, <2>2, <2>3 DEF Await
<1> QED
  BY <1>1, <1>2

\* What takes the place of a folder whose owner is to change.
LEMMA AwaitFolder ==
  ASSUME NEW f \in Folders, NEW k
  PROVE  LET tasks == <<TaskFor("own", f), TaskFor("entries", f), TaskFor("subs", f)>>
         IN  tasks \in Seq(Task) /\ Await(k, tasks) = IF k \in {"own", "entries", "subs"} THEN {f} ELSE {}
<1> DEFINE a == TaskFor("own", f)
           b == TaskFor("entries", f)
           c == TaskFor("subs", f)
<1>1. /\ a \in Task /\ b \in Task /\ c \in Task
      /\ a.k = "own" /\ b.k = "entries" /\ c.k = "subs" /\ a.s = {f} /\ b.s = {f} /\ c.s = {f}
  BY DEF TaskFor, Task
<1> HIDE DEF a, b, c
<1>2. /\ <<a, b, c>> \in Seq(Task) /\ DOMAIN <<a, b, c>> = {1, 2, 3}
      /\ <<a, b, c>>[1] = a /\ <<a, b, c>>[2] = b /\ <<a, b, c>>[3] = c
  BY <1>1
<1>3. Await(k, <<a, b, c>>) = IF k \in {"own", "entries", "subs"} THEN {f} ELSE {}
  BY <1>1, <1>2 DEF Await
<1> QED
  BY <1>2, <1>3 DEF a, b, c

\* Its first task alone sets the owner of a folder.
LEMMA AwaitFolderRest ==
  ASSUME NEW f \in Folders, NEW others \in Seq(Task)
  PROVE  LET tasks == <<TaskFor("own", f), TaskFor("entries", f), TaskFor("subs", f)>> \o others
         IN  Await("own", Tail(tasks)) \subseteq Await("own", others)
<1> DEFINE a == TaskFor("own", f)
           b == TaskFor("entries", f)
           c == TaskFor("subs", f)
           tasks == <<a, b, c>> \o others
<1>1. a \in Task /\ b \in Task /\ c \in Task /\ b.k # "own" /\ c.k # "own"
  BY DEF TaskFor, Task
<1> HIDE DEF a, b, c
<1>2. <<a, b, c>> \in Seq(Task) /\ Len(<<a, b, c>>) = 3 /\ <<a, b, c>>[2] = b /\ <<a, b, c>>[3] = c
  BY <1>1
<1>3. /\ tasks \in Seq(Task) /\ Len(tasks) = 3 + Len(others) /\ Len(others) \in Nat
      /\ \A i \in 1 .. 3 + Len(others) : tasks[i] = IF i <= 3 THEN <<a, b, c>>[i] ELSE others[i - 3]
  BY <1>2, ConcatProperties, LenProperties
<1> HIDE DEF tasks
<1>4. tasks # <<>>
  BY <1>3, EmptySeq
<1>5. /\ Tail(tasks) \in Seq(Task) /\ Len(Tail(tasks)) = 2 + Len(others)
      /\ \A i \in 1 .. 2 + Len(others) : Tail(tasks)[i] = tasks[i + 1]
      /\ DOMAIN Tail(tasks) = 1 .. 2 + Len(others) /\ DOMAIN others = 1 .. Len(others)
  BY <1>3, <1>4, HeadTailProperties, LenProperties
<1>6. ASSUME NEW g \in Await("own", Tail(tasks)) PROVE g \in Await("own", others)
  <2>1. PICK i \in 1 .. 2 + Len(others) : tasks[i + 1].k = "own" /\ g \in tasks[i + 1].s /\ g \in Folders
    BY <1>5 DEF Await
  <2>2. i + 1 = 2 => tasks[i + 1] = b
    BY <1>2, <1>3
  <2>3. i + 1 = 3 => tasks[i + 1] = c
    BY <1>2, <1>3
  <2>4. i - 2 \in DOMAIN others /\ tasks[i + 1] = others[i - 2]
    BY <1>1, <1>3, <1>5, <2>1, <2>2, <2>3
  <2> QED
    BY <2>1, <2>4 DEF Await
<1> QED
  BY <1>6 DEF tasks, a, b, c

\* The same for lists of folders that exist.
LEMMA ListsKept ==
  ASSUME NEW op, NEW E \in SUBSET Folders, NEW tasks \in Lists(op, E)
  PROVE  /\ tasks \in Seq(Task)
         /\ tasks # <<>> => /\ Tail(tasks) \in Lists(op, E) /\ Head(tasks).s \subseteq E
                           /\ Head(tasks).k \in Kinds(op)
         /\ \A more \in Lists(op, E) : more \o tasks \in Lists(op, E)
         /\ \A F \in SUBSET Folders : E \subseteq F => tasks \in Lists(op, F)
         /\ \A S \in SUBSET E : Sub(S) \in Lists(op, E)
<1> DEFINE T == [k : Kinds(op), s : SUBSET E]
<1>1. T \subseteq Task
  BY DEF Kinds, Task
<1>2. ASSUME NEW F \in SUBSET Folders, E \subseteq F PROVE tasks \in Lists(op, F)
  <2>1. T \subseteq [k : Kinds(op), s : SUBSET F]
    BY <1>2
  <2> QED
    BY <2>1, SeqMonotonic DEF Lists
<1>3. tasks \in Seq(T)
  BY DEF Lists
<1>4. tasks \in Seq(Task)
  BY <1>1, <1>3, SeqMonotonic
<1>5. tasks # <<>> => Head(tasks) \in T /\ Tail(tasks) \in Seq(T)
  BY <1>3, HeadTailProperties
<1>6. \A more \in Seq(T) : more \o tasks \in Seq(T)
  BY <1>3, ConcatProperties
<1>7. ASSUME NEW S \in SUBSET E PROVE Sub(S) \in Seq(T)
  <2>1. [k |-> "each", s |-> S] \in T
    BY DEF Kinds
  <2> HIDE DEF T
  <2> QED
    BY <2>1, EmptySeq DEF Sub
<1> QED
  BY <1>2, <1>4, <1>5, <1>6, <1>7 DEF Lists

----------------------------------------------------------------------------
(* Types, and what is named *)

\* What exists of a request's names stays among more folders.
LEMMA NamedMore ==
  ASSUME NEW E \in SUBSET Folders, NEW F \in SUBSET Folders, E \subseteq F, NEW q, NamedJob(q, E)
  PROVE  NamedJob(q, F)
BY ListsKept DEF NamedJob

\* A request that has not begun or has ended names nothing.
LEMMA EndedNamed == NamedJob(EndedJob, Existing) /\ EndedJob \in InventoryJob /\ NoJob \in InventoryJob
  BY EmptySeq DEF NamedJob, EndedJob, NoJob, InventoryJob, Lists, Owned

(* what stays of a move while it climbs *)
Moving(q, E) == q.op = "moveFolder" /\ q.f \in E /\ q.to \in E \cup {Root} /\ q.seen \subseteq E
                /\ q.tasks \in Lists(q.op, E)
SameMove(q, r) == /\ r.op = q.op /\ r.f = q.f /\ r.to = q.to /\ r.owner = q.owner /\ r.was = q.was
                  /\ r.seen = q.seen

\* At the end of a climb a move writes at once, or has the owner of its folder to change.
LEMMA ClimbedForm ==
  ASSUME NEW E \in SUBSET Folders, NEW q \in InventoryJob, Moving(q, E), NEW r, r = Climbed(q)
  PROVE  /\ r \in InventoryJob /\ NamedJob(r, E) /\ SameMove(q, r)
         /\ q.owner = q.was => r.at = "write" /\ r.tasks = q.tasks
         /\ q.owner # q.was => r.at = "tasks" /\ r.tasks = Sub({q.f})
<1> USE DEF Moving
<1>1. Sub({q.f}) \in Seq(Task) /\ Sub({q.f}) \in Lists(q.op, E)
  <2>1. {q.f} \in SUBSET E /\ {q.f} \in SUBSET Folders
    OBVIOUS
  <2> QED
    BY <2>1, ListsKept, AwaitSub
<1>2. CASE q.owner = q.was
  <2>1. r = [q EXCEPT !.at = "write"]
    BY <1>2 DEF Climbed
  <2> QED
    BY <1>2, <2>1 DEF InventoryJob, NamedJob, SameMove
<1>3. CASE q.owner # q.was
  <2>1. r = [q EXCEPT !.at = "tasks", !.tasks = Sub({q.f})]
    BY <1>3 DEF Climbed
  <2>2. PICK t \in Seq(Task) : t = Sub({q.f}) /\ t \in Lists(q.op, E)
    BY <1>1
  <2>3. r = [q EXCEPT !.at = "tasks", !.tasks = t]
    BY <2>1, <2>2
  <2>4. r \in InventoryJob /\ r.at = "tasks" /\ r.tasks = t /\ SameMove(q, r)
    BY <2>3 DEF InventoryJob, SameMove
  <2> QED
    BY <1>3, <2>2, <2>4 DEF NamedJob, SameMove
<1> QED
  BY <1>2, <1>3

(* what one turn of the climb makes of the record *)
Turned(q, g, r) ==
  \/ r = Climbed(q) /\ (Here(g) => g # q.f /\ folder[g].parent = Root)
  \/ r = EndedJob
  \/ /\ Here(g) /\ g # q.f /\ folder[g].parent # Root
     /\ r.at = "walk" /\ r.cur = folder[g].parent /\ r.tasks = q.tasks /\ SameMove(q, r)

\* One turn of the climb ends it, or finds the request at fault, or goes up by one.
LEMMA ClimbForm ==
  ASSUME InventoryTypeOK, RowsNamed, NEW q \in InventoryJob, Moving(q, Existing), NEW g \in Existing,
         NEW r, r = Climb(q, g)
  PROVE  r \in InventoryJob /\ NamedJob(r, Existing) /\ Turned(q, g, r)
<1>1. Existing \in SUBSET Folders
  BY DEF Existing
<1>2. CASE ~Here(g) \/ (g # q.f /\ folder[g].parent = Root)
  BY <1>1, <1>2, ClimbedForm DEF Climb, Turned
<1>3. CASE Here(g) /\ g = q.f
  BY <1>3, EndedNamed DEF Climb, Turned
<1>4. CASE Here(g) /\ g # q.f /\ folder[g].parent # Root
  <2>1. PICK c \in Existing : c = folder[g].parent
    BY <1>1, <1>4 DEF RowsNamed, Placed
  <2>2. r = [q EXCEPT !.at = "walk", !.cur = c]
    BY <1>4, <2>1 DEF Climb
  <2>3. r \in InventoryJob /\ r.at = "walk" /\ r.cur = c /\ r.tasks = q.tasks /\ SameMove(q, r)
    BY <1>1, <2>2 DEF InventoryJob, SameMove
  <2> QED
    BY <1>4, <2>1, <2>3 DEF NamedJob, Moving, SameMove, Turned
<1> QED
  BY <1>2, <1>3, <1>4

\* Every request is in a state that its handler can be in, and names what exists.
LEMMA RecordStep ==
  ASSUME InventoryTypeOK, RowsNamed, NEW j \in Jobs, JobStep(j)
  PROVE  \E record \in InventoryJob : NamedJob(record, Existing) /\ (Go(j, record) \/ Wrote(j, record))
<1> DEFINE Good(r) == r \in InventoryJob /\ NamedJob(r, Existing)
           Goal == \E record \in InventoryJob : NamedJob(record, Existing) /\ (Go(j, record) \/ Wrote(j, record))
<1> SUFFICES Goal
  OBVIOUS
<1>1. ASSUME NEW r, Good(r), Go(j, r) \/ Wrote(j, r) PROVE Goal
  BY <1>1
<1>2. Good(job[j]) /\ Good(EndedJob)
  BY EndedNamed DEF InventoryTypeOK, RowsNamed
<1>3. Existing \subseteq Folders /\ \A f \in Folders : Here(f) => f \in Existing
  BY DEF Existing, Here
<1>4. ASSUME Begin(j) PROVE Goal
  <2>1. ASSUME NEW op \in {"createFolder", "createEntry"}, NEW to \in Folders \cup {Root}, NEW o \in Owned,
               Go(j, [NoJob EXCEPT !.at = IF to = Root THEN "write" ELSE "asked", !.op = op, !.to = to, !.owner = o])
        PROVE  Goal
    <3> DEFINE r == [NoJob EXCEPT !.at = IF to = Root THEN "write" ELSE "asked", !.op = op, !.to = to, !.owner = o]
    <3>1. r \in InventoryJob
      BY EmptySeq DEF NoJob, InventoryJob, FolderOps, EntryOps, Owned
    <3>2. NamedJob(r, Existing)
      BY EmptySeq DEF NoJob, NamedJob, Lists
    <3> QED
      BY <1>1, <2>1, <3>1, <3>2
  <2>2. ASSUME NEW f \in Folders, Here(f),
               Go(j, [NoJob EXCEPT !.at = "tasks", !.op = "deleteFolder", !.f = f, !.tasks = <<[k |-> "each", s |-> {f}]>>])
        PROVE  Goal
    <3> DEFINE r == [NoJob EXCEPT !.at = "tasks", !.op = "deleteFolder", !.f = f, !.tasks = <<[k |-> "each", s |-> {f}]>>]
               t == [k |-> "each", s |-> {f}]
    <3>1. t \in Task /\ t \in [k : Kinds("deleteFolder"), s : SUBSET Existing]
      BY <1>3, <2>2 DEF Task, Kinds
    <3> HIDE DEF t
    <3>2. <<t>> \in Seq(Task) /\ <<t>> \in Lists("deleteFolder", Existing)
      BY <3>1 DEF Lists
    <3>3. [NoJob EXCEPT !.at = "tasks", !.op = "deleteFolder", !.f = f, !.tasks = <<t>>] \in InventoryJob
      BY <3>2 DEF NoJob, InventoryJob, FolderOps, EntryOps, Owned
    <3>4. NamedJob([NoJob EXCEPT !.at = "tasks", !.op = "deleteFolder", !.f = f, !.tasks = <<t>>], Existing)
      BY <1>3, <2>2, <3>2 DEF NoJob, NamedJob
    <3> QED
      BY <1>1, <2>2, <3>3, <3>4 DEF t
  <2>3. ASSUME NEW f \in Folders, NEW to \in Folders \cup {Root}, NEW o \in Owned, Here(f),
               Go(j, [NoJob EXCEPT !.at = "asked", !.op = "moveFolder", !.f = f, !.to = to,
                                   !.owner = o, !.was = folder[f].owner])
        PROVE  Goal
    <3> DEFINE r == [NoJob EXCEPT !.at = "asked", !.op = "moveFolder", !.f = f, !.to = to,
                                  !.owner = o, !.was = folder[f].owner]
    <3>1. r \in InventoryJob
      BY EmptySeq DEF NoJob, InventoryJob, FolderOps, EntryOps, Owned, InventoryTypeOK
    <3>2. NamedJob(r, Existing)
      BY <1>3, <2>3, EmptySeq DEF NoJob, NamedJob, Lists
    <3> QED
      BY <1>1, <2>3, <3>1, <3>2
  <2>4. ASSUME NEW x \in Entries, NEW op \in {"deleteEntry", "copyEntry"}, entry[x].at = "here",
               Go(j, [NoJob EXCEPT !.at = "write", !.op = op, !.e = x,
                                   !.to = entry[x].folder, !.owner = entry[x].owner])
        PROVE  Goal
    <3> DEFINE r == [NoJob EXCEPT !.at = "write", !.op = op, !.e = x, !.to = entry[x].folder, !.owner = entry[x].owner]
    <3>1. r \in InventoryJob
      BY EmptySeq DEF NoJob, InventoryJob, FolderOps, EntryOps, Owned, InventoryTypeOK
    <3>2. entry[x].folder \in Existing \cup {Root}
      BY <1>3, <2>4 DEF RowsNamed, InventoryTypeOK
    <3>3. NamedJob(r, Existing)
      BY <3>2, EmptySeq DEF NoJob, NamedJob, Lists
    <3> QED
      BY <1>1, <2>4, <3>1, <3>3
  <2>5. ASSUME NEW x \in Entries, NEW to \in Folders \cup {Root}, NEW o \in Owned, NEW op \in {"editEntry", "reposition"},
               Go(j, [NoJob EXCEPT !.at = IF to # Root THEN "asked" ELSE IF op = "editEntry" THEN "write" ELSE "list",
                                   !.op = op, !.e = x, !.to = to, !.owner = o])
        PROVE  Goal
    <3> DEFINE r == [NoJob EXCEPT !.at = IF to # Root THEN "asked" ELSE IF op = "editEntry" THEN "write" ELSE "list",
                                   !.op = op, !.e = x, !.to = to, !.owner = o]
    <3>1. r \in InventoryJob
      BY EmptySeq DEF NoJob, InventoryJob, FolderOps, EntryOps, Owned
    <3>2. NamedJob(r, Existing)
      BY EmptySeq DEF NoJob, NamedJob, Lists
    <3> QED
      BY <1>1, <2>5, <3>1, <3>2
  <2> HIDE DEF Goal
  <2> QED
    BY <1>4, <2>1, <2>2, <2>3, <2>4, <2>5 DEF Begin
<1>5. PICK q \in InventoryJob : q = job[j] /\ NamedJob(q, Existing)
  BY <1>2
<1>6. ASSUME ReadFolder(j) PROVE Goal
  <2>1. CASE ~Here(job[j].to)
    BY <1>1, <1>2, <1>6, <2>1 DEF ReadFolder
  <2>2. CASE Here(job[j].to)
    <3>1. PICK a \in {"list", "write"} : a = IF q.op = "reposition" THEN "list" ELSE "write"
      OBVIOUS
    <3>2. q.at = "asked" /\ q.op # "moveFolder" /\ q.to \in Existing
      BY <1>3, <1>5, <1>6, <2>2 DEF ReadFolder, NamedJob, InventoryJob
    <3>3. PICK o \in Owned : o = folder[q.to].owner
      BY <1>3, <3>2 DEF InventoryTypeOK
    <3> DEFINE r == [q EXCEPT !.at = a, !.owner = o]
    <3>4. Go(j, r)
      BY <1>5, <1>6, <2>2, <3>1, <3>3 DEF ReadFolder
    <3>5. r \in InventoryJob
      BY DEF InventoryJob
    <3>6. NamedJob(r, Existing)
      BY <1>5, <3>1, <3>2 DEF NamedJob, InventoryJob
    <3> QED
      BY <1>1, <3>4, <3>5, <3>6
  <2> QED
    BY <2>1, <2>2
<1>7. ASSUME ReadTarget(j) PROVE Goal
  <2>1. /\ q.at = "asked" /\ q.op = "moveFolder" /\ q.f \in Existing
        /\ q.seen \subseteq Existing /\ q.tasks \in Lists(q.op, Existing)
    BY <1>5, <1>7 DEF ReadTarget, NamedJob
  <2>2. CASE q.to = Root
    <3>1. Go(j, Climbed(q)) /\ Moving(q, Existing)
      BY <1>5, <1>7, <2>1, <2>2 DEF ReadTarget, Moving
    <3> QED
      BY <1>1, <1>3, <3>1, ClimbedForm
  <2>3. CASE q.to # Root /\ ~Here(q.to)
    <3>1. Go(j, EndedJob)
      BY <1>5, <1>7, <2>3 DEF ReadTarget
    <3> QED
      BY <1>1, <1>2, <3>1
  <2>4. CASE q.to # Root /\ Here(q.to)
    <3>1. q.to \in Existing
      BY <1>3, <2>4 DEF InventoryJob
    <3>2. PICK o \in Owned : o = folder[q.to].owner
      BY <1>3, <3>1 DEF InventoryTypeOK
    <3> DEFINE r == [q EXCEPT !.owner = o, !.seen = {q.to}]
    <3>3. r \in InventoryJob /\ Moving(r, Existing)
      BY <1>3, <2>1, <3>1 DEF InventoryJob, Moving
    <3>4. Go(j, Climb(r, q.to))
      BY <1>5, <1>7, <2>4, <3>2 DEF ReadTarget
    <3> QED
      BY <1>1, <3>1, <3>3, <3>4, ClimbForm
  <2> QED
    BY <2>2, <2>3, <2>4
<1>8. ASSUME Walk(j) PROVE Goal
  <2>1. q.at = "walk" /\ q.cur \in Existing /\ Moving(q, Existing)
    BY <1>5, <1>8 DEF Walk, NamedJob, Moving
  <2> DEFINE r == [q EXCEPT !.cur = Root, !.seen = @ \cup {q.cur}]
  <2>2. r \in InventoryJob /\ Moving(r, Existing)
    BY <1>3, <2>1 DEF InventoryJob, Moving
  <2>3. Go(j, Climb(r, q.cur))
    BY <1>5, <1>8 DEF Walk
  <2> QED
    BY <1>1, <2>1, <2>2, <2>3, ClimbForm
<1>9. ASSUME NEW tasks \in Lists(q.op, Existing), q.at = "tasks", Go(j, After(j, tasks)) \/ Wrote(j, After(j, tasks))
      PROVE  Goal
  <2>1. tasks \in Seq(Task)
    BY <1>3, <1>9, ListsKept
  <2>2. ASSUME tasks # <<>> PROVE Goal
    <3> DEFINE r == [q EXCEPT !.tasks = tasks]
    <3>1. After(j, tasks) = r
      BY <1>5, <2>2 DEF After
    <3>2. r \in InventoryJob
      BY <2>1 DEF InventoryJob
    <3>3. NamedJob(r, Existing)
      BY <1>5, <1>9 DEF NamedJob, InventoryJob
    <3> QED
      BY <1>1, <1>9, <3>1, <3>2, <3>3
  <2>3. ASSUME tasks = <<>>, q.op = "moveFolder" PROVE Goal
    <3> DEFINE r == [q EXCEPT !.at = "write", !.tasks = tasks]
    <3>1. After(j, tasks) = r
      BY <1>5, <2>3 DEF After
    <3>2. r \in InventoryJob
      BY <2>1 DEF InventoryJob
    <3>3. NamedJob(r, Existing)
      BY <1>5, <1>9, <2>3 DEF NamedJob, InventoryJob
    <3> QED
      BY <1>1, <1>9, <3>1, <3>2, <3>3
  <2>4. ASSUME tasks = <<>>, q.op # "moveFolder" PROVE Goal
    BY <1>1, <1>2, <1>5, <1>9, <2>4 DEF After
  <2> QED
    BY <2>2, <2>3, <2>4
<1>10. ASSUME NEW k, Working(j, k)
       PROVE  /\ q.at = "tasks" /\ q.op \in {"moveFolder", "deleteFolder"} /\ q.tasks \in Lists(q.op, Existing)
              /\ q.tasks # <<>> /\ Rest(j) \in Lists(q.op, Existing) /\ Rest(j) \in Seq(Task)
              /\ Top(j).s \subseteq Existing /\ Top(j) = Head(q.tasks) /\ Rest(j) = Tail(q.tasks)
  <2>1. q.at = "tasks" /\ q.op \in {"moveFolder", "deleteFolder"} /\ q.tasks \in Lists(q.op, Existing) /\ q.tasks # <<>>
    BY <1>5, <1>10 DEF Working, NamedJob
  <2>2. Top(j) = Head(q.tasks) /\ Rest(j) = Tail(q.tasks)
    BY <1>5 DEF Top, Rest
  <2> QED
    BY <1>3, <2>1, <2>2, ListsKept
<1>11. ASSUME TakeFolder(j) PROVE Goal
  <2>1. Working(j, "each")
    BY <1>11 DEF TakeFolder
  <2>2. PICK f \in Top(j).s :
          LET others == Sub(Top(j).s \ {f}) \o Rest(j)
          IN IF job[j].op = "moveFolder"
             THEN Go(j, After(j, <<TaskFor("own", f), TaskFor("entries", f), TaskFor("subs", f)>> \o others))
             ELSE Go(j, After(j, IF Here(f) THEN Sub(Children(f)) \o <<TaskFor("drop", f), TaskFor("gone", f)>> \o others
                                 ELSE others))
    BY <1>11, Zenon DEF TakeFolder
  <2> DEFINE others == Sub(Top(j).s \ {f}) \o Rest(j)
  <2>3. f \in Existing /\ Top(j).s \ {f} \in SUBSET Existing
    BY <1>10, <2>1
  <2>4. others \in Lists(q.op, Existing)
    <3>1. Sub(Top(j).s \ {f}) \in Lists(q.op, Existing)
      BY <1>3, <1>10, <2>1, <2>3, ListsKept
    <3> QED
      BY <1>3, <1>10, <2>1, <3>1, ListsKept
  <2> HIDE DEF others
  <2>5. CASE job[j].op = "moveFolder"
    <3> DEFINE triple == <<TaskFor("own", f), TaskFor("entries", f), TaskFor("subs", f)>>
               T == [k : Kinds(q.op), s : SUBSET Existing]
    <3>1. TaskFor("own", f) \in T /\ TaskFor("entries", f) \in T /\ TaskFor("subs", f) \in T
      BY <1>5, <2>3, <2>5 DEF TaskFor, Kinds
    <3>2. triple \in Seq(T)
      <4> HIDE DEF T
      <4> QED
        BY <3>1
    <3>3. triple \in Lists(q.op, Existing)
      BY <3>2 DEF Lists
    <3> HIDE DEF triple
    <3>4. triple \o others \in Lists(q.op, Existing)
      BY <1>3, <2>4, <3>3, ListsKept
    <3> QED
      BY <1>5, <1>9, <1>10, <2>1, <2>2, <2>5, <3>4 DEF others, triple
  <2>6. CASE job[j].op # "moveFolder" /\ ~Here(f)
    BY <1>5, <1>9, <1>10, <2>1, <2>2, <2>4, <2>6 DEF others
  <2>7. CASE job[j].op # "moveFolder" /\ Here(f)
    <3> DEFINE pair == <<TaskFor("drop", f), TaskFor("gone", f)>>
               T == [k : Kinds(q.op), s : SUBSET Existing]
    <3>1. TaskFor("drop", f) \in T /\ TaskFor("gone", f) \in T
      BY <1>5, <2>3, <2>7 DEF TaskFor, Kinds
    <3>2. pair \in Seq(T)
      <4> HIDE DEF T
      <4> QED
        BY <3>1
    <3>3. pair \in Lists(q.op, Existing)
      BY <3>2 DEF Lists
    <3>4. Children(f) \in SUBSET Existing
      BY <1>3 DEF Children
    <3>5. Sub(Children(f)) \in Lists(q.op, Existing)
      BY <1>3, <3>3, <3>4, ListsKept
    <3> HIDE DEF pair
    <3>6. pair \o others \in Lists(q.op, Existing) /\ Sub(Children(f)) \o pair \in Lists(q.op, Existing)
      BY <1>3, <2>4, <3>3, <3>5, ListsKept
    <3>7. (Sub(Children(f)) \o pair) \o others \in Lists(q.op, Existing)
      BY <1>3, <2>4, <3>6, ListsKept
    <3>8. Go(j, After(j, (Sub(Children(f)) \o pair) \o others))
      BY <2>2, <2>7 DEF others, pair
    <3> QED
      BY <1>9, <1>10, <2>1, <3>7, <3>8
  <2> QED
    BY <2>5, <2>6, <2>7
<1>12. ASSUME SetFolderOwner(j) \/ SetEntryOwner(j) \/ DropEntries(j) \/ DropFolder(j) PROVE Goal
  BY <1>9, <1>10, <1>12 DEF SetFolderOwner, SetEntryOwner, DropEntries, DropFolder
<1>13. ASSUME ListSubfolders(j) PROVE Goal
  <2> DEFINE C == UNION {Children(f) : f \in Top(j).s}
  <2>1. Working(j, "subs") /\ Go(j, After(j, Sub(C) \o Rest(j)))
    BY <1>13 DEF ListSubfolders
  <2>2. C \in SUBSET Existing
    BY <1>3 DEF Children
  <2> HIDE DEF C
  <2>3. Sub(C) \in Lists(q.op, Existing)
    BY <1>3, <1>10, <2>1, <2>2, ListsKept
  <2>4. Sub(C) \o Rest(j) \in Lists(q.op, Existing)
    BY <1>3, <1>10, <2>1, <2>3, ListsKept
  <2> QED
    BY <1>9, <1>10, <2>1, <2>4
<1>14. ASSUME SetParent(j) \/ CreateFolder(j) \/ CreateEntry(j) \/ DeleteEntry(j) \/ EditEntry(j) \/ FolderMissing(j)
       PROVE  Goal
  BY <1>1, <1>2, <1>14 DEF SetParent, CreateFolder, CreateEntry, DeleteEntry, EditEntry, FolderMissing
<1>15. ASSUME ListSiblings(j) PROVE Goal
  <2>1. q.at = "list" /\ q.op = "reposition" /\ q.e \in Entries
    BY <1>5, <1>15 DEF ListSiblings, NamedJob
  <2>2. PICK R \in SUBSET Entries : R = {x \in Inside(q.to) : entry[x].owner = q.owner} \cup {q.e}
    BY <2>1 DEF Inside
  <2> DEFINE r == [q EXCEPT !.at = "write", !.rest = R]
  <2>3. r \in InventoryJob
    BY DEF InventoryJob
  <2>4. NamedJob(r, Existing)
    BY <1>5, <2>1 DEF NamedJob, InventoryJob
  <2>5. Go(j, r) \/ Go(j, EndedJob)
    BY <1>5, <1>15, <2>2 DEF ListSiblings
  <2> QED
    BY <1>1, <1>2, <2>3, <2>4, <2>5
<1>16. ASSUME Reposition(j) PROVE Goal
  <2>1. PICK x \in q.rest : Wrote(j, IF q.rest = {x} THEN EndedJob ELSE [q EXCEPT !.rest = @ \ {x}])
    BY <1>5, <1>16 DEF Reposition
  <2>2. PICK R \in SUBSET Entries : R = q.rest \ {x}
    BY DEF InventoryJob
  <2> DEFINE r == [q EXCEPT !.rest = R]
  <2>3. r \in InventoryJob
    BY DEF InventoryJob
  <2>4. NamedJob(r, Existing)
    BY <1>5 DEF NamedJob, InventoryJob
  <2>5. Wrote(j, r) \/ Wrote(j, EndedJob)
    BY <2>1, <2>2
  <2> QED
    BY <1>1, <1>2, <2>3, <2>4, <2>5
<1> HIDE DEF Goal
<1> QED
  BY <1>4, <1>6, <1>7, <1>8, <1>11, <1>12, <1>13, <1>14, <1>15, <1>16 DEF JobStep

FolderRow == [at : {"none", "here", "gone"}, parent : Folders \cup {Root}, owner : Owned]
EntryRow == [at : {"none", "here", "gone"}, folder : Folders \cup {Root}, owner : Owned]

(* folders come once and go once, and the entries are where they may be *)
TablesGood ==
  /\ folder' \in [Folders -> FolderRow]
  /\ entry' \in [Entries -> EntryRow]
  /\ \A f \in Existing : folder'[f].at # "none" /\ (folder'[f].at = "here" => Here(f))
  /\ \A f \in Folders : Here(f) => folder'[f].at = "here" \/ folder'[f].parent = Root
  /\ \A f \in Folders : folder'[f].at = "here" =>
        folder'[f].parent = Root \/ (folder'[f].parent \in Folders /\ folder'[folder'[f].parent].at # "none")
  /\ \A x \in Entries : entry'[x].at = "here" /\ entry'[x].folder # Root => folder'[entry'[x].folder].at = "here"

\* What a write leaves in the tables.
LEMMA TablesStep ==
  ASSUME InventoryTypeOK, RowsNamed, NEW j \in Jobs, JobStep(j)
  PROVE  TablesGood
<1>1. folder \in [Folders -> FolderRow] /\ entry \in [Entries -> EntryRow]
  BY DEF InventoryTypeOK, FolderRow, EntryRow
<1>2. Existing \subseteq Folders /\ (\A f \in Folders : Here(f) => f \in Existing) /\ Placed = Existing \cup {Root}
  BY DEF Existing, Here, Placed
<1>3. ASSUME UNCHANGED <<folder, entry>> PROVE TablesGood
  BY <1>1, <1>2, <1>3 DEF TablesGood, RowsNamed, Here, Existing
<1>4. ASSUME NEW record, Go(j, record) PROVE TablesGood
  BY <1>3, <1>4 DEF Go
<1>5. job[j] \in InventoryJob /\ NamedJob(job[j], Existing)
  BY DEF RowsNamed, InventoryTypeOK
<1>6. ASSUME UNCHANGED entry,
             \A f \in Folders : /\ folder'[f].at = folder[f].at /\ folder'[f].owner \in Owned
                               /\ folder'[f].parent = folder[f].parent,
             folder' \in [Folders -> FolderRow]
      PROVE  TablesGood
  <2>1. ASSUME NEW f \in Folders, folder'[f].at = "here", folder'[f].parent # Root
        PROVE  folder'[f].parent \in Folders /\ folder'[folder'[f].parent].at # "none"
    <3>1. folder[f].parent \in Existing
      BY <1>2, <1>6, <2>1 DEF RowsNamed, Here
    <3> QED
      BY <1>6, <3>1 DEF Existing
  <2>2. ASSUME NEW x \in Entries, entry'[x].at = "here", entry'[x].folder # Root
        PROVE  folder'[entry'[x].folder].at = "here"
    <3>1. Here(entry[x].folder) /\ entry[x].folder \in Folders /\ entry' = entry
      BY <1>1, <1>6, <2>2 DEF RowsNamed, EntryRow
    <3> QED
      BY <1>6, <3>1 DEF Here
  <2>3. \A f \in Existing : folder'[f].at # "none" /\ (folder'[f].at = "here" => Here(f))
    BY <1>6 DEF Existing, Here
  <2> QED
    BY <1>1, <1>6, <2>1, <2>2, <2>3 DEF TablesGood, Here
<1>7. ASSUME UNCHANGED folder, entry' \in [Entries -> EntryRow],
             \A x \in Entries : entry'[x].at = "here" /\ entry'[x].folder # Root => Here(entry'[x].folder)
      PROVE  TablesGood
  BY <1>1, <1>2, <1>7 DEF TablesGood, RowsNamed, Here, Existing
<1>8. CASE SetFolderOwner(j)
  <2>1. UNCHANGED entry
    BY <1>8 DEF SetFolderOwner
  <2> DEFINE T == Top(j).s
  <2>2. PICK o \in Owned : folder' = [f \in Folders |-> IF f \in T /\ Here(f) THEN [folder[f] EXCEPT !.owner = o] ELSE folder[f]]
    BY <1>5, <1>8 DEF SetFolderOwner, InventoryJob
  <2>3. ASSUME NEW f \in Folders
        PROVE  /\ folder'[f] \in FolderRow /\ folder'[f].at = folder[f].at /\ folder'[f].parent = folder[f].parent
    <3>1. PICK row \in FolderRow : row = folder[f]
      BY <1>1
    <3>2. folder'[f] = [row EXCEPT !.owner = o] \/ folder'[f] = row
      BY <2>2, <3>1
    <3> QED
      BY <3>1, <3>2 DEF FolderRow
  <2>4. folder' \in [Folders -> FolderRow]
    BY <2>2, <2>3
  <2> QED
    BY <1>6, <2>1, <2>3, <2>4 DEF FolderRow
<1>9. CASE SetEntryOwner(j)
  <2>1. UNCHANGED folder
    BY <1>9 DEF SetEntryOwner
  <2>2. PICK o \in Owned, T \in SUBSET Entries : entry' = [x \in Entries |-> IF x \in T THEN [entry[x] EXCEPT !.owner = o] ELSE entry[x]]
    <3> DEFINE T == {x \in Entries : \E f \in Top(j).s : x \in Inside(f)}
    <3>1. entry' = [x \in Entries |-> IF x \in T THEN [entry[x] EXCEPT !.owner = job[j].owner] ELSE entry[x]]
      BY <1>9 DEF SetEntryOwner
    <3>2. T \in SUBSET Entries
      OBVIOUS
    <3> HIDE DEF T
    <3> QED
      BY <1>5, <3>1, <3>2 DEF InventoryJob
  <2>3. ASSUME NEW x \in Entries
        PROVE  /\ entry'[x] \in EntryRow /\ entry'[x].at = entry[x].at /\ entry'[x].folder = entry[x].folder
    <3>1. PICK row \in EntryRow : row = entry[x]
      BY <1>1
    <3>2. entry'[x] = [row EXCEPT !.owner = o] \/ entry'[x] = row
      BY <2>2, <3>1
    <3> QED
      BY <3>1, <3>2 DEF EntryRow
  <2>4. entry' \in [Entries -> EntryRow]
    BY <2>2, <2>3
  <2> QED
    BY <1>7, <2>1, <2>3, <2>4 DEF RowsNamed
<1>10. CASE DropEntries(j)
  <2>1. UNCHANGED folder
    BY <1>10 DEF DropEntries
  <2>2. PICK T \in SUBSET Entries : entry' = [x \in Entries |-> IF x \in T THEN [entry[x] EXCEPT !.at = "gone", !.folder = Root] ELSE entry[x]]
    <3> DEFINE T == {x \in Entries : \E f \in Top(j).s : x \in Inside(f)}
    <3>1. entry' = [x \in Entries |-> IF x \in T THEN [entry[x] EXCEPT !.at = "gone", !.folder = Root] ELSE entry[x]]
      BY <1>10 DEF DropEntries
    <3>2. T \in SUBSET Entries
      OBVIOUS
    <3> HIDE DEF T
    <3> QED
      BY <3>1, <3>2
  <2>3. ASSUME NEW x \in Entries
        PROVE  /\ entry'[x] \in EntryRow /\ (entry'[x].at = "here" => entry'[x] = entry[x])
    <3>1. PICK row \in EntryRow : row = entry[x]
      BY <1>1
    <3>2. entry'[x] = [row EXCEPT !.at = "gone", !.folder = Root] \/ entry'[x] = row
      BY <2>2, <3>1
    <3> QED
      BY <3>1, <3>2 DEF EntryRow
  <2>4. entry' \in [Entries -> EntryRow]
    BY <2>2, <2>3
  <2> QED
    BY <1>7, <2>1, <2>3, <2>4 DEF RowsNamed
<1>11. CASE DropFolder(j)
  <2> DEFINE T == Top(j).s
  <2>1. ASSUME NEW f \in Folders
        PROVE  /\ f \in T => folder'[f] = [at |-> "gone", parent |-> Root, owner |-> "me"]
               /\ f \notin T => folder'[f] = folder[f]
    BY <1>11 DEF DropFolder, NoFolder
  <2>2. folder' \in [Folders -> FolderRow]
    <3>1. [at |-> "gone", parent |-> Root, owner |-> "me"] \in FolderRow
      BY DEF FolderRow, Owned
    <3>2. folder' = [f \in Folders |-> folder'[f]]
      BY <1>11 DEF DropFolder
    <3> QED
      BY <1>1, <2>1, <3>1, <3>2
  <2>3. \A f \in Folders : folder[f].at # "none" \/ f \in T => folder'[f].at # "none"
    BY <2>1
  <2>4. \A f \in Folders : folder'[f].at = "here" => Here(f) /\ folder'[f] = folder[f] /\ f \notin T
    BY <2>1 DEF Here
  <2>5. ASSUME NEW x \in Entries
        PROVE  /\ entry'[x] \in EntryRow
               /\ entry'[x].at = "here" /\ entry'[x].folder # Root =>
                     entry'[x] = entry[x] /\ \A f \in T : x \notin Inside(f)
    <3>1. PICK row \in EntryRow : row = entry[x]
      BY <1>1
    <3>2. entry'[x] = IF \E f \in T : x \in Inside(f) THEN [row EXCEPT !.folder = Root] ELSE row
      BY <1>11, <3>1 DEF DropFolder
    <3> QED
      BY <3>1, <3>2 DEF EntryRow
  <2>6. entry' \in [Entries -> EntryRow]
    <3>1. entry' = [x \in Entries |-> entry'[x]]
      BY <1>11 DEF DropFolder
    <3> QED
      BY <2>5, <3>1
  <2>7. ASSUME NEW x \in Entries, entry'[x].at = "here", entry'[x].folder # Root PROVE folder'[entry'[x].folder].at = "here"
    <3>1. entry'[x] = entry[x] /\ \A f \in T : x \notin Inside(f)
      BY <2>5, <2>7
    <3>2. Here(entry[x].folder) /\ entry[x].folder \in Folders
      BY <1>1, <2>7, <3>1 DEF RowsNamed, EntryRow
    <3>3. entry[x].folder \notin T
      BY <2>7, <3>1, <3>2 DEF Inside
    <3> QED
      BY <2>1, <3>1, <3>2, <3>3 DEF Here
  <2>8. ASSUME NEW f \in Folders, folder'[f].at = "here", folder'[f].parent # Root
        PROVE  folder'[f].parent \in Folders /\ folder'[folder'[f].parent].at # "none"
    <3>1. Here(f) /\ folder'[f] = folder[f]
      BY <2>4, <2>8
    <3>2. folder[f].parent \in Existing
      BY <1>2, <2>8, <3>1 DEF RowsNamed
    <3> QED
      BY <2>3, <3>1, <3>2 DEF Existing
  <2>9. \A f \in Folders : Here(f) => folder'[f].at = "here" \/ folder'[f].parent = Root
    BY <2>1 DEF Here
  <2> QED
    BY <1>2, <2>2, <2>3, <2>4, <2>6, <2>7, <2>8, <2>9 DEF TablesGood, Existing
<1>12. CASE SetParent(j)
  <2>1. UNCHANGED entry /\ job[j].f \in Existing /\ job[j].to \in Placed
    BY <1>2, <1>5, <1>12 DEF SetParent, Final, NamedJob
  <2>2. PICK to \in Placed : to = job[j].to
    BY <2>1
  <2>3. PICK f \in Existing : f = job[j].f
    BY <2>1
  <2>4. folder' = [folder EXCEPT ![f].parent = IF Here(f) THEN to ELSE @]
    BY <1>12, <2>2, <2>3 DEF SetParent
  <2>5. ASSUME NEW g \in Folders
        PROVE  /\ folder'[g] \in FolderRow /\ folder'[g].at = folder[g].at
               /\ folder'[g].parent = folder[g].parent \/ folder'[g].parent = to
    <3>1. PICK row \in FolderRow : row = folder[g]
      BY <1>1
    <3>2. folder'[g] = row \/ folder'[g] = [row EXCEPT !.parent = to]
      BY <1>1, <2>4, <3>1 DEF FolderRow
    <3>3. to \in Folders \cup {Root}
      BY <1>2
    <3> QED
      BY <3>1, <3>2, <3>3 DEF FolderRow
  <2>6. folder' \in [Folders -> FolderRow]
    <3>1. folder' = [g \in Folders |-> folder'[g]]
      BY <1>1, <2>4
    <3> QED
      BY <2>5, <3>1
  <2>7. ASSUME NEW g \in Folders, folder'[g].at = "here", folder'[g].parent # Root
        PROVE  folder'[g].parent \in Folders /\ folder'[folder'[g].parent].at # "none"
    <3>1. folder'[g].parent \in Existing
      BY <1>2, <2>5, <2>7 DEF RowsNamed, Here
    <3> QED
      BY <2>5, <3>1 DEF Existing
  <2>8. ASSUME NEW x \in Entries, entry'[x].at = "here", entry'[x].folder # Root
        PROVE  folder'[entry'[x].folder].at = "here"
    <3>1. Here(entry[x].folder) /\ entry[x].folder \in Folders /\ entry' = entry
      BY <1>1, <2>1, <2>8 DEF RowsNamed, EntryRow
    <3> QED
      BY <2>5, <3>1 DEF Here
  <2>9. \A g \in Existing : folder'[g].at # "none" /\ (folder'[g].at = "here" => Here(g))
    BY <2>5 DEF Existing, Here
  <2>10. \A g \in Folders : Here(g) => folder'[g].at = "here" \/ folder'[g].parent = Root
    BY <2>5 DEF Here
  <2> QED
    BY <1>1, <2>1, <2>6, <2>7, <2>8, <2>9, <2>10 DEF TablesGood, Here
<1>13. CASE CreateFolder(j)
  <2>1. PICK f \in Folders :
           /\ folder[f].at = "none"
           /\ folder' = [folder EXCEPT ![f] = [at |-> "here", parent |-> job[j].to, owner |-> job[j].owner]]
    BY <1>13, Zenon DEF CreateFolder
  <2>2. UNCHANGED entry /\ job[j].to \in Placed /\ job[j].owner \in Owned
    BY <1>2, <1>5, <1>13 DEF CreateFolder, Final, NamedJob, InventoryJob
  <2>3. PICK row \in FolderRow : row = [at |-> "here", parent |-> job[j].to, owner |-> job[j].owner]
    BY <1>2, <2>2 DEF FolderRow
  <2>4. folder' = [folder EXCEPT ![f] = row] /\ row.parent \in Placed /\ row.at = "here"
    BY <2>1, <2>2, <2>3
  <2>5. folder' \in [Folders -> FolderRow] /\ folder'[f] = row /\ \A g \in Folders \ {f} : folder'[g] = folder[g]
    BY <1>1, <2>4
  <2>6. ASSUME NEW g \in Folders, folder'[g].at = "here", folder'[g].parent # Root
        PROVE  folder'[g].parent \in Folders /\ folder'[folder'[g].parent].at # "none"
    <3>1. folder'[g].parent \in Existing
      BY <1>2, <2>4, <2>5, <2>6 DEF RowsNamed, Here
    <3> QED
      BY <2>4, <2>5, <3>1 DEF Existing
  <2>7. ASSUME NEW x \in Entries, entry'[x].at = "here", entry'[x].folder # Root
        PROVE  folder'[entry'[x].folder].at = "here"
    <3>1. Here(entry[x].folder) /\ entry[x].folder \in Folders /\ entry' = entry
      BY <1>1, <2>2, <2>7 DEF RowsNamed, EntryRow
    <3> QED
      BY <2>1, <2>5, <3>1 DEF Here
  <2>8. \A g \in Existing : folder'[g].at # "none" /\ (folder'[g].at = "here" => Here(g))
    BY <2>1, <2>5 DEF Existing, Here
  <2>9. \A g \in Folders : Here(g) => folder'[g].at = "here" \/ folder'[g].parent = Root
    BY <2>1, <2>5 DEF Here
  <2> QED
    BY <1>1, <2>2, <2>5, <2>6, <2>7, <2>8, <2>9 DEF TablesGood, Here
<1>14. CASE CreateEntry(j)
  <2>1. PICK x \in Entries :
           entry' = [entry EXCEPT ![x] = [at |-> "here", folder |-> job[j].to, owner |-> job[j].owner]]
    BY <1>14, Zenon DEF CreateEntry
  <2>2. UNCHANGED folder /\ FolderThere(job[j].to) /\ job[j].owner \in Owned
    BY <1>5, <1>14 DEF CreateEntry, InventoryJob
  <2>3. job[j].to # Root => Here(job[j].to)
    BY <2>2 DEF FolderThere
  <2>4. PICK row \in EntryRow : row = [at |-> "here", folder |-> job[j].to, owner |-> job[j].owner]
    BY <2>2 DEF EntryRow, FolderThere
  <2>5. entry' \in [Entries -> EntryRow] /\ entry'[x] = row /\ \A y \in Entries \ {x} : entry'[y] = entry[y]
    BY <1>1, <2>1, <2>4
  <2> QED
    BY <1>7, <2>2, <2>3, <2>4, <2>5 DEF RowsNamed
<1>15. CASE DeleteEntry(j)
  <2>1. UNCHANGED folder /\ job[j].e \in Entries
    BY <1>5, <1>15 DEF DeleteEntry, Final, NamedJob
  <2>2. ASSUME NEW x \in Entries
        PROVE  entry'[x] \in EntryRow /\ (entry'[x].at = "here" => entry'[x] = entry[x])
    <3>1. PICK row \in EntryRow : row = entry[x]
      BY <1>1
    <3>2. entry'[x] = row \/ entry'[x] = [row EXCEPT !.at = "gone", !.folder = Root]
      BY <1>1, <1>15, <2>1, <3>1 DEF DeleteEntry
    <3> QED
      BY <3>1, <3>2 DEF EntryRow
  <2>3. entry' \in [Entries -> EntryRow]
    <3>1. entry' = [x \in Entries |-> entry'[x]]
      BY <1>1, <1>15 DEF DeleteEntry
    <3> QED
      BY <2>2, <3>1
  <2> QED
    BY <1>7, <2>1, <2>2, <2>3 DEF RowsNamed
<1>16. CASE EditEntry(j)
  <2>1. /\ UNCHANGED folder /\ job[j].e \in Entries
        /\ job[j].to \in Folders \cup {Root} /\ (job[j].to # Root => Here(job[j].to))
    BY <1>5, <1>16 DEF EditEntry, Final, NamedJob, FolderThere, InventoryJob
  <2>2. ASSUME NEW x \in Entries
        PROVE  entry'[x] \in EntryRow /\ (entry'[x] = entry[x] \/ entry'[x].folder = job[j].to)
    <3>1. PICK row \in EntryRow : row = entry[x]
      BY <1>1
    <3>2. entry'[x] = row \/ entry'[x] = PutIn(x, job[j].to, IF job[j].to = Root THEN row.owner ELSE job[j].owner)
      BY <1>1, <1>16, <2>1, <3>1 DEF EditEntry
    <3> QED
      BY <1>5, <2>1, <3>1, <3>2 DEF EntryRow, PutIn, InventoryJob
  <2>3. entry' \in [Entries -> EntryRow]
    <3>1. entry' = [x \in Entries |-> entry'[x]]
      BY <1>1, <1>16 DEF EditEntry
    <3> QED
      BY <2>2, <3>1
  <2> QED
    BY <1>7, <2>1, <2>2, <2>3 DEF RowsNamed
<1>17. CASE Reposition(j)
  <2>1. /\ UNCHANGED folder
        /\ job[j].to \in Folders \cup {Root} /\ (job[j].to # Root => Here(job[j].to))
    BY <1>5, <1>17 DEF Reposition, Final, FolderThere, InventoryJob
  <2>2. PICK y \in job[j].rest :
           entry' = [entry EXCEPT ![y] =
                       PutIn(y, job[j].to, IF y = job[j].e THEN job[j].owner ELSE entry[y].owner)]
    BY <1>17, Zenon DEF Reposition
  <2>3. ASSUME NEW x \in Entries
        PROVE  entry'[x] \in EntryRow /\ (entry'[x] = entry[x] \/ entry'[x].folder = job[j].to)
    <3>1. PICK row \in EntryRow : row = entry[x]
      BY <1>1
    <3>2. entry'[x] = row \/ entry'[x] = PutIn(x, job[j].to, IF x = job[j].e THEN job[j].owner ELSE row.owner)
      BY <1>1, <2>2, <3>1
    <3> QED
      BY <1>5, <2>1, <3>1, <3>2 DEF EntryRow, PutIn, InventoryJob
  <2>4. entry' \in [Entries -> EntryRow]
    <3>1. entry' = [x \in Entries |-> entry'[x]]
      BY <1>1, <2>2
    <3> QED
      BY <2>3, <3>1
  <2> QED
    BY <1>7, <2>1, <2>3, <2>4 DEF RowsNamed
<1>18. CASE Begin(j) \/ ReadFolder(j) \/ ReadTarget(j) \/ Walk(j) \/ TakeFolder(j) \/ ListSubfolders(j)
            \/ FolderMissing(j) \/ ListSiblings(j)
  BY <1>4, <1>18 DEF Begin, ReadFolder, ReadTarget, Walk, TakeFolder, ListSubfolders, FolderMissing, ListSiblings
<1> QED
  BY <1>8, <1>9, <1>10, <1>11, <1>12, <1>13, <1>14, <1>15, <1>16, <1>17, <1>18 DEF JobStep

\* Every step keeps the types and what is named, and touches one request.
LEMMA InventoryTypes ==
  ASSUME InventoryTypeOK, RowsNamed, NEW j \in Jobs, JobStep(j)
  PROVE  InventoryTypeOK' /\ RowsNamed' /\ \A k \in Jobs \ {j} : job'[k] = job[k]
<1>1. TablesGood
  BY TablesStep
<1>2. PICK record \in InventoryJob : NamedJob(record, Existing) /\ (Go(j, record) \/ Wrote(j, record))
  BY RecordStep
<1>3. job' = [job EXCEPT ![j] = record] /\ job \in [Jobs -> InventoryJob]
  BY <1>2 DEF Go, Wrote, InventoryTypeOK
<1>4. job' \in [Jobs -> InventoryJob] /\ job'[j] = record /\ \A k \in Jobs \ {j} : job'[k] = job[k]
  BY <1>3
<1>5. stale' \in [Jobs -> BOOLEAN] /\ tainted' \in BOOLEAN
  <2>1. CASE Go(j, record)
    BY <2>1 DEF Go, InventoryTypeOK
  <2>2. CASE Wrote(j, record)
    <3>1. tainted' \in BOOLEAN
      BY <2>2 DEF Wrote, InventoryTypeOK
    <3>2. \A k \in Jobs : stale[k] \in BOOLEAN
      BY DEF InventoryTypeOK
    <3>3. stale' \in [Jobs -> BOOLEAN]
      BY <2>2, <3>2, Zenon DEF Wrote
    <3> QED
      BY <3>1, <3>3
  <2> QED
    BY <1>2, <2>1, <2>2
<1>6. InventoryTypeOK'
  BY <1>1, <1>4, <1>5 DEF InventoryTypeOK, TablesGood, FolderRow, EntryRow
<1>7. Existing \in SUBSET Folders /\ Existing' \in SUBSET Folders /\ Existing \subseteq Existing'
  BY <1>1 DEF Existing, TablesGood
<1>8. \A k \in Jobs : NamedJob(job'[k], Existing)
  BY <1>2, <1>4 DEF RowsNamed
<1>9. \A k \in Jobs : NamedJob(job'[k], Existing')
  <2>1. ASSUME NEW E \in SUBSET Folders, E = Existing' PROVE \A k \in Jobs : NamedJob(job'[k], E)
    BY <1>7, <1>8, <2>1, NamedMore
  <2> QED
    BY <1>7, <2>1
<1>10. \A f \in Folders : Here(f)' => folder'[f].parent \in Placed'
  BY <1>1 DEF TablesGood, Here, Placed, Existing
<1>11. \A x \in Entries : entry'[x].at = "here" /\ entry'[x].folder # Root => Here(entry[x].folder)'
  BY <1>1 DEF TablesGood, Here
<1> QED
  BY <1>4, <1>6, <1>9, <1>10, <1>11 DEF RowsNamed

----------------------------------------------------------------------------
(* What the other requests know *)

\* A request that stays fresh has seen nobody change what it relies on.
LEMMA Undisturbed ==
  ASSUME InventoryTypeOK, NEW j \in Jobs, NEW k \in Jobs \ {j}, NEW record, Wrote(j, record),
         ~stale'[k], job[k].at \notin {"idle", "done"}
  PROVE  /\ ~stale[k]
         /\ \A f \in OwnersRead(k) \cap Folders :
               Here(f) /\ folder'[f].at = "here" => folder'[f].owner = folder[f].owner
         /\ \A f \in ParentsRead(k) \cap Folders :
               Here(f) /\ folder'[f].at = "here" => folder'[f].parent = folder[f].parent
         /\ job[k].op = "copyEntry" => entry'[job[k].e] = entry[job[k].e]
         /\ \A x \in job[k].rest \ {job[k].e} : entry'[x].at = "here" => entry'[x].folder = job[k].to
<1>1. ~stale[k] /\ ~Outdated(k)
  BY DEF Wrote
<1> QED
  BY <1>1 DEF Outdated

\* While the parents that a climb read stay, it has read the same.
LEMMA TracedKept ==
  ASSUME NEW q \in InventoryJob, q.f \in Existing, q.seen \subseteq Existing, NEW next, Traced(q, next),
         \A g \in Existing : Here(g)' => Here(g),
         \A g \in q.seen \ {q.f} : Here(g)' => folder'[g].parent = folder[g].parent
  PROVE  Traced(q, next)'
<1>1. ASSUME NEW g \in q.seen, Here(g)' PROVE folder'[g].parent \in q.seen \cup next
  <2>1. Here(g)
    BY <1>1
  <2>2. g # q.f
    BY <1>1, <2>1 DEF Traced
  <2> QED
    BY <1>1, <2>1, <2>2 DEF Traced
<1>2. q.to \in q.seen /\ (Here(q.f)' => q.f \notin q.seen)
  BY DEF Traced
<1> QED
  BY <1>1, <1>2 DEF Traced

\* What waits in a list is in it.
LEMMA WaitsListed == ASSUME NEW k, NEW kind PROVE Waits(k, kind) \subseteq Listed(k)
  BY DEF Waits, Await, Listed

\* A list of folders that exist waits for none that does not.
LEMMA AwaitExisting ==
  ASSUME NEW op, NEW E \in SUBSET Folders, NEW tasks \in Lists(op, E), NEW k
  PROVE  Await(k, tasks) \subseteq E
<1>1. \A i \in DOMAIN tasks : tasks[i].s \subseteq E
  <2> DEFINE T == [k : Kinds(op), s : SUBSET E]
  <2>1. tasks \in Seq(T)
    BY DEF Lists
  <2>2. \A i \in DOMAIN tasks : tasks[i] \in T
    <3> HIDE DEF T
    <3> QED
      BY <2>1, LenProperties, ElementOfSeq
  <2> QED
    BY <2>2
<1> QED
  BY <1>1 DEF Await

\* What a request knows and nobody made old stays so through the steps of others.
LEMMA OthersSound ==
  ASSUME InventoryTypeOK, RowsNamed, NEW j \in Jobs, JobStep(j), NEW k \in Jobs \ {j}, JobSound(k)
  PROVE  JobSound(k)'
<1>1. TablesGood /\ RowsNamed'
  BY TablesStep, InventoryTypes
<1>2. PICK record \in InventoryJob : Go(j, record) \/ Wrote(j, record)
  BY RecordStep
<1>3. PICK q \in InventoryJob : q = job[k] /\ job'[k] = q /\ NamedJob(q, Existing)
  BY InventoryTypes DEF InventoryTypeOK, RowsNamed
<1>4. SUFFICES ASSUME ~stale'[k] PROVE (q.op = "moveFolder" => MoveSound(k)') /\ PlaceSound(k)'
  BY <1>3 DEF JobSound
<1>5. CASE q.at \in {"idle", "done"}
  BY <1>3, <1>5 DEF MoveSound, PlaceSound
<1>6. CASE q.at \notin {"idle", "done"}
  <2>1. /\ ~stale[k]
        /\ \A f \in OwnersRead(k) \cap Folders :
              Here(f) /\ folder'[f].at = "here" => folder'[f].owner = folder[f].owner
        /\ \A f \in ParentsRead(k) \cap Folders :
              Here(f) /\ folder'[f].at = "here" => folder'[f].parent = folder[f].parent
        /\ q.op = "copyEntry" => entry'[q.e] = entry[q.e]
        /\ UNCHANGED entry \/ \A x \in q.rest \ {q.e} : entry'[x].at = "here" => entry'[x].folder = q.to
    <3>1. CASE Go(j, record)
      BY <1>4, <3>1 DEF Go
    <3>2. CASE Wrote(j, record)
      BY <1>4, <1>6, <3>2, <1>3, Undisturbed
    <3> QED
      BY <1>2, <3>1, <3>2
  <2>2. (q.op = "moveFolder" => MoveSound(k)) /\ PlaceSound(k)
    BY <1>3, <2>1 DEF JobSound
  <2>3. \A g \in Existing : /\ g \in Folders /\ (Here(g)' => Here(g))
                            /\ g \in OwnersRead(k) => \A o : OwnedBy(g, o) => OwnedBy(g, o)'
    BY <1>1, <2>1 DEF TablesGood, OwnedBy, Here, Existing
  <2>4. \A i : Waits(k, i)' = Waits(k, i) /\ Waits(k, i) \subseteq Existing
    <3>1. \A i : Waits(k, i)' = Waits(k, i)
      BY <1>3 DEF Waits
    <3>2. Existing \in SUBSET Folders
      BY DEF Existing
    <3> QED
      BY <1>3, <3>1, <3>2, AwaitExisting DEF Waits, NamedJob
  <2>5. ToOwn(k)' = ToOwn(k) /\ ToOwn(k) \subseteq Existing
    BY <2>4 DEF ToOwn
  <2>6. PlaceSound(k)'
    <3>1. /\ q.to # Root /\ q.at # "asked" => q.to \in Existing
          /\ q.op \in Placing /\ q.at # "asked" => q.to \in OwnersRead(k)
      BY <1>3, <1>6 DEF NamedJob, OwnersRead, Placing
    <3>2. q.op \in {"createFolder", "createEntry", "editEntry"} /\ q.at = "write" /\ q.to # Root => OwnedBy(q.to, q.owner)'
      BY <1>3, <2>2, <2>3, <3>1 DEF PlaceSound, Placing
    <3>3. q.op = "copyEntry" /\ q.at = "write" => entry'[q.e] = [at |-> "here", folder |-> q.to, owner |-> q.owner]
      BY <1>3, <2>1, <2>2 DEF PlaceSound
    <3>4. q.op = "reposition" /\ q.at \in {"list", "write"} /\ q.to # Root => OwnedBy(q.to, q.owner)'
      BY <1>3, <2>2, <2>3, <3>1 DEF PlaceSound, Placing
    <3>5. q.op = "reposition" /\ q.at = "write" =>
            \A x \in q.rest \ {q.e} : entry'[x].at = "here" => entry'[x].folder = q.to
      BY <1>3, <2>1, <2>2 DEF PlaceSound
    <3> QED
      BY <1>3, <3>2, <3>3, <3>4, <3>5 DEF PlaceSound
  <2>7. ASSUME q.op = "moveFolder" PROVE MoveSound(k)'
    <3>1. MoveSound(k) /\ q.f \in Existing /\ (q.to # Root /\ q.at # "asked" => q.to \in Existing)
      BY <1>3, <1>6, <2>2, <2>7 DEF NamedJob
    <3>2. /\ q.f \in OwnersRead(k) /\ (q.at # "asked" => q.to \in OwnersRead(k))
          /\ \A h \in Listed(k) : h \in OwnersRead(k) /\ folder[h].parent \in OwnersRead(k)
          /\ \A h \in Listed(k) \cup q.seen : h # q.f => h \in ParentsRead(k)
      BY <1>3, <2>7 DEF OwnersRead, ParentsRead
    <3>3. q.at \in {"asked", "walk"} => OwnedBy(q.f, q.was)' /\ q.tasks = <<>>
      BY <2>3, <3>1, <3>2, <1>3 DEF MoveSound
    <3>4. ASSUME NEW next, Traced(q, next) PROVE Traced(q, next)'
      <4>1. q.seen \subseteq Existing
        BY <1>3 DEF NamedJob
      <4>2. ASSUME NEW g \in q.seen \ {q.f}, Here(g)' PROVE folder'[g].parent = folder[g].parent
        BY <2>1, <2>3, <3>2, <4>1, <4>2 DEF Here
      <4> QED
        BY <2>3, <3>1, <3>4, <4>1, <4>2, TracedKept
    <3>5. q.at \in {"walk", "tasks", "write"} /\ q.to # Root => OwnedBy(q.to, q.owner)'
      BY <2>3, <3>1, <3>2, <1>3 DEF MoveSound
    <3>6. /\ q.at = "walk" => q.to # Root /\ Traced(q, {q.cur})'
          /\ q.at \in {"tasks", "write"} /\ q.to # Root => Traced(q, {Root})'
      BY <3>1, <3>4, <1>3 DEF MoveSound
    <3>7. /\ q.at = "tasks" => q.owner # q.was /\ q.tasks # <<>>
          /\ q.at = "write" => q.tasks = <<>>
      BY <3>1, <1>3 DEF MoveSound
    <3>8. q.at \in {"tasks", "write"} =>
            /\ OwnedBy(q.f, q.owner)' \/ q.f \in ToOwn(k)
            /\ q.tasks # <<>> => Await("own", Tail(q.tasks)) = {}
            /\ Waits(k, "own") \subseteq Waits(k, "entries") \cap Waits(k, "subs")
            /\ \A g \in Waits(k, "entries") \cup Waits(k, "subs") : OwnedBy(g, q.owner)' \/ g \in Waits(k, "own")
      BY <2>3, <2>4, <3>1, <3>2, <1>3, WaitsListed DEF MoveSound
    <3>9. ASSUME q.at \in {"tasks", "write"}, NEW h \in ToOwn(k) \ {q.f}, Here(h)', folder'[h].parent # Root
          PROVE  OwnedBy(folder[h].parent, q.owner)'
      <4>1. /\ Here(h) /\ h \in Folders /\ folder'[h].parent = folder[h].parent
            /\ folder[h].parent \in OwnersRead(k)
        <5>1. h \in Listed(k)
          BY <3>9, WaitsListed DEF ToOwn
        <5> QED
          BY <2>1, <2>3, <2>5, <3>2, <3>9, <5>1 DEF Here
      <4>2. PICK g \in Existing : g = folder[h].parent
        BY <3>9, <4>1 DEF RowsNamed, Placed
      <4>3. OwnedBy(g, q.owner)
        BY <1>3, <3>1, <3>9, <4>1, <4>2 DEF MoveSound
      <4>4. OwnedBy(g, q.owner)'
        BY <2>3, <4>1, <4>2, <4>3
      <4> QED
        BY <4>1, <4>2, <4>4 DEF OwnedBy, Here
    <3> QED
      BY <1>3, <2>4, <2>5, <3>3, <3>5, <3>6, <3>7, <3>8, <3>9 DEF MoveSound
  <2> QED
    BY <2>6, <2>7
<1> QED
  BY <1>5, <1>6

----------------------------------------------------------------------------
(* What the request that takes the step knows *)

(* the same folders are there, in the same places *)
SameTree == \A h \in Folders : folder'[h].at = folder[h].at /\ folder'[h].parent = folder[h].parent

\* A move whose climb ended has its folder's owner right, or listed.
LEMMA ClimbedSound ==
  ASSUME NEW j \in Jobs, UNCHANGED folder, NEW q \in InventoryJob, Moving(q, Existing),
         q.tasks = <<>>, OwnedBy(q.f, q.was),
         q.to # Root => OwnedBy(q.to, q.owner) /\ Traced(q, {Root}),
         job'[j] = Climbed(q)
  PROVE  MoveSound(j)'
<1>1. PICK r : r = job'[j] /\ r = Climbed(q)
  OBVIOUS
<1>2. Existing \in SUBSET Folders
  BY DEF Existing
<1>3. /\ r \in InventoryJob /\ SameMove(q, r)
      /\ q.owner = q.was => r.at = "write" /\ r.tasks = <<>>
      /\ q.owner # q.was => r.at = "tasks" /\ r.tasks = Sub({q.f})
  BY <1>1, <1>2, ClimbedForm
<1>4. q.f \in Folders
  BY <1>2 DEF Moving
<1>5. r.tasks \in Seq(Task) /\ \A k : Await(k, r.tasks) = IF q.owner # q.was /\ k = "each" THEN {q.f} ELSE {}
  <2>1. {q.f} \in SUBSET Folders
    BY <1>4
  <2> QED
    BY <1>3, <2>1, AwaitSub, AwaitNothing, EmptySeq
<1>6. r.tasks # <<>> => Await("own", Tail(r.tasks)) = {}
  BY <1>5, AwaitFirst
<1>7. r.at = "tasks" => r.tasks # <<>>
  BY <1>3, <1>5, AwaitNothing
<1>8. \A k : Waits(j, k)' = IF q.owner # q.was /\ k = "each" THEN {q.f} ELSE {}
  BY <1>1, <1>5 DEF Waits
<1>9. ToOwn(j)' = IF q.owner # q.was THEN {q.f} ELSE {}
  BY <1>8 DEF ToOwn
<1>10. /\ OwnedBy(q.f, q.was)'
       /\ q.to # Root => OwnedBy(q.to, q.owner)' /\ Traced(r, {Root})'
  BY <1>3 DEF OwnedBy, Here, Traced, SameMove
<1> QED
  BY <1>1, <1>3, <1>6, <1>7, <1>8, <1>9, <1>10 DEF MoveSound, SameMove

\* What is left to do of a list decides what the record of the move becomes.
LEMMA AfterMove ==
  ASSUME NEW j \in Jobs, NEW q \in InventoryJob, q = job[j], q.op = "moveFolder", q.at = "tasks",
         NEW tasks \in Seq(Task), NEW r, r = After(j, tasks)
  PROVE  r.tasks = tasks /\ SameMove(q, r) /\ r.at = IF tasks = <<>> THEN "write" ELSE "tasks"
<1>1. CASE tasks # <<>>
  <2>1. r = [q EXCEPT !.tasks = tasks]
    BY <1>1 DEF After
  <2> QED
    BY <1>1, <2>1 DEF InventoryJob, SameMove
<1>2. CASE tasks = <<>>
  <2>1. r = [q EXCEPT !.at = "write", !.tasks = <<>>]
    BY <1>2 DEF After
  <2> QED
    BY <1>2, <2>1 DEF InventoryJob, SameMove
<1> QED
  BY <1>1, <1>2

\* A move at work stays sound when its lists and the owners of folders agree.
LEMMA UnderwaySound ==
  ASSUME NEW j \in Jobs, NEW q \in InventoryJob, q = job[j], q.op = "moveFolder", q.at = "tasks", MoveSound(j),
         NEW tasks \in Seq(Task), job'[j] = After(j, tasks), SameTree,
         \A g \in Folders : folder'[g].owner = folder[g].owner \/ folder'[g].owner = q.owner,
         q.f \in Folders, q.to # Root => q.to \in Folders,
         OwnedBy(q.f, q.owner)' \/ q.f \in Await("each", tasks) \cup Await("own", tasks),
         tasks # <<>> => Await("own", Tail(tasks)) = {},
         Await("own", tasks) \subseteq Await("entries", tasks) \cap Await("subs", tasks),
         \A g \in Await("entries", tasks) \cup Await("subs", tasks) : OwnedBy(g, q.owner)' \/ g \in Await("own", tasks),
         \A h \in (Await("each", tasks) \cup Await("own", tasks)) \ {q.f} :
            h \in Folders /\ (Here(h) /\ folder[h].parent # Root =>
                               folder[h].parent \in Folders /\ OwnedBy(folder[h].parent, q.owner))
  PROVE  MoveSound(j)'
<1>1. PICK r : r = job'[j] /\ r = After(j, tasks)
  OBVIOUS
<1>2. r.tasks = tasks /\ SameMove(q, r) /\ r.at = IF tasks = <<>> THEN "write" ELSE "tasks"
  BY <1>1, AfterMove
<1>3. (\A k : Waits(j, k)' = Await(k, tasks)) /\ ToOwn(j)' = Await("each", tasks) \cup Await("own", tasks)
  BY <1>1, <1>2 DEF Waits, ToOwn
<1>4. ASSUME NEW g \in Folders, OwnedBy(g, q.owner) PROVE OwnedBy(g, q.owner)'
  BY <1>4 DEF OwnedBy, Here, SameTree
<1>5. q.to # Root => OwnedBy(q.to, q.owner)'
  <2>1. q.to # Root => OwnedBy(q.to, q.owner)
    BY DEF MoveSound
  <2> QED
    BY <1>4, <2>1
<1>6. q.to # Root => Traced(r, {Root})'
  <2>1. q.to # Root => Traced(q, {Root})
    BY DEF MoveSound
  <2>2. \A h \in Folders : (Here(h)' <=> Here(h)) /\ folder'[h].parent = folder[h].parent
    BY DEF SameTree, Here
  <2>3. q.seen \subseteq Folders
    BY DEF InventoryJob
  <2> QED
    BY <1>2, <2>1, <2>2, <2>3 DEF Traced, SameMove
<1>7. ASSUME NEW h \in (Await("each", tasks) \cup Await("own", tasks)) \ {q.f}, Here(h)', folder'[h].parent # Root
      PROVE  Here(folder[h].parent)' => folder'[folder'[h].parent].owner = q.owner
  <2>1. PICK g \in Folders : g = folder[h].parent /\ g = folder'[h].parent /\ OwnedBy(g, q.owner)
    BY <1>7 DEF SameTree, Here
  <2>2. OwnedBy(g, q.owner)'
    BY <1>4, <2>1
  <2> QED
    BY <2>1, <2>2 DEF OwnedBy, Here
<1>8. ASSUME NEW h \in ToOwn(j)' \ {r.f}
      PROVE  Here(h)' /\ folder'[h].parent # Root => OwnedBy(folder[h].parent, r.owner)'
  BY <1>2, <1>3, <1>7, <1>8 DEF SameMove, OwnedBy
<1>9. q.owner # q.was
  BY DEF MoveSound
<1> QED
  BY <1>1, <1>2, <1>3, <1>5, <1>6, <1>8, <1>9 DEF MoveSound, SameMove

\* A move that works through its lists knows what it has done and what is left.
LEMMA MoveStep ==
  ASSUME InventoryTypeOK, RowsNamed, NEW j \in Jobs, job[j].op = "moveFolder", MoveSound(j),
         TakeFolder(j) \/ SetFolderOwner(j) \/ SetEntryOwner(j) \/ ListSubfolders(j)
  PROVE  MoveSound(j)'
<1>1. PICK q \in InventoryJob : q = job[j] /\ NamedJob(q, Existing)
  BY DEF InventoryTypeOK, RowsNamed
<1>2. Existing \in SUBSET Folders /\ \A f \in Folders : Here(f) => f \in Existing
  BY DEF Existing, Here
<1>3. /\ q.at = "tasks" /\ q.op = "moveFolder" /\ q.tasks # <<>> /\ q.tasks \in Seq(Task)
      /\ Top(j) = Head(q.tasks) /\ Rest(j) = Tail(q.tasks) /\ Rest(j) \in Seq(Task)
      /\ Top(j).s \subseteq Existing /\ q.f \in Existing /\ (q.to # Root => q.to \in Existing)
  <2>1. q.at = "tasks" /\ q.op = "moveFolder" /\ q.tasks # <<>>
    BY <1>1 DEF TakeFolder, SetFolderOwner, SetEntryOwner, ListSubfolders, Working
  <2>2. q.tasks \in Lists(q.op, Existing) /\ q.f \in Existing /\ (q.to # Root => q.to \in Existing)
    BY <1>1, <2>1 DEF NamedJob
  <2>3. Rest(j) \in Lists(q.op, Existing) /\ q.tasks \in Seq(Task) /\ Head(q.tasks).s \subseteq Existing
    BY <1>1, <1>2, <2>1, <2>2, ListsKept DEF Rest
  <2>4. Rest(j) \in Seq(Task)
    BY <1>2, <2>3, ListsKept
  <2> QED
    BY <1>1, <2>1, <2>2, <2>3, <2>4 DEF Top, Rest
<1> DEFINE T == Top(j).s
           own == Waits(j, "own")
           each == Waits(j, "each")
           entries == Waits(j, "entries")
           subs == Waits(j, "subs")
           Left(k) == Await(k, Rest(j))
<1>4. \A k : Waits(j, k) = (IF Top(j).k = k THEN T ELSE {}) \cup Left(k)
  BY <1>1, <1>3, AwaitFirst DEF Waits
<1>5. /\ OwnedBy(q.f, q.owner) \/ q.f \in each \cup own
      /\ Left("own") = {}
      /\ own \subseteq entries \cap subs
      /\ \A g \in entries \cup subs : OwnedBy(g, q.owner) \/ g \in own
      /\ \A h \in (each \cup own) \ {q.f} : Here(h) /\ folder[h].parent # Root => OwnedBy(folder[h].parent, q.owner)
  BY <1>1, <1>3 DEF MoveSound, ToOwn
<1>6. each \subseteq Existing /\ own \subseteq Existing
  BY <1>1, <1>2, AwaitExisting DEF NamedJob, Waits
<1>7. \A h \in (each \cup own) \ {q.f} :
         h \in Folders /\ (Here(h) /\ folder[h].parent # Root =>
                            folder[h].parent \in Folders /\ OwnedBy(folder[h].parent, q.owner))
  BY <1>2, <1>5, <1>6 DEF RowsNamed, Placed
<1>8. q.f \in Folders /\ (q.to # Root => q.to \in Folders)
  BY <1>2, <1>3
<1>9. T \subseteq Folders
  BY <1>2, <1>3
<1> HIDE DEF own, each, entries, subs, Left, T
<1>10. CASE TakeFolder(j)
  <2>1. Top(j).k = "each" /\ UNCHANGED folder
    BY <1>10 DEF TakeFolder, Working, Go
  <2>2. PICK f \in T :
           job'[j] = After(j, <<TaskFor("own", f), TaskFor("entries", f), TaskFor("subs", f)>> \o (Sub(T \ {f}) \o Rest(j)))
    <3>1. PICK f \in Top(j).s :
            LET others == Sub(Top(j).s \ {f}) \o Rest(j)
            IN IF job[j].op = "moveFolder"
               THEN Go(j, After(j, <<TaskFor("own", f), TaskFor("entries", f), TaskFor("subs", f)>> \o others))
               ELSE Go(j, After(j, IF Here(f) THEN Sub(Children(f)) \o <<TaskFor("drop", f), TaskFor("gone", f)>> \o others
                                   ELSE others))
      BY <1>10, Zenon DEF TakeFolder
    <3>2. Go(j, After(j, <<TaskFor("own", f), TaskFor("entries", f), TaskFor("subs", f)>> \o (Sub(T \ {f}) \o Rest(j))))
      BY <3>1 DEF T
    <3>3. job'[j] = After(j, <<TaskFor("own", f), TaskFor("entries", f), TaskFor("subs", f)>> \o (Sub(T \ {f}) \o Rest(j)))
      BY <3>2 DEF Go, InventoryTypeOK
    <3> QED
      BY <3>1, <3>3 DEF T
  <2> DEFINE triple == <<TaskFor("own", f), TaskFor("entries", f), TaskFor("subs", f)>>
             others == Sub(T \ {f}) \o Rest(j)
             tasks == triple \o others
  <2>3. f \in Folders /\ T \ {f} \in SUBSET Folders
    BY <1>9
  <2>4. triple \in Seq(Task) /\ \A k : Await(k, triple) = IF k \in {"own", "entries", "subs"} THEN {f} ELSE {}
    BY <2>3, AwaitFolder
  <2>5. others \in Seq(Task) /\ \A k : Await(k, others) = (IF k = "each" THEN T \ {f} ELSE {}) \cup Left(k)
    <3>1. PICK s \in Seq(Task) : s = Sub(T \ {f}) /\ \A k : Await(k, s) = IF k = "each" THEN T \ {f} ELSE {}
      BY <2>3, AwaitSub
    <3>2. s \o Rest(j) \in Seq(Task) /\ \A k : Await(k, s \o Rest(j)) = Await(k, s) \cup Await(k, Rest(j))
      BY <1>3, AwaitBoth
    <3> QED
      BY <3>1, <3>2 DEF Left
  <2>6. tasks \in Seq(Task) /\ \A k : Await(k, tasks) = Await(k, triple) \cup Await(k, others)
    <3> HIDE DEF triple, others
    <3> QED
      BY <2>4, <2>5, AwaitBoth
  <2>7. /\ Await("each", tasks) \cup Await("own", tasks) = each \cup own
        /\ Await("own", tasks) = {f} /\ own = {}
        /\ Await("entries", tasks) = entries \cup {f} /\ Await("subs", tasks) = subs \cup {f}
    <3>1. each = T \cup Left("each") /\ own = Left("own") /\ entries = Left("entries") /\ subs = Left("subs")
      BY <1>4, <2>1 DEF each, own, entries, subs
    <3>2. /\ Await("each", tasks) = (T \ {f}) \cup Left("each") /\ Await("own", tasks) = {f} \cup Left("own")
          /\ Await("entries", tasks) = {f} \cup Left("entries") /\ Await("subs", tasks) = {f} \cup Left("subs")
      <4> HIDE DEF tasks, triple, others
      <4> QED
        BY <2>4, <2>5, <2>6
    <3> QED
      BY <1>5, <3>1, <3>2
  <2>8. Await("own", Tail(tasks)) = {}
    <3>1. Await("own", Tail(tasks)) \subseteq Await("own", others)
      <4> HIDE DEF others
      <4> QED
        BY <2>3, <2>5, AwaitFolderRest
    <3>2. Await("own", others) = {}
      BY <1>5, <2>5
    <3> QED
      BY <3>1, <3>2
  <2>9. SameTree
    BY <2>1 DEF SameTree
  <2>10. /\ Await("own", tasks) \subseteq Await("entries", tasks) \cap Await("subs", tasks)
         /\ OwnedBy(q.f, q.owner)' \/ q.f \in Await("each", tasks) \cup Await("own", tasks)
         /\ \A g \in Await("entries", tasks) \cup Await("subs", tasks) : OwnedBy(g, q.owner)' \/ g \in Await("own", tasks)
    <3>1. \A g : OwnedBy(g, q.owner)' <=> OwnedBy(g, q.owner)
      BY <2>1 DEF OwnedBy, Here
    <3> HIDE DEF tasks
    <3> QED
      BY <1>5, <2>7, <3>1
  <2>11. job'[j] = After(j, tasks)
    BY <2>2
  <2> HIDE DEF tasks
  <2> QED
    BY <1>1, <1>3, <1>7, <1>8, <2>1, <2>6, <2>7, <2>8, <2>9, <2>10, <2>11, UnderwaySound
<1>11. Rest(j) # <<>> => Await("own", Tail(Rest(j))) = {}
  BY <1>3, <1>5, AwaitFirst DEF Left
<1>12. CASE SetFolderOwner(j)
  <2>1. Top(j).k = "own" /\ job'[j] = After(j, Rest(j))
    BY <1>12 DEF SetFolderOwner, Working, Wrote, InventoryTypeOK
  <2>2. own = T /\ each = Left("each") /\ entries = Left("entries") /\ subs = Left("subs")
    <3>1. Waits(j, "own") = T \cup Left("own") /\ Left("own") = {}
      BY <1>4, <1>5, <2>1
    <3>2. Waits(j, "each") = Left("each") /\ Waits(j, "entries") = Left("entries") /\ Waits(j, "subs") = Left("subs")
      BY <1>4, <2>1
    <3> QED
      BY <3>1, <3>2 DEF own, each, entries, subs
  <2>3. ASSUME NEW g \in Folders
        PROVE  /\ folder'[g].at = folder[g].at /\ folder'[g].parent = folder[g].parent
               /\ folder'[g].owner = IF g \in T /\ Here(g) THEN q.owner ELSE folder[g].owner
    <3>1. PICK row \in FolderRow : row = folder[g]
      BY DEF InventoryTypeOK, FolderRow
    <3>2. folder'[g] = IF g \in T /\ Here(g) THEN [row EXCEPT !.owner = q.owner] ELSE row
      BY <1>1, <1>12, <3>1 DEF SetFolderOwner, T
    <3> QED
      BY <3>1, <3>2 DEF FolderRow
  <2>4. SameTree /\ \A g \in Folders : folder'[g].owner = folder[g].owner \/ folder'[g].owner = q.owner
    BY <2>3 DEF SameTree
  <2>5. \A g \in Folders : OwnedBy(g, q.owner) \/ g \in T => OwnedBy(g, q.owner)'
    BY <2>3 DEF OwnedBy, Here
  <2>6. entries \subseteq Existing /\ subs \subseteq Existing
    BY <1>1, <1>2, AwaitExisting DEF NamedJob, Waits, entries, subs
  <2>7. /\ OwnedBy(q.f, q.owner)' \/ q.f \in Left("each") \cup Left("own")
        /\ Left("own") \subseteq Left("entries") \cap Left("subs")
        /\ \A g \in Left("entries") \cup Left("subs") : OwnedBy(g, q.owner)' \/ g \in Left("own")
        /\ \A h \in (Left("each") \cup Left("own")) \ {q.f} :
              h \in Folders /\ (Here(h) /\ folder[h].parent # Root =>
                                 folder[h].parent \in Folders /\ OwnedBy(folder[h].parent, q.owner))
    BY <1>2, <1>5, <1>7, <1>8, <2>2, <2>5, <2>6
  <2> QED
    BY <1>1, <1>3, <1>8, <1>11, <2>1, <2>4, <2>7, UnderwaySound DEF Left
<1>13. CASE SetEntryOwner(j)
  <2>1. Top(j).k = "entries" /\ job'[j] = After(j, Rest(j)) /\ UNCHANGED folder
    BY <1>13 DEF SetEntryOwner, Working, Wrote, InventoryTypeOK
  <2>2. own = {} /\ each = Left("each") /\ Left("entries") \subseteq entries /\ subs = Left("subs")
    BY <1>4, <1>5, <2>1 DEF own, each, entries, subs
  <2>3. SameTree /\ \A g : OwnedBy(g, q.owner)' <=> OwnedBy(g, q.owner)
    BY <2>1 DEF SameTree, OwnedBy, Here
  <2>4. /\ OwnedBy(q.f, q.owner)' \/ q.f \in Left("each") \cup Left("own")
        /\ Left("own") \subseteq Left("entries") \cap Left("subs")
        /\ \A g \in Left("entries") \cup Left("subs") : OwnedBy(g, q.owner)' \/ g \in Left("own")
        /\ \A h \in (Left("each") \cup Left("own")) \ {q.f} :
              h \in Folders /\ (Here(h) /\ folder[h].parent # Root =>
                                 folder[h].parent \in Folders /\ OwnedBy(folder[h].parent, q.owner))
    BY <1>5, <1>7, <2>2, <2>3
  <2> QED
    BY <1>1, <1>3, <1>8, <1>11, <2>1, <2>3, <2>4, UnderwaySound DEF Left
<1>14. CASE ListSubfolders(j)
  <2> DEFINE C == UNION {Children(f) : f \in Top(j).s}
  <2>1. Top(j).k = "subs" /\ job'[j] = After(j, Sub(C) \o Rest(j)) /\ UNCHANGED folder
    BY <1>14 DEF ListSubfolders, Working, Go, InventoryTypeOK
  <2>2. own = {} /\ each = Left("each") /\ entries = Left("entries") /\ subs = T \cup Left("subs")
    BY <1>4, <1>5, <2>1 DEF own, each, entries, subs
  <2>3. C \in SUBSET Folders /\ \A h \in C : Here(h) /\ folder[h].parent \in T
    BY DEF Children, T
  <2>4. PICK s \in Seq(Task) : s = Sub(C) /\ \A k : Await(k, s) = IF k = "each" THEN C ELSE {}
    BY <2>3, AwaitSub
  <2> HIDE DEF C
  <2> DEFINE tasks == s \o Rest(j)
  <2>5. tasks \in Seq(Task) /\ \A k : Await(k, tasks) = Await(k, s) \cup Left(k)
    BY <1>3, AwaitBoth DEF Left
  <2>6. job'[j] = After(j, tasks)
    BY <2>1, <2>4
  <2> HIDE DEF tasks
  <2>7. /\ Await("each", tasks) = C \cup each /\ Await("own", tasks) = {}
        /\ Await("entries", tasks) = entries /\ Await("subs", tasks) \subseteq subs
    BY <1>5, <2>2, <2>4, <2>5
  <2>8. SameTree /\ \A g : OwnedBy(g, q.owner)' <=> OwnedBy(g, q.owner)
    BY <2>1 DEF SameTree, OwnedBy, Here
  <2>9. \A h \in C : folder[h].parent \in Folders /\ OwnedBy(folder[h].parent, q.owner)
    BY <1>5, <1>9, <2>2, <2>3
  <2>10. /\ OwnedBy(q.f, q.owner)' \/ q.f \in Await("each", tasks) \cup Await("own", tasks)
         /\ Await("own", tasks) \subseteq Await("entries", tasks) \cap Await("subs", tasks)
         /\ \A g \in Await("entries", tasks) \cup Await("subs", tasks) : OwnedBy(g, q.owner)' \/ g \in Await("own", tasks)
         /\ \A h \in (Await("each", tasks) \cup Await("own", tasks)) \ {q.f} :
               h \in Folders /\ (Here(h) /\ folder[h].parent # Root =>
                                  folder[h].parent \in Folders /\ OwnedBy(folder[h].parent, q.owner))
    BY <1>5, <1>7, <2>2, <2>3, <2>7, <2>8, <2>9
  <2>11. tasks # <<>> => Await("own", Tail(tasks)) = {}
    BY <2>5, <2>7, AwaitFirst
  <2> QED
    BY <1>1, <1>3, <1>8, <2>1, <2>5, <2>6, <2>8, <2>10, <2>11, UnderwaySound
<1> QED
  BY <1>10, <1>12, <1>13, <1>14

\* A request that took a step knows what its next step relies on.
LEMMA OwnSound ==
  ASSUME InventoryTypeOK, RowsNamed, NEW j \in Jobs, JobStep(j), JobSound(j)
  PROVE  JobSound(j)'
<1>1. PICK q \in InventoryJob : q = job[j] /\ NamedJob(q, Existing)
  BY DEF InventoryTypeOK, RowsNamed
<1>2. PICK r \in InventoryJob : Go(j, r) \/ Wrote(j, r)
  BY RecordStep
<1>3. job'[j] = r
  BY <1>2 DEF Go, Wrote, InventoryTypeOK
<1>4. CASE r.at = "done" \/ r.op \in {"deleteFolder", "deleteEntry", "none"}
  BY <1>3, <1>4 DEF JobSound, MoveSound, PlaceSound
<1>5. ASSUME r.at # "done", ~stale'[j] PROVE ~stale[j]
  <2>1. CASE Go(j, r)
    BY <1>5, <2>1 DEF Go
  <2>2. CASE Wrote(j, r)
    <3>1. stale'[j] = (stale[j] /\ r.at # "done")
      BY <2>2 DEF Wrote
    <3> QED
      BY <1>5, <3>1
  <2> QED
    BY <1>2, <2>1, <2>2
<1>6. CASE r.at # "done" /\ r.op \notin {"deleteFolder", "deleteEntry", "none"} /\ ~stale'[j]
  <2> SUFFICES (r.op = "moveFolder" => MoveSound(j)') /\ PlaceSound(j)'
    BY <1>3 DEF JobSound
  <2>1. (q.op = "moveFolder" => MoveSound(j)) /\ PlaceSound(j)
    BY <1>1, <1>5, <1>6 DEF JobSound
  <2>2. Existing \in SUBSET Folders /\ \A f \in Folders : Here(f) => f \in Existing
    BY DEF Existing, Here
  <2>3. CASE Begin(j)
    <3>1. UNCHANGED <<folder, entry>>
      BY <2>3 DEF Begin, Go
    <3> DEFINE Goal == (r.op = "moveFolder" => MoveSound(j)') /\ PlaceSound(j)'
    <3>6. \A record : Go(j, record) => record = r
      BY <1>3 DEF Go, InventoryTypeOK
    <3>2. ASSUME NEW op \in {"createFolder", "createEntry"}, NEW to \in Folders \cup {Root}, NEW o \in Owned,
                 Go(j, [NoJob EXCEPT !.at = IF to = Root THEN "write" ELSE "asked", !.op = op, !.to = to, !.owner = o])
          PROVE  Goal
      <4>1. r = [NoJob EXCEPT !.at = IF to = Root THEN "write" ELSE "asked", !.op = op, !.to = to, !.owner = o]
        BY <3>2, <3>6
      <4>2. r.op = op /\ r.to = to /\ r.at = IF to = Root THEN "write" ELSE "asked"
        BY <4>1 DEF NoJob
      <4> QED
        BY <1>3, <4>2 DEF PlaceSound
    <3>3. ASSUME NEW f \in Folders, Here(f), NEW to \in Folders \cup {Root}, NEW o \in Owned,
                 Go(j, [NoJob EXCEPT !.at = "asked", !.op = "moveFolder", !.f = f, !.to = to, !.owner = o,
                                   !.was = folder[f].owner])
          PROVE  Goal
      <4>1. r.at = "asked" /\ r.op = "moveFolder" /\ r.f = f /\ r.was = folder[f].owner /\ r.tasks = <<>>
        BY <3>3, <3>6 DEF NoJob
      <4>2. OwnedBy(f, r.was)'
        BY <3>1, <4>1 DEF OwnedBy
      <4> QED
        BY <1>3, <4>1, <4>2 DEF MoveSound, PlaceSound
    <3>4. ASSUME NEW x \in Entries, NEW op \in {"deleteEntry", "copyEntry"}, entry[x].at = "here",
                 Go(j, [NoJob EXCEPT !.at = "write", !.op = op, !.e = x, !.to = entry[x].folder, !.owner = entry[x].owner])
          PROVE  Goal
      <4>1. PICK row \in EntryRow : row = entry[x]
        BY DEF InventoryTypeOK, EntryRow
      <4>2. row = [at |-> "here", folder |-> row.folder, owner |-> row.owner]
        BY <3>4, <4>1 DEF EntryRow
      <4>3. r.at = "write" /\ r.op = op /\ r.e = x /\ r.to = row.folder /\ r.owner = row.owner
        BY <3>4, <3>6, <4>1 DEF NoJob
      <4> QED
        BY <1>3, <3>1, <4>1, <4>2, <4>3 DEF PlaceSound
    <3>5. ASSUME NEW x \in Entries, NEW to \in Folders \cup {Root}, NEW o \in Owned, NEW op \in {"editEntry", "reposition"},
                 Go(j, [NoJob EXCEPT !.at = IF to # Root THEN "asked" ELSE IF op = "editEntry" THEN "write" ELSE "list",
                                   !.op = op, !.e = x, !.to = to, !.owner = o])
          PROVE  Goal
      <4>1. r.op = op /\ r.to = to /\ r.at = IF to # Root THEN "asked" ELSE IF op = "editEntry" THEN "write" ELSE "list"
        BY <3>5, <3>6 DEF NoJob
      <4> QED
        BY <1>3, <4>1 DEF PlaceSound
    <3>7. ASSUME NEW f \in Folders, Go(j, [NoJob EXCEPT !.at = "tasks", !.op = "deleteFolder", !.f = f,
                                                        !.tasks = <<[k |-> "each", s |-> {f}]>>])
          PROVE  Goal
      <4>1. r = [NoJob EXCEPT !.at = "tasks", !.op = "deleteFolder", !.f = f, !.tasks = <<[k |-> "each", s |-> {f}]>>]
        BY <3>6, <3>7
      <4> QED
        BY <1>6, <4>1 DEF NoJob
    <3> HIDE DEF Goal
    <3>8. Goal
      BY <2>3, <3>2, <3>3, <3>4, <3>5, <3>7 DEF Begin
    <3> QED
      BY <3>8 DEF Goal
  <2>4. CASE ReadFolder(j)
    <3>1. CASE ~Here(job[j].to)
      <4>1. r = EndedJob
        BY <1>3, <2>4, <3>1 DEF ReadFolder, Go, InventoryTypeOK
      <4> QED
        BY <1>6, <4>1 DEF EndedJob, NoJob
    <3>2. CASE Here(job[j].to)
      <4>1. q.at = "asked" /\ q.op \notin {"moveFolder", "copyEntry"} /\ UNCHANGED folder
        BY <1>1, <2>4 DEF ReadFolder, NamedJob, Go
      <4>2. r = [q EXCEPT !.at = IF q.op = "reposition" THEN "list" ELSE "write", !.owner = folder[q.to].owner]
        BY <1>1, <1>3, <2>4, <3>2 DEF ReadFolder, Go, InventoryTypeOK
      <4>3. r.op = q.op /\ r.to = q.to /\ r.owner = folder[q.to].owner /\ r.at = IF q.op = "reposition" THEN "list" ELSE "write"
        BY <4>2 DEF InventoryJob
      <4>4. OwnedBy(r.to, r.owner)'
        BY <4>1, <4>3 DEF OwnedBy
      <4> QED
        BY <1>3, <4>1, <4>3, <4>4 DEF PlaceSound
    <3> QED
      BY <3>1, <3>2
  <2>5. CASE ReadTarget(j)
    <3>1. /\ q.at = "asked" /\ q.op = "moveFolder" /\ q.f \in Existing
          /\ q.seen \subseteq Existing /\ q.tasks \in Lists(q.op, Existing) /\ UNCHANGED folder
      BY <1>1, <2>5 DEF ReadTarget, NamedJob, Go
    <3>2. OwnedBy(q.f, q.was) /\ q.tasks = <<>>
      BY <1>1, <2>1, <3>1 DEF MoveSound
    <3>3. CASE q.to = Root
      <4>1. job'[j] = Climbed(q) /\ Moving(q, Existing)
        BY <1>1, <2>5, <3>1, <3>3 DEF ReadTarget, Go, InventoryTypeOK, Moving
      <4>2. MoveSound(j)'
        BY <3>1, <3>2, <3>3, <4>1, ClimbedSound
      <4>3. SameMove(q, r)
        BY <1>3, <2>2, <4>1, ClimbedForm
      <4> QED
        BY <1>3, <3>1, <4>2, <4>3 DEF PlaceSound, SameMove
    <3>4. CASE q.to # Root /\ ~Here(q.to)
      <4>1. r = EndedJob
        BY <1>1, <1>3, <2>5, <3>4 DEF ReadTarget, Go, InventoryTypeOK
      <4> QED
        BY <1>6, <4>1 DEF EndedJob, NoJob
    <3>5. CASE q.to # Root /\ Here(q.to)
      <4>1. q.to \in Existing
        BY <2>2, <3>5 DEF InventoryJob
      <4>2. PICK o \in Owned : o = folder[q.to].owner
        BY <2>2, <4>1 DEF InventoryTypeOK
      <4>3. PICK p \in InventoryJob : /\ p = [q EXCEPT !.owner = o, !.seen = {q.to}]
                                      /\ Moving(p, Existing) /\ p.tasks = <<>> /\ p.at = "asked" /\ p.seen = {q.to}
                                      /\ p.f = q.f /\ p.to = q.to /\ p.was = q.was /\ p.owner = o /\ p.op = "moveFolder"
        <5> DEFINE p == [q EXCEPT !.owner = o, !.seen = {q.to}]
        <5>1. p \in InventoryJob
          BY <2>2, <4>1 DEF InventoryJob
        <5>2. Moving(p, Existing) /\ p.tasks = <<>> /\ p.at = "asked" /\ p.seen = {q.to}
              /\ p.f = q.f /\ p.to = q.to /\ p.was = q.was /\ p.owner = o /\ p.op = "moveFolder"
          BY <3>1, <3>2, <4>1 DEF Moving, InventoryJob
        <5> QED
          BY <5>1, <5>2
      <4>4. r = Climb(p, p.to)
        BY <1>1, <1>3, <2>5, <3>5, <4>2, <4>3 DEF ReadTarget, Go, InventoryTypeOK
      <4>5. OwnedBy(p.f, p.was) /\ OwnedBy(p.to, p.owner)
        BY <3>2, <4>2, <4>3 DEF OwnedBy
      <4>6. p.to \in Existing
        BY <4>1, <4>3
      <4>7. \/ r = Climbed(p) /\ p.to # p.f /\ folder[p.to].parent = Root
            \/ r = EndedJob
            \/ p.to # p.f /\ folder[p.to].parent # Root
               /\ r.at = "walk" /\ r.cur = folder[p.to].parent /\ r.tasks = p.tasks /\ SameMove(p, r)
        <5>1. Moving(p, Existing)
          BY <4>3
        <5>2. Turned(p, p.to, r)
          BY <4>4, <4>6, <5>1, ClimbForm
        <5> QED
          BY <3>5, <4>3, <5>2 DEF Turned
      <4>8. p.to # p.f => Traced(p, {folder[p.to].parent})
        BY <4>3 DEF Traced
      <4>9. CASE r = Climbed(p) /\ p.to # p.f /\ folder[p.to].parent = Root
        <5>1. Traced(p, {Root})
          BY <4>8, <4>9
        <5>2. MoveSound(j)'
          BY <1>3, <3>1, <4>3, <4>5, <4>9, <5>1, ClimbedSound
        <5>3. SameMove(p, r)
          BY <2>2, <4>3, <4>9, ClimbedForm
        <5> QED
          BY <1>3, <4>3, <5>2, <5>3 DEF PlaceSound, SameMove
      <4>10. CASE r = EndedJob
        BY <1>6, <4>10 DEF EndedJob, NoJob
      <4>11. CASE p.to # p.f /\ folder[p.to].parent # Root
                  /\ r.at = "walk" /\ r.cur = folder[p.to].parent /\ r.tasks = p.tasks /\ SameMove(p, r)
        <5>1. OwnedBy(r.f, r.was)' /\ OwnedBy(r.to, r.owner)' /\ Traced(r, {r.cur})'
          BY <3>1, <4>5, <4>8, <4>11 DEF SameMove, OwnedBy, Here, Traced
        <5>2. r.to # Root
          BY <3>5, <4>3, <4>11 DEF SameMove
        <5> QED
          BY <1>3, <4>3, <4>11, <5>1, <5>2 DEF MoveSound, PlaceSound, SameMove
      <4> QED
        BY <4>7, <4>9, <4>10, <4>11
    <3> QED
      BY <3>3, <3>4, <3>5
  <2>6. CASE Walk(j)
    <3>1. q.at = "walk" /\ q.op = "moveFolder" /\ q.cur \in Existing /\ Moving(q, Existing) /\ UNCHANGED folder
      BY <1>1, <2>6 DEF Walk, NamedJob, Go, Moving
    <3>2. /\ OwnedBy(q.f, q.was) /\ q.tasks = <<>> /\ q.to # Root /\ OwnedBy(q.to, q.owner)
          /\ Traced(q, {q.cur})
      BY <1>1, <2>1, <3>1 DEF MoveSound
    <3>3. PICK p \in InventoryJob : /\ p = [q EXCEPT !.cur = Root, !.seen = @ \cup {q.cur}]
                                    /\ Moving(p, Existing) /\ p.tasks = <<>> /\ p.seen = q.seen \cup {q.cur}
                                    /\ p.f = q.f /\ p.to = q.to /\ p.was = q.was /\ p.owner = q.owner /\ p.op = q.op
      <4> DEFINE p == [q EXCEPT !.cur = Root, !.seen = @ \cup {q.cur}]
      <4>1. p \in InventoryJob
        BY <2>2, <3>1 DEF InventoryJob
      <4>2. /\ Moving(p, Existing) /\ p.tasks = <<>> /\ p.seen = q.seen \cup {q.cur}
            /\ p.f = q.f /\ p.to = q.to /\ p.was = q.was /\ p.owner = q.owner /\ p.op = q.op
        BY <3>1, <3>2 DEF Moving, InventoryJob
      <4> QED
        BY <4>1, <4>2
    <3>4. PICK g \in Existing : g = q.cur
      BY <3>1
    <3>5. r = Climb(p, g)
      BY <1>1, <1>3, <2>6, <3>3, <3>4 DEF Walk, Go, InventoryTypeOK
    <3>6. \/ r = Climbed(p) /\ (Here(g) => g # p.f /\ folder[g].parent = Root)
          \/ r = EndedJob
          \/ /\ Here(g) /\ g # p.f /\ folder[g].parent # Root
             /\ r.at = "walk" /\ r.cur = folder[g].parent /\ r.tasks = p.tasks /\ SameMove(p, r)
      <4>1. Moving(p, Existing)
        BY <3>3
      <4>2. Turned(p, g, r)
        BY <3>5, <4>1, ClimbForm
      <4> QED
        BY <4>2 DEF Turned
    <3>7. ASSUME Here(g) => g # p.f, NEW next, Here(g) => next = folder[g].parent PROVE Traced(p, {next})
      BY <3>2, <3>3, <3>4, <3>7 DEF Traced
    <3>8. CASE r = Climbed(p) /\ (Here(g) => g # p.f /\ folder[g].parent = Root)
      <4>1. Traced(p, {Root})
        BY <3>7, <3>8
      <4>2. OwnedBy(p.f, p.was) /\ OwnedBy(p.to, p.owner)
        BY <3>2, <3>3
      <4>3. MoveSound(j)'
        BY <1>3, <3>1, <3>3, <3>8, <4>1, <4>2, ClimbedSound
      <4>4. SameMove(p, r)
        BY <2>2, <3>3, <3>8, ClimbedForm
      <4> QED
        BY <1>3, <3>1, <3>3, <4>3, <4>4 DEF PlaceSound, SameMove
    <3>9. CASE r = EndedJob
      BY <1>6, <3>9 DEF EndedJob, NoJob
    <3>10. CASE /\ Here(g) /\ g # p.f /\ folder[g].parent # Root
                /\ r.at = "walk" /\ r.cur = folder[g].parent /\ r.tasks = p.tasks /\ SameMove(p, r)
      <4>1. /\ r.f = q.f /\ r.was = q.was /\ r.to = q.to /\ r.owner = q.owner /\ r.op = "moveFolder" /\ r.tasks = <<>>
            /\ r.at = "walk"
        BY <3>1, <3>3, <3>10 DEF SameMove
      <4>2. /\ OwnedBy(r.f, r.was)' /\ (r.to # Root => OwnedBy(r.to, r.owner)')
            /\ r.to # Root /\ Traced(r, {r.cur})'
        <5>1. Traced(p, {r.cur})
          BY <3>7, <3>10
        <5> QED
          BY <3>1, <3>2, <3>10, <4>1, <5>1 DEF OwnedBy, Here, Traced, SameMove
      <4> QED
        BY <1>3, <4>1, <4>2 DEF MoveSound, PlaceSound
    <3> QED
      BY <3>6, <3>8, <3>9, <3>10
  <2>7. CASE TakeFolder(j) \/ SetFolderOwner(j) \/ SetEntryOwner(j) \/ ListSubfolders(j) \/ DropEntries(j) \/ DropFolder(j)
    <3>1. q.at = "tasks" /\ q.tasks # <<>> /\ q.op \in {"moveFolder", "deleteFolder"} /\ q.tasks \in Lists(q.op, Existing)
      BY <1>1, <2>7 DEF TakeFolder, SetFolderOwner, SetEntryOwner, ListSubfolders, DropEntries, DropFolder, Working, NamedJob
    <3>2. Head(q.tasks).k \in Kinds(q.op)
      BY <2>2, <3>1, ListsKept
    <3>3. ASSUME NEW tasks, r = After(j, tasks) PROVE r.op = q.op
      <4>1. CASE tasks # <<>>
        <5>1. r = [q EXCEPT !.tasks = tasks]
          BY <1>1, <3>3, <4>1 DEF After
        <5> QED
          BY <5>1 DEF InventoryJob
      <4>2. CASE tasks = <<>> /\ q.op = "moveFolder"
        <5>1. r = [q EXCEPT !.at = "write", !.tasks = <<>>]
          BY <1>1, <3>3, <4>2 DEF After
        <5> QED
          BY <5>1 DEF InventoryJob
      <4>3. CASE tasks = <<>> /\ q.op # "moveFolder"
        <5>1. r = EndedJob
          BY <1>1, <3>3, <4>3 DEF After
        <5> QED
          BY <1>6, <5>1 DEF EndedJob, NoJob
      <4> QED
        BY <4>1, <4>2, <4>3
    <3>4. \E tasks : Go(j, After(j, tasks)) \/ Wrote(j, After(j, tasks))
      <4>1. CASE TakeFolder(j)
        BY <4>1 DEF TakeFolder
      <4>2. CASE SetFolderOwner(j) \/ SetEntryOwner(j) \/ ListSubfolders(j) \/ DropEntries(j) \/ DropFolder(j)
        BY <4>2 DEF SetFolderOwner, SetEntryOwner, ListSubfolders, DropEntries, DropFolder
      <4> QED
        BY <2>7, <4>1, <4>2
    <3>5. \E tasks : r = After(j, tasks)
      BY <1>3, <3>4 DEF Go, Wrote, InventoryTypeOK
    <3>6. r.op = "moveFolder" /\ q.op = "moveFolder"
      BY <1>6, <3>1, <3>3, <3>5
    <3>7. ~DropEntries(j) /\ ~DropFolder(j)
      BY <1>1, <3>2, <3>6 DEF DropEntries, DropFolder, Working, Top, Kinds
    <3>8. MoveSound(j)'
      BY <1>1, <2>1, <2>7, <3>6, <3>7, MoveStep
    <3> QED
      BY <1>3, <3>6, <3>8 DEF PlaceSound
  <2>8. CASE SetParent(j) \/ CreateFolder(j) \/ CreateEntry(j) \/ DeleteEntry(j) \/ EditEntry(j) \/ FolderMissing(j)
    <3>1. r = EndedJob
      BY <1>3, <2>8 DEF SetParent, CreateFolder, CreateEntry, DeleteEntry, EditEntry, FolderMissing, Go, Wrote, InventoryTypeOK
    <3> QED
      BY <1>6, <3>1 DEF EndedJob, NoJob
  <2>9. CASE ListSiblings(j)
    <3>1. q.at = "list" /\ q.op = "reposition" /\ q.e \in Entries /\ UNCHANGED <<folder, entry>>
      BY <1>1, <2>9 DEF ListSiblings, NamedJob, Go
    <3>2. r # EndedJob
      BY <1>6 DEF EndedJob, NoJob
    <3>3. r = [q EXCEPT !.at = "write", !.rest = {x \in Inside(q.to) : entry[x].owner = q.owner} \cup {q.e}]
      BY <1>1, <1>3, <2>9, <3>2 DEF ListSiblings, Go, InventoryTypeOK
    <3>4. /\ r.op = "reposition" /\ r.to = q.to /\ r.owner = q.owner /\ r.e = q.e /\ r.at = "write"
          /\ r.rest = {x \in Inside(q.to) : entry[x].owner = q.owner} \cup {q.e}
      BY <3>1, <3>3 DEF InventoryJob
    <3>5. r.to # Root => OwnedBy(r.to, r.owner)'
      BY <1>1, <2>1, <3>1, <3>4 DEF PlaceSound, OwnedBy, Here
    <3>6. \A x \in r.rest \ {r.e} : entry'[x].folder = r.to
      BY <3>1, <3>4 DEF Inside
    <3> QED
      BY <1>3, <3>4, <3>5, <3>6 DEF PlaceSound
  <2>10. CASE Reposition(j)
    <3>1. q.at = "write" /\ q.op = "reposition" /\ UNCHANGED folder
      BY <1>1, <2>10 DEF Reposition, Final
    <3>2. PICK x \in q.rest :
             /\ entry' = [entry EXCEPT ![x] = PutIn(x, job[j].to, IF x = job[j].e THEN job[j].owner ELSE entry[x].owner)]
             /\ Wrote(j, IF job[j].rest = {x} THEN EndedJob ELSE [job[j] EXCEPT !.rest = @ \ {x}])
      BY <1>1, <2>10, Zenon DEF Reposition
    <3>3. r = IF q.rest = {x} THEN EndedJob ELSE [q EXCEPT !.rest = @ \ {x}]
      BY <1>1, <1>3, <3>2 DEF Wrote, InventoryTypeOK
    <3>4. r = [q EXCEPT !.rest = @ \ {x}]
      BY <1>6, <3>3 DEF EndedJob, NoJob
    <3>5. r.op = "reposition" /\ r.to = q.to /\ r.owner = q.owner /\ r.e = q.e /\ r.at = "write" /\ r.rest = q.rest \ {x}
      BY <3>1, <3>4 DEF InventoryJob
    <3>6. \A y \in Entries \ {x} : entry'[y] = entry[y]
      BY <3>2 DEF InventoryTypeOK
    <3>7. r.to # Root => OwnedBy(r.to, r.owner)'
      BY <1>1, <2>1, <3>1, <3>5 DEF PlaceSound, OwnedBy, Here
    <3>8. \A y \in r.rest \ {r.e} : entry'[y].at = "here" => entry'[y].folder = r.to
      <4>1. q.rest \subseteq Entries
        BY DEF InventoryJob
      <4> QED
        BY <1>1, <2>1, <3>1, <3>5, <3>6, <4>1 DEF PlaceSound
    <3> QED
      BY <1>3, <3>5, <3>7, <3>8 DEF PlaceSound
  <2> QED
    BY <2>3, <2>4, <2>5, <2>6, <2>7, <2>8, <2>9, <2>10 DEF JobStep
<1> QED
  BY <1>4, <1>6 DEF JobSound

----------------------------------------------------------------------------
(* The tree *)

\* A request that writes what is not old leaves the history clean.
LEMMA CleanWrite ==
  ASSUME NEW j \in Jobs, NEW record, Wrote(j, record), ~tainted'
  PROVE  ~tainted /\ (stale[j] => job[j].op \in {"deleteFolder", "deleteEntry"})
BY DEF Wrote

\* No step puts a folder above itself, as long as no request wrote what was old.
LEMMA CycleKept ==
  ASSUME InventoryTypeOK, RowsNamed, NEW j \in Jobs, JobStep(j), JobSound(j), NoCycle, ~tainted'
  PROVE  NoCycle'
<1>1. PICK q \in InventoryJob : q = job[j] /\ NamedJob(q, Existing)
  BY DEF InventoryTypeOK, RowsNamed
<1>2. TablesGood
  BY TablesStep
<1>3. SUFFICES ASSUME NEW S \in SUBSET Folders, S # {}, \A g \in S : folder'[g].at = "here" /\ folder'[g].parent \in S
               PROVE  \E R \in SUBSET Folders \ {{}} : \A g \in R : Here(g) /\ folder[g].parent \in R
  BY Zenon DEF NoCycle, Here
<1>4. CASE SetParent(j)
  <2>1. q.at = "write" /\ q.op = "moveFolder" /\ q.f \in Folders
    BY <1>1, <1>4 DEF SetParent, Final, NamedJob, Existing
  <2>2. ~stale[j]
    BY <1>1, <1>4, <2>1, CleanWrite DEF SetParent
  <2>3. q.to # Root => Traced(q, {Root})
    BY <1>1, <2>1, <2>2 DEF JobSound, MoveSound
  <2>4. folder' = [folder EXCEPT ![q.f].parent = IF Here(q.f) THEN q.to ELSE @]
    BY <1>1, <1>4 DEF SetParent
  <2>5. ASSUME NEW g \in Folders
        PROVE  folder'[g].at = folder[g].at /\ folder'[g].parent = IF g = q.f /\ Here(g) THEN q.to ELSE folder[g].parent
    <3>1. PICK row \in FolderRow : row = folder[g]
      BY DEF InventoryTypeOK, FolderRow
    <3>2. folder'[g] = IF g = q.f /\ Here(g) THEN [row EXCEPT !.parent = q.to] ELSE row
      <4>1. CASE g = q.f
        <5>1. folder'[g] = [row EXCEPT !.parent = IF Here(g) THEN q.to ELSE @]
          BY <2>1, <2>4, <3>1, <4>1 DEF InventoryTypeOK
        <5> QED
          BY <4>1, <5>1 DEF FolderRow
      <4>2. CASE g # q.f
        BY <2>4, <3>1, <4>2 DEF InventoryTypeOK
      <4> QED
        BY <4>1, <4>2
    <3> QED
      BY <3>1, <3>2 DEF FolderRow
  <2>6. \A g \in S : Here(g)
    BY <1>3, <2>5 DEF Here
  <2>7. \A g \in S \ {q.f} : folder[g].parent \in S
    BY <1>3, <2>5
  <2>8. CASE q.f \notin S
    BY <1>3, <2>6, <2>7, <2>8
  <2>9. CASE q.f \in S
    <3>1. q.to \in S /\ q.to # Root
      BY <1>3, <2>5, <2>6, <2>9, RootAssumption
    <3>2. Traced(q, {Root}) /\ q.f \notin q.seen
      BY <2>3, <2>6, <2>9, <3>1 DEF Traced
    <3>3. \A g \in S \cap q.seen : Here(g) /\ folder[g].parent \in S \cap q.seen
      BY <2>6, <2>7, <3>2, RootAssumption DEF Traced
    <3>4. S \cap q.seen # {}
      BY <3>1, <3>2 DEF Traced
    <3> QED
      BY <3>3, <3>4
  <2> QED
    BY <2>8, <2>9
<1>5. CASE CreateFolder(j)
  <2>1. PICK f \in Folders :
           /\ folder[f].at = "none"
           /\ folder' = [folder EXCEPT ![f] = [at |-> "here", parent |-> job[j].to, owner |-> job[j].owner]]
    BY <1>5, Zenon DEF CreateFolder
  <2>2. folder'[f].parent = q.to /\ \A g \in Folders \ {f} : folder'[g] = folder[g]
    BY <1>1, <2>1 DEF InventoryTypeOK
  <2>3. q.to # f /\ f \notin Existing
    <3>1. q.to \in Existing \cup {Root}
      BY <1>1, <1>5 DEF CreateFolder, Final, NamedJob
    <3> QED
      BY <2>1, <3>1, RootAssumption DEF Existing
  <2>4. \A g \in S \ {f} : Here(g) /\ folder[g].parent \in S
    BY <1>3, <2>2 DEF Here
  <2>5. \A g \in S \ {f} : folder[g].parent # f
    BY <1>3, <2>3, <2>4, RootAssumption DEF RowsNamed, Placed
  <2>6. S \ {f} # {}
    BY <1>3, <2>2, <2>3
  <2> QED
    BY <2>4, <2>5, <2>6
<1>6. ASSUME \A g \in Folders : folder'[g].at = "here" => Here(g) /\ folder'[g].parent = folder[g].parent
      PROVE  \E R \in SUBSET Folders \ {{}} : \A g \in R : Here(g) /\ folder[g].parent \in R
  <2>1. \A g \in S : Here(g) /\ folder[g].parent \in S
    BY <1>3, <1>6
  <2> QED
    BY <1>3, <2>1
<1>7. CASE UNCHANGED folder
  BY <1>6, <1>7 DEF Here
<1>8. CASE SetFolderOwner(j)
  <2>1. ASSUME NEW g \in Folders PROVE folder'[g].at = folder[g].at /\ folder'[g].parent = folder[g].parent
    <3>1. PICK row \in FolderRow : row = folder[g]
      BY DEF InventoryTypeOK, FolderRow
    <3>2. folder'[g] = [row EXCEPT !.owner = job[j].owner] \/ folder'[g] = row
      BY <1>8, <3>1 DEF SetFolderOwner
    <3> QED
      BY <3>1, <3>2 DEF FolderRow
  <2> QED
    BY <1>6, <2>1 DEF Here
<1>9. CASE DropFolder(j)
  <2>1. \A g \in Folders : folder'[g].at = "gone" \/ folder'[g] = folder[g]
    BY <1>9 DEF DropFolder, NoFolder
  <2> QED
    BY <1>6, <2>1 DEF Here
<1>10. CASE Begin(j) \/ ReadFolder(j) \/ ReadTarget(j) \/ Walk(j) \/ TakeFolder(j) \/ ListSubfolders(j)
            \/ FolderMissing(j) \/ ListSiblings(j)
  BY <1>7, <1>10 DEF Begin, ReadFolder, ReadTarget, Walk, TakeFolder, ListSubfolders, FolderMissing, ListSiblings, Go
<1>11. CASE SetEntryOwner(j) \/ DropEntries(j) \/ CreateEntry(j) \/ DeleteEntry(j) \/ EditEntry(j) \/ Reposition(j)
  BY <1>7, <1>11 DEF SetEntryOwner, DropEntries, CreateEntry, DeleteEntry, EditEntry, Reposition
<1> QED
  BY <1>4, <1>5, <1>8, <1>9, <1>10, <1>11 DEF JobStep

----------------------------------------------------------------------------
(* Owners *)

\* How a step of a move changes what its lists hold.
LEMMA MoveLists ==
  ASSUME InventoryTypeOK, RowsNamed, NEW j \in Jobs, job[j].op = "moveFolder",
         TakeFolder(j) \/ SetFolderOwner(j) \/ SetEntryOwner(j) \/ ListSubfolders(j)
  PROVE  /\ job[j].at = "tasks" /\ SameMove(job[j], job'[j]) /\ job'[j].at \in {"tasks", "write"}
         /\ TakeFolder(j) =>
               /\ ToOwn(j) \subseteq ToOwn(j)'
               /\ Waits(j, "entries") \subseteq Waits(j, "entries")' /\ Waits(j, "subs") \subseteq Waits(j, "subs")'
         /\ SetFolderOwner(j) =>
               /\ Top(j).s \subseteq Waits(j, "own") /\ ToOwn(j) \subseteq ToOwn(j)' \cup Top(j).s
               /\ Waits(j, "entries") = Waits(j, "entries")' /\ Waits(j, "subs") = Waits(j, "subs")'
         /\ SetEntryOwner(j) =>
               /\ Top(j).s \subseteq Waits(j, "entries") /\ ToOwn(j) = ToOwn(j)'
               /\ Waits(j, "entries") \subseteq Waits(j, "entries")' \cup Top(j).s /\ Waits(j, "subs") = Waits(j, "subs")'
               /\ Await("own", Rest(j)) = Waits(j, "own")
         /\ ListSubfolders(j) =>
               /\ ToOwn(j) \cup UNION {Children(f) : f \in Top(j).s} \subseteq ToOwn(j)'
               /\ Waits(j, "entries") = Waits(j, "entries")' /\ Waits(j, "subs") \subseteq Waits(j, "subs")' \cup Top(j).s
<1>1. PICK q \in InventoryJob : q = job[j] /\ NamedJob(q, Existing)
  BY DEF InventoryTypeOK, RowsNamed
<1>2. Existing \in SUBSET Folders
  BY DEF Existing
<1>3. /\ q.at = "tasks" /\ q.op = "moveFolder" /\ q.tasks # <<>> /\ q.tasks \in Seq(Task)
      /\ Rest(j) \in Seq(Task) /\ Top(j).s \subseteq Folders
  <2>1. q.at = "tasks" /\ q.op = "moveFolder" /\ q.tasks # <<>>
    BY <1>1 DEF TakeFolder, SetFolderOwner, SetEntryOwner, ListSubfolders, Working
  <2>2. q.tasks \in Lists(q.op, Existing)
    BY <1>1, <2>1 DEF NamedJob
  <2>3. Rest(j) \in Lists(q.op, Existing) /\ q.tasks \in Seq(Task) /\ Head(q.tasks).s \subseteq Existing
    BY <1>1, <1>2, <2>1, <2>2, ListsKept DEF Rest
  <2>4. Rest(j) \in Seq(Task)
    BY <1>2, <2>3, ListsKept
  <2> QED
    BY <1>1, <1>2, <2>1, <2>3, <2>4 DEF Top
<1> DEFINE T == Top(j).s
           Left(k) == Await(k, Rest(j))
<1>4. \A k : Waits(j, k) = (IF Top(j).k = k THEN T ELSE {}) \cup Left(k)
  BY <1>1, <1>3, AwaitFirst DEF Waits, Top, Rest
<1>5. ASSUME NEW tasks \in Seq(Task), job'[j] = After(j, tasks)
      PROVE  SameMove(q, job'[j]) /\ job'[j].at \in {"tasks", "write"} /\ \A k : Waits(j, k)' = Await(k, tasks)
  BY <1>1, <1>3, <1>5, AfterMove DEF Waits
<1>6. CASE TakeFolder(j)
  <2>1. Top(j).k = "each"
    BY <1>6 DEF TakeFolder, Working
  <2>2. PICK f \in T :
           job'[j] = After(j, <<TaskFor("own", f), TaskFor("entries", f), TaskFor("subs", f)>> \o (Sub(T \ {f}) \o Rest(j)))
    <3>1. PICK f \in Top(j).s :
            LET others == Sub(Top(j).s \ {f}) \o Rest(j)
            IN IF job[j].op = "moveFolder"
               THEN Go(j, After(j, <<TaskFor("own", f), TaskFor("entries", f), TaskFor("subs", f)>> \o others))
               ELSE Go(j, After(j, IF Here(f) THEN Sub(Children(f)) \o <<TaskFor("drop", f), TaskFor("gone", f)>> \o others
                                   ELSE others))
      BY <1>6, Zenon DEF TakeFolder
    <3>2. Go(j, After(j, <<TaskFor("own", f), TaskFor("entries", f), TaskFor("subs", f)>> \o (Sub(T \ {f}) \o Rest(j))))
      BY <3>1
    <3> QED
      BY <3>2 DEF Go, InventoryTypeOK
  <2> HIDE DEF T
  <2> DEFINE triple == <<TaskFor("own", f), TaskFor("entries", f), TaskFor("subs", f)>>
             others == Sub(T \ {f}) \o Rest(j)
             tasks == triple \o others
  <2>3. f \in Folders /\ T \ {f} \in SUBSET Folders
    BY <1>3 DEF T
  <2>4. triple \in Seq(Task) /\ \A k : Await(k, triple) = IF k \in {"own", "entries", "subs"} THEN {f} ELSE {}
    BY <2>3, AwaitFolder
  <2>5. others \in Seq(Task) /\ \A k : Await(k, others) = (IF k = "each" THEN T \ {f} ELSE {}) \cup Left(k)
    <3>1. PICK s \in Seq(Task) : s = Sub(T \ {f}) /\ \A k : Await(k, s) = IF k = "each" THEN T \ {f} ELSE {}
      BY <2>3, AwaitSub
    <3>2. s \o Rest(j) \in Seq(Task) /\ \A k : Await(k, s \o Rest(j)) = Await(k, s) \cup Await(k, Rest(j))
      BY <1>3, AwaitBoth
    <3> QED
      BY <3>1, <3>2
  <2>6. tasks \in Seq(Task) /\ \A k : Await(k, tasks) = Await(k, triple) \cup Await(k, others)
    <3> HIDE DEF triple, others
    <3> QED
      BY <2>4, <2>5, AwaitBoth
  <2>7. job'[j] = After(j, tasks)
    BY <2>2
  <2> HIDE DEF tasks, triple, others
  <2>8. SameMove(q, job'[j]) /\ job'[j].at \in {"tasks", "write"} /\ \A k : Waits(j, k)' = Await(k, tasks)
    BY <1>5, <2>6, <2>7
  <2>9. /\ Waits(j, "each")' = (T \ {f}) \cup Left("each") /\ Waits(j, "own")' = {f} \cup Left("own")
        /\ Waits(j, "entries")' = {f} \cup Left("entries") /\ Waits(j, "subs")' = {f} \cup Left("subs")
    BY <2>4, <2>5, <2>6, <2>8
  <2>10. /\ Waits(j, "each") = T \cup Left("each") /\ Waits(j, "own") = Left("own")
         /\ Waits(j, "entries") = Left("entries") /\ Waits(j, "subs") = Left("subs")
    BY <1>4, <2>1
  <2>11. ToOwn(j) \subseteq ToOwn(j)'
    BY <2>9, <2>10 DEF ToOwn
  <2>12. ~SetFolderOwner(j) /\ ~SetEntryOwner(j) /\ ~ListSubfolders(j)
    BY <2>1 DEF SetFolderOwner, SetEntryOwner, ListSubfolders, Working
  <2> QED
    BY <1>1, <1>3, <2>8, <2>9, <2>10, <2>11, <2>12
<1>7. CASE SetFolderOwner(j) \/ SetEntryOwner(j)
  <2>1. job'[j] = After(j, Rest(j))
    BY <1>7 DEF SetFolderOwner, SetEntryOwner, Wrote, InventoryTypeOK
  <2>2. SameMove(q, job'[j]) /\ job'[j].at \in {"tasks", "write"} /\ \A k : Waits(j, k)' = Left(k)
    BY <1>3, <1>5, <2>1
  <2>3. CASE SetFolderOwner(j)
    <3>1. Top(j).k = "own"
      BY <2>3 DEF SetFolderOwner, Working
    <3>2. Waits(j, "own") = T \cup Left("own") /\ Waits(j, "each") = Left("each")
          /\ Waits(j, "entries") = Left("entries") /\ Waits(j, "subs") = Left("subs")
      BY <1>4, <3>1
    <3>3. ~TakeFolder(j) /\ ~SetEntryOwner(j) /\ ~ListSubfolders(j)
      BY <3>1 DEF TakeFolder, SetEntryOwner, ListSubfolders, Working
    <3>4. ToOwn(j) \subseteq ToOwn(j)' \cup T
      BY <2>2, <3>2 DEF ToOwn
    <3> QED
      BY <1>1, <1>3, <2>2, <3>2, <3>3, <3>4
  <2>4. CASE SetEntryOwner(j)
    <3>1. Top(j).k = "entries"
      BY <2>4 DEF SetEntryOwner, Working
    <3>2. Waits(j, "own") = Left("own") /\ Waits(j, "each") = Left("each")
          /\ Waits(j, "entries") = T \cup Left("entries") /\ Waits(j, "subs") = Left("subs")
      BY <1>4, <3>1
    <3>3. ~TakeFolder(j) /\ ~SetFolderOwner(j) /\ ~ListSubfolders(j)
      BY <3>1 DEF TakeFolder, SetFolderOwner, ListSubfolders, Working
    <3>4. ToOwn(j) = ToOwn(j)'
      BY <2>2, <3>2 DEF ToOwn
    <3> QED
      BY <1>1, <1>3, <2>2, <3>2, <3>3, <3>4
  <2> QED
    BY <1>7, <2>3, <2>4
<1>8. CASE ListSubfolders(j)
  <2> DEFINE C == UNION {Children(f) : f \in Top(j).s}
  <2>1. Top(j).k = "subs" /\ job'[j] = After(j, Sub(C) \o Rest(j))
    BY <1>8 DEF ListSubfolders, Working, Go, InventoryTypeOK
  <2>2. C \in SUBSET Folders
    BY DEF Children
  <2>3. PICK s \in Seq(Task) : s = Sub(C) /\ \A k : Await(k, s) = IF k = "each" THEN C ELSE {}
    BY <2>2, AwaitSub
  <2> HIDE DEF C
  <2>4. s \o Rest(j) \in Seq(Task) /\ \A k : Await(k, s \o Rest(j)) = Await(k, s) \cup Left(k)
    BY <1>3, AwaitBoth
  <2>5. SameMove(q, job'[j]) /\ job'[j].at \in {"tasks", "write"} /\ \A k : Waits(j, k)' = Await(k, s) \cup Left(k)
    BY <1>5, <2>1, <2>3, <2>4
  <2>6. /\ Waits(j, "each")' = C \cup Left("each") /\ Waits(j, "own")' = Left("own")
        /\ Waits(j, "entries")' = Left("entries") /\ Waits(j, "subs")' = Left("subs")
    BY <2>3, <2>5
  <2>7. Waits(j, "own") = Left("own") /\ Waits(j, "each") = Left("each")
        /\ Waits(j, "entries") = Left("entries") /\ Waits(j, "subs") = T \cup Left("subs")
    BY <1>4, <2>1
  <2>8. ToOwn(j) \cup C \subseteq ToOwn(j)'
    BY <2>6, <2>7 DEF ToOwn
  <2>9. ~TakeFolder(j) /\ ~SetFolderOwner(j) /\ ~SetEntryOwner(j)
    BY <2>1 DEF TakeFolder, SetFolderOwner, SetEntryOwner, Working
  <2> QED
    BY <1>1, <1>3, <2>5, <2>6, <2>7, <2>8, <2>9 DEF C
<1> QED
  BY <1>6, <1>7, <1>8

(* requests that a step of another leaves at their work *)
Lasting(j) == \A k \in Jobs \ {j} : job'[k] = job[k] /\ (Fresh(k) => Fresh(k)')

\* A move whose reading was made old stays so until a write taints the history.
LEMMA DoomKept ==
  ASSUME InventoryTypeOK, RowsNamed, NEW j \in Jobs, JobStep(j), ~tainted', Doomed
  PROVE  Doomed'
<1>1. PICK k \in Jobs : Relocates(k) /\ stale[k]
  BY DEF Doomed
<1>2. PICK r \in InventoryJob : Go(j, r) \/ Wrote(j, r)
  BY RecordStep
<1>3. CASE k # j
  <2>1. job'[k] = job[k]
    BY <1>3, InventoryTypes
  <2>2. stale'[k]
    <3>1. CASE Go(j, r)
      BY <1>1, <3>1 DEF Go
    <3>2. CASE Wrote(j, r)
      BY <1>1, <1>3, <3>2 DEF Wrote, Relocates
    <3> QED
      BY <1>2, <3>1, <3>2
  <2> QED
    BY <1>1, <2>1, <2>2 DEF Doomed, Relocates
<1>4. CASE k = j
  <2>1. PICK q \in InventoryJob : q = job[j] /\ NamedJob(q, Existing)
    BY DEF InventoryTypeOK, RowsNamed
  <2>2. q.op = "moveFolder" /\ q.owner # q.was /\ q.at \in {"tasks", "write"} /\ stale[j]
    BY <1>1, <1>4, <2>1 DEF Relocates
  <2>3. ~ \E record : Wrote(j, record)
    BY <2>1, <2>2, CleanWrite
  <2>4. TakeFolder(j) \/ ListSubfolders(j)
    BY <2>1, <2>2, <2>3 DEF JobStep, Begin, ReadFolder, ReadTarget, Walk, SetFolderOwner, SetEntryOwner, DropEntries,
       DropFolder, SetParent, CreateFolder, CreateEntry, DeleteEntry, EditEntry, FolderMissing, ListSiblings, Reposition, Final
  <2>5. SameMove(q, job'[j]) /\ job'[j].at \in {"tasks", "write"}
    BY <2>1, <2>2, <2>4, MoveLists
  <2>6. stale'[j]
    BY <1>2, <2>2, <2>3 DEF Go
  <2> QED
    BY <2>2, <2>5, <2>6 DEF Doomed, Relocates, SameMove
<1> QED
  BY <1>3, <1>4

\* While no move is made old, the moves under way are as fresh as they were.
LEMMA FreshKept ==
  ASSUME InventoryTypeOK, RowsNamed, NEW j \in Jobs, JobStep(j), ~Doomed'
  PROVE  Lasting(j)
<1>1. \A k \in Jobs \ {j} : job'[k] = job[k]
  BY InventoryTypes
<1>2. ASSUME NEW k \in Jobs \ {j}, Fresh(k) PROVE Fresh(k)'
  BY <1>1, <1>2 DEF Fresh, Relocates, Doomed
<1> QED
  BY <1>1, <1>2 DEF Lasting

\* A difference that a move of another is about to settle stays one.
LEMMA SettlesLast ==
  ASSUME NEW j, Lasting(j), NEW k \in Jobs \ {j}, NEW h
  PROVE  /\ Settles(k, h) /\ folder'[h].parent = folder[h].parent => Settles(k, h)'
         /\ SettlesEntries(k, h) => SettlesEntries(k, h)'
BY DEF Lasting, Settles, SettlesEntries, ToOwn, Waits

(* a folder, or an entry in a folder, that is as well explained after the step *)
FolderKept(j, h) ==
  \/ Fits(h)' \/ Settles(j, h)'
  \/ /\ Here(h) /\ folder'[h].parent = folder[h].parent
     /\ Fits(h) => Fits(h)'
     /\ ~Settles(j, h)
EntryKept(j, g, x) ==
  \/ entry'[x].owner = folder'[g].owner \/ SettlesEntries(j, g)'
  \/ /\ \E y \in Inside(g) : entry[y].owner = folder[g].owner => entry'[x].owner = folder'[g].owner
     /\ ~SettlesEntries(j, g)

\* A step that settles what it was to settle, and makes no difference, leaves every difference explained.
LEMMA ExplainedStays ==
  ASSUME NEW j \in Jobs, Lasting(j), FoldersExplained, EntriesExplained,
         \A h \in Folders : Here(h)' /\ folder'[h].parent # Root => FolderKept(j, h),
         \A g \in Folders : \A x \in Inside(g)' : EntryKept(j, g, x)
  PROVE  FoldersExplained' /\ EntriesExplained'
<1>1. ASSUME NEW h \in Folders, Here(h)', folder'[h].parent # Root, ~Fits(h)'
      PROVE  \E k \in Jobs : Settles(k, h)'
  <2>1. CASE Settles(j, h)'
    BY <2>1
  <2>2. CASE ~Settles(j, h)'
    <3>1. Here(h) /\ folder'[h].parent = folder[h].parent /\ ~Fits(h) /\ ~Settles(j, h)
      BY <1>1, <2>2 DEF FolderKept
    <3>2. PICK k \in Jobs : Settles(k, h)
      BY <1>1, <3>1 DEF FoldersExplained
    <3> QED
      BY <3>1, <3>2, SettlesLast
  <2> QED
    BY <2>1, <2>2
<1>2. ASSUME NEW g \in Folders, NEW x \in Inside(g)', entry'[x].owner # folder'[g].owner
      PROVE  \E k \in Jobs : SettlesEntries(k, g)'
  <2>1. EntryKept(j, g, x)
    BY <1>2
  <2>2. CASE SettlesEntries(j, g)'
    BY <2>2
  <2>3. CASE ~SettlesEntries(j, g)'
    <3>1. ~SettlesEntries(j, g) /\ \E y \in Inside(g) : entry[y].owner # folder[g].owner
      BY <1>2, <2>1, <2>3 DEF EntryKept
    <3>2. PICK k \in Jobs : SettlesEntries(k, g)
      BY <3>1 DEF EntriesExplained
    <3> QED
      BY <3>1, <3>2, SettlesLast
  <2> QED
    BY <2>2, <2>3
<1>3. FoldersExplained'
  BY <1>1 DEF FoldersExplained
<1>4. EntriesExplained'
  BY <1>2 DEF EntriesExplained
<1> QED
  BY <1>3, <1>4

\* The owner of an entry that stays where it was is as right as it was.
LEMMA SameEntry ==
  ASSUME NEW j, NEW g \in Folders, NEW x \in Entries, x \in Inside(g)', entry'[x] = entry[x],
         folder'[g].owner = folder[g].owner, SettlesEntries(j, g) => SettlesEntries(j, g)'
  PROVE  EntryKept(j, g, x)
<1>1. x \in Inside(g)
  BY DEF Inside
<1> QED
  BY <1>1 DEF EntryKept

\* A step that leaves the tables alone, and every list of a move, keeps what is explained.
LEMMA SameTables ==
  ASSUME NEW j, UNCHANGED <<folder, entry>>,
         \A h \in Folders : Here(h) /\ Settles(j, h) => Settles(j, h)',
         \A g \in Folders : SettlesEntries(j, g) => SettlesEntries(j, g)'
  PROVE  /\ \A h \in Folders : Here(h)' /\ folder'[h].parent # Root => FolderKept(j, h)
         /\ \A g \in Folders : \A x \in Inside(g)' : EntryKept(j, g, x)
<1>1. ASSUME NEW h \in Folders, Here(h)' PROVE FolderKept(j, h)
  <2>1. Here(h) /\ (Fits(h)' <=> Fits(h))
    BY <1>1 DEF Fits, OwnedBy, Here
  <2> QED
    BY <2>1 DEF FolderKept
<1>2. ASSUME NEW g \in Folders, NEW x \in Inside(g)' PROVE EntryKept(j, g, x)
  <2>1. x \in Entries
    BY <1>2 DEF Inside
  <2> QED
    BY <1>2, <2>1, SameEntry
<1> QED
  BY <1>1, <1>2

\* The steps that change the owners below a folder.
LEMMA MoveExplained ==
  ASSUME InventoryTypeOK, RowsNamed, NEW j \in Jobs, job[j].op = "moveFolder", ~stale[j], ~stale'[j], MoveSound(j),
         TakeFolder(j) \/ SetFolderOwner(j) \/ SetEntryOwner(j) \/ ListSubfolders(j)
  PROVE  /\ \A h \in Folders : Here(h)' /\ folder'[h].parent # Root => FolderKept(j, h)
         /\ \A g \in Folders : \A x \in Inside(g)' : EntryKept(j, g, x)
<1>1. PICK q \in InventoryJob : q = job[j]
  BY DEF InventoryTypeOK
<1>2. /\ q.at = "tasks" /\ SameMove(q, job'[j]) /\ job'[j].at \in {"tasks", "write"}
      /\ q.owner # q.was
  BY <1>1, MoveLists DEF MoveSound
<1>3. Fresh(j) /\ Fresh(j)' /\ job'[j].f = q.f
  BY <1>1, <1>2 DEF Fresh, Relocates, SameMove
<1>4. CASE TakeFolder(j)
  <2>1. UNCHANGED <<folder, entry>>
    BY <1>4 DEF TakeFolder, Go
  <2>2. /\ ToOwn(j) \subseteq ToOwn(j)'
        /\ Waits(j, "entries") \subseteq Waits(j, "entries")' /\ Waits(j, "subs") \subseteq Waits(j, "subs")'
    BY <1>4, MoveLists
  <2>3. \A h \in Folders : Settles(j, h) => Settles(j, h)'
    BY <1>1, <1>3, <2>1, <2>2 DEF Settles
  <2>4. \A g \in Folders : SettlesEntries(j, g) => SettlesEntries(j, g)'
    BY <1>3, <2>2 DEF SettlesEntries
  <2> QED
    BY <2>1, <2>3, <2>4, SameTables
<1>5. CASE ListSubfolders(j)
  <2>1. UNCHANGED <<folder, entry>>
    BY <1>5 DEF ListSubfolders, Go
  <2>2. /\ ToOwn(j) \cup UNION {Children(f) : f \in Top(j).s} \subseteq ToOwn(j)'
        /\ Waits(j, "entries") = Waits(j, "entries")' /\ Waits(j, "subs") \subseteq Waits(j, "subs")' \cup Top(j).s
    BY <1>5, MoveLists
  <2>3. ASSUME NEW h \in Folders, Here(h), folder[h].parent \in Top(j).s PROVE h \in ToOwn(j)'
    BY <2>2, <2>3 DEF Children
  <2>4. \A h \in Folders : Here(h) /\ Settles(j, h) => Settles(j, h)'
    BY <1>1, <1>3, <2>1, <2>2, <2>3 DEF Settles
  <2>5. \A g \in Folders : SettlesEntries(j, g) => SettlesEntries(j, g)'
    BY <1>3, <2>2 DEF SettlesEntries
  <2> QED
    BY <2>1, <2>4, <2>5, SameTables
<1>6. CASE SetFolderOwner(j)
  <2> DEFINE T == Top(j).s
  <2>1. /\ T \subseteq Waits(j, "own") /\ ToOwn(j) \subseteq ToOwn(j)' \cup T
        /\ Waits(j, "entries") = Waits(j, "entries")' /\ Waits(j, "subs") = Waits(j, "subs")'
    BY <1>6, MoveLists
  <2>2. /\ Waits(j, "own") \subseteq Waits(j, "entries") \cap Waits(j, "subs")
        /\ \A h \in ToOwn(j) \ {q.f} : Here(h) /\ folder[h].parent # Root => OwnedBy(folder[h].parent, q.owner)
    BY <1>1, <1>2 DEF MoveSound
  <2>3. ASSUME NEW g \in Folders
        PROVE  /\ folder'[g].at = folder[g].at /\ folder'[g].parent = folder[g].parent
               /\ folder'[g].owner = IF g \in T /\ Here(g) THEN q.owner ELSE folder[g].owner
    <3>1. PICK row \in FolderRow : row = folder[g]
      BY DEF InventoryTypeOK, FolderRow
    <3>2. folder'[g] = IF g \in T /\ Here(g) THEN [row EXCEPT !.owner = q.owner] ELSE row
      BY <1>1, <1>6, <3>1 DEF SetFolderOwner
    <3> QED
      BY <3>1, <3>2 DEF FolderRow
  <2> HIDE DEF T
  <2>4. UNCHANGED entry
    BY <1>6 DEF SetFolderOwner
  <2>5. ASSUME NEW h \in Folders, Here(h)', folder'[h].parent # Root PROVE FolderKept(j, h)
    <3>1. Here(h) /\ folder'[h].parent = folder[h].parent
      BY <2>3, <2>5 DEF Here
    <3>2. PICK g \in Folders : g = folder[h].parent
      BY <2>5, <3>1 DEF RowsNamed, Placed, Existing
    <3>3. CASE h = q.f \/ g \in Waits(j, "subs")
      <4>1. Settles(j, h)'
        BY <1>3, <2>1, <3>1, <3>2, <3>3 DEF Settles
      <4> QED
        BY <4>1 DEF FolderKept
    <3>4. CASE h \in T /\ h # q.f
      <4>1. OwnedBy(g, q.owner)
        BY <2>1, <2>2, <2>5, <3>1, <3>2, <3>4 DEF ToOwn
      <4>2. OwnedBy(g, q.owner)' /\ folder'[h].owner = q.owner
        BY <2>3, <3>1, <3>4, <4>1 DEF OwnedBy, Here
      <4>3. Fits(h)'
        BY <3>1, <3>2, <4>2 DEF Fits, OwnedBy, Here
      <4> QED
        BY <4>3 DEF FolderKept
    <3>5. CASE h \notin T /\ h # q.f /\ g \notin Waits(j, "subs")
      <4>1. g \notin T
        BY <2>1, <2>2, <3>5
      <4>2. Fits(h)' <=> Fits(h)
        BY <2>3, <3>1, <3>2, <3>5, <4>1 DEF Fits, OwnedBy, Here
      <4>3. Settles(j, h) => Settles(j, h)'
        BY <1>1, <1>3, <2>1, <3>1, <3>5 DEF Settles
      <4> QED
        BY <3>1, <4>2, <4>3 DEF FolderKept
    <3> QED
      BY <3>3, <3>4, <3>5
  <2>6. ASSUME NEW g \in Folders, NEW x \in Inside(g)' PROVE EntryKept(j, g, x)
    <3>1. x \in Entries /\ entry'[x] = entry[x] /\ x \in Inside(g)
      BY <2>4, <2>6 DEF Inside
    <3>2. SettlesEntries(j, g) => SettlesEntries(j, g)'
      BY <1>3, <2>1 DEF SettlesEntries
    <3>3. CASE g \notin T
      BY <2>3, <2>6, <3>1, <3>2, <3>3, SameEntry
    <3>4. CASE g \in T
      <4>1. SettlesEntries(j, g)'
        BY <1>3, <2>1, <2>2, <3>4 DEF SettlesEntries
      <4> QED
        BY <3>1, <4>1 DEF EntryKept
    <3> QED
      BY <3>3, <3>4
  <2> QED
    BY <2>5, <2>6
<1>7. CASE SetEntryOwner(j)
  <2> DEFINE T == Top(j).s
  <2>1. /\ T \subseteq Waits(j, "entries") /\ ToOwn(j) = ToOwn(j)'
        /\ Waits(j, "entries") \subseteq Waits(j, "entries")' \cup T /\ Waits(j, "subs") = Waits(j, "subs")'
    BY <1>7, MoveLists
  <2>2. Waits(j, "own") = {} /\ \A g \in Waits(j, "entries") : OwnedBy(g, q.owner) \/ g \in Waits(j, "own")
    <3>1. Await("own", Rest(j)) = Waits(j, "own")
      BY <1>7, MoveLists
    <3>2. q.tasks # <<>> => Await("own", Tail(q.tasks)) = {}
      BY <1>1, <1>2 DEF MoveSound
    <3>3. q.tasks # <<>>
      BY <1>1, <1>7 DEF SetEntryOwner, Working
    <3> QED
      BY <1>1, <1>2, <3>1, <3>2, <3>3 DEF MoveSound, Rest
  <2>3. UNCHANGED folder
    BY <1>7 DEF SetEntryOwner
  <2>4. ASSUME NEW x \in Entries
        PROVE  /\ entry'[x].at = entry[x].at /\ entry'[x].folder = entry[x].folder
               /\ entry'[x].owner = IF \E f \in T : x \in Inside(f) THEN q.owner ELSE entry[x].owner
    <3>1. PICK row \in EntryRow : row = entry[x]
      BY DEF InventoryTypeOK, EntryRow
    <3>2. entry'[x] = IF \E f \in T : x \in Inside(f) THEN [row EXCEPT !.owner = q.owner] ELSE row
      BY <1>1, <1>7, <3>1 DEF SetEntryOwner
    <3> QED
      BY <3>1, <3>2 DEF EntryRow
  <2> HIDE DEF T
  <2>5. ASSUME NEW h \in Folders, Here(h)' PROVE FolderKept(j, h)
    <3>1. Here(h) /\ (Fits(h)' <=> Fits(h))
      BY <2>3, <2>5 DEF Fits, OwnedBy, Here
    <3>2. Settles(j, h) => Settles(j, h)'
      BY <1>1, <1>3, <2>1, <2>3 DEF Settles
    <3> QED
      BY <2>3, <3>1, <3>2 DEF FolderKept
  <2>6. ASSUME NEW g \in Folders, NEW x \in Inside(g)' PROVE EntryKept(j, g, x)
    <3>1. x \in Entries /\ x \in Inside(g)
      BY <2>4, <2>6 DEF Inside
    <3>2. CASE g \in T
      <4>1. Here(g)
        BY <3>1, RootAssumption DEF RowsNamed, Inside
      <4>2. folder[g].owner = q.owner
        BY <2>1, <2>2, <3>2, <4>1 DEF OwnedBy
      <4>3. entry'[x].owner = q.owner
        BY <2>4, <3>1, <3>2
      <4> QED
        BY <2>3, <4>2, <4>3 DEF EntryKept
    <3>3. CASE g \notin T
      <4>1. \A f \in T : x \notin Inside(f)
        BY <3>1, <3>3 DEF Inside
      <4>2. entry'[x].owner = entry[x].owner
        BY <2>4, <3>1, <4>1
      <4>3. SettlesEntries(j, g) => SettlesEntries(j, g)'
        BY <1>3, <2>1, <3>3 DEF SettlesEntries
      <4> QED
        BY <2>3, <3>1, <4>2, <4>3 DEF EntryKept
    <3> QED
      BY <3>2, <3>3
  <2> QED
    BY <2>5, <2>6
<1> QED
  BY <1>4, <1>5, <1>6, <1>7

\* The steps that write what the request read before, or remove rows.
LEMMA WriteExplained ==
  ASSUME InventoryTypeOK, RowsNamed, NEW j \in Jobs, PlaceSound(j), job[j].op = "moveFolder" => MoveSound(j),
         FoldersExplained, EntriesExplained, Lasting(j),
         \/ DropEntries(j) \/ DropFolder(j) \/ SetParent(j) \/ CreateFolder(j) \/ CreateEntry(j)
         \/ DeleteEntry(j) \/ EditEntry(j) \/ Reposition(j)
  PROVE  FoldersExplained' /\ EntriesExplained'
<1>1. PICK q \in InventoryJob : q = job[j] /\ NamedJob(q, Existing)
  BY DEF InventoryTypeOK, RowsNamed
<1>2. ASSUME \A h \in Folders : Here(h)' /\ folder'[h].parent # Root => FolderKept(j, h),
             \A g \in Folders : \A x \in Inside(g)' : EntryKept(j, g, x)
      PROVE  FoldersExplained' /\ EntriesExplained'
  BY <1>2, ExplainedStays
<1>3. ASSUME q.op # "moveFolder" PROVE \A h : ~Settles(j, h) /\ ~SettlesEntries(j, h)
  BY <1>1, <1>3 DEF Settles, SettlesEntries, Fresh, Relocates
<1>4. ASSUME UNCHANGED folder, q.op # "moveFolder" PROVE \A h \in Folders : Here(h)' => FolderKept(j, h)
  <2>1. TAKE h \in Folders
  <2>2. (Here(h)' <=> Here(h)) /\ (Fits(h)' <=> Fits(h))
    BY <1>4 DEF Fits, OwnedBy, Here
  <2> QED
    BY <1>3, <1>4, <2>2 DEF FolderKept
<1>5. ASSUME UNCHANGED folder, q.op # "moveFolder", NEW g \in Folders, NEW x \in Entries, x \in Inside(g)', entry'[x] = entry[x]
      PROVE  EntryKept(j, g, x)
  BY <1>3, <1>5, SameEntry
<1>6. CASE DropEntries(j)
  <2>1. q.op # "moveFolder" /\ UNCHANGED folder
    <3>1. q.at = "tasks" /\ q.tasks # <<>> /\ Head(q.tasks).k = "drop" /\ q.tasks \in Lists(q.op, Existing)
      BY <1>1, <1>6 DEF DropEntries, Working, Top, NamedJob
    <3>2. Existing \in SUBSET Folders
      BY DEF Existing
    <3>3. Head(q.tasks).k \in Kinds(q.op)
      BY <3>1, <3>2, ListsKept
    <3> QED
      BY <1>6, <3>1, <3>3 DEF DropEntries, Kinds
  <2>2. ASSUME NEW g \in Folders, NEW x \in Inside(g)' PROVE x \in Entries /\ entry'[x] = entry[x]
    <3>1. x \in Entries /\ entry'[x].at = "here"
      BY <2>2 DEF Inside
    <3>2. PICK row \in EntryRow : row = entry[x]
      BY <3>1 DEF InventoryTypeOK, EntryRow
    <3>3. entry'[x] = [row EXCEPT !.at = "gone", !.folder = Root] \/ entry'[x] = row
      BY <1>6, <3>1, <3>2 DEF DropEntries
    <3> QED
      BY <3>1, <3>2, <3>3 DEF EntryRow
  <2> QED
    BY <1>2, <1>4, <1>5, <2>1, <2>2
<1>7. CASE DropFolder(j)
  <2> DEFINE T == Top(j).s
  <2>1. q.op # "moveFolder"
    <3>1. q.at = "tasks" /\ q.tasks # <<>> /\ Head(q.tasks).k = "gone" /\ q.tasks \in Lists(q.op, Existing)
      BY <1>1, <1>7 DEF DropFolder, Working, Top, NamedJob
    <3>2. Existing \in SUBSET Folders
      BY DEF Existing
    <3>3. Head(q.tasks).k \in Kinds(q.op)
      BY <3>1, <3>2, ListsKept
    <3> QED
      BY <3>1, <3>3 DEF Kinds
  <2>2. \A g \in Folders : IF g \in T THEN folder'[g].at = "gone" ELSE folder'[g] = folder[g]
    BY <1>7 DEF DropFolder, NoFolder
  <2>3. ASSUME NEW x \in Entries, entry'[x].folder # Root PROVE entry'[x] = entry[x] /\ \A f \in T : x \notin Inside(f)
    <3>1. PICK row \in EntryRow : row = entry[x]
      BY DEF InventoryTypeOK, EntryRow
    <3>2. entry'[x] = IF \E f \in T : x \in Inside(f) THEN [row EXCEPT !.folder = Root] ELSE row
      BY <1>7, <3>1 DEF DropFolder
    <3> QED
      BY <2>3, <3>1, <3>2 DEF EntryRow
  <2> HIDE DEF T
  <2>4. ASSUME NEW h \in Folders, Here(h)', folder'[h].parent # Root PROVE FolderKept(j, h)
    <3>1. Here(h) /\ folder'[h] = folder[h]
      BY <2>2, <2>4 DEF Here
    <3>2. PICK g \in Folders : g = folder[h].parent
      BY <2>4, <3>1 DEF RowsNamed, Placed, Existing
    <3>3. Fits(h) => Fits(h)'
      BY <2>2, <3>1, <3>2 DEF Fits, OwnedBy, Here
    <3> QED
      BY <1>3, <2>1, <3>1, <3>3 DEF FolderKept
  <2>5. ASSUME NEW g \in Folders, NEW x \in Inside(g)' PROVE EntryKept(j, g, x)
    <3>1. x \in Entries /\ entry'[x].at = "here" /\ entry'[x].folder = g
      BY <2>5 DEF Inside
    <3>2. entry'[x] = entry[x] /\ \A f \in T : x \notin Inside(f)
      BY <2>3, <3>1, RootAssumption
    <3>3. g \notin T
      BY <3>1, <3>2 DEF Inside
    <3> QED
      BY <1>3, <2>1, <2>2, <2>5, <3>1, <3>2, <3>3, SameEntry
  <2> QED
    BY <1>2, <2>4, <2>5
<1>8. CASE SetParent(j)
  <2>1. q.at = "write" /\ q.op = "moveFolder" /\ q.f \in Folders /\ UNCHANGED entry
    BY <1>1, <1>8 DEF SetParent, Final, NamedJob, Existing
  <2>2. OwnedBy(q.f, q.owner) /\ (q.to # Root => OwnedBy(q.to, q.owner)) /\ \A k : Waits(j, k) = {}
    <3>1. q.tasks = <<>>
      BY <1>1, <2>1 DEF MoveSound
    <3>2. \A k : Waits(j, k) = {}
      BY <1>1, <3>1, AwaitNothing DEF Waits
    <3> QED
      BY <1>1, <2>1, <3>2 DEF MoveSound, ToOwn
  <2>3. folder' = [folder EXCEPT ![q.f].parent = IF Here(q.f) THEN q.to ELSE @]
    BY <1>1, <1>8 DEF SetParent
  <2>4. ASSUME NEW g \in Folders
        PROVE  /\ folder'[g].at = folder[g].at /\ folder'[g].owner = folder[g].owner
               /\ folder'[g].parent = IF g = q.f /\ Here(g) THEN q.to ELSE folder[g].parent
    <3>1. PICK row \in FolderRow : row = folder[g]
      BY DEF InventoryTypeOK, FolderRow
    <3>2. folder'[g] = IF g = q.f /\ Here(g) THEN [row EXCEPT !.parent = q.to] ELSE row
      <4>1. CASE g = q.f
        <5>1. folder'[g] = [row EXCEPT !.parent = IF Here(g) THEN q.to ELSE @]
          BY <2>1, <2>3, <3>1, <4>1 DEF InventoryTypeOK
        <5> QED
          BY <4>1, <5>1 DEF FolderRow
      <4>2. CASE g # q.f
        BY <2>3, <3>1, <4>2 DEF InventoryTypeOK
      <4> QED
        BY <4>1, <4>2
    <3> QED
      BY <3>1, <3>2 DEF FolderRow
  <2>5. \A h : ~SettlesEntries(j, h) /\ (Settles(j, h) => h = q.f)
    BY <1>1, <2>2 DEF SettlesEntries, Settles, ToOwn
  <2>6. ASSUME NEW h \in Folders, Here(h)', folder'[h].parent # Root PROVE FolderKept(j, h)
    <3>1. Here(h)
      BY <2>4, <2>6 DEF Here
    <3>2. CASE h = q.f
      <4>1. PICK g \in Folders : g = folder'[h].parent /\ g = q.to /\ OwnedBy(g, q.owner)
        <5>1. folder'[h].parent = q.to /\ q.to \in Folders
          BY <2>4, <2>6, <3>1, <3>2 DEF InventoryJob
        <5> QED
          BY <2>2, <2>6, <5>1
      <4>2. folder'[h].owner = q.owner /\ (folder'[g].at = "here" => folder'[g].owner = q.owner)
        BY <2>2, <2>4, <3>1, <3>2, <4>1 DEF OwnedBy, Here
      <4>3. Fits(h)'
        BY <4>1, <4>2 DEF Fits, OwnedBy, Here
      <4> QED
        BY <4>3 DEF FolderKept
    <3>3. CASE h # q.f
      <4>1. PICK g \in Folders : g = folder[h].parent /\ g = folder'[h].parent
        BY <2>4, <2>6, <3>1, <3>3 DEF RowsNamed, Placed, Existing
      <4>2. Fits(h)' <=> Fits(h)
        BY <2>4, <4>1 DEF Fits, OwnedBy, Here
      <4> QED
        BY <2>5, <3>1, <3>3, <4>1, <4>2 DEF FolderKept
    <3> QED
      BY <3>2, <3>3
  <2>7. ASSUME NEW g \in Folders, NEW x \in Inside(g)' PROVE EntryKept(j, g, x)
    <3>1. x \in Entries /\ entry'[x] = entry[x]
      BY <2>1, <2>7 DEF Inside
    <3> QED
      BY <2>4, <2>5, <2>7, <3>1, SameEntry
  <2> QED
    BY <1>2, <2>6, <2>7
<1>9. CASE CreateFolder(j)
  <2>1. PICK f \in Folders :
           /\ folder[f].at = "none"
           /\ folder' = [folder EXCEPT ![f] = [at |-> "here", parent |-> job[j].to, owner |-> job[j].owner]]
    BY <1>9, Zenon DEF CreateFolder
  <2>2. /\ folder'[f].parent = q.to /\ folder'[f].owner = q.owner
        /\ \A g \in Folders \ {f} : folder'[g] = folder[g]
    BY <1>1, <2>1 DEF InventoryTypeOK
  <2>3. q.op = "createFolder" /\ q.at = "write" /\ UNCHANGED entry /\ q.to \in Existing \cup {Root} /\ f \notin Existing
    BY <1>1, <1>9, <2>1 DEF CreateFolder, Final, NamedJob, Existing
  <2>4. ASSUME NEW h \in Folders, Here(h)', folder'[h].parent # Root PROVE FolderKept(j, h)
    <3>1. CASE h = f
      <4>1. PICK g \in Folders \ {f} : g = q.to /\ OwnedBy(g, q.owner)
        <5>1. q.to # Root /\ q.to \in Folders \ {f}
          BY <2>2, <2>3, <2>4, <3>1 DEF Existing
        <5> QED
          BY <1>1, <2>3, <5>1 DEF PlaceSound
      <4>2. Fits(h)'
        BY <2>2, <3>1, <4>1 DEF Fits, OwnedBy, Here
      <4> QED
        BY <4>2 DEF FolderKept
    <3>2. CASE h # f
      <4>1. Here(h) /\ folder'[h] = folder[h]
        BY <2>2, <2>4, <3>2 DEF Here
      <4>2. PICK g \in Folders \ {f} : g = folder[h].parent
        BY <2>3, <2>4, <4>1 DEF RowsNamed, Placed, Existing
      <4>3. Fits(h)' <=> Fits(h)
        BY <2>2, <4>1, <4>2 DEF Fits, OwnedBy, Here
      <4> QED
        BY <1>3, <2>3, <4>1, <4>3 DEF FolderKept
    <3> QED
      BY <3>1, <3>2
  <2>5. ASSUME NEW g \in Folders, NEW x \in Inside(g)' PROVE EntryKept(j, g, x)
    <3>1. x \in Entries /\ entry'[x] = entry[x] /\ x \in Inside(g)
      BY <2>3, <2>5 DEF Inside
    <3>2. Here(g)
      BY <3>1, RootAssumption DEF RowsNamed, Inside
    <3>3. g # f
      BY <2>1, <3>2 DEF Here
    <3> QED
      BY <1>3, <2>2, <2>3, <2>5, <3>1, <3>3, SameEntry
  <2> QED
    BY <1>2, <2>4, <2>5
<1>10. CASE CreateEntry(j)
  <2>1. PICK y \in Entries :
           entry' = [entry EXCEPT ![y] = [at |-> "here", folder |-> job[j].to, owner |-> job[j].owner]]
    BY <1>10, Zenon DEF CreateEntry
  <2>2. /\ entry'[y].folder = q.to /\ entry'[y].owner = q.owner
        /\ \A x \in Entries \ {y} : entry'[x] = entry[x]
    BY <1>1, <2>1 DEF InventoryTypeOK
  <2>3. q.op \in {"createEntry", "copyEntry"} /\ q.at = "write" /\ UNCHANGED folder
        /\ (q.to # Root => Here(q.to)) /\ (q.op = "copyEntry" => q.e \in Entries)
    BY <1>1, <1>10 DEF CreateEntry, Final, FolderThere, NamedJob
  <2>4. ASSUME NEW g \in Folders, NEW x \in Inside(g)' PROVE EntryKept(j, g, x)
    <3>1. x \in Entries /\ entry'[x].folder = g
      BY <2>4 DEF Inside
    <3>2. CASE x # y
      BY <1>5, <2>2, <2>3, <2>4, <3>1, <3>2
    <3>3. CASE x = y /\ q.op = "createEntry"
      <4>1. g = q.to /\ g # Root
        BY <2>2, <3>1, <3>3, RootAssumption
      <4>2. folder[g].owner = q.owner
        BY <1>1, <2>3, <3>3, <4>1 DEF PlaceSound, OwnedBy
      <4> QED
        BY <2>2, <2>3, <3>3, <4>2 DEF EntryKept
    <3>4. CASE x = y /\ q.op = "copyEntry"
      <4>1. entry[q.e] = [at |-> "here", folder |-> q.to, owner |-> q.owner]
        BY <1>1, <2>3, <3>4 DEF PlaceSound
      <4>2. q.e \in Inside(g) /\ entry[q.e].owner = q.owner
        BY <2>2, <2>3, <3>1, <3>4, <4>1 DEF Inside
      <4> QED
        BY <1>3, <2>2, <2>3, <3>4, <4>2 DEF EntryKept
    <3> QED
      BY <2>3, <3>2, <3>3, <3>4
  <2> QED
    BY <1>2, <1>4, <2>3, <2>4
<1>11. CASE DeleteEntry(j)
  <2>1. q.op = "deleteEntry" /\ UNCHANGED folder
    BY <1>1, <1>11 DEF DeleteEntry, Final
  <2>2. ASSUME NEW g \in Folders, NEW x \in Inside(g)' PROVE EntryKept(j, g, x)
    <3>1. x \in Entries /\ entry'[x].at = "here"
      BY <2>2 DEF Inside
    <3>2. PICK row \in EntryRow : row = entry[x]
      BY <3>1 DEF InventoryTypeOK, EntryRow
    <3>3. entry'[x] = row \/ entry'[x] = [row EXCEPT !.at = "gone", !.folder = Root]
      BY <1>11, <3>1, <3>2 DEF DeleteEntry, InventoryTypeOK
    <3>4. entry'[x] = entry[x]
      BY <3>1, <3>2, <3>3 DEF EntryRow
    <3> QED
      BY <1>5, <2>1, <2>2, <3>1, <3>4
  <2> QED
    BY <1>2, <1>4, <2>1, <2>2
<1>12. CASE EditEntry(j)
  <2>1. q.op = "editEntry" /\ q.at = "write" /\ UNCHANGED folder /\ q.e \in Entries /\ (q.to # Root => Here(q.to))
    BY <1>1, <1>12 DEF EditEntry, Final, NamedJob, FolderThere
  <2>2. ASSUME NEW g \in Folders, NEW x \in Inside(g)' PROVE EntryKept(j, g, x)
    <3>1. x \in Entries /\ entry'[x].folder = g /\ g # Root
      BY <2>2, RootAssumption DEF Inside
    <3>2. CASE entry'[x] = entry[x]
      BY <1>5, <2>1, <2>2, <3>1, <3>2
    <3>3. CASE entry'[x] # entry[x]
      <4>1. entry'[x] = [at |-> "here", folder |-> q.to, owner |-> IF q.to = Root THEN entry[x].owner ELSE q.owner]
        BY <1>1, <1>12, <2>1, <3>1, <3>3 DEF EditEntry, PutIn, InventoryTypeOK
      <4>2. g = q.to /\ entry'[x].owner = q.owner
        BY <3>1, <4>1
      <4>3. folder[g].owner = q.owner
        BY <1>1, <2>1, <3>1, <4>2 DEF PlaceSound, OwnedBy
      <4> QED
        BY <2>1, <4>2, <4>3 DEF EntryKept
    <3> QED
      BY <3>2, <3>3
  <2> QED
    BY <1>2, <1>4, <2>1, <2>2
<1>13. CASE Reposition(j)
  <2>1. q.op = "reposition" /\ q.at = "write" /\ UNCHANGED folder /\ (q.to # Root => Here(q.to)) /\ q.rest \subseteq Entries
    BY <1>1, <1>13 DEF Reposition, Final, FolderThere, InventoryJob
  <2>2. PICK y \in q.rest :
           entry' = [entry EXCEPT ![y] = PutIn(y, q.to, IF y = q.e THEN q.owner ELSE entry[y].owner)]
    BY <1>1, <1>13, Zenon DEF Reposition
  <2>3. ASSUME NEW g \in Folders, NEW x \in Inside(g)' PROVE EntryKept(j, g, x)
    <3>1. x \in Entries /\ entry'[x].folder = g /\ g # Root
      BY <2>3, RootAssumption DEF Inside
    <3>2. CASE entry'[x] = entry[x]
      BY <1>5, <2>1, <2>3, <3>1, <3>2
    <3>3. CASE entry'[x] # entry[x]
      <4>1. x = y /\ entry'[x] = [at |-> "here", folder |-> q.to, owner |-> IF x = q.e THEN q.owner ELSE entry[x].owner]
        BY <2>2, <3>1, <3>3 DEF PutIn, InventoryTypeOK
      <4>2. x = q.e
        <5>1. PICK row \in EntryRow : row = entry[x]
          BY <3>1 DEF InventoryTypeOK, EntryRow
        <5>2. row.at = "here"
          BY <2>2, <3>1, <3>3, <5>1 DEF PutIn, InventoryTypeOK
        <5>3. x # q.e => row = [at |-> "here", folder |-> q.to, owner |-> row.owner]
          BY <1>1, <2>1, <4>1, <5>1, <5>2 DEF PlaceSound, EntryRow
        <5> QED
          BY <3>3, <4>1, <5>1, <5>3
      <4>3. g = q.to /\ entry'[x].owner = q.owner
        BY <3>1, <4>1, <4>2
      <4>4. folder[g].owner = q.owner
        BY <1>1, <2>1, <3>1, <4>3 DEF PlaceSound, OwnedBy
      <4> QED
        BY <2>1, <4>3, <4>4 DEF EntryKept
    <3> QED
      BY <3>2, <3>3
  <2> QED
    BY <1>2, <1>4, <2>1, <2>3
<1> QED
  BY <1>6, <1>7, <1>8, <1>9, <1>10, <1>11, <1>12, <1>13

\* Every step leaves every difference of owners explained, or a move that was made old.
LEMMA ExplainedKept ==
  ASSUME InventoryTypeOK, RowsNamed, NEW j \in Jobs, JobStep(j), JobSound(j), ~tainted',
         Doomed \/ (FoldersExplained /\ EntriesExplained)
  PROVE  Doomed' \/ (FoldersExplained' /\ EntriesExplained')
<1> SUFFICES ASSUME ~Doomed' PROVE FoldersExplained' /\ EntriesExplained'
  OBVIOUS
<1>1. ~Doomed /\ FoldersExplained /\ EntriesExplained /\ Lasting(j)
  BY DoomKept, FreshKept
<1>2. PICK q \in InventoryJob : q = job[j] /\ NamedJob(q, Existing)
  BY DEF InventoryTypeOK, RowsNamed
<1>3. CASE \/ DropEntries(j) \/ DropFolder(j) \/ SetParent(j) \/ CreateFolder(j) \/ CreateEntry(j)
           \/ DeleteEntry(j) \/ EditEntry(j) \/ Reposition(j)
  <2>1. \E record : Wrote(j, record)
    BY <1>3 DEF DropEntries, DropFolder, SetParent, CreateFolder, CreateEntry, DeleteEntry, EditEntry, Reposition
  <2>2. stale[j] => q.op \in {"deleteFolder", "deleteEntry"}
    BY <1>2, <2>1, CleanWrite
  <2>3. PlaceSound(j) /\ (q.op = "moveFolder" => MoveSound(j))
    <3>1. CASE q.op \in {"deleteFolder", "deleteEntry"}
      BY <1>2, <3>1 DEF PlaceSound
    <3>2. CASE ~stale[j]
      BY <1>2, <3>2 DEF JobSound
    <3> QED
      BY <2>2, <3>1, <3>2
  <2> QED
    BY <1>1, <1>2, <1>3, <2>3, WriteExplained
<1>4. ASSUME SetFolderOwner(j) \/ SetEntryOwner(j) PROVE q.op = "moveFolder" /\ ~stale[j]
  <2>1. q.at = "tasks" /\ q.tasks # <<>> /\ Head(q.tasks).k \in {"own", "entries"} /\ q.tasks \in Lists(q.op, Existing)
    BY <1>2, <1>4 DEF SetFolderOwner, SetEntryOwner, Working, Top, NamedJob
  <2>2. Existing \in SUBSET Folders
    BY DEF Existing
  <2>3. Head(q.tasks).k \in Kinds(q.op)
    BY <2>1, <2>2, ListsKept
  <2>4. q.op = "moveFolder"
    BY <2>1, <2>3 DEF Kinds
  <2>5. \E record : Wrote(j, record)
    BY <1>4 DEF SetFolderOwner, SetEntryOwner
  <2> QED
    BY <1>2, <2>4, <2>5, CleanWrite
<1>5. CASE (TakeFolder(j) \/ SetFolderOwner(j) \/ SetEntryOwner(j) \/ ListSubfolders(j)) /\ q.op = "moveFolder" /\ ~stale[j]
  <2>1. PICK r : Go(j, r) \/ Wrote(j, r)
    BY RecordStep
  <2>2. ~stale'[j]
    BY <1>5, <2>1 DEF Go, Wrote
  <2>3. MoveSound(j)
    BY <1>2, <1>5 DEF JobSound
  <2> QED
    BY <1>1, <1>2, <1>5, <2>2, <2>3, MoveExplained, ExplainedStays
<1>6. CASE \/ Begin(j) \/ ReadFolder(j) \/ ReadTarget(j) \/ Walk(j) \/ FolderMissing(j) \/ ListSiblings(j)
           \/ (TakeFolder(j) \/ ListSubfolders(j)) /\ (q.op # "moveFolder" \/ stale[j])
  <2>1. UNCHANGED <<folder, entry>>
    BY <1>6 DEF Begin, ReadFolder, ReadTarget, Walk, FolderMissing, ListSiblings, TakeFolder, ListSubfolders, Go
  <2>2. ~Fresh(j)
    BY <1>2, <1>6 DEF Begin, ReadFolder, ReadTarget, Walk, FolderMissing, ListSiblings, Fresh, Relocates, Final
  <2>3. \A h : ~Settles(j, h) /\ ~SettlesEntries(j, h)
    BY <2>2 DEF Settles, SettlesEntries
  <2>4. /\ \A h \in Folders : Here(h)' /\ folder'[h].parent # Root => FolderKept(j, h)
        /\ \A g \in Folders : \A x \in Inside(g)' : EntryKept(j, g, x)
    BY <2>1, <2>3, SameTables
  <2> QED
    BY <1>1, <2>4, ExplainedStays
<1> QED
  BY <1>3, <1>4, <1>5, <1>6 DEF JobStep

----------------------------------------------------------------------------
(* The theorem *)

\* Every tree that requests start from is sound, with nothing under way.
LEMMA InventoryStarts == InventoryInit => InventoryInv
<1> SUFFICES ASSUME InventoryInit PROVE InventoryInv
  OBVIOUS
<1> USE DEF InventoryInit
<1>1. ASSUME NEW f \in Folders
      PROVE  /\ folder[f] \in FolderRow
             /\ Here(f) => folder[f].parent \in Folders \cup {Root}
  BY DEF FolderRow, NoFolder, Owned, Here
<1>2. ASSUME NEW x \in Entries PROVE entry[x] \in EntryRow
  BY DEF EntryRow, NoEntry, Owned
<1>3. InventoryTypeOK
  <2>1. folder \in [Folders -> FolderRow] /\ entry \in [Entries -> EntryRow]
    BY <1>1, <1>2
  <2>2. job \in [Jobs -> InventoryJob]
    BY EndedNamed
  <2> QED
    BY <2>1, <2>2 DEF InventoryTypeOK, FolderRow, EntryRow
<1>4. RowsNamed
  <2>1. \A f \in Folders : Here(f) => folder[f].parent \in Placed
    BY <1>1 DEF Placed, Existing, Here
  <2>2. NamedJob(NoJob, Existing)
    BY EmptySeq DEF NamedJob, NoJob, Lists
  <2> QED
    BY <2>1, <2>2 DEF RowsNamed
<1>5. \A j \in Jobs : JobSound(j)
  BY DEF JobSound, PlaceSound, NoJob
<1>6. FoldersExplained /\ EntriesExplained
  BY DEF FoldersExplained, EntriesExplained, Fits, OwnedBy, OwnersAgree
<1> QED
  BY <1>3, <1>4, <1>5, <1>6 DEF InventoryInv

\* A step of one request keeps what every request knows and what is still to be settled.
LEMMA InventoryStep == InventoryInv /\ [InventoryNext]_invVars => InventoryInv'
<1> SUFFICES ASSUME InventoryInv, [InventoryNext]_invVars PROVE InventoryInv'
  OBVIOUS
<1>1. CASE InventoryNext
  <2>1. PICK j \in Jobs : JobStep(j)
    BY <1>1 DEF InventoryNext
  <2>2. InventoryTypeOK /\ RowsNamed /\ \A k \in Jobs : JobSound(k)
    BY DEF InventoryInv
  <2>3. InventoryTypeOK' /\ RowsNamed'
    BY <2>1, <2>2, InventoryTypes
  <2>4. \A k \in Jobs : JobSound(k)'
    BY <2>1, <2>2, OwnSound, OthersSound
  <2>5. ASSUME ~tainted' PROVE ~tainted
    <3>1. PICK record : Go(j, record) \/ Wrote(j, record)
      BY <2>1, <2>2, RecordStep
    <3> QED
      BY <2>5, <3>1, CleanWrite DEF Go
  <2>6. ~tainted' => NoCycle' /\ (Doomed' \/ (FoldersExplained' /\ EntriesExplained'))
    BY <2>1, <2>2, <2>5, CycleKept, ExplainedKept DEF InventoryInv
  <2> QED
    BY <2>3, <2>4, <2>6 DEF InventoryInv
<1>2. CASE UNCHANGED invVars
  <2>1. /\ folder' = folder /\ entry' = entry /\ job' = job /\ stale' = stale /\ tainted' = tainted
    BY <1>2 DEF invVars
  <2>2. InventoryTypeOK' /\ (NoCycle' <=> NoCycle)
    BY <2>1 DEF InventoryInv, InventoryTypeOK, NoCycle, Here
  <2>3. Existing' = Existing /\ (\A f : Here(f)' <=> Here(f)) /\ (\A f, o : OwnedBy(f, o)' <=> OwnedBy(f, o))
        /\ \A q, next : Traced(q, next)' <=> Traced(q, next)
    BY <2>1 DEF Existing, Here, OwnedBy, Traced
  <2>4. RowsNamed'
    BY <2>1, <2>3 DEF InventoryInv, RowsNamed, Placed
  <2>5. \A k \in Jobs : ToOwn(k)' = ToOwn(k) /\ \A l : Waits(k, l)' = Waits(k, l)
    BY <2>1 DEF ToOwn, Waits
  <2>6. \A k \in Jobs : JobSound(k)'
    <3>1. \A k \in Jobs : PlaceSound(k) => PlaceSound(k)'
      BY <2>1, <2>3 DEF PlaceSound
    <3>2. \A k \in Jobs : MoveSound(k) => MoveSound(k)'
      BY <2>1, <2>3, <2>5 DEF MoveSound
    <3> QED
      BY <2>1, <3>1, <3>2 DEF InventoryInv, JobSound
  <2>7. (Doomed' <=> Doomed) /\ \A k \in Jobs : Fresh(k)' <=> Fresh(k)
    BY <2>1 DEF Doomed, Fresh, Relocates
  <2>8. (FoldersExplained' <=> FoldersExplained) /\ (EntriesExplained' <=> EntriesExplained)
    <3>1. \A k \in Jobs, h \in Folders : (Settles(k, h)' <=> Settles(k, h)) /\ (SettlesEntries(k, h)' <=> SettlesEntries(k, h))
      BY <2>1, <2>5, <2>7 DEF Settles, SettlesEntries
    <3> QED
      BY <2>1, <3>1 DEF FoldersExplained, EntriesExplained, Fits, OwnedBy, Here, Inside
  <2> QED
    BY <2>1, <2>2, <2>4, <2>6, <2>7, <2>8 DEF InventoryInv
<1> QED
  BY <1>1, <1>2

\* What is known of every request and of the tables holds throughout.
LEMMA InventoryInvariant == InventorySpec => []InventoryInv
  BY InventoryStarts, InventoryStep, PTL DEF InventorySpec

\* Unless a request wrote after a row it had read, and relied on, was changed by another
\* (Outdated), no folder comes to be inside itself
\* (the climb of editFolder, controllers/folder.js) and, once no move between owners is
\* under way, every folder and entry has the owner of its folder (updateFolderContext;
\* createEntry, editEntry, duplicateEntry, repositionEntry of controllers/entry.js).
THEOREM TreeKept == InventorySpec => []TreeSound
<1>1. InventoryInv => TreeSound
  <2> SUFFICES ASSUME InventoryInv, ~tainted, ~Relocating PROVE NoCycle /\ OwnersAgree
    BY DEF TreeSound, InventoryInv
  <2>1. \A j \in Jobs : ~Relocates(j)
    BY DEF Relocating, Relocates
  <2>2. FoldersExplained /\ EntriesExplained /\ NoCycle
    BY <2>1 DEF InventoryInv, Doomed
  <2>3. \A j \in Jobs : \A h : ~Settles(j, h) /\ ~SettlesEntries(j, h)
    BY <2>1 DEF Settles, SettlesEntries, Fresh
  <2> QED
    BY <2>2, <2>3 DEF FoldersExplained, EntriesExplained, OwnersAgree, Fits, OwnedBy
<1> QED
  BY <1>1, InventoryInvariant, PTL
=============================================================================
