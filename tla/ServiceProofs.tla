--------------------------- MODULE ServiceProofs ---------------------------
(***************************************************************************)
(* HostKeys keeps PinnedKey, StatusChecker CheckerSound, Startup           *)
(* StartsWhole, Organizations OwnerKept, Integrations SyncSound and        *)
(* Backups BackupKept, and each its types, for any number of connections,  *)
(* hosts, cycles, migrations, accounts, requests, syncs and backups.       *)
(***************************************************************************)
EXTENDS MCServices, FiniteSetTheorems, FunctionTheorems, WellFoundedInduction, TLAPS

----------------------------------------------------------------------------
(* Host keys *)

RefusedWith(k) == \E v \in Connecting : verify[v].at = "refused" /\ verify[v].key = k

(* What was read is what is there, unless somebody is known to have moved  *)
(* it; and a key that waits, or that an administrator is about to accept,  *)
(* is one a connection was refused with.                                   *)
HostKeysInv ==
  /\ HostKeysTypeOK
  /\ row = NoRow \/ row.id \in Rows
  /\ \A v \in Connecting :
        /\ verify[v].at \notin {"idle"} => verify[v].key \in Keys
        /\ verify[v].at = "create" => verify[v].saw = NoRow
        /\ verify[v].at = "mark" => verify[v].saw.id \in Rows /\ verify[v].saw.trusted # verify[v].key
        /\ verify[v].at \in {"create", "mark"} /\ v \notin moved => row = verify[v].saw
  /\ row.pending # NoKey => RefusedWith(row.pending)
  /\ \A d \in Decisions : decision[d].at = "accept" =>
        /\ decision[d].saw.id \in Rows /\ decision[d].saw.pending # NoKey
        /\ RefusedWith(decision[d].saw.pending)

LEMMA HostKeysInitial == HostKeysInit => HostKeysInv
BY DEF HostKeysInit, HostKeysInv, HostKeysTypeOK, NoRow, NoCheck, NoDecision, Row

\* Refused is an end: who was refused with a key stays so.
LEMMA RefusedStays ==
  ASSUME HostKeysTypeOK, HostKeysNext, NEW v \in Connecting, verify[v].at = "refused"
  PROVE  verify'[v] = verify[v]
BY DEF HostKeysTypeOK, HostKeysNext, Present, ReadRow, Trust, Mark, ReadDecision, Accept, Forget, Check

\* Every step keeps the types of rows, checks and decisions.
LEMMA HostKeysTypes ==
  ASSUME HostKeysInv, HostKeysNext
  PROVE  HostKeysTypeOK'
<1> USE DEF HostKeysTypeOK, HostKeysInv
<1>1. ASSUME NEW v \in Connecting, Present(v) PROVE HostKeysTypeOK'
  <2>1. \A k \in Keys : [NoCheck EXCEPT !.at = "asked", !.key = k]
            \in [at : {"idle", "asked", "create", "mark", "admitted", "refused"},
                 key : Keys \cup {NoKey}, saw : Row]
    BY DEF NoCheck, NoRow, Row
  <2>2. PICK k \in Keys : verify' = [verify EXCEPT ![v] = [NoCheck EXCEPT !.at = "asked", !.key = k]]
    BY <1>1 DEF Present, Check
  <2> QED
    BY <1>1, <2>1, <2>2 DEF Present
<1>2. ASSUME NEW v \in Connecting, ReadRow(v) PROVE HostKeysTypeOK'
  <2>1. PICK at \in {"create", "admitted", "refused", "mark"} :
            verify' = [verify EXCEPT ![v] = [verify[v] EXCEPT !.saw = row, !.at = at]]
    BY <1>2 DEF ReadRow, Check
  <2> QED
    BY <1>2, <2>1, ZenonT(60) DEF ReadRow
<1>3. ASSUME NEW v \in Connecting, Trust(v) PROVE HostKeysTypeOK'
  <2>1. /\ verify' \in [Connecting -> [at : {"idle", "asked", "create", "mark", "admitted", "refused"},
                                       key : Keys \cup {NoKey}, saw : Row]]
        /\ decision' = decision
    BY <1>3 DEF Trust, Check
  <2>2. row' \in Row /\ unused' \subseteq Rows /\ moved' \subseteq Connecting \cup Decisions
    BY <1>3 DEF Trust, Put, Row
  <2> QED
    BY <2>1, <2>2
<1>4. ASSUME NEW v \in Connecting, Mark(v) PROVE HostKeysTypeOK'
  BY <1>4, SMTT(30) DEF Mark, Put, Check, Row
<1>5. ASSUME NEW d \in Decisions, ReadDecision(d) PROVE HostKeysTypeOK'
  <2>1. UNCHANGED <<row, unused, verify>> /\ moved' \subseteq moved
    BY <1>5 DEF ReadDecision
  <2>2. PICK at \in {"accept", "forget"} : decision' = [decision EXCEPT ![d] = [at |-> at, saw |-> row]]
    BY <1>5 DEF ReadDecision, Decide
  <2>3. [at |-> at, saw |-> row] \in [at : {"idle", "accept", "forget", "done"}, saw : Row]
    OBVIOUS
  <2> QED
    BY <2>1, <2>2, <2>3
<1>6. ASSUME NEW d \in Decisions, Accept(d) \/ Forget(d) PROVE HostKeysTypeOK'
  <2>0. row \in Row /\ decision[d].saw \in Row /\ NoRow \in Row
    BY DEF Row, NoRow
  <2>1. row' \in Row
    <3>1. [row EXCEPT !.trusted = decision[d].saw.pending, !.pending = NoKey] \in Row
      BY <2>0 DEF Row
    <3>2. row' \in {row, NoRow, [row EXCEPT !.trusted = decision[d].saw.pending, !.pending = NoKey]}
      BY <1>6 DEF Accept, Forget, Put
    <3> QED
      BY <2>0, <3>1, <3>2
  <2>2. verify' = verify /\ unused' = unused /\ moved' \subseteq Connecting \cup Decisions
    BY <1>6 DEF Accept, Forget, Put
  <2>3. decision' = [decision EXCEPT ![d] = [decision[d] EXCEPT !.at = "done"]]
    BY <1>6 DEF Accept, Forget, Decide
  <2> QED
    BY <2>1, <2>2, <2>3
<1> QED
  BY <1>1, <1>2, <1>3, <1>4, <1>5, <1>6 DEF HostKeysNext

\* What a connection read is what is there, unless the row moved.
LEMMA HostKeysReads ==
  ASSUME HostKeysInv, HostKeysNext, NEW v \in Connecting
  PROVE  /\ verify'[v].at \notin {"idle"} => verify'[v].key \in Keys
         /\ verify'[v].at = "create" => verify'[v].saw = NoRow
         /\ verify'[v].at = "mark" => verify'[v].saw.id \in Rows /\ verify'[v].saw.trusted # verify'[v].key
         /\ verify'[v].at \in {"create", "mark"} /\ v \notin moved' => row' = verify'[v].saw
<1> USE DEF HostKeysTypeOK, HostKeysInv
<1>1. ASSUME NEW w \in Connecting, Present(w) \/ ReadRow(w), v # w
      PROVE  verify'[v] = verify[v] /\ row' = row /\ (v \notin moved' => v \notin moved)
  BY <1>1 DEF Present, ReadRow, Check
<1>2. CASE Present(v)
  BY <1>2 DEF Present, Check, NoCheck
<1>3. CASE ReadRow(v)
  BY <1>3 DEF ReadRow, Check, Known
<1>4. ASSUME NEW w \in Connecting, Trust(w) \/ Mark(w), v # w
      PROVE  verify'[v] = verify[v] /\ (v \notin moved' => v \notin moved /\ row' = row)
  BY <1>4 DEF Trust, Mark, Put, Check
<1>5. CASE Trust(v) \/ Mark(v)
  BY <1>5 DEF Trust, Mark, Check
<1>6. ASSUME NEW d \in Decisions, ReadDecision(d) \/ Accept(d) \/ Forget(d)
      PROVE  verify'[v] = verify[v] /\ (v \notin moved' => v \notin moved /\ row' = row)
  BY <1>6, KeysApart DEF ReadDecision, Accept, Forget, Put
<1> QED
  BY <1>1, <1>2, <1>3, <1>4, <1>5, <1>6 DEF HostKeysNext

\* A key that waits, or is about to be accepted, was refused.
LEMMA HostKeysPending ==
  ASSUME HostKeysInv, HostKeysNext
  PROVE  /\ row' = NoRow \/ row'.id \in Rows
         /\ row'.pending # NoKey =>
               \E v \in Connecting : verify'[v].at = "refused" /\ verify'[v].key = row'.pending
         /\ \A d \in Decisions : decision'[d].at = "accept" =>
               /\ decision'[d].saw.id \in Rows /\ decision'[d].saw.pending # NoKey
               /\ \E v \in Connecting : verify'[v].at = "refused" /\ verify'[v].key = decision'[d].saw.pending
<1> USE DEF HostKeysTypeOK, HostKeysInv
<1>0. \A k : RefusedWith(k) =>
             \E v \in Connecting : verify'[v].at = "refused" /\ verify'[v].key = k
  BY RefusedStays DEF RefusedWith
<1>1. ASSUME NEW v \in Connecting, Present(v) \/ ReadRow(v) PROVE UNCHANGED <<row, decision>>
  BY <1>1 DEF Present, ReadRow
<1>2. ASSUME NEW v \in Connecting, Trust(v)
      PROVE  (row' = row \/ (row'.id \in Rows /\ row'.pending = NoKey)) /\ decision' = decision
  BY <1>2 DEF Trust, Put
<1>3. ASSUME NEW v \in Connecting, Mark(v)
      PROVE  /\ row' = row \/ (row'.id = row.id /\ row'.pending = verify[v].key /\ row.id \in Rows)
             /\ verify'[v].at = "refused" /\ verify'[v].key = verify[v].key /\ decision' = decision
  <2>1. verify[v].saw.id \in Rows /\ verify'[v].at = "refused" /\ verify'[v].key = verify[v].key
    BY <1>3 DEF Mark, Check
  <2>2. CASE row.id = verify[v].saw.id
    BY <1>3, <2>1, <2>2 DEF Mark, Put, Row
  <2>3. CASE row.id # verify[v].saw.id
    BY <1>3, <2>1, <2>3 DEF Mark, Put
  <2> QED
    BY <2>2, <2>3
<1>4. ASSUME NEW d \in Decisions, ReadDecision(d)
      PROVE  row' = row /\ \A e \in Decisions : decision'[e].at = "accept" =>
                \/ decision'[e] = decision[e]
                \/ decision'[e].saw = row /\ row # NoRow /\ row.pending # NoKey
  BY <1>4 DEF ReadDecision, Decide
<1>5. ASSUME NEW d \in Decisions, Accept(d) \/ Forget(d)
      PROVE  /\ row' = row \/ row' = NoRow \/ (row'.id = row.id /\ row.id \in Rows /\ row'.pending = NoKey)
             /\ \A e \in Decisions : decision'[e].at = "accept" => decision'[e] = decision[e]
             /\ verify' = verify
  <2>1. CASE Accept(d) /\ row.id = decision[d].saw.id
    BY <2>1 DEF Accept, Put, Decide, Row
  <2>2. CASE Accept(d) /\ row.id # decision[d].saw.id
    BY <2>2 DEF Accept, Put, Decide
  <2>3. CASE Forget(d)
    BY <2>3 DEF Forget, Put, Decide
  <2> QED
    BY <1>5, <2>1, <2>2, <2>3
<1> QED
  <2>1. CASE \E v \in Connecting : Present(v) \/ ReadRow(v)
    BY <1>0, <1>1, <2>1
  <2>2. CASE \E v \in Connecting : Trust(v)
    BY <1>0, <1>2, <2>2
  <2>3. CASE \E v \in Connecting : Mark(v)
    BY <1>0, <1>3, <2>3
  <2>4. CASE \E d \in Decisions : ReadDecision(d)
    BY <1>0, <1>4, <2>4
  <2>5. CASE \E d \in Decisions : Accept(d) \/ Forget(d)
    BY <1>0, <1>5, <2>5 DEF NoRow
  <2> QED
    BY <2>1, <2>2, <2>3, <2>4, <2>5 DEF HostKeysNext

LEMMA HostKeysInvariant == HostKeysSpec => []HostKeysInv
<1>1. HostKeysInv /\ [HostKeysNext]_hkVars => HostKeysInv'
  <2>1. ASSUME HostKeysInv, HostKeysNext PROVE HostKeysInv'
    BY <2>1, HostKeysTypes, HostKeysReads, HostKeysPending DEF HostKeysInv, RefusedWith, NoRow
  <2>2. ASSUME HostKeysInv, UNCHANGED hkVars PROVE HostKeysInv'
    BY <2>2 DEF HostKeysInv, hkVars, HostKeysTypeOK, RefusedWith, NoRow, Row
  <2> QED
    BY <2>1, <2>2
<1> QED
  BY <1>1, HostKeysInitial, PTL DEF HostKeysSpec

AdmittedRight(v) == Ends(v, "admitted") => row'.trusted = verify[v].key
RefusedRight(v) == Ends(v, "refused") => /\ row' # NoRow /\ row'.trusted # verify[v].key
                                         /\ row'.pending = verify[v].key
TrustedRight == row' # row /\ row'.id = row.id /\ row'.trusted # row.trusted => RefusedWith(row'.trusted)

\* One step admits and refuses as PinnedKey says.
LEMMA PinnedStep ==
  ASSUME HostKeysInv, HostKeysNext
  PROVE  TrustedRight /\ \A v \in Connecting \ moved' : AdmittedRight(v) /\ RefusedRight(v)
<1> USE DEF HostKeysTypeOK, HostKeysInv
<1> DEFINE All == \A v \in Connecting \ moved' : AdmittedRight(v) /\ RefusedRight(v)
<1>1. ASSUME NEW w \in Connecting, Present(w) PROVE TrustedRight /\ All
  BY <1>1 DEF Present, Check, NoCheck, TrustedRight, AdmittedRight, RefusedRight, Ends
<1>2. ASSUME NEW w \in Connecting, ReadRow(w) PROVE TrustedRight /\ All
  BY <1>2 DEF ReadRow, Check, Known, TrustedRight, AdmittedRight, RefusedRight, Ends
<1>3. ASSUME NEW w \in Connecting, Trust(w) PROVE TrustedRight /\ All
  BY <1>3, KeysApart DEF Trust, Put, Check, NoRow, TrustedRight, AdmittedRight, RefusedRight, Ends
<1>4. ASSUME NEW w \in Connecting, Mark(w) PROVE TrustedRight /\ All
  <2>1. TrustedRight
    BY <1>4 DEF Mark, Put, TrustedRight, Row
  <2>2. ASSUME NEW v \in Connecting \ moved', v # w PROVE AdmittedRight(v) /\ RefusedRight(v)
    BY <1>4, <2>2 DEF Mark, Check, AdmittedRight, RefusedRight, Ends
  <2>3. ASSUME w \notin moved' PROVE AdmittedRight(w) /\ RefusedRight(w)
    <3>1. row = verify[w].saw /\ row.id \in Rows /\ row.trusted # verify[w].key
      BY <1>4, <2>3 DEF Mark, Put
    <3>2. row' = [row EXCEPT !.pending = verify[w].key] /\ verify'[w].at = "refused"
      BY <1>4, <3>1 DEF Mark, Put, Check
    <3>3. row'.id = row.id /\ row'.trusted = row.trusted /\ row'.pending = verify[w].key /\ row'.id \in Rows
      BY <3>1, <3>2 DEF Row
    <3> QED
      BY <3>1, <3>2, <3>3, KeysApart DEF AdmittedRight, RefusedRight, Ends, NoRow
  <2> QED
    BY <2>1, <2>2, <2>3
<1>5. ASSUME NEW d \in Decisions, ReadDecision(d) PROVE TrustedRight /\ All
  BY <1>5 DEF ReadDecision, TrustedRight, AdmittedRight, RefusedRight, Ends
<1>6. ASSUME NEW d \in Decisions, Accept(d) PROVE TrustedRight /\ All
  BY <1>6 DEF Accept, Put, Row, TrustedRight, AdmittedRight, RefusedRight, Ends
<1>7. ASSUME NEW d \in Decisions, Forget(d) PROVE TrustedRight /\ All
  BY <1>7, KeysApart DEF Forget, Put, Row, NoRow, TrustedRight, AdmittedRight, RefusedRight, Ends
<1> QED
  BY <1>1, <1>2, <1>3, <1>4, <1>5, <1>6, <1>7 DEF HostKeysNext

\* A connection is admitted with the trusted key alone, one that is refused has
\* another key, which then waits, and a trusted key changes only to one that was
\* refused; except after an overlapping check or decision changed the row.
THEOREM KeyPinned == HostKeysSpec => PinnedKey
<1> DEFINE A == TrustedRight /\ \A v \in Connecting \ moved' : AdmittedRight(v) /\ RefusedRight(v)
<1>1. HostKeysInv /\ [HostKeysNext]_hkVars => [A]_hkVars
  BY PinnedStep
<1>2. A => /\ \A v \in Connecting \ moved' :
                 /\ Ends(v, "admitted") => row'.trusted = verify[v].key
                 /\ Ends(v, "refused") => row' # NoRow /\ row'.trusted # verify[v].key
                 /\ Ends(v, "refused") => row'.pending = verify[v].key
           /\ row' # row /\ row'.id = row.id /\ row'.trusted # row.trusted
                 => \E v \in Connecting : verify[v].at = "refused" /\ verify[v].key = row'.trusted
  BY DEF TrustedRight, AdmittedRight, RefusedRight, RefusedWith
<1> QED
  BY <1>1, <1>2, HostKeysInvariant, PTL DEF HostKeysSpec, PinnedKey

----------------------------------------------------------------------------
(* The status checker *)

(* A cycle that read the settings as on is over before the checker counts  *)
(* as turned off; what was reported last is what is stored, and during a   *)
(* cycle what the cycle listed, unless the status was lost; at most one    *)
(* start is under way unless two crossed.                                  *)
Busy(c) == cycle[c].at # "idle"
Told(h, s) == told[h] \in {"unknown", s}

CycleOk(c) ==
  /\ cycle[c].at \in {"check", "update"} => \A h \in Hosts : told[h] = "unknown" \/ cycle[c].listed[h] = status[h]
  /\ cycle[c].at # "notify" => \A h \in Hosts : Told(h, status[h])
  /\ cycle[c].at = "notify" => \A h \in Hosts :
        \/ told[h] = "unknown"
        \/ /\ told[h] = cycle[c].listed[h]
           /\ \/ cycle[c].found[h] # "unknown" /\ status[h] = cycle[c].found[h]
              \/ cycle[c].found[h] = "unknown" /\ status[h] = cycle[c].listed[h]

CheckerInv ==
  /\ StatusCheckerTypeOK
  /\ handle => timers > 0
  /\ \A c, d \in Cycles : Busy(c) /\ Busy(d) => c = d
  /\ isRunning <=> \E c \in Cycles : Busy(c)
  /\ settled => /\ ~enabled
                /\ \A h \in Hosts : status[h] = "unknown" \/ h \in landed
                /\ \A c \in Cycles : cycle[c].at \in {"idle", "settings", "clear"}
  /\ \A c \in Cycles : Busy(c) => CycleOk(c)
  /\ (\A c \in Cycles : ~Busy(c)) => \A h \in Hosts : Told(h, status[h])
  /\ repeated = {}
  /\ crossed \/ /\ timers = (IF handle THEN 1 ELSE 0)
                /\ restart = {} \/ (~handle /\ \E r \in Restarts : restart = {r})

CycleRecord == [at : {"idle", "settings", "clear", "list", "check", "update", "notify"},
                listed : [Hosts -> Statuses], found : [Hosts -> Statuses]]

LEMMA CheckerInitial == StatusCheckerInit => CheckerInv
<1> SUFFICES ASSUME StatusCheckerInit PROVE CheckerInv
  OBVIOUS
<1>1. NoCycle \in CycleRecord /\ Unknown \in [Hosts -> Statuses] /\ NoCycle.at = "idle"
  BY DEF NoCycle, CycleRecord, Unknown, Statuses
<1>2. \A c \in Cycles : cycle[c] = NoCycle
  BY DEF StatusCheckerInit
<1>3. StatusCheckerTypeOK
  <2>1. cycle \in [Cycles -> CycleRecord] /\ told \in [Hosts -> Statuses]
    BY <1>1 DEF StatusCheckerInit
  <2>2. restart \subseteq Restarts /\ written \subseteq Restarts /\ timers \in 0..MaxTimers
        /\ repeated \subseteq Hosts /\ landed \subseteq Hosts /\ late \in [Hosts -> Statuses]
    BY <1>1, TimersAssumption DEF StatusCheckerInit
  <2> QED
    BY <2>1, <2>2 DEF StatusCheckerInit, StatusCheckerTypeOK, CycleRecord
<1>4. \A c \in Cycles : ~Busy(c)
  BY <1>1, <1>2 DEF Busy
<1>5. \A h \in Hosts : Told(h, status[h])
  BY DEF StatusCheckerInit, Told, Unknown
<1>6. PICK r \in Restarts : restart = {r}
  BY DEF StatusCheckerInit
<1> QED
  BY <1>3, <1>4, <1>5, <1>6 DEF CheckerInv, StatusCheckerInit

\* A cycle that begins finds no other.
LEMMA BeginKeeps ==
  ASSUME CheckerInv, NEW c \in Cycles, Begin(c)
  PROVE  /\ cycle' \in [Cycles -> CycleRecord] /\ isRunning' = TRUE
         /\ \E d \in Cycles : Busy(d)'
         /\ \A d \in Cycles : Busy(d)' => \/ Busy(d) /\ cycle'[d] = cycle[d]
                                          \/ /\ \A e \in Cycles : ~Busy(e)
                                             /\ d = c /\ cycle'[d].at = "settings"
<1> USE DEF CheckerInv, StatusCheckerTypeOK
<1>1. CASE isRunning
  BY <1>1 DEF Begin, Busy, CycleRecord
<1>2. CASE ~isRunning
  <2>1. [NoCycle EXCEPT !.at = "settings"] \in CycleRecord
    BY DEF NoCycle, Unknown, Statuses, CycleRecord
  <2>2. /\ cycle' = [cycle EXCEPT ![c] = [NoCycle EXCEPT !.at = "settings"]] /\ isRunning' = TRUE
        /\ \A e \in Cycles : ~Busy(e)
    BY <1>2 DEF Begin, Turn
  <2>3. cycle'[c].at = "settings"
    BY <2>2 DEF NoCycle
  <2> QED
    BY <2>1, <2>2, <2>3 DEF Busy, CycleRecord
<1> QED
  BY <1>1, <1>2

\* Timers and settings: a step that starts at most a cycle and touches no status.
LEMMA TimersKeep ==
  ASSUME CheckerInv,
         \/ \E c \in Cycles : Tick(c)
         \/ \E r \in Restarts : \/ SetEnabled(r) \/ Restart(r) \/ RestartSkipped(r)
                                \/ Start(r)
  PROVE  CheckerInv'
<1> USE DEF CheckerInv, StatusCheckerTypeOK
<1>1. /\ UNCHANGED <<status, late, told, repeated>>
      /\ settled' => settled /\ landed' = landed
      /\ landed' \subseteq Hosts
    BY DEF Tick, SetEnabled, Restart, RestartSkipped, Start
<1>2. \/ UNCHANGED <<cycle, isRunning>>
      \/ \E c \in Cycles : Begin(c)
  BY DEF Tick, SetEnabled, Restart, RestartSkipped, Start
<1>3. /\ cycle' \in [Cycles -> CycleRecord] /\ isRunning' \in BOOLEAN
      /\ \A c, d \in Cycles : Busy(c)' /\ Busy(d)' => c = d
      /\ isRunning' <=> \E c \in Cycles : Busy(c)'
      /\ \A c \in Cycles : Busy(c)' => CycleOk(c)'
      /\ (\A c \in Cycles : ~Busy(c)') => \A h \in Hosts : Told(h, status[h])'
      /\ settled => \A c \in Cycles : cycle'[c].at \in {"idle", "settings", "clear"}
  <2>1. CASE UNCHANGED <<cycle, isRunning>>
    <3>1. \A c \in Cycles : (Busy(c)' <=> Busy(c)) /\ (CycleOk(c)' <=> CycleOk(c))
      BY <1>1, <2>1 DEF Busy, CycleOk, Told
    <3>2. \A h \in Hosts : Told(h, status[h])' <=> Told(h, status[h])
      BY <1>1 DEF Told
    <3> QED
      BY <2>1, <3>1, <3>2 DEF CycleRecord
  <2>2. CASE \E c \in Cycles : Begin(c)
    <3>1. PICK c \in Cycles : Begin(c)
      BY <2>2
    <3>2. \A d \in Cycles : Busy(d) /\ cycle'[d] = cycle[d] => CycleOk(d)'
      BY <1>1 DEF Busy, CycleOk, Told
    <3>3. \A d \in Cycles : cycle'[d].at = "settings" /\ (\A e \in Cycles : ~Busy(e)) => CycleOk(d)'
      BY <1>1 DEF CycleOk, Told
    <3>4. /\ cycle' \in [Cycles -> CycleRecord] /\ isRunning' = TRUE
          /\ \E d \in Cycles : Busy(d)'
          /\ \A d \in Cycles : Busy(d)' => \/ Busy(d) /\ cycle'[d] = cycle[d]
                                           \/ /\ \A e \in Cycles : ~Busy(e)
                                              /\ d = c /\ cycle'[d].at = "settings"
      BY <3>1, BeginKeeps
    <3>5. \A d \in Cycles : Busy(d)' => CycleOk(d)'
      BY <3>2, <3>3, <3>4
    <3>6. \A d, e \in Cycles : Busy(d)' /\ Busy(e)' => d = e
      BY <3>4
    <3>7. settled => \A d \in Cycles : cycle'[d].at \in {"idle", "settings", "clear"}
      BY <3>4 DEF Busy
    <3> QED
      BY <3>4, <3>5, <3>6, <3>7
  <2> QED
    BY <1>2, <2>1, <2>2
<1> DEFINE Plain == /\ enabled' \in BOOLEAN /\ handle' \in BOOLEAN
                    /\ settled' \in BOOLEAN /\ crossed' \in BOOLEAN
                    /\ timers' \in 0..MaxTimers /\ (handle' => timers' > 0)
                    /\ restart' \subseteq Restarts /\ written' \subseteq Restarts
                    /\ settled' => ~enabled'
                    /\ crossed' \/ /\ timers' = (IF handle' THEN 1 ELSE 0)
                                   /\ restart' = {} \/ (~handle' /\ \E r \in Restarts : restart' = {r})
<1>4. Plain
  <2>1. CASE \E c \in Cycles : Tick(c)
    BY <2>1 DEF Tick
  <2>2. ASSUME NEW r \in Restarts, Restart(r) PROVE Plain
    <3>1. timers' \in 0..MaxTimers /\ (timers = (IF handle THEN 1 ELSE 0) => timers' = 0)
      BY TimersAssumption, <2>2 DEF Restart, Stopped
    <3>2. /\ enabled' \in BOOLEAN /\ settled' \in BOOLEAN /\ (settled' => ~enabled')
          /\ handle' = FALSE /\ restart' \subseteq Restarts /\ written' \subseteq Restarts
          /\ crossed' \in BOOLEAN
      BY <2>2 DEF Restart
    <3>3. ~crossed' => ~crossed /\ restart' = {r}
      BY <2>2 DEF Restart
    <3> QED
      BY <3>1, <3>2, <3>3
  <2>3. ASSUME NEW r \in Restarts, Start(r) PROVE Plain
    BY TimersAssumption, <2>3 DEF Start
  <2>4. ASSUME NEW r \in Restarts, SetEnabled(r) \/ RestartSkipped(r) PROVE Plain
    BY <2>4 DEF SetEnabled, RestartSkipped
  <2> QED
    BY <2>1, <2>2, <2>3, <2>4
<1> QED
  BY <1>1, <1>3, <1>4 DEF CycleRecord

\* A cycle that goes on, touching nobody else's work.
LEMMA StepKeeps ==
  ASSUME CheckerInv, NEW c \in Cycles, Busy(c), NEW record \in CycleRecord, record.at # "idle",
         Turn(c, record), Frame, UNCHANGED <<isRunning, repeated, settled, landed>>,
         status' \in [Hosts -> Statuses], told' \in [Hosts -> Statuses], late' \in [Hosts -> Statuses],
         CycleOk(c)',
         settled => status' = status /\ record.at \in {"idle", "settings", "clear"}
  PROVE  CheckerInv'
<1>1. cycle' = [cycle EXCEPT ![c] = record] /\ cycle' \in [Cycles -> CycleRecord]
  BY DEF Turn, CheckerInv, StatusCheckerTypeOK, CycleRecord
<1>2. StatusCheckerTypeOK'
  BY <1>1 DEF CheckerInv, StatusCheckerTypeOK, Frame, CycleRecord
<1>3. \A d \in Cycles : Busy(d)' <=> d = c
  BY <1>1 DEF CheckerInv, StatusCheckerTypeOK, Busy
<1>4. settled' => \A d \in Cycles : cycle'[d].at \in {"idle", "settings", "clear"}
  BY <1>1 DEF CheckerInv, StatusCheckerTypeOK
<1> QED
  BY <1>2, <1>3, <1>4 DEF CheckerInv, Frame

\* A cycle that ends.
LEMMA EndKeeps ==
  ASSUME CheckerInv, NEW c \in Cycles, Busy(c), End(c), Frame, repeated' = {},
         status' \in [Hosts -> Statuses], told' \in [Hosts -> Statuses], settled' \in BOOLEAN,
         UNCHANGED late, landed' \subseteq Hosts,
         \A h \in Hosts : Told(h, status[h])',
         settled' => /\ ~enabled
                     /\ \A h \in Hosts : status'[h] = "unknown" \/ h \in landed'
  PROVE  CheckerInv'
<1>0. NoCycle \in CycleRecord /\ NoCycle.at = "idle"
  BY DEF NoCycle, CycleRecord, Unknown, Statuses
<1>1. cycle' = [cycle EXCEPT ![c] = NoCycle] /\ cycle' \in [Cycles -> CycleRecord] /\ isRunning' = FALSE
  BY <1>0 DEF Turn, End, CheckerInv, StatusCheckerTypeOK, CycleRecord
<1>2. StatusCheckerTypeOK'
  BY <1>1 DEF CheckerInv, StatusCheckerTypeOK, Frame, CycleRecord
<1>3. \A d \in Cycles : ~Busy(d)' /\ cycle'[d].at = "idle"
  BY <1>0, <1>1 DEF CheckerInv, StatusCheckerTypeOK, Busy
<1> QED
  BY <1>1, <1>2, <1>3 DEF CheckerInv, Frame

\* The steps of a cycle, one by one.
LEMMA CycleKeeps ==
  ASSUME CheckerInv, NEW c \in Cycles,
         ReadSettings(c) \/ Clear(c) \/ ListHosts(c)
           \/ Fails(c) \/ CheckHosts(c) \/ Update(c) \/ Notify(c)
  PROVE  CheckerInv'
<1> USE DEF CheckerInv
<1>0. /\ Busy(c) /\ CycleOk(c) /\ cycle[c] \in CycleRecord /\ c \in DOMAIN cycle
      /\ status \in [Hosts -> Statuses] /\ told \in [Hosts -> Statuses] /\ settled \in BOOLEAN
      /\ Unknown \in [Hosts -> Statuses] /\ late \in [Hosts -> Statuses] /\ landed \subseteq Hosts
  <2>1. cycle[c].at # "idle"
    <3>1. ReadSettings(c) \/ Clear(c) \/ ListHosts(c) => cycle[c].at # "idle"
      BY DEF ReadSettings, Clear, ListHosts
    <3>2. CheckHosts(c) \/ Update(c) \/ Notify(c) \/ Fails(c) => cycle[c].at # "idle"
      BY DEF Fails, CheckHosts, Update, Notify
    <3> QED
      BY <3>1, <3>2
  <2> QED
    BY <2>1 DEF Busy, StatusCheckerTypeOK, CycleRecord, Unknown, Statuses
<1>1. CASE ReadSettings(c)
  <2>0. PICK at \in {"clear", "list"} : (settled => at = "clear") /\ Turn(c, [cycle[c] EXCEPT !.at = at])
    BY <1>1 DEF ReadSettings
  <2> DEFINE record == [cycle[c] EXCEPT !.at = at]
  <2>1. /\ record \in CycleRecord /\ record.at \in {"list", "clear"} /\ (settled => record.at = "clear")
        /\ Turn(c, record) /\ Frame /\ UNCHANGED <<status, isRunning, late, told, repeated, settled, landed>>
    BY <1>0, <1>1, <2>0 DEF ReadSettings, CycleRecord
  <2>2. cycle'[c] = record
    BY <1>0, <2>1 DEF Turn
  <2> HIDE DEF record
  <2>3. CycleOk(c)'
    BY <1>0, <1>1, <2>1, <2>2 DEF CycleOk, Told, ReadSettings
  <2> QED
    BY <1>0, <2>1, <2>3, StepKeeps
<1>2. CASE Clear(c)
  <2>1. \A h \in Hosts : Told(h, status[h])'
    BY <1>2 DEF Clear, Told, Unknown
  <2>2. /\ settled' \in BOOLEAN /\ landed' = {}
        /\ settled' => ~enabled /\ \A h \in Hosts : status'[h] = "unknown"
    BY <1>2 DEF Clear, Unknown
  <2> QED
    BY <1>0, <1>2, <2>1, <2>2, EndKeeps DEF Clear
<1>3. CASE ListHosts(c)
  <2> DEFINE record == [cycle[c] EXCEPT !.at = "check", !.listed = status]
  <2>1. /\ record \in CycleRecord /\ record.at = "check" /\ record.listed = status
        /\ Turn(c, record) /\ Frame /\ UNCHANGED <<status, isRunning, late, told, repeated, settled, landed>>
    BY <1>0, <1>3 DEF ListHosts, CycleRecord
  <2>2. cycle'[c] = record
    BY <1>0, <2>1 DEF Turn
  <2> HIDE DEF record
  <2>3. CycleOk(c)' /\ ~settled
    BY <1>0, <1>3, <2>1, <2>2 DEF CycleOk, Told, ListHosts
  <2> QED
    BY <1>0, <2>1, <2>3, StepKeeps
<1>4. CASE CheckHosts(c)
  <2>0. PICK found \in [Hosts -> Statuses] :
          Turn(c, [at |-> "update", listed |-> cycle[c].listed, found |-> found])
    BY <1>4 DEF CheckHosts
  <2> DEFINE record == [at |-> "update", listed |-> cycle[c].listed, found |-> found]
  <2>1. /\ record \in CycleRecord /\ record.at = "update" /\ record.listed = cycle[c].listed
        /\ Turn(c, record) /\ Frame /\ UNCHANGED <<status, isRunning, late, told, repeated, settled, landed>>
    BY <1>0, <1>4, <2>0 DEF CheckHosts, CycleRecord
  <2>2. cycle'[c] = record
    BY <1>0, <2>1 DEF Turn
  <2> HIDE DEF record
  <2>3. CycleOk(c)' /\ ~settled
    BY <1>0, <1>4, <2>1, <2>2 DEF CycleOk, Told, CheckHosts
  <2> QED
    BY <1>0, <2>1, <2>3, StepKeeps
<1>5. CASE Update(c)
  <2> DEFINE record == [cycle[c] EXCEPT !.at = "notify"]
  <2>0. PICK failed \in SUBSET Found(c), slow \in SUBSET Found(c) :
          /\ status' = [h \in Hosts |-> IF h \in Found(c) \ (failed \cup slow)
                                       THEN cycle[c].found[h] ELSE status[h]]
          /\ told' = [h \in Hosts |-> IF h \in failed \cup slow THEN "unknown" ELSE told[h]]
          /\ late' = [h \in Hosts |-> IF h \in slow THEN cycle[c].found[h] ELSE late[h]]
    BY <1>5 DEF Update
  <2>1. /\ record \in CycleRecord /\ record.at = "notify"
        /\ record.listed = cycle[c].listed /\ record.found = cycle[c].found
        /\ Turn(c, record) /\ Frame /\ UNCHANGED <<isRunning, repeated, settled, landed>>
    BY <1>0, <1>5 DEF Update, CycleRecord
  <2>2. cycle'[c] = record
    BY <1>0, <2>1 DEF Turn
  <2>3. /\ status' \in [Hosts -> Statuses] /\ told' \in [Hosts -> Statuses]
        /\ late' \in [Hosts -> Statuses] /\ ~settled
    BY <1>0, <1>5, <2>0 DEF Update, CycleRecord, Statuses
  <2> HIDE DEF record
  <2>4. /\ cycle[c].at # "notify"
        /\ \A h \in Hosts : Told(h, status[h]) /\ (told[h] = "unknown" \/ cycle[c].listed[h] = status[h])
    BY <1>0, <1>5 DEF Update, CycleOk
  <2>5. CycleOk(c)'
    BY <1>0, <2>0, <2>1, <2>2, <2>4 DEF CycleOk, Told, Found
  <2> QED
    BY <1>0, <2>1, <2>3, <2>5, StepKeeps
<1>6. CASE Notify(c)
  <2>1. \A h \in Hosts :
          \/ told[h] = "unknown"
          \/ /\ told[h] = cycle[c].listed[h]
             /\ \/ cycle[c].found[h] # "unknown" /\ status[h] = cycle[c].found[h]
                \/ cycle[c].found[h] = "unknown" /\ status[h] = cycle[c].listed[h]
    BY <1>0, <1>6 DEF CycleOk, Notify
  <2>2. \A h \in Changed(c) : told[h] # cycle[c].found[h]
    BY <2>1 DEF Changed
  <2>3. repeated' = {}
    BY <1>6, <2>2 DEF Notify
  <2>4. told' = [h \in Hosts |-> IF h \in Changed(c) /\ status[h] = cycle[c].found[h]
                                 THEN status[h] ELSE told[h]] /\ status' = status
    BY <1>6 DEF Notify
  <2>5. \A h \in Hosts : Told(h, status[h])'
    BY <2>1, <2>4 DEF Told, Changed
  <2>6. told' \in [Hosts -> Statuses]
    BY <1>0, <2>4
  <2> QED
    BY <1>0, <1>6, <2>3, <2>4, <2>5, <2>6, EndKeeps DEF Notify
<1>7. CASE Fails(c)
  <2>1. cycle[c].at # "notify" /\ \A h \in Hosts : Told(h, status[h])
    BY <1>0, <1>7 DEF Fails, CycleOk
  <2>2. \A h \in Hosts : Told(h, status[h])'
    BY <1>7, <2>1 DEF Fails, Told
  <2> QED
    BY <1>0, <1>7, <2>2, EndKeeps DEF Fails
<1> QED
  BY <1>1, <1>2, <1>3, <1>4, <1>5, <1>6, <1>7

\* A late write: the host's last report no longer counts.
LEMMA LandKeeps ==
  ASSUME CheckerInv, NEW h \in Hosts, Land(h)
  PROVE  CheckerInv'
<1> USE DEF CheckerInv
<1>1. /\ status' = [status EXCEPT ![h] = late[h]] /\ late' = [late EXCEPT ![h] = "unknown"]
      /\ told' = [told EXCEPT ![h] = "unknown"]
      /\ landed' = IF settled THEN landed \cup {h} ELSE landed
      /\ UNCHANGED <<isRunning, cycle, repeated, settled, enabled, handle, timers, written, restart, crossed>>
  BY DEF Land, Frame
<1>2. StatusCheckerTypeOK'
  BY <1>1 DEF StatusCheckerTypeOK, Statuses
<1>3. told'[h] = "unknown" /\ \A x \in Hosts \ {h} : told'[x] = told[x] /\ status'[x] = status[x]
  BY <1>1 DEF StatusCheckerTypeOK
<1>4. \A x \in Hosts : Told(x, status[x]) => Told(x, status[x])'
  BY <1>3 DEF Told
<1>5. \A c \in Cycles : (Busy(c)' <=> Busy(c)) /\ (CycleOk(c) => CycleOk(c)')
  BY <1>1, <1>3, <1>4 DEF Busy, CycleOk
<1>6. settled' => \A x \in Hosts : status'[x] = "unknown" \/ x \in landed'
  BY <1>1, <1>3
<1> QED
  BY <1>1, <1>2, <1>4, <1>5, <1>6

LEMMA CheckerInvariant == StatusCheckerSpec => []CheckerInv
<1>1. CheckerInv /\ [StatusCheckerNext]_scVars => CheckerInv'
  <2>1. ASSUME CheckerInv, StatusCheckerNext PROVE CheckerInv'
    BY <2>1, TimersKeep, CycleKeeps, LandKeeps DEF StatusCheckerNext
  <2>2. ASSUME CheckerInv, UNCHANGED scVars PROVE CheckerInv'
    BY <2>2 DEF CheckerInv, scVars, StatusCheckerTypeOK, Busy, CycleOk, Told
  <2> QED
    BY <2>1, <2>2
<1> QED
  BY <1>1, CheckerInitial, PTL DEF StatusCheckerSpec

\* Once the checker was seen turned off no status comes back but from a write that
\* outlived a failed cycle, no host is reported the same twice while its status was
\* not lost, and one timer runs unless two starts crossed; for any number of hosts,
\* cycles and starts, with settings reads that fail.
THEOREM CheckerKept == StatusCheckerSpec => []CheckerSound
<1>1. CheckerInv => CheckerSound
  BY DEF CheckerInv, CheckerSound
<1> QED
  BY <1>1, CheckerInvariant, PTL

----------------------------------------------------------------------------
(* Start, migrations and restore *)

(* What is recorded is applied, unless the process ended inside of it: a   *)
(* migration that returns early and is half done is either under way in    *)
(* the run that began it, or was ended there.                              *)
MigrationsInv ==
  /\ StartupTypeOK
  /\ proc # "migrating" => up = 0
  /\ making => up # 0
  /\ \A m \in recorded : done[m] = 2 \/ m \in partial
  /\ \A m \in Migrations \cap Guarded : done[m] = 1 => m \in partial \/ (m = up /\ making)
  /\ proc = "serving" => Pending = {}
  /\ proc = "replacing" /\ ~backup.db => Pending = {}

(* A restore that goes on has replaced what it no longer has to do.  *)
RestoreInv ==
  /\ proc = "closed" => cut
  /\ proc = "closing" => backup.db /\ todo = backup.dirs
  /\ todo \subseteq backup.dirs
  /\ ~cut /\ proc # "replacing" => Restorable \/ Untouched
  /\ ~cut /\ proc = "replacing" =>
        /\ backup.db => from = "backup"
        /\ \A d \in backup.dirs \ todo : dir[d] = "backup"
        /\ \A d \in Dirs \ backup.dirs : dir[d] = "live"

LEMMA StartupInitial == StartupInit => MigrationsInv /\ RestoreInv
<1> SUFFICES ASSUME StartupInit PROVE MigrationsInv /\ RestoreInv
  OBVIOUS
<1>1. PICK n \in 0..Last : done = Applied(n) /\ recorded = 1..n
  BY DEF StartupInit
<1>2. StartupTypeOK
  <2>1. done \in [Migrations -> 0..2] /\ recorded \subseteq Migrations
    BY MigrationsAssumption, <1>1 DEF Applied, Migrations
  <2>2. /\ dir \in [Dirs -> {"live", "backup", "none"}]
        /\ backup \in [db : BOOLEAN, version : 0..Last, dirs : SUBSET Dirs]
    BY DEF StartupInit
  <2>3. up \in 0..Last
    BY MigrationsAssumption DEF StartupInit
  <2>4. proc = "down" /\ from = "live" /\ todo = {} /\ partial = {} /\ making = FALSE /\ cut = FALSE
    BY DEF StartupInit
  <2> QED
    BY <2>1, <2>2, <2>3, <2>4, Zenon DEF StartupTypeOK
<1>3. MigrationsInv
  BY MigrationsAssumption, <1>1, <1>2 DEF StartupInit, MigrationsInv, Applied, Migrations
<1>4. RestoreInv
  BY DEF StartupInit, RestoreInv, Untouched
<1> QED
  BY <1>3, <1>4

\* Migrations: every step of the process keeps the types and what recorded means.
LEMMA MigrationsKept ==
  ASSUME MigrationsInv, RestoreInv, StartupNext
  PROVE  MigrationsInv'
<1> USE DEF MigrationsInv, StartupTypeOK, Data
<1>1. CASE Boot
  BY <1>1 DEF Boot, Pending, Migrations
<1>2. CASE Take
  BY <1>2 DEF Take, Pending, Migrations
<1>3. CASE Create
  BY <1>3 DEF Create, Migrations
<1>4. CASE Index
  BY <1>4 DEF Index, Migrations
<1>5. CASE Record
  <2>1. /\ UNCHANGED <<from, dir, backup, proc, done, todo, partial, cut>>
        /\ up \in Migrations /\ proc = "migrating" /\ up' = 0 /\ making' = FALSE
        /\ recorded' = recorded \cup {up}
    BY <1>5 DEF Record, Migrations
  <2>2. done[up] = 2 \/ up \in partial
    BY <1>5, <2>1 DEF Record, ReturnsEarly
  <2>3. \A m \in Migrations \cap Guarded : done[m] = 1 => m \in partial
    <3> SUFFICES ASSUME NEW m \in Migrations \cap Guarded, done[m] = 1 PROVE m \in partial
      OBVIOUS
    <3>1. CASE m = up
      BY <2>2, <3>1
    <3>2. CASE m # up
      BY <3>2
    <3> QED
      BY <3>1, <3>2
  <2>4. up' \in 0..Last /\ recorded' \subseteq Migrations
    BY MigrationsAssumption, <2>1
  <2>5. StartupTypeOK'
    BY <2>1, <2>4, Zenon
  <2> QED
    BY <2>1, <2>2, <2>3, <2>5
<1>6. CASE Serve
  BY <1>6 DEF Serve, Pending, Migrations
<1>7. CASE BeginRestore
  BY <1>7 DEF BeginRestore, Pending, Migrations
<1>8. CASE ReplaceDatabase
  <2>1. backup.version \in 0..Last /\ backup.db /\ up = 0 /\ making = FALSE
    BY <1>8 DEF ReplaceDatabase, RestoreInv
  <2>2. /\ done' \in [Migrations -> 0..2] /\ recorded' \subseteq Migrations
        /\ \A m \in recorded' : done'[m] = 2
        /\ \A m \in Migrations : done'[m] # 1
    BY MigrationsAssumption, <1>8, <2>1 DEF ReplaceDatabase, Applied, Migrations
  <2> QED
    BY <1>8, <2>1, <2>2 DEF ReplaceDatabase
<1>9. CASE RemoveDirectory \/ RenameDirectory
  <2>1. dir' \in [Dirs -> {"live", "backup", "none"}] /\ todo' \subseteq todo
    BY <1>9 DEF RemoveDirectory, RenameDirectory
  <2>2. UNCHANGED <<from, backup, proc, done, recorded, up, making, partial, cut>>
    BY <1>9 DEF RemoveDirectory, RenameDirectory
  <2> QED
    BY <2>1, <2>2 DEF Pending
<1>10. CASE Restored \/ RestoreFails
  <2>1. /\ UNCHANGED <<from, dir, backup, done, recorded, up, making, partial>>
        /\ todo' \subseteq todo /\ cut' \in BOOLEAN /\ proc # "migrating"
        /\ \/ proc' \in {"exiting", "closed"}
           \/ proc' = "serving" /\ proc = "replacing" /\ ~backup.db
    BY <1>10 DEF Restored, RestoreFails, RestoreInv
  <2> QED
    BY <2>1 DEF Pending
<1>11. CASE Stop
  <2>1. /\ UNCHANGED <<from, dir, backup, done, recorded>>
        /\ proc' = "down" /\ up' = 0 /\ making' = FALSE /\ todo' = {} /\ cut' \in BOOLEAN
        /\ partial' = partial \cup {m \in {up} \cap Guarded : done[m] = 1}
    BY <1>11 DEF Stop
  <2>2. partial' \subseteq Migrations /\ partial \subseteq partial'
    BY MigrationsAssumption, <2>1
  <2>3. \A m \in Migrations \cap Guarded : done[m] = 1 => m \in partial'
    BY <2>1 DEF Migrations
  <2>4. up' \in 0..Last /\ todo' \subseteq Dirs
    BY MigrationsAssumption, <2>1
  <2>5. StartupTypeOK'
    BY <2>1, <2>2, <2>4, Zenon
  <2> QED
    BY <2>1, <2>2, <2>3, <2>5
<1> QED
  BY <1>1, <1>2, <1>3, <1>4, <1>5, <1>6, <1>7, <1>8, <1>9, <1>10, <1>11 DEF StartupNext

\* The restore: what is in place stays all of one origin, unless it is cut off.
LEMMA RestoreKept ==
  ASSUME MigrationsInv, RestoreInv, StartupNext PROVE RestoreInv'
<1> USE DEF RestoreInv, MigrationsInv, StartupTypeOK, Data
<1>1. CASE Boot \/ Take \/ Create \/ Index \/ Record \/ Serve
  BY <1>1 DEF Boot, Take, Create, Index, Record, Serve, Restorable, Untouched
<1>2. CASE BeginRestore
  BY <1>2 DEF BeginRestore, Restorable, Untouched
<1>3. CASE ReplaceDatabase
  BY <1>3 DEF ReplaceDatabase, Restorable, Untouched
<1>4. CASE RemoveDirectory \/ RenameDirectory
  <2>1. UNCHANGED <<from, backup, proc, cut>> /\ proc = "replacing"
    BY <1>4 DEF RemoveDirectory, RenameDirectory
  <2>2. \A d \in Dirs : d \notin todo => dir'[d] = dir[d] /\ d \notin todo'
    BY <1>4 DEF RemoveDirectory, RenameDirectory
  <2>3. \A d \in todo \ todo' : dir'[d] = "backup"
    BY <1>4 DEF RemoveDirectory, RenameDirectory
  <2>4. todo' \subseteq todo
    BY <1>4 DEF RemoveDirectory, RenameDirectory
  <2>5. ASSUME ~cut
        PROVE  /\ backup.db => from = "backup"
               /\ \A d \in backup.dirs \ todo : dir[d] = "backup"
               /\ \A d \in Dirs \ backup.dirs : dir[d] = "live"
    BY <2>1, <2>5
  <2>6. backup.dirs \subseteq Dirs
    OBVIOUS
  <2>7. \A d \in todo : d \in backup.dirs
    OBVIOUS
  <2> QED
    BY <2>1, <2>2, <2>3, <2>4, <2>5, <2>6, <2>7
<1>5. CASE Restored
  BY <1>5 DEF Restored, Restorable
<1>6. CASE RestoreFails \/ Stop
  BY <1>6 DEF RestoreFails, Stop, Restorable, Untouched
<1> QED
  BY <1>1, <1>2, <1>3, <1>4, <1>5, <1>6 DEF StartupNext

LEMMA StartupInvariant ==
  StartupSpec => [](MigrationsInv /\ RestoreInv)
<1>1. MigrationsInv /\ RestoreInv /\ [StartupNext]_stVars => (MigrationsInv /\ RestoreInv)'
  <2>1. ASSUME MigrationsInv, RestoreInv, StartupNext PROVE (MigrationsInv /\ RestoreInv)'
    BY <2>1, MigrationsKept, RestoreKept
  <2>2. ASSUME MigrationsInv, RestoreInv, UNCHANGED stVars PROVE (MigrationsInv /\ RestoreInv)'
    BY <2>2 DEF MigrationsInv, RestoreInv, stVars, StartupTypeOK, Pending, Migrations, Restorable, Untouched
  <2> QED
    BY <2>1, <2>2
<1> QED
  BY <1>1, StartupInitial, PTL DEF StartupSpec

\* A process that serves has every migration recorded and applied, and serves what
\* is all from before or all as the backup has it; for any number of migrations.
THEOREM StartupKept ==
  StartupSpec => []StartsWhole
<1>1. MigrationsInv /\ RestoreInv => StartsWhole
  BY DEF MigrationsInv, RestoreInv, StartsWhole, Pending
<1> QED
  BY <1>1, StartupInvariant, PTL

----------------------------------------------------------------------------
(* Organizations *)

(* before the organization there is nothing to be a member of *)
NotYet ==
  org = "none" =>
    /\ Members = {}
    /\ \A r \in Calls : \/ call[r].at \in {"idle", "done"}
                        \/ call[r].op = "deleteAccount"
                        \/ call[r].op = "create" /\ call[r].at = "write"

CallSound(q) ==
  /\ q.at \notin {"idle", "done"} => q.by \in People /\ q.op # "none"
  /\ q.at \notin {"idle", "done"} /\ q.op # "deleteAccount" => q.on \in People
  /\ q.op = "setRole" => q.to \in {"member", "manager"}
  /\ q.at = "member" => q.op \in RankedOps
  /\ q.at = "drop" => q.op \in {"create", "deleteAccount"}

(* what a request checked is still true *)
StillTrue(q) ==
  /\ q.op \in RankedOps /\ q.at \in {"member", "ranked", "write"} => ActiveMember(q.by)
  /\ q.op = "join" /\ q.at \in {"ranked", "write"} => org = "here"
  /\ q.op = "join" /\ q.at = "write" => (q.rank = "owner") = (q.on \in OwnerRows)
  /\ q.op \in {"decline", "remove", "leave", "setRole"} /\ q.at = "write" => q.on \notin Owners
  /\ q.op = "transfer" /\ q.at = "write" => ActiveMember(q.on)
  /\ q.op = "create" /\ q.at = "drop" => OwnerRows = {} /\ org = "here"
  /\ q.op = "deleteAccount" /\ q.at \in {"ranked", "write"} => q.by \in Owners
  /\ q.op = "deleteAccount" /\ q.at = "write" /\ q.on # NoOne =>
        /\ q.on \in Others(q.by)
        /\ Owners \subseteq {q.by} \/ q.on \in Owners
  /\ q.op = "deleteAccount" /\ q.at = "drop" =>
        q.by \notin Owners \/ Owners \ {q.by} # {} \/ org = "gone"

OrganizationsInv ==
  /\ OrganizationsTypeOK
  /\ NotYet
  /\ \A r \in Calls : CallSound(call[r]) /\ (recent[r] => StillTrue(call[r]))

CallRecord == [at : {"idle", "member", "ranked", "write", "drop", "done"},
               op : RankedOps \cup OwnOps \cup {"none"},
               by : People \cup {NoOne}, on : People \cup {NoOne},
               rank : Ranks, to : Ranks]

LEMMA OrganizationsInitial == OrganizationsInit => OrganizationsInv
<1> SUFFICES ASSUME OrganizationsInit PROVE OrganizationsInv
  OBVIOUS
<1>1. Quiet \in CallRecord
  BY DEF Quiet, CallRecord, Ranks
<1>2. OrganizationsTypeOK
  BY <1>1 DEF OrganizationsInit, OrganizationsTypeOK, CallRecord
<1>3. \A r \in Calls : call[r] = Quiet /\ recent[r] = FALSE
  BY DEF OrganizationsInit
<1>4. NotYet
  BY <1>3 DEF OrganizationsInit, NotYet, Members, Quiet
<1> QED
  BY <1>2, <1>3, <1>4 DEF OrganizationsInv, CallSound, Quiet

\* Every step keeps the types; the record it leaves is that of a request.
LEMMA OrganizationsTypes ==
  ASSUME OrganizationsInv, NEW r \in Calls, CallStep(r)
  PROVE  OrganizationsTypeOK' /\ CallSound(call'[r])
<1> USE DEF OrganizationsTypeOK, OrganizationsInv
<1> DEFINE Tables == /\ org \in {"none", "here", "gone"} /\ person \in [People -> {"here", "gone"}]
                     /\ rank \in [People -> Ranks] /\ active \in [People -> BOOLEAN]
<1>1. ASSUME NEW record \in CallRecord, CallSound(record), call' = [call EXCEPT ![r] = record],
             recent' \in [Calls -> BOOLEAN], Tables'
      PROVE  OrganizationsTypeOK' /\ CallSound(call'[r])
  BY <1>1 DEF CallRecord
<1>2. call[r] \in CallRecord /\ Quiet \in CallRecord /\ Ended \in CallRecord /\ CallSound(Ended)
  BY DEF CallRecord, Quiet, Ended, Ranks, CallSound
<1>3. ASSUME NEW record \in CallRecord, CallSound(record), Reads(r, record) \/ Asks(r, record)
      PROVE  OrganizationsTypeOK' /\ CallSound(call'[r])
  <2>1. call' = [call EXCEPT ![r] = record] /\ recent' \in [Calls -> BOOLEAN] /\ UNCHANGED <<org, person, rank, active>>
    BY <1>3 DEF Reads, Asks, Table
  <2> QED
    BY <1>1, <1>3, <2>1
<1>4. ASSUME NEW record \in CallRecord, CallSound(record), Wrote(r, record), Tables'
      PROVE  OrganizationsTypeOK' /\ CallSound(call'[r])
  <2>1. call' = [call EXCEPT ![r] = record] /\ recent' \in [Calls -> BOOLEAN]
    BY <1>4 DEF Wrote, Disturbing
  <2> QED
    BY <1>1, <1>4, <2>1
<1>5. CASE ReadMembership(r)
  <2>1. PICK by, on \in People, op \in RankedOps, to \in {"none", "member", "manager"} :
          /\ (to # "none") = (op = "setRole")
          /\ Asks(r, [at |-> IF rank[by] = "owner" THEN "ranked" ELSE "member", op |-> op,
                      by |-> by, on |-> on, rank |-> rank[by], to |-> to])
    BY <1>5 DEF ReadMembership
  <2> DEFINE record == [at |-> IF rank[by] = "owner" THEN "ranked" ELSE "member", op |-> op,
                        by |-> by, on |-> on, rank |-> rank[by], to |-> to]
  <2>2. record \in CallRecord /\ CallSound(record)
    BY <2>1 DEF CallRecord, Ranks, CallSound, RankedOps
  <2> HIDE DEF record
  <2> QED
    BY <1>3, <2>1, <2>2 DEF record
<1>6. CASE ReadOwner(r)
  <2>1. PICK new \in Ranks : call[r].at = "member" /\ Reads(r, [call[r] EXCEPT !.at = "ranked", !.rank = new])
    BY <1>6 DEF ReadOwner, Ranks
  <2>2. [call[r] EXCEPT !.at = "ranked", !.rank = new] \in CallRecord
    BY DEF CallRecord
  <2>3. CallSound([call[r] EXCEPT !.at = "ranked", !.rank = new])
    BY <2>1 DEF CallSound
  <2> QED
    BY <1>3, <2>1, <2>2, <2>3
<1>7. ASSUME NEW at \in {"write", "drop"}, call[r].at \in {"ranked", "write"},
             at = "drop" => call[r].op \in {"create", "deleteAccount"}
      PROVE  [call[r] EXCEPT !.at = at] \in CallRecord /\ CallSound([call[r] EXCEPT !.at = at])
  BY <1>7 DEF CallRecord, CallSound
<1>8. CASE ReadTarget(r)
  BY <1>2, <1>3, <1>7, <1>8 DEF ReadTarget
<1>9. ASSUME NEW p \in People, NEW op \in OwnOps, NEW at \in {"ranked", "write", "drop"},
             at = "drop" => op = "deleteAccount"
      PROVE  Own(op, p, at) \in CallRecord /\ CallSound(Own(op, p, at))
  BY <1>9 DEF Own, Quiet, CallRecord, OwnOps, Ranks, CallSound
<1>10. CASE ReadOwn(r)
  BY <1>3, <1>9, <1>10 DEF ReadOwn
<1>11. CASE ReadOrganization(r)
  BY <1>3, <1>9, <1>11 DEF ReadOrganization, OwnOps
<1>12. CASE ReadOwned(r)
  BY <1>3, <1>9, <1>12 DEF ReadOwned, OwnOps
<1>13. CASE ReadJoin(r)
  <2>1. call[r].at = "ranked" /\ call[r].op = "join" /\ call[r].on \in People
    BY <1>13 DEF ReadJoin, CallSound
  <2>2. PICK new \in Ranks : Reads(r, [call[r] EXCEPT !.at = "write", !.rank = new])
    BY <1>13, <2>1 DEF ReadJoin
  <2>3. [call[r] EXCEPT !.at = "write", !.rank = new] \in CallRecord
    BY DEF CallRecord
  <2>4. CallSound([call[r] EXCEPT !.at = "write", !.rank = new])
    BY <2>1 DEF CallSound
  <2> QED
    BY <1>3, <2>2, <2>3, <2>4
<1>14. CASE ReadOthers(r)
  <2>1. call[r].at = "ranked" /\ call[r].op = "deleteAccount"
    BY <1>14 DEF ReadOthers
  <2>2. PICK on \in People \cup {NoOne} : Reads(r, [call[r] EXCEPT !.at = "write", !.on = on])
    BY <1>14 DEF ReadOthers, Successors, Others
  <2>3. [call[r] EXCEPT !.at = "write", !.on = on] \in CallRecord
    BY DEF CallRecord
  <2>4. CallSound([call[r] EXCEPT !.at = "write", !.on = on])
    BY <2>1 DEF CallSound
  <2> QED
    BY <1>3, <2>2, <2>3, <2>4
<1>15. /\ \A p, new : SetRank(p, new) /\ new \in Ranks => rank' \in [People -> Ranks]
       /\ \A p, new : CreateRow(p, new, TRUE) \/ CreateRow(p, new, FALSE) =>
             (new \in Ranks => rank' \in [People -> Ranks]) /\ active' \in [People -> BOOLEAN]
       /\ \A p : RemoveRow(p) => rank' \in [People -> Ranks] /\ active' \in [People -> BOOLEAN]
       /\ RemoveAll => org' = "gone" /\ rank' \in [People -> Ranks] /\ active' \in [People -> BOOLEAN]
  <2>1. \A p, new : SetRank(p, new) /\ new \in Ranks => rank' \in [People -> Ranks]
    BY DEF SetRank
  <2>2. \A p, new : CreateRow(p, new, TRUE) \/ CreateRow(p, new, FALSE) =>
             (new \in Ranks => rank' \in [People -> Ranks]) /\ active' \in [People -> BOOLEAN]
    <3> SUFFICES ASSUME NEW p, NEW new, NEW standing \in BOOLEAN, CreateRow(p, new, standing)
                 PROVE  (new \in Ranks => rank' \in [People -> Ranks]) /\ active' \in [People -> BOOLEAN]
      OBVIOUS
    <3>1. new \in Ranks => rank' \in [People -> Ranks]
      BY DEF CreateRow
    <3>2. active' = [active EXCEPT ![p] = IF rank[p] = "none" THEN standing ELSE @]
      BY DEF CreateRow
    <3>3. active' \in [People -> BOOLEAN]
      BY <3>2
    <3> QED
      BY <3>1, <3>3
  <2>3. \A p : RemoveRow(p) => rank' \in [People -> Ranks] /\ active' \in [People -> BOOLEAN]
    BY DEF RemoveRow, Ranks
  <2>4. RemoveAll => org' = "gone" /\ rank' \in [People -> Ranks] /\ active' \in [People -> BOOLEAN]
    BY DEF RemoveAll, Ranks
  <2> QED
    BY <2>1, <2>2, <2>3, <2>4
<1>16. CASE CreateOrganization(r)
  <2>1. call[r].at = "write" /\ call[r].op = "create"
    BY <1>16 DEF CreateOrganization, Due
  <2> QED
    BY <1>2, <1>3, <1>4, <1>7, <1>16, <2>1 DEF CreateOrganization
<1>17. CASE CreateOwner(r)
  <2>1. Tables'
    BY <1>15, <1>17 DEF CreateOwner, Ranks
  <2> QED
    BY <1>2, <1>4, <1>17, <2>1 DEF CreateOwner
<1>18. CASE DeleteOrganization(r)
  BY <1>2, <1>4, <1>15, <1>18 DEF DeleteOrganization
<1>19. CASE AddMember(r)
  <2>1. Tables'
    BY <1>15, <1>19 DEF AddMember, Ranks
  <2> QED
    BY <1>2, <1>4, <1>19, <2>1 DEF AddMember
<1>20. CASE Activate(r)
  <2>1. call[r].rank \in Ranks /\ call[r].on \in People
    BY <1>20 DEF Activate, Due, CallSound
  <2>2. rank' \in [People -> Ranks]
    BY <1>15, <1>20, <2>1 DEF Activate
  <2>3. active' \in [People -> BOOLEAN] /\ UNCHANGED <<org, person>>
    BY <1>20, <2>1 DEF Activate
  <2> QED
    BY <1>2, <1>4, <1>20, <2>2, <2>3 DEF Activate
<1>21. CASE RemoveMember(r)
  BY <1>2, <1>4, <1>15, <1>21 DEF RemoveMember
<1>22. CASE SetMemberRole(r)
  BY <1>2, <1>4, <1>15, <1>22 DEF SetMemberRole
<1>23. CASE Transfer(r)
  <2>1. rank' \in [People -> Ranks]
    BY <1>23 DEF Transfer, Ranks
  <2> QED
    BY <1>2, <1>4, <1>23, <2>1 DEF Transfer
<1>24. CASE HandOver(r)
  <2>1. call[r].at = "write" /\ call[r].op = "deleteAccount"
    BY <1>24 DEF HandOver, Due
  <2>2. Tables'
    BY <1>15, <1>24 DEF HandOver, Ranks
  <2> QED
    BY <1>4, <1>7, <1>24, <2>1, <2>2 DEF HandOver
<1>25. CASE DropAccount(r)
  <2>1. Tables'
    BY <1>15, <1>25 DEF DropAccount
  <2> QED
    BY <1>2, <1>4, <1>25, <2>1 DEF DropAccount
<1> QED
  BY <1>5, <1>6, <1>8, <1>10, <1>11, <1>12, <1>13, <1>14, <1>16, <1>17, <1>18, <1>19, <1>20, <1>21,
     <1>22, <1>23, <1>24, <1>25 DEF CallStep

\* A step of a request reads, begins or writes.
LEMMA CallForm ==
  ASSUME NEW r \in Calls, CallStep(r)
  PROVE  \E record : Reads(r, record) \/ Asks(r, record) \/ Wrote(r, record)
<1>1. CASE ReadMembership(r)
  BY <1>1, Zenon DEF ReadMembership
<1>2. CASE ReadOwner(r)
  BY <1>2, Zenon DEF ReadOwner
<1>3. CASE ReadTarget(r)
  BY <1>3, Zenon DEF ReadTarget
<1>4. CASE ReadOwn(r)
  BY <1>4, Zenon DEF ReadOwn
<1>5. CASE ReadOrganization(r)
  BY <1>5, Zenon DEF ReadOrganization
<1>6. CASE ReadJoin(r)
  BY <1>6, Zenon DEF ReadJoin
<1>7. CASE ReadOwned(r)
  BY <1>7, Zenon DEF ReadOwned
<1>8. CASE ReadOthers(r)
  BY <1>8, Zenon DEF ReadOthers
<1>9. CASE CreateOrganization(r)
  BY <1>9, Zenon DEF CreateOrganization
<1>10. CASE CreateOwner(r)
  BY <1>10, Zenon DEF CreateOwner
<1>11. CASE DeleteOrganization(r)
  BY <1>11, Zenon DEF DeleteOrganization
<1>12. CASE AddMember(r)
  BY <1>12, Zenon DEF AddMember
<1>13. CASE Activate(r)
  BY <1>13, Zenon DEF Activate
<1>14. CASE RemoveMember(r)
  BY <1>14, Zenon DEF RemoveMember
<1>15. CASE SetMemberRole(r)
  BY <1>15, Zenon DEF SetMemberRole
<1>16. CASE Transfer(r)
  BY <1>16, Zenon DEF Transfer
<1>17. CASE HandOver(r)
  BY <1>17, Zenon DEF HandOver
<1>18. CASE DropAccount(r)
  BY <1>18, Zenon DEF DropAccount
<1> QED
  BY <1>1, <1>2, <1>3, <1>4, <1>5, <1>6, <1>7, <1>8, <1>9,
     <1>10, <1>11, <1>12, <1>13, <1>14, <1>15, <1>16, <1>17, <1>18 DEF CallStep

\* A request leaves the others' records alone; what it does to their checks
\* is nothing, unless it disturbs the tables.
LEMMA OthersAlone ==
  ASSUME OrganizationsInv, NEW r \in Calls, CallStep(r)
  PROVE  /\ \A x \in Calls : x # r => call'[x] = call[x] /\ (recent'[x] => recent[x])
         /\ \/ UNCHANGED Table
            \/ ~Disturbing
            \/ \A x \in Calls : x # r => ~recent'[x]
<1> USE DEF OrganizationsTypeOK, OrganizationsInv
<1>1. PICK record : Reads(r, record) \/ Asks(r, record) \/ Wrote(r, record)
  BY CallForm
<1>2. CASE Reads(r, record) \/ Asks(r, record)
  BY <1>2 DEF Reads, Asks
<1>3. CASE Wrote(r, record)
  <2>1. \A x \in Calls : x # r => call'[x] = call[x] /\ recent'[x] = (recent[x] /\ ~Disturbing)
    BY <1>3 DEF Wrote
  <2> QED
    BY <2>1
<1> QED
  BY <1>1, <1>2, <1>3

\* What a request checked stays true while others do not disturb it.
LEMMA CheckStays ==
  ASSUME OrganizationsInv, NEW r \in Calls, CallStep(r), NEW x \in Calls, x # r, recent'[x]
  PROVE  StillTrue(call[x])'
<1>1. call'[x] = call[x] /\ recent[x] /\ (UNCHANGED Table \/ ~Disturbing)
  BY OthersAlone
<1>2. StillTrue(call[x]) /\ CallSound(call[x])
  BY <1>1 DEF OrganizationsInv
<1>3. /\ OwnerRows' = OwnerRows /\ Owners' = Owners /\ org' = org
      /\ \A p \in People : ActiveMember(p) => ActiveMember(p)'
  <2>1. CASE UNCHANGED Table
    BY <2>1 DEF Table, OwnerRows, Owners, ActiveMember
  <2>2. CASE ~Disturbing
    BY <2>2 DEF Disturbing
  <2> QED
    BY <1>1, <2>1, <2>2
<1>4. \A p : Others(p) \subseteq Others(p)'
  BY <1>3 DEF Others
<1> DEFINE q == call[x]
<1>5. q.op \in RankedOps /\ q.at \in {"member", "ranked", "write"} => ActiveMember(q.by)'
  BY <1>1, <1>2, <1>3 DEF StillTrue, CallSound, ActiveMember, RankedOps
<1>6. q.op = "transfer" /\ q.at = "write" => ActiveMember(q.on)'
  BY <1>1, <1>2, <1>3 DEF StillTrue, CallSound, ActiveMember
<1> QED
  BY <1>1, <1>2, <1>3, <1>4, <1>5, <1>6 DEF StillTrue

\* What a request that just read or wrote goes on to rely on.
LEMMA CheckMade ==
  ASSUME OrganizationsInv, NEW r \in Calls, CallStep(r), recent'[r]
  PROVE  StillTrue(call[r])'
<1> USE DEF OrganizationsTypeOK, OrganizationsInv
<1> DEFINE q == call[r]
           new == call'[r]
           Same == /\ OwnerRows' = OwnerRows /\ Owners' = Owners /\ org' = org
                   /\ \A p : (ActiveMember(p) = ActiveMember(p)') /\ Others(p)' = Others(p)
<1>1. ASSUME NEW record, Reads(r, record)
      PROVE  new = record /\ recent[r] /\ Same /\ record.at # "done"
  <2>1. UNCHANGED <<org, person, rank, active>> /\ new = record /\ recent[r] /\ record.at # "done"
    BY <1>1 DEF Reads, Table
  <2> QED
    BY <2>1 DEF OwnerRows, Owners, ActiveMember, Others
<1>2. ASSUME NEW record, Asks(r, record)
      PROVE  new = record /\ Same
  <2>1. UNCHANGED <<org, person, rank, active>> /\ new = record
    BY <1>2 DEF Asks, Table
  <2> QED
    BY <2>1 DEF OwnerRows, Owners, ActiveMember, Others
<1>3. ASSUME NEW record, Wrote(r, record)
      PROVE  new = record /\ recent[r] /\ record.at # "done"
  BY <1>3 DEF Wrote
<1>4. (recent[r] => StillTrue(q)) /\ CallSound(q) /\ q \in CallRecord
  BY DEF CallRecord
<1>5. Ended.at = "done"
  BY DEF Ended, Quiet
<1>6. CASE ReadMembership(r)
  <2>1. PICK by, op, record :
          /\ by \in People /\ op \in RankedOps /\ ActiveMember(by) /\ Asks(r, record)
          /\ record.at \in {"ranked", "member"} /\ record.op = op /\ record.by = by
    <3>1. PICK by, on \in People, op \in RankedOps, to \in {"none", "member", "manager"} :
          /\ ActiveMember(by)
          /\ Asks(r, [at |-> IF rank[by] = "owner" THEN "ranked" ELSE "member", op |-> op,
                      by |-> by, on |-> on, rank |-> rank[by], to |-> to])
      BY <1>6 DEF ReadMembership
    <3> DEFINE record == [at |-> IF rank[by] = "owner" THEN "ranked" ELSE "member", op |-> op,
                          by |-> by, on |-> on, rank |-> rank[by], to |-> to]
    <3>2. record.at \in {"ranked", "member"} /\ record.op = op /\ record.by = by
      OBVIOUS
    <3>3. Asks(r, record)
      BY <3>1
    <3> HIDE DEF record
    <3> QED
      BY <3>1, <3>2, <3>3
  <2>2. /\ new.op = op /\ op \in RankedOps /\ new.by = by /\ new.at \in {"ranked", "member"}
        /\ ActiveMember(by)'
    BY <1>2, <2>1
  <2> QED
    BY <2>2 DEF StillTrue, RankedOps
<1>7. CASE ReadOwner(r)
  <2>1. PICK rnk, record : /\ q.at = "member" /\ Reads(r, record)
                           /\ record = [q EXCEPT !.at = "ranked", !.rank = rnk]
    BY <1>7 DEF ReadOwner
  <2>2. new = record /\ Same /\ recent[r]
    BY <1>1, <2>1
  <2>3. record.at = "ranked" /\ record.op = q.op /\ record.by = q.by
    BY <1>4, <2>1 DEF CallRecord
  <2>4. q.op \in RankedOps
    BY <1>4, <2>1 DEF CallSound
  <2> QED
    BY <1>4, <2>1, <2>2, <2>3, <2>4 DEF StillTrue, RankedOps
<1>8. CASE ReadTarget(r)
  <2>1. PICK record : q.at = "ranked" /\ q.op \in RankedOps /\ Reads(r, record)
                      /\ record = IF MayWrite(q) THEN [q EXCEPT !.at = "write"] ELSE Ended
    BY <1>8, Zenon DEF ReadTarget
  <2>2. new = record /\ Same /\ recent[r] /\ MayWrite(q)
    BY <1>1, <1>5, <2>1
  <2>3. record.at = "write" /\ record.op = q.op /\ record.by = q.by /\ record.on = q.on
    BY <1>4, <2>1, <2>2 DEF CallRecord
  <2>4. ActiveMember(q.by)
    BY <1>4, <2>1, <2>2 DEF StillTrue
  <2>5. q.op \in {"remove", "setRole"} => q.on \notin Owners
    BY <2>2 DEF MayWrite, Changeable, AtLeast, Owners, OwnerRows
  <2>6. q.op = "transfer" => ActiveMember(q.on)
    BY <2>2 DEF MayWrite
  <2> QED
    BY <2>1, <2>2, <2>3, <2>4, <2>5, <2>6 DEF StillTrue, RankedOps
<1>9. ASSUME NEW p, NEW op, NEW at
      PROVE  Own(op, p, at).at = at /\ Own(op, p, at).op = op /\ Own(op, p, at).by = p /\ Own(op, p, at).on = p
  BY DEF Own, Quiet
<1>10. CASE ReadOwn(r)
  <2>1. PICK p \in People, op \in OwnOps : MayWriteOwn(op, p) /\ Asks(r, Own(op, p, "write"))
    BY <1>10 DEF ReadOwn
  <2>2. new.at = "write" /\ new.op = op /\ new.by = p /\ new.on = p /\ Same
    BY <1>2, <1>9, <2>1
  <2>3. op \in {"create", "accept", "decline", "leave"} /\ (op \in {"decline", "leave"} => p \notin Owners)
    BY <2>1 DEF MayWriteOwn, Owners, OwnerRows
  <2> QED
    BY <2>2, <2>3 DEF StillTrue, RankedOps
<1>11. CASE ReadOrganization(r)
  <2>1. PICK p \in People : org = "here" /\ Asks(r, Own("join", p, "ranked"))
    BY <1>11 DEF ReadOrganization
  <2>2. new.at = "ranked" /\ new.op = "join" /\ org' = "here"
    BY <1>2, <1>9, <2>1
  <2> QED
    BY <2>2 DEF StillTrue, RankedOps
<1>12. CASE ReadJoin(r)
  <2>1. PICK record : q.at = "ranked" /\ q.op = "join" /\ Reads(r, record)
                      /\ record = [q EXCEPT !.at = "write", !.rank = rank[q.on]]
    BY <1>12 DEF ReadJoin
  <2>2. new = record /\ Same /\ recent[r]
    BY <1>1, <2>1
  <2>3. record.at = "write" /\ record.op = "join" /\ record.on = q.on /\ record.rank = rank[q.on] /\ q.on \in People
    BY <1>4, <2>1 DEF CallRecord, CallSound
  <2>4. org = "here"
    BY <1>4, <2>1, <2>2 DEF StillTrue
  <2>5. (rank[q.on] = "owner") = (q.on \in OwnerRows)
    BY <2>3 DEF OwnerRows
  <2> QED
    BY <2>2, <2>3, <2>4, <2>5 DEF StillTrue, RankedOps
<1>13. CASE ReadOwned(r)
  <2>1. PICK p \in People : Asks(r, Own("deleteAccount", p, IF p \in Owners THEN "ranked" ELSE "drop"))
    BY <1>13 DEF ReadOwned
  <2>2. new.at = (IF p \in Owners THEN "ranked" ELSE "drop") /\ new.op = "deleteAccount" /\ new.by = p /\ Same
    BY <1>2, <1>9, <2>1
  <2> QED
    BY <2>2 DEF StillTrue, RankedOps
<1>14. CASE ReadOthers(r)
  <2>1. PICK on, record : /\ q.at = "ranked" /\ q.op = "deleteAccount" /\ Reads(r, record)
                          /\ on = NoOne \/ on \in Successors(q.by)
                          /\ record = [q EXCEPT !.at = "write", !.on = on]
    BY <1>14, Zenon DEF ReadOthers
  <2>2. new = record /\ Same /\ recent[r]
    BY <1>1, <2>1
  <2>3. record.at = "write" /\ record.op = "deleteAccount" /\ record.on = on /\ record.by = q.by
    BY <1>4, <2>1 DEF CallRecord
  <2>4. q.by \in Owners
    BY <1>4, <2>1, <2>2 DEF StillTrue
  <2>5. on # NoOne => on \in Others(q.by)
    BY <2>1 DEF Successors
  <2>6. ASSUME on # NoOne, NEW z \in Owners, z # q.by PROVE on \in Owners
    <3>1. z \in Others(q.by) /\ rank[z] = "owner"
      BY <2>6 DEF Others, ActiveMember, Owners, OwnerRows
    <3>2. AtLeast(rank[on], rank[z])
      BY <2>1, <2>6, <3>1 DEF Successors
    <3>3. rank[on] = "owner"
      BY <3>1, <3>2 DEF AtLeast
    <3> QED
      BY <2>5, <2>6, <3>3 DEF Others, ActiveMember, Owners, OwnerRows
  <2>7. on # NoOne => Owners \subseteq {q.by} \/ on \in Owners
    BY <2>6
  <2> QED
    BY <2>2, <2>3, <2>4, <2>5, <2>7 DEF StillTrue, RankedOps
<1>15. CASE CreateOrganization(r)
  <2>0. CASE Reads(r, Ended)
    BY <1>1, <1>5, <2>0
  <2>1. CASE ~Reads(r, Ended)
    <3>1. PICK record : /\ q.op = "create" /\ org = "none" /\ rank' = rank /\ Wrote(r, record)
                        /\ record = [q EXCEPT !.at = "drop"]
      BY <1>15, <2>1 DEF CreateOrganization, Due
    <3>2. new = record
      BY <1>3, <3>1
    <3>3. record.at = "drop" /\ record.op = "create"
      BY <1>4, <3>1 DEF CallRecord
    <3>4. OwnerRows' = {} /\ org' = "here"
      BY <1>15, <2>1, <3>1 DEF NotYet, Members, OwnerRows, CreateOrganization
    <3> QED
      BY <3>2, <3>3, <3>4 DEF StillTrue, RankedOps
  <2> QED
    BY <2>0, <2>1
<1>16. CASE HandOver(r)
  <2>1. PICK record : /\ q.at = "write" /\ q.op = "deleteAccount" /\ Wrote(r, record)
                      /\ record = [q EXCEPT !.at = "drop"]
    BY <1>16 DEF HandOver, Due
  <2>2. new = record /\ recent[r]
    BY <1>3, <2>1
  <2>3. record.at = "drop" /\ record.op = "deleteAccount" /\ record.by = q.by
    BY <1>4, <2>1 DEF CallRecord
  <2>4. CASE q.on = NoOne
    <3>1. org' = "gone"
      BY <1>16, <2>4 DEF HandOver, RemoveAll
    <3> QED
      BY <2>2, <2>3, <3>1 DEF StillTrue, RankedOps
  <2>5. CASE q.on # NoOne
    <3>1. q.on \in People \ {q.by} /\ rank[q.on] # "none" /\ active[q.on]
      BY <1>4, <2>1, <2>2, <2>5 DEF StillTrue, Others, ActiveMember
    <3>2. rank'[q.on] = "owner" /\ active' = active
      BY <1>16, <2>5, <3>1 DEF HandOver, SetRank
    <3>3. q.on \in Owners' \ {q.by}
      BY <3>1, <3>2 DEF Owners, OwnerRows
    <3> QED
      BY <2>2, <2>3, <3>3 DEF StillTrue, RankedOps
  <2> QED
    BY <2>4, <2>5
<1>17. CASE \/ CreateOwner(r) \/ DeleteOrganization(r) \/ AddMember(r) \/ Activate(r) \/ RemoveMember(r)
            \/ SetMemberRole(r) \/ Transfer(r) \/ DropAccount(r)
  <2>1. Wrote(r, Ended)
    BY <1>17 DEF CreateOwner, DeleteOrganization, AddMember, Activate, RemoveMember, SetMemberRole, Transfer, DropAccount
  <2> QED
    BY <1>3, <1>5, <2>1
<1> QED
  BY <1>6, <1>7, <1>8, <1>10, <1>11, <1>12, <1>13, <1>14, <1>15, <1>16, <1>17 DEF CallStep

\* Before the organization there is nothing to be a member of.
LEMMA NotYetKept ==
  ASSUME OrganizationsInv, NEW r \in Calls, CallStep(r), OrganizationsTypeOK'
  PROVE  NotYet'
<1> USE DEF OrganizationsTypeOK, OrganizationsInv
<1> SUFFICES ASSUME org' = "none"
             PROVE  Members' = {} /\ \A x \in Calls : \/ call'[x].at \in {"idle", "done"}
                                                      \/ call'[x].op = "deleteAccount"
                                                      \/ call'[x].op = "create" /\ call'[x].at = "write"
  BY DEF NotYet
<1> DEFINE q == call[r]
           new == call'[r]
<1>1. org = "none"
  <2>1. CASE UNCHANGED org
    BY <2>1
  <2>2. CASE org' \in {"here", "gone"}
    BY <2>2
  <2>3. UNCHANGED org \/ org' \in {"here", "gone"}
    <3>1. CASE ReadMembership(r) \/ ReadOwner(r) \/ ReadTarget(r) \/ ReadOwn(r)
      BY <3>1 DEF ReadMembership, ReadOwner, ReadTarget, ReadOwn, Reads, Asks, Table
    <3>2. CASE ReadOrganization(r) \/ ReadJoin(r) \/ ReadOwned(r) \/ ReadOthers(r)
      BY <3>2 DEF ReadOrganization, ReadJoin, ReadOwned, ReadOthers, Reads, Asks, Table
    <3>3. CASE CreateOrganization(r)
      BY <3>3 DEF CreateOrganization, Reads, Table
    <3>4. CASE \/ CreateOwner(r) \/ DeleteOrganization(r) \/ AddMember(r) \/ Activate(r)
               \/ RemoveMember(r) \/ SetMemberRole(r) \/ Transfer(r) \/ HandOver(r) \/ DropAccount(r)
      BY <3>4 DEF CreateOwner, DeleteOrganization, AddMember, Activate, RemoveMember, SetMemberRole, Transfer,
                  HandOver, DropAccount, RemoveAll
    <3> QED
      BY <3>1, <3>2, <3>3, <3>4 DEF CallStep
  <2> QED
    BY <2>1, <2>2, <2>3
<1>2. /\ Members = {} /\ CallSound(q) /\ q \in CallRecord
      /\ \/ q.at \in {"idle", "done"}
         \/ q.op = "deleteAccount"
         \/ q.op = "create" /\ q.at = "write"
  BY <1>1 DEF NotYet, CallRecord
<1>3. \A p \in People : rank[p] = "none" /\ ~ActiveMember(p)
  BY <1>2 DEF Members, ActiveMember
<1>4. ASSUME NEW record, Reads(r, record) \/ Asks(r, record) \/ Wrote(r, record) PROVE new = record
  BY <1>4 DEF Reads, Asks, Wrote
<1>5. ASSUME NEW record, Reads(r, record) \/ Asks(r, record) PROVE rank' = rank
  BY <1>5 DEF Reads, Asks, Table
<1>6. /\ \A x \in Calls : x # r => call'[x] = call[x]
      /\ \A x \in Calls : \/ call[x].at \in {"idle", "done"}
                          \/ call[x].op = "deleteAccount"
                          \/ call[x].op = "create" /\ call[x].at = "write"
  BY <1>1, OthersAlone DEF NotYet
<1> DEFINE Goal == /\ \A p \in People : rank'[p] = "none"
                   /\ new.at = "done" \/ new.op = "deleteAccount" \/ (new.op = "create" /\ new.at = "write")
<1>7. ASSUME ReadMembership(r) \/ ReadOrganization(r) \/ ReadOwner(r) \/ ReadTarget(r) \/ ReadJoin(r) PROVE Goal
  <2>1. CASE ReadMembership(r)
    BY <1>3, <2>1 DEF ReadMembership
  <2>2. CASE ReadOrganization(r)
    BY <1>1, <2>2 DEF ReadOrganization
  <2>3. CASE ReadOwner(r) \/ ReadTarget(r) \/ ReadJoin(r)
    BY <1>2, <2>3 DEF ReadOwner, ReadTarget, ReadJoin, CallSound, RankedOps
  <2> QED
    BY <1>7, <2>1, <2>2, <2>3
<1>8. ASSUME ReadOwn(r) PROVE Goal
  <2>1. PICK p \in People, op \in OwnOps : MayWriteOwn(op, p) /\ Asks(r, Own(op, p, "write"))
    BY <1>8 DEF ReadOwn
  <2>2. op = "create"
    BY <1>3, <2>1 DEF MayWriteOwn
  <2>3. new = Own("create", p, "write") /\ rank' = rank
    BY <1>4, <1>5, <2>1, <2>2
  <2> QED
    BY <1>3, <2>3 DEF Own, Quiet
<1>9. ASSUME ReadOwned(r) PROVE Goal
  <2>1. PICK p, at : p \in People /\ Asks(r, Own("deleteAccount", p, at))
    BY <1>9 DEF ReadOwned
  <2>2. new = Own("deleteAccount", p, at) /\ rank' = rank
    BY <1>4, <1>5, <2>1
  <2> QED
    BY <1>3, <2>2 DEF Own, Quiet
<1>10. ASSUME ReadOthers(r) PROVE Goal
  <2>1. PICK on, record : q.op = "deleteAccount" /\ Reads(r, record) /\ record = [q EXCEPT !.at = "write", !.on = on]
    BY <1>10, Zenon DEF ReadOthers
  <2>2. record.op = "deleteAccount"
    BY <1>2, <2>1 DEF CallRecord
  <2> QED
    BY <1>3, <1>4, <1>5, <2>1, <2>2
<1>11. ASSUME CreateOrganization(r) PROVE Goal
  <2>1. org' = "here" \/ org # "none"
    BY <1>11 DEF CreateOrganization
  <2> QED
    BY <1>1, <2>1
<1>12. ASSUME \/ CreateOwner(r) \/ DeleteOrganization(r) \/ AddMember(r) \/ Activate(r)
              \/ RemoveMember(r) \/ SetMemberRole(r) \/ Transfer(r)
       PROVE  Goal
  BY <1>2, <1>12 DEF CreateOwner, DeleteOrganization, AddMember, Activate, RemoveMember, SetMemberRole, Transfer, Due
<1>13. ASSUME HandOver(r) PROVE Goal
  <2>1. PICK record : q.op = "deleteAccount" /\ Wrote(r, record) /\ record = [q EXCEPT !.at = "drop"]
    BY <1>13 DEF HandOver, Due
  <2>2. SetRank(q.on, "owner")
    BY <1>13 DEF HandOver, RemoveAll
  <2>3. \A p \in People : rank'[p] = "none"
    BY <1>3, <2>2 DEF SetRank
  <2>4. record.op = "deleteAccount"
    BY <1>2, <2>1 DEF CallRecord
  <2> QED
    BY <1>4, <2>1, <2>3, <2>4
<1>14. ASSUME DropAccount(r) PROVE Goal
  <2>1. new = Ended /\ RemoveRow(q.by)
    BY <1>4, <1>14 DEF DropAccount
  <2> QED
    BY <1>3, <2>1 DEF RemoveRow, Ended, Quiet
<1>15. Goal
  BY <1>7, <1>8, <1>9, <1>10, <1>11, <1>12, <1>13, <1>14 DEF CallStep
<1> QED
  BY <1>6, <1>15 DEF Members

\* What was checked stays true for every other request that nobody disturbed.
LEMMA OrganizationsStep ==
  ASSUME OrganizationsInv, [OrganizationsNext]_orgVars PROVE OrganizationsInv'
<1>1. ASSUME NEW r \in Calls, CallStep(r) PROVE OrganizationsInv'
  <2>1. OrganizationsTypeOK' /\ CallSound(call'[r])
    BY <1>1, OrganizationsTypes
  <2>2. NotYet'
    BY <1>1, <2>1, NotYetKept
  <2>3. \A x \in Calls : CallSound(call'[x])
    BY <1>1, <2>1, OthersAlone DEF OrganizationsInv
  <2>4. ASSUME NEW x \in Calls, recent'[x] PROVE StillTrue(call[x])'
    BY <1>1, <2>4, CheckStays, CheckMade
  <2>5. \A x \in Calls : CallSound(call[x])'
    BY <2>3 DEF CallSound
  <2> QED
    BY <2>1, <2>2, <2>4, <2>5 DEF OrganizationsInv
<1>2. CASE UNCHANGED orgVars
  BY <1>2 DEF orgVars, OrganizationsInv, OrganizationsTypeOK, NotYet, Members, CallSound, StillTrue, ActiveMember,
              Owners, OwnerRows, Others
<1> QED
  BY <1>1, <1>2 DEF OrganizationsNext

\* What a write with every check still true does to the owners.
LEMMA OwnerStep ==
  ASSUME OrganizationsInv, NEW r \in Calls, CallStep(r), recent[r], Table' # Table
  PROVE  /\ Owners # {} /\ org' = "here" => Owners' # {}
         /\ OneOwner => OneOwner'
         /\ org' = "gone" /\ (org = "gone" => Members = {}) => Members' = {}
<1> USE DEF OrganizationsTypeOK, OrganizationsInv
<1> DEFINE q == call[r]
           Goal == /\ Owners # {} /\ org' = "here" => Owners' # {}
                   /\ OneOwner => OneOwner'
                   /\ org' = "gone" /\ (org = "gone" => Members = {}) => Members' = {}
<1>1. StillTrue(q) /\ CallSound(q) /\ q \in CallRecord
  BY DEF CallRecord
<1>2. ASSUME NEW record, Reads(r, record) \/ Asks(r, record) PROVE FALSE
  BY <1>2 DEF Reads, Asks
<1>3. \A x \in Calls : x # r => call'[x] = call[x]
  BY OthersAlone
\* the accounts being deleted stay the same, or this request's joins or leaves
<1>4. ASSUME NEW record, Wrote(r, record)
      PROVE  call'[r] = record
  BY <1>4 DEF Wrote
<1>5. ASSUME Wrote(r, Ended), q.op # "deleteAccount" PROVE Leaving' = Leaving
  <2>1. call'[r].at = "done"
    BY <1>4, <1>5 DEF Ended, Quiet
  <2> QED
    BY <1>3, <1>5, <2>1 DEF Leaving
\* enough for most of them: no owner goes and none comes
<1>6. ASSUME Leaving' = Leaving, OwnerRows' \subseteq OwnerRows, Owners \subseteq Owners',
             org' = org, Members' \subseteq Members
      PROVE  Goal
  <2>1. OwnerRows = Owners => OwnerRows' = Owners' /\ Owners' \subseteq Owners
    BY <1>6 DEF Owners
  <2> QED
    BY <1>6, <2>1 DEF OneOwner
<1>7. CASE \/ ReadMembership(r) \/ ReadOwner(r) \/ ReadTarget(r) \/ ReadOwn(r)
           \/ ReadOrganization(r) \/ ReadJoin(r) \/ ReadOwned(r) \/ ReadOthers(r)
  <2>1. \E record : Reads(r, record) \/ Asks(r, record)
    <3>1. CASE ReadMembership(r)
      BY <3>1, Zenon DEF ReadMembership
    <3>2. CASE ReadOwner(r)
      BY <3>2, Zenon DEF ReadOwner
    <3>3. CASE ReadTarget(r)
      BY <3>3, Zenon DEF ReadTarget
    <3>4. CASE ReadOwn(r)
      BY <3>4, Zenon DEF ReadOwn
    <3>5. CASE ReadOrganization(r)
      BY <3>5, Zenon DEF ReadOrganization
    <3>6. CASE ReadJoin(r)
      BY <3>6, Zenon DEF ReadJoin
    <3>7. CASE ReadOwned(r)
      BY <3>7, Zenon DEF ReadOwned
    <3>8. CASE ReadOthers(r)
      BY <3>8, Zenon DEF ReadOthers
    <3> QED
      BY <1>7, <3>1, <3>2, <3>3, <3>4, <3>5, <3>6, <3>7, <3>8
  <2> QED
    BY <1>2, <2>1
<1>8. CASE CreateOrganization(r)
  <2>1. PICK record : /\ q.op = "create" /\ org' = "here" /\ UNCHANGED <<rank, active>>
                      /\ Wrote(r, record) /\ record = [q EXCEPT !.at = "drop"]
    BY <1>2, <1>8 DEF CreateOrganization, Due
  <2>2. record.op = "create"
    BY <1>1, <2>1 DEF CallRecord
  <2>3. Leaving' = Leaving
    BY <1>3, <1>4, <2>1, <2>2 DEF Leaving
  <2>4. OwnerRows' = OwnerRows /\ Owners' = Owners
    BY <2>1 DEF OwnerRows, Owners
  <2> QED
    BY <2>1, <2>3, <2>4 DEF OneOwner
<1>9. CASE CreateOwner(r)
  <2>1. /\ q.at = "drop" /\ q.op = "create" /\ Wrote(r, Ended) /\ org' = org
        /\ rank' = [rank EXCEPT ![q.by] = IF @ = "none" THEN "owner" ELSE @]
        /\ active' = [active EXCEPT ![q.by] = IF rank[q.by] = "none" THEN TRUE ELSE @]
    BY <1>9 DEF CreateOwner, CreateRow
  <2>2. Leaving' = Leaving
    BY <1>5, <2>1
  <2>3. OwnerRows = {} /\ org = "here"
    BY <1>1, <2>1 DEF StillTrue
  <2>4. OwnerRows' = Owners' /\ Owners' \subseteq {q.by}
    BY <2>1, <2>3 DEF OwnerRows, Owners
  <2> QED
    BY <2>1, <2>2, <2>3, <2>4 DEF OneOwner, Owners
<1>10. CASE DeleteOrganization(r)
  <2>1. org' = "gone" /\ rank' = [p \in People |-> "none"]
    BY <1>10 DEF DeleteOrganization, RemoveAll
  <2>2. OwnerRows' = {} /\ Owners' = {} /\ Members' = {}
    BY <2>1 DEF OwnerRows, Owners, Members
  <2> QED
    BY <2>1, <2>2 DEF OneOwner
<1>11. CASE AddMember(r)
  <2>1. /\ q.at = "write" /\ q.op \in {"invite", "join"} /\ Wrote(r, Ended) /\ org' = org
        /\ rank' = [rank EXCEPT ![q.on] = IF @ = "none" THEN "member" ELSE @]
    BY <1>11 DEF AddMember, CreateRow, Due
  <2>2. Leaving' = Leaving
    BY <1>5, <2>1
  <2>3. org = "here" \/ Members # {}
    BY <1>1, <2>1 DEF StillTrue, CallSound, ActiveMember, Members, RankedOps
  <2>4. \A p \in People : rank[p] # "none" => rank'[p] = rank[p] /\ active'[p] = active[p]
    BY <1>11, <2>1 DEF AddMember, CreateRow
  <2>5. OwnerRows' = OwnerRows
    BY <2>1 DEF OwnerRows
  <2>6. Owners' = Owners
    BY <2>4, <2>5 DEF OwnerRows, Owners
  <2> QED
    BY <2>1, <2>2, <2>3, <2>5, <2>6 DEF OneOwner
<1>12. CASE Activate(r)
  <2>1. /\ q.at = "write" /\ q.op \in {"accept", "join"} /\ Wrote(r, Ended) /\ org' = org
        /\ active' = [active EXCEPT ![q.on] = rank[q.on] # "none"]
    BY <1>12 DEF Activate, Due
  <2>2. Leaving' = Leaving
    BY <1>5, <2>1
  <2>3. \/ rank' = rank
        \/ rank' = [rank EXCEPT ![q.on] = IF @ = "none" THEN @ ELSE q.rank] /\ q.op = "join" /\ q.rank # "none"
    BY <1>12 DEF Activate, SetRank, Due
  <2>4. q.op = "join" => (q.rank = "owner") = (q.on \in OwnerRows)
    BY <1>1, <2>1 DEF StillTrue
  <2>5. OwnerRows' = OwnerRows /\ Members' = Members
    <3>1. CASE rank' = rank
      BY <3>1 DEF OwnerRows, Members
    <3>2. CASE rank' = [rank EXCEPT ![q.on] = IF @ = "none" THEN @ ELSE q.rank] /\ q.op = "join" /\ q.rank # "none"
      <4>1. \A p \in People : p # q.on => rank'[p] = rank[p]
        BY <3>2
      <4>2. q.on \in People => rank'[q.on] = IF rank[q.on] = "none" THEN "none" ELSE q.rank
        BY <3>2
      <4>3. q.on \in People => (rank'[q.on] = "owner") = (rank[q.on] = "owner")
        BY <2>4, <3>2, <4>2 DEF OwnerRows
      <4> QED
        BY <3>2, <4>1, <4>2, <4>3 DEF OwnerRows, Members
    <3> QED
      BY <2>3, <3>1, <3>2
  <2>6. Owners \subseteq Owners'
    BY <2>1, <2>5 DEF OwnerRows, Owners
  <2> QED
    BY <1>6, <2>1, <2>2, <2>5, <2>6
<1>13. CASE RemoveMember(r)
  <2>1. /\ q.at = "write" /\ q.op \in {"decline", "remove", "leave"} /\ Wrote(r, Ended) /\ org' = org
        /\ rank' = [rank EXCEPT ![q.on] = "none"] /\ active' = [active EXCEPT ![q.on] = FALSE]
    BY <1>13 DEF RemoveMember, RemoveRow, Due
  <2>2. Leaving' = Leaving
    BY <1>5, <2>1
  <2>3. q.on \notin Owners
    BY <1>1, <2>1 DEF StillTrue
  <2>4. OwnerRows' \subseteq OwnerRows /\ Members' \subseteq Members
    BY <2>1 DEF OwnerRows, Members
  <2>5. Owners \subseteq Owners'
    BY <2>1, <2>3 DEF OwnerRows, Owners
  <2> QED
    BY <1>6, <2>1, <2>2, <2>4, <2>5
<1>14. CASE SetMemberRole(r)
  <2>1. /\ q.at = "write" /\ q.op = "setRole" /\ Wrote(r, Ended) /\ org' = org /\ active' = active
        /\ rank' = [rank EXCEPT ![q.on] = IF @ = "none" THEN @ ELSE q.to]
    BY <1>14 DEF SetMemberRole, SetRank, Due
  <2>2. Leaving' = Leaving
    BY <1>5, <2>1
  <2>3. q.on \notin Owners /\ q.to \in {"member", "manager"}
    BY <1>1, <2>1 DEF StillTrue, CallSound
  <2>4. OwnerRows' \subseteq OwnerRows /\ Members' \subseteq Members
    BY <2>1, <2>3 DEF OwnerRows, Members
  <2>5. Owners \subseteq Owners'
    BY <2>1, <2>3 DEF OwnerRows, Owners
  <2> QED
    BY <1>6, <2>1, <2>2, <2>4, <2>5
<1>15. CASE Transfer(r)
  <2>1. /\ q.at = "write" /\ q.op = "transfer" /\ Wrote(r, Ended) /\ org' = org /\ active' = active
        /\ rank' = [p \in People |-> IF p = q.on /\ rank[p] # "none" THEN "owner"
                                     ELSE IF rank[p] = "owner" THEN "manager" ELSE rank[p]]
    BY <1>15 DEF Transfer, Due
  <2>2. Leaving' = Leaving
    BY <1>5, <2>1
  <2>3. q.on \in People /\ rank[q.on] # "none" /\ active[q.on]
    BY <1>1, <2>1 DEF StillTrue, CallSound, ActiveMember
  <2>4. OwnerRows' = {q.on} /\ Members' \subseteq Members
    BY <2>1, <2>3 DEF OwnerRows, Members
  <2>5. Owners' = {q.on}
    BY <2>1, <2>3, <2>4 DEF OwnerRows, Owners
  <2> QED
    BY <2>1, <2>2, <2>4, <2>5 DEF OneOwner
<1>16. CASE HandOver(r)
  <2>1. PICK record : /\ q.at = "write" /\ q.op = "deleteAccount" /\ Wrote(r, record)
                      /\ record = [q EXCEPT !.at = "drop"]
    BY <1>16 DEF HandOver, Due
  <2>2. record.at = "drop" /\ record.op = "deleteAccount" /\ record.by = q.by
    BY <1>1, <2>1 DEF CallRecord
  <2>3. Leaving' = Leaving \cup {q.by}
    <3>1. call'[r].at = "drop" /\ call'[r].op = "deleteAccount" /\ call'[r].by = q.by
      BY <1>4, <2>1, <2>2
    <3> QED
      BY <1>3, <2>1, <3>1 DEF Leaving
  <2>4. CASE q.on = NoOne
    <3>1. org' = "gone" /\ rank' = [p \in People |-> "none"]
      BY <1>16, <2>4 DEF HandOver, RemoveAll
    <3>2. OwnerRows' = {} /\ Owners' = {} /\ Members' = {}
      BY <3>1 DEF OwnerRows, Owners, Members
    <3> QED
      BY <3>1, <3>2 DEF OneOwner
  <2>5. CASE q.on # NoOne
    <3>1. /\ q.on \in People /\ q.on # q.by /\ rank[q.on] # "none" /\ active[q.on] /\ q.by \in Owners
          /\ Owners \subseteq {q.by} \/ q.on \in Owners
      BY <1>1, <2>1, <2>5 DEF StillTrue, Others, ActiveMember
    <3>2. rank' = [rank EXCEPT ![q.on] = "owner"] /\ active' = active /\ org' = org
      BY <1>16, <2>5, <3>1 DEF HandOver, SetRank
    <3>3. OwnerRows' = OwnerRows \cup {q.on} /\ Members' = Members
      BY <3>1, <3>2 DEF OwnerRows, Members
    <3>4. Owners' = Owners \cup {q.on}
      BY <3>1, <3>2, <3>3 DEF OwnerRows, Owners
    <3>5. OneOwner => OneOwner'
      BY <2>3, <3>1, <3>3, <3>4 DEF OneOwner
    <3> QED
      BY <3>2, <3>3, <3>4, <3>5
  <2> QED
    BY <2>4, <2>5
<1>17. CASE DropAccount(r)
  <2>1. /\ q.at = "drop" /\ q.op = "deleteAccount" /\ Wrote(r, Ended) /\ org' = org
        /\ rank' = [rank EXCEPT ![q.by] = "none"] /\ active' = [active EXCEPT ![q.by] = FALSE]
    BY <1>17 DEF DropAccount, RemoveRow
  <2>2. call'[r].at = "done"
    BY <1>4, <2>1 DEF Ended, Quiet
  <2>3. Leaving \ {q.by} \subseteq Leaving' /\ Leaving' \subseteq Leaving
    BY <1>3, <2>2 DEF Leaving
  <2>4. OwnerRows' = OwnerRows \ {q.by} /\ Members' \subseteq Members
    BY <2>1 DEF OwnerRows, Members
  <2>5. Owners' = Owners \ {q.by}
    BY <2>1, <2>4 DEF OwnerRows, Owners
  <2>6. q.by \notin Owners \/ Owners \ {q.by} # {} \/ org = "gone"
    BY <1>1, <2>1 DEF StillTrue
  <2>7. OneOwner => OneOwner'
    BY <2>3, <2>4, <2>5 DEF OneOwner
  <2> QED
    BY <2>1, <2>4, <2>5, <2>6, <2>7
<1> QED
  BY <1>7, <1>8, <1>9, <1>10, <1>11, <1>12, <1>13, <1>14, <1>15, <1>16, <1>17 DEF CallStep

\* A request that nobody disturbed leaves an organization with an active owner, makes
\* no second one and none whose membership is pending, and an organization that ends
\* leaves no member; for any number of accounts and requests.
THEOREM OwnersKept == OrganizationsSpec => OwnerKept
<1>1. OrganizationsInv /\ [OrganizationsNext]_orgVars => OrganizationsInv'
  BY OrganizationsStep
<1>2. OrganizationsInv /\ [OrganizationsNext]_orgVars =>
        [\A r \in Calls :
          recent[r] /\ Table' # Table /\ call'[r] # call[r] =>
              /\ Owners # {} /\ org' = "here" => Owners' # {}
              /\ OneOwner => OneOwner'
              /\ org' = "gone" /\ (org = "gone" => Members = {}) => Members' = {}]_orgVars
  <2> SUFFICES ASSUME OrganizationsInv, OrganizationsNext, NEW r \in Calls,
                      recent[r], Table' # Table, call'[r] # call[r]
               PROVE  /\ Owners # {} /\ org' = "here" => Owners' # {}
                      /\ OneOwner => OneOwner'
                      /\ org' = "gone" /\ (org = "gone" => Members = {}) => Members' = {}
    BY DEF orgVars
  <2>1. CallStep(r)
    BY OthersAlone DEF OrganizationsNext
  <2> QED
    BY <2>1, OwnerStep
<1> QED
  BY <1>1, <1>2, OrganizationsInitial, PTL DEF OrganizationsSpec, OwnerKept

----------------------------------------------------------------------------
(* Integrations *)

SyncRecord == [at : {"idle", "fetch", "find", "apply"}, scheduled : BOOLEAN,
               allow : BOOLEAN, items : SUBSET Items, known : SUBSET Items,
               todo : SUBSET Items, removals : SUBSET EntryRows]

(* entries of items that the inventory has no more *)
Outdated(s) == {i \in Here : managed[i] \notin sync[s].items}

(* removing these of those needs no review *)
Harmless(A, B) ==
  \/ A = {}
  \/ /\ A # B
     /\ Cardinality(A) <= Limit \/ Cardinality(A) * Share <= Cardinality(B)

(* half way, what is shown is what was known and what was made by now; and *)
(* either nothing goes, or what goes is all that is outdated               *)
Applying(s) ==
  LET q == sync[s]
  IN /\ q.todo \subseteq q.items
     /\ q.items \ q.todo \subseteq Shown
     /\ q.known \cap q.items \subseteq Shown
     /\ Shown \subseteq q.known \cup (q.items \ q.todo)
     /\ q.removals \subseteq Outdated(s)
     /\ kind = "proxmox" => q.known = {}
     /\ kind = "netbox" =>
           \/ ~q.allow /\ q.removals = {} /\ q.known \subseteq Shown
           \/ q.removals = Outdated(s) /\ (q.allow \/ Harmless(q.known \ q.items, q.known))

AloneInv ==
  \A s \in alone :
     /\ kind \in {"netbox", "proxmox"}
     /\ OneEach
     /\ \A t \in Syncing : t = s
     /\ sync[s].at \in {"fetch", "find"} => sync[s].known = {} /\ sync[s].todo = {} /\ sync[s].removals = {}
     /\ sync[s].at = "apply" => Applying(s)

IntegrationsInv ==
  /\ IntegrationsTypeOK
  /\ Here \subseteq used
  /\ AloneInv

\* With one entry for each item there are as many items as entries.
LEMMA AsMany ==
  ASSUME IntegrationsTypeOK, OneEach, NEW S \in SUBSET Here
  PROVE  LET T == {managed[i] : i \in S}
         IN  IsFiniteSet(S) /\ IsFiniteSet(T) /\ Cardinality(T) = Cardinality(S) /\ Cardinality(S) \in Nat
<1> DEFINE T == {managed[i] : i \in S}
           f == [i \in S |-> managed[i]]
<1>1. IsFiniteSet(S)
  BY FS_Subset, IntegrationsAssumption DEF Here
<1>2. f \in Bijection(S, T)
  <2>1. f \in [S -> T]
    OBVIOUS
  <2>2. \A i, j \in S : f[i] = f[j] => i = j
    BY DEF OneEach
  <2>3. \A t \in T : \E i \in S : f[i] = t
    OBVIOUS
  <2> QED
    BY <2>1, <2>2, <2>3, Fun_IsBij
<1> QED
  BY <1>1, <1>2, FS_Bijection, FS_CardinalityType DEF ExistsBijection

LEMMA IntegrationsInitial == IntegrationsInit => IntegrationsInv
<1> SUFFICES ASSUME IntegrationsInit PROVE IntegrationsInv
  OBVIOUS
<1>1. Idle \in SyncRecord
  BY DEF Idle, SyncRecord
<1>2. IntegrationsTypeOK
  BY <1>1 DEF IntegrationsInit, IntegrationsTypeOK, SyncRecord, Here
<1> QED
  BY <1>2 DEF IntegrationsInit, IntegrationsInv, AloneInv

\* Every step keeps the types, and ids that were given out stay so.
LEMMA IntegrationsTypes ==
  ASSUME IntegrationsInv, IntegrationsNext
  PROVE  IntegrationsTypeOK' /\ Here' \subseteq used'
<1> USE DEF IntegrationsTypeOK, IntegrationsInv
<1>0. ASSUME NEW s \in Syncs, NEW record \in SyncRecord, Moves(s, record)
      PROVE  sync' \in [Syncs -> SyncRecord]
  BY <1>0 DEF Moves, SyncRecord
<1>1. Idle \in SyncRecord /\ \A s \in Syncs : sync[s] \in SyncRecord
  BY DEF SyncRecord, Idle
<1>2. ASSUME NEW s \in Syncs, RequestSync(s) \/ Schedule(s) PROVE IntegrationsTypeOK' /\ Here' \subseteq used'
  <2>1. PICK scheduled \in BOOLEAN : BeginSync(s, scheduled)
    BY <1>2 DEF RequestSync, Schedule
  <2>2. PICK allow \in BOOLEAN : Moves(s, [Idle EXCEPT !.at = "fetch", !.scheduled = scheduled, !.allow = allow])
    BY <2>1 DEF BeginSync
  <2>3. [Idle EXCEPT !.at = "fetch", !.scheduled = scheduled, !.allow = allow] \in SyncRecord
    BY DEF Idle, SyncRecord
  <2>4. sync' \in [Syncs -> SyncRecord]
    BY <1>0, <2>2, <2>3
  <2>5. alone' \subseteq Syncs /\ UNCHANGED <<kind, managed, used>> /\ running' \in BOOLEAN
    BY <1>2, <2>1 DEF BeginSync, RequestSync, Schedule
  <2> QED
    BY <2>4, <2>5 DEF SyncRecord, Here
<1>3. ASSUME NEW s \in Syncs, Fetch(s) PROVE IntegrationsTypeOK' /\ Here' \subseteq used'
  <2>1. PICK items \in SUBSET Items : Moves(s, [sync[s] EXCEPT !.at = "find", !.items = items])
    BY <1>3 DEF Fetch
  <2>2. [sync[s] EXCEPT !.at = "find", !.items = items] \in SyncRecord
    BY DEF SyncRecord
  <2>3. sync' \in [Syncs -> SyncRecord]
    BY <1>0, <2>1, <2>2
  <2> QED
    BY <1>3, <2>3 DEF Fetch, SyncRecord, Here
<1>4. ASSUME NEW s \in Syncs, SyncFails(s) \/ Refused(s) \/ Synced(s) PROVE IntegrationsTypeOK' /\ Here' \subseteq used'
  <2>1. sync' \in [Syncs -> SyncRecord]
    BY <1>0, <1>1, <1>4 DEF SyncFails, Refused, Synced, Finish
  <2>2. UNCHANGED <<kind, managed, used>> /\ running' \in BOOLEAN /\ alone' \subseteq alone
    BY <1>4 DEF SyncFails, Refused, Synced, Finish
  <2> QED
    BY <2>1, <2>2 DEF SyncRecord, Here
<1>5. ASSUME NEW s \in Syncs, Find(s) PROVE IntegrationsTypeOK' /\ Here' \subseteq used'
  <2>1. PICK removals \in SUBSET EntryRows :
          Moves(s, [sync[s] EXCEPT !.at = "apply", !.known = Shown, !.todo = sync[s].items, !.removals = removals])
    BY <1>5 DEF Find, Here
  <2>2. Shown \subseteq Items
    BY IntegrationsAssumption DEF Shown, Here
  <2>3. [sync[s] EXCEPT !.at = "apply", !.known = Shown, !.todo = sync[s].items, !.removals = removals] \in SyncRecord
    BY <2>2 DEF SyncRecord
  <2>4. sync' \in [Syncs -> SyncRecord]
    BY <1>0, <2>1, <2>3
  <2> QED
    BY <1>5, <2>4 DEF Find, SyncRecord, Here
<1>6. ASSUME NEW s \in Syncs, NEW item \in Items, Done(s, item) PROVE sync' \in [Syncs -> SyncRecord]
  <2>1. [sync[s] EXCEPT !.todo = @ \ {item}] \in SyncRecord
    BY DEF SyncRecord
  <2> QED
    BY <1>0, <1>6, <2>1 DEF Done
<1>7. ASSUME NEW s \in Syncs, UpdateEntry(s) PROVE IntegrationsTypeOK' /\ Here' \subseteq used'
  <2>1. PICK item \in sync[s].known : Done(s, item)
    BY <1>7 DEF UpdateEntry
  <2>2. sync' \in [Syncs -> SyncRecord]
    BY <1>6, <2>1
  <2> QED
    BY <1>7, <2>2 DEF UpdateEntry, SyncRecord, Here
<1>8. ASSUME NEW s \in Syncs, CreateEntry(s) PROVE IntegrationsTypeOK' /\ Here' \subseteq used'
  <2>1. PICK item \in Items \ sync[s].known, i \in EntryRows \ used :
          Done(s, item) /\ managed' = [managed EXCEPT ![i] = item] /\ used' = used \cup {i}
    BY <1>8 DEF CreateEntry
  <2>2. sync' \in [Syncs -> SyncRecord]
    BY <1>6, <2>1
  <2>3. UNCHANGED <<kind, running, alone>>
    BY <1>8 DEF CreateEntry
  <2> QED
    BY <2>1, <2>2, <2>3 DEF SyncRecord, Here
<1>9. ASSUME NEW s \in Syncs, RemoveEntry(s) PROVE IntegrationsTypeOK' /\ Here' \subseteq used'
  <2>1. PICK i \in sync[s].removals :
          managed' = [managed EXCEPT ![i] = Free] /\ Moves(s, [sync[s] EXCEPT !.removals = @ \ {i}])
    BY <1>9 DEF RemoveEntry
  <2>2. [sync[s] EXCEPT !.removals = @ \ {i}] \in SyncRecord
    BY DEF SyncRecord
  <2>3. sync' \in [Syncs -> SyncRecord]
    BY <1>0, <2>1, <2>2
  <2>4. UNCHANGED <<kind, used, running, alone>>
    BY <1>9 DEF RemoveEntry
  <2> QED
    BY <2>1, <2>3, <2>4 DEF SyncRecord, Here
<1>10. ASSUME NEW s \in Syncs, DestroyAll(s) PROVE IntegrationsTypeOK' /\ Here' \subseteq used'
  <2>1. [sync[s] EXCEPT !.at = "apply", !.todo = sync[s].items] \in SyncRecord
    BY DEF SyncRecord
  <2>2. sync' \in [Syncs -> SyncRecord]
    BY <1>0, <1>10, <2>1 DEF DestroyAll
  <2>3. managed' = [i \in EntryRows |-> Free] /\ UNCHANGED <<kind, used, running, alone>>
    BY <1>10 DEF DestroyAll
  <2> QED
    BY <2>2, <2>3 DEF SyncRecord, Here
<1>11. ASSUME DeleteEntries \/ DeleteIntegration PROVE IntegrationsTypeOK' /\ Here' \subseteq used'
  <2>1. managed' = [i \in EntryRows |-> Free] /\ alone' = {} /\ UNCHANGED <<used, running, sync>>
    BY <1>11 DEF DeleteEntries, DeleteIntegration
  <2>2. kind' \in {"ending", "gone"}
    BY <1>11 DEF DeleteEntries, DeleteIntegration
  <2> QED
    BY <2>1, <2>2 DEF Here
<1> QED
  BY <1>2, <1>3, <1>4, <1>5, <1>7, <1>8, <1>9, <1>10, <1>11 DEF IntegrationsNext, SyncStep

\* Find puts the plan of a sync that nothing overlaps next to what is there.
LEMMA PlanSound ==
  ASSUME IntegrationsInv, IntegrationsNext, NEW s \in alone, Find(s), kind = "netbox"
  PROVE  Applying(s)'
<1> USE DEF IntegrationsInv, IntegrationsTypeOK, AloneInv
<1> DEFINE q == sync[s]
           gone == {i \in Here : managed[i] \notin q.items}
           held == ~q.allow /\ NeedsReview(Cardinality(gone), Cardinality(Here))
<1>1. sync' = [sync EXCEPT ![s] = [q EXCEPT !.at = "apply", !.known = Shown, !.todo = q.items,
                                            !.removals = IF held THEN {} ELSE gone]]
  BY DEF Find, Moves
<1>2. UNCHANGED <<kind, managed>>
  BY DEF Find
<1>3. s \in Syncs /\ OneEach
  OBVIOUS
<1>4. /\ sync'[s].items = q.items /\ sync'[s].allow = q.allow /\ sync'[s].todo = q.items
      /\ sync'[s].known = Shown /\ sync'[s].removals = IF held THEN {} ELSE gone
  BY <1>1, <1>3
<1>5. Shown' = Shown /\ Here' = Here
  BY <1>2 DEF Shown, Here
<1>6. Outdated(s)' = gone
  BY <1>2, <1>4, <1>5 DEF Outdated
<1>7. ASSUME ~held, ~q.allow PROVE Harmless(Shown \ q.items, Shown)
  <2>1. {managed[i] : i \in gone} = Shown \ q.items /\ {managed[i] : i \in Here} = Shown
    BY DEF Shown
  <2>2. /\ IsFiniteSet(gone) /\ Cardinality(Shown \ q.items) = Cardinality(gone) /\ Cardinality(gone) \in Nat
        /\ IsFiniteSet(Here) /\ Cardinality(Shown) = Cardinality(Here) /\ Cardinality(Here) \in Nat
    BY <1>3, <2>1, AsMany
  <2>3. \/ ~ (Cardinality(gone) > 0)
        \/ /\ Cardinality(gone) # Cardinality(Here)
           /\ ~ (Cardinality(gone) > Limit) \/ ~ (Cardinality(gone) * Share > Cardinality(Here))
    BY <1>7 DEF NeedsReview
  <2>4. CASE ~ (Cardinality(gone) > 0)
    <3>1. gone = {}
      BY <2>2, <2>4, FS_EmptySet
    <3> QED
      BY <2>1, <3>1 DEF Harmless
  <2>5. CASE /\ Cardinality(gone) # Cardinality(Here)
             /\ ~ (Cardinality(gone) > Limit) \/ ~ (Cardinality(gone) * Share > Cardinality(Here))
    <3>1. Shown \ q.items # Shown
      BY <2>2, <2>5
    <3>2. Cardinality(gone) * Share \in Nat
      BY <2>2, IntegrationsAssumption
    <3>3. Cardinality(gone) <= Limit \/ Cardinality(gone) * Share <= Cardinality(Here)
      BY <2>2, <2>5, <3>2, IntegrationsAssumption
    <3> QED
      BY <2>2, <3>1, <3>3 DEF Harmless
  <2> QED
    BY <2>3, <2>4, <2>5
<1>8. q.items \subseteq Items
  BY <1>3
<1> QED
  BY <1>2, <1>4, <1>5, <1>6, <1>7, <1>8 DEF Applying

\* The steps of a sync that nothing overlaps, half way.
LEMMA ApplyingKept ==
  ASSUME IntegrationsInv, IntegrationsNext, NEW s \in alone, sync[s].at = "apply",
         UpdateEntry(s) \/ CreateEntry(s) \/ RemoveEntry(s)
  PROVE  Applying(s)' /\ OneEach' /\ kind' = kind
<1> USE DEF IntegrationsInv, IntegrationsTypeOK, AloneInv
<1> DEFINE q == sync[s]
<1>1. s \in Syncs /\ OneEach /\ Applying(s) /\ kind \in {"netbox", "proxmox"}
  OBVIOUS
<1>2. CASE UpdateEntry(s)
  <2>1. PICK item \in q.known \cap q.todo : sync' = [sync EXCEPT ![s] = [q EXCEPT !.todo = @ \ {item}]]
    BY <1>2 DEF UpdateEntry, Ready, Done, Moves
  <2>2. UNCHANGED <<kind, managed>>
    BY <1>2 DEF UpdateEntry
  <2>3. /\ sync'[s].items = q.items /\ sync'[s].allow = q.allow /\ sync'[s].todo = q.todo \ {item}
        /\ sync'[s].known = q.known /\ sync'[s].removals = q.removals
    BY <1>1, <2>1
  <2>4. Shown' = Shown /\ Here' = Here /\ OneEach'
    BY <1>1, <2>2 DEF Shown, Here, OneEach
  <2>5. Outdated(s)' = Outdated(s)
    BY <2>2, <2>3, <2>4 DEF Outdated
  <2> QED
    BY <1>1, <2>1, <2>2, <2>3, <2>4, <2>5 DEF Applying
<1>3. CASE CreateEntry(s)
  <2>1. PICK item \in q.todo \ q.known, i \in EntryRows \ used :
           /\ item \in Items
           /\ sync' = [sync EXCEPT ![s] = [q EXCEPT !.todo = @ \ {item}]]
           /\ managed' = [managed EXCEPT ![i] = item]
    BY <1>3 DEF CreateEntry, Ready, Done, Moves
  <2>2. kind' = kind
    BY <1>3 DEF CreateEntry
  <2>3. /\ sync'[s].items = q.items /\ sync'[s].allow = q.allow /\ sync'[s].todo = q.todo \ {item}
        /\ sync'[s].known = q.known /\ sync'[s].removals = q.removals
    BY <1>1, <2>1
  <2>4. i \notin Here /\ Here' = Here \cup {i}
    BY <2>1, IntegrationsAssumption DEF Here
  <2>5. managed'[i] = item /\ \A x \in Here : managed'[x] = managed[x]
    BY <2>1, <2>4 DEF Here
  <2>6. Shown' = Shown \cup {item}
    BY <2>4, <2>5 DEF Shown
  <2>7. item \notin Shown /\ item \in q.items
    BY <1>1, <2>1 DEF Applying
  <2>8. OneEach'
    BY <1>1, <2>4, <2>5, <2>7 DEF OneEach, Shown
  <2>9. Outdated(s)' = Outdated(s)
    BY <2>3, <2>4, <2>5, <2>7 DEF Outdated
  <2>10. Applying(s)'
    BY <1>1, <2>1, <2>2, <2>3, <2>6, <2>7, <2>9 DEF Applying
  <2> QED
    BY <2>2, <2>8, <2>10
<1>4. CASE RemoveEntry(s)
  <2>1. PICK i \in q.removals :
           /\ managed' = [managed EXCEPT ![i] = Free]
           /\ sync' = [sync EXCEPT ![s] = [q EXCEPT !.removals = @ \ {i}]]
    BY <1>4 DEF RemoveEntry, Moves
  <2>2. kind' = kind /\ q.todo = {}
    BY <1>4 DEF RemoveEntry
  <2>3. /\ sync'[s].items = q.items /\ sync'[s].allow = q.allow /\ sync'[s].todo = {}
        /\ sync'[s].known = q.known /\ sync'[s].removals = q.removals \ {i}
    BY <1>1, <2>1, <2>2
  <2>4. i \in Here /\ managed[i] \notin q.items
    BY <1>1, <2>1 DEF Applying, Outdated
  <2>5. Here' = Here \ {i} /\ \A x \in Here' : managed'[x] = managed[x]
    BY <2>1, <2>4 DEF Here
  <2>6. Shown' = Shown \ {managed[i]}
    BY <1>1, <2>4, <2>5 DEF Shown, OneEach
  <2>7. OneEach'
    BY <1>1, <2>5 DEF OneEach
  <2>8. Outdated(s)' = Outdated(s) \ {i}
    BY <2>3, <2>5 DEF Outdated
  <2>9. Applying(s)'
    <3>1. sync'[s].removals \subseteq Outdated(s)'
      BY <1>1, <2>3, <2>8 DEF Applying
    <3>2. q.items \subseteq Shown' /\ q.known \cap q.items \subseteq Shown' /\ Shown' \subseteq q.known \cup q.items
      BY <1>1, <2>2, <2>4, <2>6 DEF Applying
    <3>3. kind = "netbox" => q.removals = Outdated(s) /\ (q.allow \/ Harmless(q.known \ q.items, q.known))
      BY <1>1, <2>1 DEF Applying
    <3>4. kind = "proxmox" => q.known = {}
      BY <1>1 DEF Applying
    <3> QED
      BY <2>2, <2>3, <2>8, <3>1, <3>2, <3>3, <3>4 DEF Applying, Harmless
  <2> QED
    BY <2>2, <2>7, <2>9
<1> QED
  BY <1>2, <1>3, <1>4

\* What holds of a sync that nothing overlaps goes on to hold.
LEMMA AloneKept ==
  ASSUME IntegrationsInv, IntegrationsNext, IntegrationsTypeOK' PROVE AloneInv'
<1> USE DEF IntegrationsInv, IntegrationsTypeOK, AloneInv
<1> SUFFICES ASSUME NEW s \in alone'
             PROVE  /\ kind' \in {"netbox", "proxmox"}
                    /\ OneEach'
                    /\ \A t \in Syncing' : t = s
                    /\ sync'[s].at \in {"fetch", "find"} =>
                          sync'[s].known = {} /\ sync'[s].todo = {} /\ sync'[s].removals = {}
                    /\ sync'[s].at = "apply" => Applying(s)'
  OBVIOUS
<1> DEFINE Goal == /\ kind' \in {"netbox", "proxmox"}
                   /\ OneEach'
                   /\ \A t \in Syncing' : t = s
                   /\ sync'[s].at \in {"fetch", "find"} =>
                         sync'[s].known = {} /\ sync'[s].todo = {} /\ sync'[s].removals = {}
                   /\ sync'[s].at = "apply" => Applying(s)'
<1>0. s \in Syncs
  OBVIOUS
<1>1. ASSUME NEW t \in Syncs, RequestSync(t) \/ Schedule(t) PROVE Goal
  <2>1. PICK scheduled \in BOOLEAN : BeginSync(t, scheduled)
    BY <1>1 DEF RequestSync, Schedule
  <2>2. PICK allow \in BOOLEAN :
          sync' = [sync EXCEPT ![t] = [Idle EXCEPT !.at = "fetch", !.scheduled = scheduled, !.allow = allow]]
    BY <2>1 DEF BeginSync, Moves
  <2>3. s = t /\ Syncing = {} /\ OneEach /\ kind \notin {"ending", "gone"} /\ UNCHANGED <<kind, managed>>
    BY <2>1 DEF BeginSync
  <2>4. sync'[t].at = "fetch" /\ sync'[t].known = {} /\ sync'[t].todo = {} /\ sync'[t].removals = {}
    BY <2>2 DEF Idle
  <2>5. \A r \in Syncs : r # t => sync'[r] = sync[r]
    BY <2>2
  <2>6. OneEach'
    BY <2>3 DEF OneEach, Here
  <2>7. \A r \in Syncing' : r = s
    BY <2>3, <2>5 DEF Syncing
  <2> QED
    BY <2>3, <2>4, <2>6, <2>7
\* any other step is one of this sync
<1>2. ASSUME NEW t \in Syncs, sync[t].at # "idle", s \in alone PROVE t = s
  BY <1>2 DEF Syncing
<1>3. ASSUME NEW t \in Syncs, sync[t].at # "idle", s \in alone, NEW record, Moves(t, record)
      PROVE  /\ t = s /\ sync'[s] = record
             /\ \A r \in Syncing' : r = s
  <2>1. t = s /\ sync' = [sync EXCEPT ![s] = record]
    BY <1>2, <1>3 DEF Moves
  <2>2. \A r \in Syncs : r # s => sync'[r] = sync[r] /\ sync[r].at = "idle"
    BY <1>3, <2>1 DEF Syncing
  <2> QED
    BY <1>0, <2>1, <2>2 DEF Syncing
<1>4. ASSUME NEW t \in Syncs, Fetch(t) PROVE Goal
  <2>1. PICK items, record : items \in SUBSET Items /\
           Moves(t, record) /\ record = [sync[t] EXCEPT !.at = "find", !.items = items]
    BY <1>4 DEF Fetch
  <2>2. sync[t].at = "fetch" /\ s \in alone /\ UNCHANGED <<kind, managed>>
    BY <1>4 DEF Fetch
  <2>3. t = s /\ sync'[s] = record /\ \A r \in Syncing' : r = s
    BY <1>3, <2>1, <2>2
  <2>4. sync'[s].at = "find" /\ sync'[s].known = {} /\ sync'[s].todo = {} /\ sync'[s].removals = {}
    BY <1>0, <2>1, <2>2, <2>3
  <2>5. OneEach'
    BY <2>2 DEF OneEach, Here
  <2> QED
    BY <2>2, <2>3, <2>4, <2>5
<1>5. ASSUME NEW t \in Syncs, SyncFails(t) \/ Refused(t) \/ Synced(t) PROVE Goal
  <2>1. Moves(t, Idle) /\ sync[t].at # "idle" /\ s \in alone /\ UNCHANGED <<kind, managed>>
    BY <1>5 DEF SyncFails, Refused, Synced, Finish
  <2>2. sync'[s] = Idle /\ \A r \in Syncing' : r = s
    BY <1>3, <2>1
  <2>3. OneEach'
    BY <2>1 DEF OneEach, Here
  <2> QED
    BY <2>1, <2>2, <2>3 DEF Idle
<1>6. ASSUME NEW t \in Syncs, Find(t) PROVE Goal
  <2>1. PICK record : Moves(t, record) /\ record.at = "apply"
    <3>1. [sync[t] EXCEPT !.at = "apply", !.known = Shown, !.todo = sync[t].items,
              !.removals = IF ~sync[t].allow /\ NeedsReview(Cardinality({i \in Here : managed[i] \notin sync[t].items}), Cardinality(Here))
                           THEN {} ELSE {i \in Here : managed[i] \notin sync[t].items}].at = "apply"
      OBVIOUS
    <3> QED
      BY <1>6, <3>1 DEF Find
  <2>2. sync[t].at = "find" /\ s \in alone /\ UNCHANGED <<kind, managed>> /\ kind \notin {"proxmox", "ending"}
    BY <1>6 DEF Find
  <2>3. t = s /\ sync'[s] = record /\ \A r \in Syncing' : r = s
    BY <1>3, <2>1, <2>2
  <2>4. Applying(s)' /\ kind = "netbox"
    BY <1>6, <2>2, <2>3, PlanSound
  <2>5. OneEach'
    BY <2>2 DEF OneEach, Here
  <2> QED
    BY <2>1, <2>2, <2>3, <2>4, <2>5
<1>7. ASSUME NEW t \in Syncs, UpdateEntry(t) \/ CreateEntry(t) \/ RemoveEntry(t) PROVE Goal
  <2>1. sync[t].at = "apply" /\ s \in alone
    BY <1>7 DEF UpdateEntry, CreateEntry, RemoveEntry, Ready
  <2>2. PICK record : Moves(t, record) /\ record.at = "apply"
    <3>1. \A item : [sync[t] EXCEPT !.todo = @ \ {item}].at = "apply"
      BY <2>1
    <3>2. \A i : [sync[t] EXCEPT !.removals = @ \ {i}].at = "apply"
      BY <2>1
    <3> QED
      BY <1>7, <3>1, <3>2 DEF UpdateEntry, CreateEntry, RemoveEntry, Done
  <2>3. t = s /\ sync'[s] = record /\ \A r \in Syncing' : r = s
    BY <1>3, <2>1, <2>2
  <2>4. Applying(s)' /\ OneEach' /\ kind' = kind
    BY <1>7, <2>1, <2>3, ApplyingKept
  <2> QED
    BY <2>1, <2>2, <2>3, <2>4
<1>8. ASSUME NEW t \in Syncs, DestroyAll(t) PROVE Goal
  <2>1. PICK record : /\ Moves(t, record) /\ record = [sync[t] EXCEPT !.at = "apply", !.todo = sync[t].items]
                      /\ managed' = [i \in EntryRows |-> Free]
    BY <1>8 DEF DestroyAll
  <2>2. sync[t].at = "find" /\ s \in alone /\ kind' = kind /\ kind \in {"proxmox", "ending"}
    BY <1>8 DEF DestroyAll
  <2>3. t = s /\ sync'[s] = record /\ \A r \in Syncing' : r = s
    BY <1>3, <2>1, <2>2
  <2>4. /\ sync'[s].at = "apply" /\ sync'[s].todo = sync'[s].items /\ sync'[s].known = {} /\ sync'[s].removals = {}
    BY <1>0, <2>1, <2>2, <2>3
  <2>5. Here' = {}
    BY <2>1 DEF Here
  <2>6. Shown' = {} /\ OneEach'
    BY <2>5 DEF Shown, OneEach
  <2>7. kind = "proxmox"
    BY <2>2
  <2>8. Applying(s)'
    BY <2>2, <2>4, <2>6, <2>7 DEF Applying
  <2> QED
    BY <2>2, <2>3, <2>4, <2>6, <2>7, <2>8
<1>9. CASE DeleteEntries \/ DeleteIntegration
  BY <1>9 DEF DeleteEntries, DeleteIntegration
<1> QED
  BY <1>1, <1>4, <1>5, <1>6, <1>7, <1>8, <1>9 DEF IntegrationsNext, SyncStep

\* A sync that started alone stays sound until another step makes it not alone.
LEMMA IntegrationsStep ==
  ASSUME IntegrationsInv, [IntegrationsNext]_intVars PROVE IntegrationsInv'
<1>1. CASE IntegrationsNext
  BY <1>1, IntegrationsTypes, AloneKept DEF IntegrationsInv
<1>2. CASE UNCHANGED intVars
  <2>1. UNCHANGED <<kind, managed, used, running, sync, alone>>
    BY <1>2 DEF intVars
  <2>2. Here' = Here /\ Syncing' = Syncing /\ (OneEach => OneEach')
    BY <2>1 DEF Here, Syncing, OneEach
  <2>3. Shown' = Shown
    BY <2>1, <2>2 DEF Shown
  <2>4. \A s \in Syncs : Applying(s) => Applying(s)'
    BY <2>1, <2>2, <2>3 DEF Applying, Outdated, Harmless
  <2>5. AloneInv'
    BY <2>1, <2>2, <2>4 DEF IntegrationsInv, IntegrationsTypeOK, AloneInv
  <2> QED
    BY <2>1, <2>2, <2>5 DEF IntegrationsInv, IntegrationsTypeOK
<1> QED
  BY <1>1, <1>2

\* What a sync that nothing overlaps leaves when it ends.
LEMMA SyncedSound ==
  ASSUME IntegrationsInv, IntegrationsNext, NEW s \in alone', sync[s].at # "idle", sync'[s].at = "idle"
  PROVE  LET q == sync[s]
             removed == q.known \ Shown
         IN /\ OneEach
            /\ kind = "proxmox" => Shown = q.items
            /\ kind = "netbox" =>
                  /\ Shown \in {q.items, q.items \cup q.known}
                  /\ q.allow => Shown = q.items
                  /\ ~q.allow => /\ removed # q.known \/ q.known = {}
                                 /\ \/ Cardinality(removed) <= Limit
                                    \/ Cardinality(removed) * Share <= Cardinality(q.known)
<1> USE DEF IntegrationsInv, IntegrationsTypeOK, AloneInv
<1> DEFINE q == sync[s]
           removed == q.known \ Shown
<1>1. Synced(s) /\ s \in alone
  <2>0. s \in Syncs
    <3>1. alone' \subseteq Syncs
      BY IntegrationsTypes
    <3> QED
      BY <3>1
  <2>1. ASSUME NEW t \in Syncs, RequestSync(t) \/ Schedule(t) PROVE FALSE
    <3>1. PICK scheduled, allow \in BOOLEAN : /\ sync[t].at = "idle"
             /\ sync' = [sync EXCEPT ![t] = [Idle EXCEPT !.at = "fetch", !.scheduled = scheduled, !.allow = allow]]
      BY <2>1 DEF RequestSync, Schedule, BeginSync, Moves
    <3> QED
      BY <2>0, <3>1
  <2>2. ASSUME NEW t \in Syncs,
               \/ Fetch(t) \/ Find(t) \/ UpdateEntry(t) \/ CreateEntry(t) \/ RemoveEntry(t) \/ DestroyAll(t)
        PROVE  FALSE
    <3>1. sync[t].at # "idle"
      BY <2>2 DEF Fetch, Find, UpdateEntry, CreateEntry, RemoveEntry, DestroyAll, Ready
    <3>2. s # t => sync'[s] = sync[s]
      BY <2>0, <2>2 DEF Fetch, Find, UpdateEntry, CreateEntry, RemoveEntry, DestroyAll, Done, Moves
    <3>3. sync'[t].at # "idle"
      <4>1. CASE Fetch(t)
        BY <4>1 DEF Fetch, Moves
      <4>2. CASE Find(t)
        <5>1. PICK removals : sync' = [sync EXCEPT ![t] = [sync[t] EXCEPT
                 !.at = "apply", !.known = Shown, !.todo = sync[t].items, !.removals = removals]]
          BY <4>2 DEF Find, Moves
        <5> QED
          BY <5>1
      <4>3. CASE UpdateEntry(t) \/ CreateEntry(t)
        <5>1. PICK item : sync' = [sync EXCEPT ![t] = [sync[t] EXCEPT !.todo = @ \ {item}]]
          BY <4>3 DEF UpdateEntry, CreateEntry, Done, Moves
        <5> QED
          BY <3>1, <5>1
      <4>4. CASE RemoveEntry(t)
        <5>1. PICK i : sync' = [sync EXCEPT ![t] = [sync[t] EXCEPT !.removals = @ \ {i}]]
          BY <4>4 DEF RemoveEntry, Moves
        <5> QED
          BY <3>1, <5>1
      <4>5. CASE DestroyAll(t)
        <5>1. sync' = [sync EXCEPT ![t] = [sync[t] EXCEPT !.at = "apply", !.todo = sync[t].items]]
          BY <4>5 DEF DestroyAll, Moves
        <5> QED
          BY <5>1
      <4> QED
        BY <2>2, <4>1, <4>2, <4>3, <4>4, <4>5
    <3> QED
      BY <3>2, <3>3
  <2>3. CASE DeleteEntries \/ DeleteIntegration
    BY <2>3 DEF DeleteEntries, DeleteIntegration
  <2>4. PICK t \in Syncs : SyncFails(t) \/ Refused(t) \/ Synced(t)
    BY <2>1, <2>2, <2>3 DEF IntegrationsNext, SyncStep
  <2>5. t = s
    BY <2>0, <2>4 DEF SyncFails, Refused, Synced, Finish, Moves
  <2>6. s \in alone
    BY <2>4 DEF SyncFails, Refused, Synced
  <2>7. kind # "gone"
    BY <2>6
  <2> QED
    BY <2>4, <2>5, <2>6, <2>7 DEF SyncFails, Refused
<1>2. q.at = "apply" /\ q.todo = {} /\ q.removals = {} /\ Applying(s) /\ OneEach /\ kind \in {"netbox", "proxmox"}
  BY <1>1 DEF Synced
<1>3. q.items \subseteq Shown /\ Shown \subseteq q.known \cup q.items
  BY <1>2 DEF Applying
<1>4. CASE kind = "proxmox"
  BY <1>2, <1>3, <1>4 DEF Applying
<1>5. CASE kind = "netbox" /\ ~q.allow /\ q.known \subseteq Shown
  <2>1. Shown = q.items \cup q.known /\ removed = {}
    BY <1>3, <1>5
  <2>2. Cardinality(removed) <= Limit
    <3>1. Cardinality(removed) = 0
      BY <2>1, FS_EmptySet
    <3> QED
      BY <3>1, IntegrationsAssumption
  <2> QED
    BY <1>2, <1>5, <2>1, <2>2
<1>6. CASE kind = "netbox" /\ Outdated(s) = {} /\ (q.allow \/ Harmless(q.known \ q.items, q.known))
  <2>1. Shown = q.items
    BY <1>3, <1>6 DEF Outdated, Shown
  <2>2. ASSUME ~q.allow
        PROVE  /\ removed # q.known \/ q.known = {}
               /\ \/ Cardinality(removed) <= Limit
                  \/ Cardinality(removed) * Share <= Cardinality(q.known)
    <3>1. CASE removed = {}
      <4>1. Cardinality(removed) = 0 /\ (removed # q.known \/ q.known = {})
        BY <3>1, FS_EmptySet
      <4> QED
        BY <4>1, IntegrationsAssumption
    <3>2. CASE removed # {}
      BY <1>6, <2>1, <2>2, <3>2 DEF Harmless
    <3> QED
      BY <3>1, <3>2
  <2> QED
    BY <1>2, <1>6, <2>1, <2>2
<1> QED
  BY <1>2, <1>4, <1>5, <1>6 DEF Applying

\* A sync that nothing overlapped leaves one entry for each item, and of those that
\* are gone at most the entries whose removal waits for review; without the review it
\* removes no more than the limits allow; for any number of items, entries and syncs.
THEOREM SyncsSound == IntegrationsSpec => SyncSound
<1>1. IntegrationsInv /\ [IntegrationsNext]_intVars => IntegrationsInv'
  BY IntegrationsStep
<1>2. IntegrationsInv /\ [IntegrationsNext]_intVars =>
        [\A s \in alone' :
           sync[s].at # "idle" /\ sync'[s].at = "idle" =>
              LET q == sync[s]
                  removed == q.known \ Shown
              IN /\ OneEach
                 /\ kind = "proxmox" => Shown = q.items
                 /\ kind = "netbox" =>
                       /\ Shown \in {q.items, q.items \cup q.known}
                       /\ q.allow => Shown = q.items
                       /\ ~q.allow => /\ removed # q.known \/ q.known = {}
                                      /\ \/ Cardinality(removed) <= Limit
                                         \/ Cardinality(removed) * Share <= Cardinality(q.known)]_intVars
  BY SyncedSound
<1> QED
  BY <1>1, <1>2, IntegrationsInitial, PTL DEF IntegrationsSpec, SyncSound

----------------------------------------------------------------------------
(* Backups *)

Newer(b) == {c \in stored : c > b}
Planned == UNION {job[j].todo : j \in Jobs}

(* what a job may delete has enough newer ones; and unless something went  *)
(* wrong, a job has still to list, or all that is too much is planned      *)
BackupsInv ==
  /\ BackupsTypeOK
  /\ least <= retention
  /\ \A j \in Jobs : /\ job[j].at # "delete" => job[j].todo = {}
                     /\ job[j].at \in {"list", "delete"} => job[j].keep \in Retentions /\ job[j].keep >= least
                     /\ \A b \in job[j].todo : Cardinality(Newer(b)) >= least
                     /\ ~disturbed /\ job[j].at \in {"list", "delete"} => job[j].keep = retention
  /\ ~disturbed => \/ \E j \in Jobs : job[j].at \in {"settings", "list"}
                   \/ Beyond(retention) \subseteq Planned

(* a set of backups and how many are newer than each *)
LEMMA StoredFinite ==
  ASSUME BackupsTypeOK, NEW S \in SUBSET stored
  PROVE  IsFiniteSet(S) /\ Cardinality(S) \in Nat /\ stored \subseteq Nat
<1>1. IsFiniteSet(1..uploads) /\ stored \subseteq 1..uploads
  BY FS_Interval, BackupsAssumption DEF BackupsTypeOK
<1>2. IsFiniteSet(S)
  BY <1>1, FS_Subset
<1> QED
  BY <1>1, <1>2, FS_CardinalityType, BackupsAssumption DEF BackupsTypeOK

\* When nothing is beyond the newest so many, no more are stored: the oldest has
\* all others above it.
LEMMA NothingBeyond ==
  ASSUME BackupsTypeOK, NEW kept \in Nat, Beyond(kept) = {}
  PROVE  Cardinality(stored) <= kept
<1>1. CASE stored = {}
  BY <1>1, FS_EmptySet
<1>2. CASE stored # {}
  <2>1. PICK b \in stored : \A c \in stored : ~ (c < b)
    <3>1. \E b \in stored : \A c \in stored : <<c, b>> \notin OpToRel(<, Nat)
      BY <1>2, StoredFinite, NatLessThanWellFounded, WFMin
    <3> QED
      BY <3>1, StoredFinite DEF OpToRel
  <2>2. stored \subseteq Nat /\ b \in Nat
    BY StoredFinite
  <2>3. Newer(b) = stored \ {b}
    <3>1. \A c \in stored : c > b <=> c # b
      BY <2>1, <2>2
    <3> QED
      BY <3>1 DEF Newer
  <2>4. Cardinality(Newer(b)) < kept
    <3>1. Cardinality(Newer(b)) \in Nat
      BY <2>3, StoredFinite
    <3>2. ~ (Cardinality(Newer(b)) >= kept)
      BY DEF Beyond, Newer
    <3> QED
      BY <3>1, <3>2
  <2>5. IsFiniteSet(stored) /\ Cardinality(stored) \in Nat
    BY StoredFinite
  <2>6. Cardinality(Newer(b)) = Cardinality(stored) - 1
    BY <2>3, <2>5, FS_RemoveElement
  <2> QED
    BY <2>4, <2>5, <2>6
<1> QED
  BY <1>1, <1>2

\* Types of the jobs' records.
JobRecord == [at : {"idle", "pack", "upload", "settings", "list", "delete"},
              keep : Retentions \cup {0}, todo : SUBSET (1..MaxBackups)]

LEMMA BackupsInitial == BackupsInit => BackupsInv
<1> SUFFICES ASSUME BackupsInit PROVE BackupsInv
  OBVIOUS
<1>1. 0..MaxBackups \subseteq Nat /\ 0 \in 0..MaxBackups
  BY BackupsAssumption
<1>2. Beyond(retention) = {}
  BY DEF BackupsInit, Beyond
<1>3. least <= retention
  BY BackupsAssumption DEF BackupsInit
<1>4. BackupsTypeOK
  BY <1>1 DEF BackupsInit, BackupsTypeOK, NoJob
<1> QED
  BY <1>2, <1>3, <1>4 DEF BackupsInit, BackupsInv, NoJob

\* Every step keeps the types.
LEMMA BackupsTypes == ASSUME BackupsInv, BackupsNext PROVE BackupsTypeOK'
<1> USE DEF BackupsTypeOK, BackupsInv
<1>0. ASSUME NEW j \in Jobs, NEW record \in JobRecord, Step(j, record)
      PROVE  job' \in [Jobs -> JobRecord]
  BY <1>0 DEF Step, JobRecord
<1>1. ASSUME NEW j \in Jobs PROVE job[j] \in JobRecord /\ NoJob \in JobRecord
  BY DEF JobRecord, NoJob
<1>2. ASSUME NEW record \in JobRecord, NEW at \in {"idle", "pack", "upload", "settings", "list", "delete"}
      PROVE  [record EXCEPT !.at = at] \in JobRecord
  BY DEF JobRecord
<1>3. ASSUME NEW j \in Jobs, RunDue(j) \/ Request(j) \/ Pack(j) \/ Made(j) \/ Fail(j) PROVE BackupsTypeOK'
  <2>1. PICK record \in JobRecord : Step(j, record)
    BY <1>1, <1>2, <1>3 DEF RunDue, Request, Pack, Made, Fail
  <2>2. job' \in [Jobs -> JobRecord]
    BY <2>1, <1>0
  <2> QED
    BY <1>3, <2>2 DEF RunDue, Request, Pack, Made, Fail, Rest, JobRecord
<1>4. ASSUME NEW j \in Jobs, Upload(j) PROVE BackupsTypeOK'
  <2>1. uploads' \in 0..MaxBackups /\ stored' \subseteq 1..uploads'
    BY <1>4, BackupsAssumption DEF Upload
  <2>2. job' \in [Jobs -> JobRecord]
    BY <1>0, <1>1, <1>2, <1>4 DEF Upload
  <2> QED
    BY <1>4, <2>1, <2>2 DEF Upload, JobRecord
<1>5. ASSUME NEW j \in Jobs, ReadRetention(j) PROVE BackupsTypeOK'
  <2>1. [job[j] EXCEPT !.at = "list", !.keep = retention] \in JobRecord
    BY DEF JobRecord
  <2>2. job' \in [Jobs -> JobRecord]
    BY <1>0, <1>5, <2>1 DEF ReadRetention
  <2> QED
    BY <1>5, <2>2 DEF ReadRetention, JobRecord
<1>6. ASSUME NEW j \in Jobs, List(j) PROVE BackupsTypeOK'
  <2>1. Beyond(job[j].keep) \subseteq 1..MaxBackups
    <3>1. stored \subseteq 1..MaxBackups
      BY BackupsAssumption
    <3> QED
      BY <3>1 DEF Beyond
  <2>2. [job[j] EXCEPT !.at = "delete", !.todo = Beyond(job[j].keep)] \in JobRecord
    BY <2>1 DEF JobRecord
  <2>3. job' \in [Jobs -> JobRecord]
    BY <1>0, <1>6, <2>2 DEF List
  <2> QED
    BY <1>6, <2>3 DEF List, JobRecord
<1>7. ASSUME NEW j \in Jobs, Delete(j) PROVE BackupsTypeOK'
  <2>1. PICK b \in job[j].todo : stored' = stored \ {b} /\ Step(j, [job[j] EXCEPT !.todo = @ \ {b}])
    BY <1>7 DEF Delete
  <2>2. [job[j] EXCEPT !.todo = @ \ {b}] \in JobRecord
    BY DEF JobRecord
  <2>3. job' \in [Jobs -> JobRecord]
    BY <1>0, <2>1, <2>2
  <2> QED
    BY <1>7, <2>1, <2>3 DEF Delete, JobRecord
<1>8. ASSUME TimePasses PROVE BackupsTypeOK'
  BY <1>8 DEF TimePasses
<1>9. ASSUME SetRetention PROVE BackupsTypeOK'
  BY <1>9 DEF SetRetention
<1>10. ASSUME Crash PROVE BackupsTypeOK'
  BY <1>1, <1>10 DEF Crash, JobRecord
<1> QED
  BY <1>3, <1>4, <1>5, <1>6, <1>7, <1>8, <1>9, <1>10 DEF BackupsNext

\* What is stored changes by one upload or one planned deletion.
LEMMA NewerGrow ==
  ASSUME BackupsInv, BackupsNext, BackupsTypeOK', NEW b \in Nat,
         Cardinality(Newer(b)) >= least
  PROVE  Cardinality(Newer(b)') >= least
<1> USE DEF BackupsTypeOK, BackupsInv
<1>0. least \in Nat /\ stored \subseteq Nat /\ (\A S \in SUBSET stored' : IsFiniteSet(S) /\ Cardinality(S) \in Nat)
  <2>1. \A S \in SUBSET stored' : IsFiniteSet(S) /\ Cardinality(S) \in Nat
    <3>1. IsFiniteSet(1..uploads') /\ stored' \subseteq 1..uploads'
      BY FS_Interval, BackupsAssumption
    <3> QED
      BY <3>1, FS_Subset, FS_CardinalityType
  <2> QED
    BY <2>1, StoredFinite, BackupsAssumption
<1>1. ASSUME NEW S \in SUBSET stored, NEW T \in SUBSET stored', S \subseteq T, Cardinality(S) >= least
      PROVE  Cardinality(T) >= least
  <2>1. IsFiniteSet(T) /\ Cardinality(T) \in Nat /\ Cardinality(S) \in Nat
    BY <1>0, StoredFinite
  <2>2. Cardinality(S) <= Cardinality(T)
    BY <1>1, <2>1, FS_Subset
  <2> QED
    BY <1>0, <1>1, <2>1, <2>2
<1>2. CASE stored \subseteq stored'
  BY <1>1, <1>2 DEF Newer
<1>3. CASE ~ (stored \subseteq stored')
  <2>1. PICK j \in Jobs : Delete(j)
    BY <1>3 DEF BackupsNext, RunDue, Request, Pack, Upload, ReadRetention, List, Made, Fail, TimePasses, SetRetention, Crash
  <2>2. PICK d \in job[j].todo : stored' = stored \ {d}
    BY <2>1 DEF Delete
  <2>3. d \in Nat /\ Cardinality(Newer(d)) >= least
    <3>1. d \in 1..MaxBackups
      OBVIOUS
    <3>2. Cardinality(Newer(d)) >= least
      OBVIOUS
    <3> QED
      BY <3>1, <3>2, BackupsAssumption
  <2>4. CASE d > b
    <3>0. \A c \in stored : c > d => c > b /\ c # d
      BY <1>0, <2>3, <2>4
    <3>1. Newer(d) \subseteq Newer(b)'
      BY <2>2, <3>0 DEF Newer
    <3>2. Newer(d) \subseteq stored /\ Newer(b)' \subseteq stored'
      BY DEF Newer
    <3> QED
      BY <1>1, <2>3, <3>1, <3>2
  <2>5. CASE ~ (d > b)
    <3>1. Newer(b) \subseteq Newer(b)'
      BY <2>2, <2>5 DEF Newer
    <3>2. Newer(b) \subseteq stored /\ Newer(b)' \subseteq stored'
      BY DEF Newer
    <3> QED
      BY <1>1, <3>1, <3>2
  <2> QED
    BY <2>4, <2>5
<1> QED
  BY <1>2, <1>3

\* A job's own records: what it read of the retention, and what it plans.
LEMMA JobsKeep ==
  ASSUME BackupsInv, BackupsNext, BackupsTypeOK'
  PROVE  /\ least' <= retention'
         /\ \A j \in Jobs : /\ job'[j].at # "delete" => job'[j].todo = {}
                            /\ job'[j].at \in {"list", "delete"} =>
                                  job'[j].keep \in Retentions /\ job'[j].keep >= least'
                            /\ \A b \in job'[j].todo : Cardinality(Newer(b)') >= least'
                            /\ ~disturbed' /\ job'[j].at \in {"list", "delete"} => job'[j].keep = retention'
<1> DEFINE Sound(j) ==
      /\ job'[j].at # "delete" => job'[j].todo = {}
      /\ job'[j].at \in {"list", "delete"} => job'[j].keep \in Retentions /\ job'[j].keep >= least'
      /\ \A b \in job'[j].todo : Cardinality(Newer(b)') >= least'
      /\ ~disturbed' /\ job'[j].at \in {"list", "delete"} => job'[j].keep = retention'
<1> USE DEF BackupsTypeOK, BackupsInv
<1>1. Retentions \subseteq Nat /\ least \in Nat /\ retention \in Nat /\ least <= retention /\ (\A j \in Jobs : job[j].todo \subseteq Nat)
  BY BackupsAssumption
<1>2. \A b \in Nat : Cardinality(Newer(b)) >= least => Cardinality(Newer(b)') >= least
  BY NewerGrow
\* a job at rest is sound, and so is one that nothing touched while least stood
<1>3. ASSUME NEW j \in Jobs, job'[j] = NoJob \/ (job'[j].at \in {"pack", "upload", "settings"} /\ job'[j].todo = {})
      PROVE  Sound(j)
  BY <1>3 DEF NoJob
<1>4. ASSUME NEW j \in Jobs, job'[j] = job[j], least' = least, disturbed' = disturbed, retention' = retention
      PROVE  Sound(j)
  <2>1. \A b \in job'[j].todo : b \in Nat /\ Cardinality(Newer(b)) >= least
    BY <1>1, <1>4
  <2>2. \A b \in job'[j].todo : Cardinality(Newer(b)') >= least'
    BY <1>2, <1>4, <2>1
  <2> QED
    BY <1>4, <2>2
<1>5. ASSUME NEW j \in Jobs, RunDue(j) \/ Request(j) \/ Pack(j) \/ Upload(j)
      PROVE  least' <= retention' /\ \A i \in Jobs : Sound(i)
  <2>1. \A i \in Jobs : i # j => job'[i] = job[i]
    BY <1>5 DEF RunDue, Request, Pack, Upload, Step
  <2>2. job'[j].at \in {"pack", "upload", "settings"} /\ job'[j].todo = {}
    BY <1>5 DEF RunDue, Request, Pack, Upload, Step, NoJob
  <2>3. UNCHANGED <<least, disturbed, retention>>
    BY <1>5 DEF RunDue, Request, Pack, Upload
  <2>4. \A i \in Jobs : Sound(i)
    BY <1>3, <1>4, <2>1, <2>2, <2>3
  <2> QED
    BY <2>3, <2>4
<1>6. ASSUME NEW j \in Jobs, ReadRetention(j)
      PROVE  least' <= retention' /\ \A i \in Jobs : Sound(i)
  <2>1. \A i \in Jobs : i # j => job'[i] = job[i]
    BY <1>6 DEF ReadRetention, Step
  <2>2. job'[j].at = "list" /\ job'[j].todo = {} /\ job'[j].keep = retention
    BY <1>6 DEF ReadRetention, Step
  <2>3. UNCHANGED <<least, retention, stored>>
    BY <1>6 DEF ReadRetention
  <2>4. Sound(j)
    BY <1>1, <2>2, <2>3
  <2>5. CASE disturbed' = disturbed
    BY <1>4, <2>1, <2>3, <2>4, <2>5
  <2>6. CASE disturbed' # disturbed
    <3>1. \A i \in Jobs : i # j => job[i].at = "idle"
      BY <1>6, <2>6 DEF ReadRetention, Active
    <3>2. \A i \in Jobs : i # j => job'[i].at = "idle" /\ job'[i].todo = {}
      BY <2>1, <3>1
    <3> QED
      BY <2>3, <2>4, <3>2
  <2> QED
    BY <2>5, <2>6
<1>7. ASSUME NEW j \in Jobs, List(j)
      PROVE  least' <= retention' /\ \A i \in Jobs : Sound(i)
  <2>1. \A i \in Jobs : i # j => job'[i] = job[i]
    BY <1>7 DEF List, Step
  <2>2. job'[j].at = "delete" /\ job'[j].keep = job[j].keep /\ job'[j].todo = Beyond(job[j].keep)
    BY <1>7 DEF List, Step
  <2>3. UNCHANGED <<least, disturbed, retention, stored>> /\ job[j].at = "list"
    BY <1>7 DEF List
  <2>4. ASSUME NEW b \in Beyond(job[j].keep) PROVE Cardinality(Newer(b)') >= least'
    <3>1. Newer(b)' = Newer(b) /\ Newer(b) \subseteq stored
      BY <2>3 DEF Newer
    <3>2. Cardinality(Newer(b)) >= job[j].keep
      BY DEF Beyond, Newer
    <3>3. Cardinality(Newer(b)) \in Nat
      BY <3>1, StoredFinite
    <3>4. job[j].keep \in Nat /\ job[j].keep >= least /\ least \in Nat
      BY <1>1, <2>3
    <3>5. Cardinality(Newer(b)) >= least
      BY <3>2, <3>3, <3>4
    <3> QED
      BY <2>3, <3>1, <3>5
  <2>5. Sound(j)
    BY <2>2, <2>3, <2>4
  <2> QED
    BY <1>4, <2>1, <2>3, <2>5
<1>8. ASSUME NEW j \in Jobs, Delete(j)
      PROVE  least' <= retention' /\ \A i \in Jobs : Sound(i)
  <2>1. \A i \in Jobs : i # j => job'[i] = job[i]
    BY <1>8 DEF Delete, Step
  <2>2. UNCHANGED <<least, disturbed, retention>> /\ job[j].at = "delete"
    BY <1>8 DEF Delete
  <2>3. job'[j].at = "delete" /\ job'[j].keep = job[j].keep /\ job'[j].todo \subseteq job[j].todo
    BY <1>8 DEF Delete, Step
  <2>4. \A b \in job'[j].todo : b \in Nat /\ Cardinality(Newer(b)) >= least
    BY <1>1, <2>3
  <2>5. \A b \in job'[j].todo : Cardinality(Newer(b)') >= least'
    BY <1>2, <2>2, <2>4
  <2>6. Sound(j)
    BY <2>2, <2>3, <2>5
  <2> QED
    BY <1>4, <2>1, <2>2, <2>6
<1>9. ASSUME NEW j \in Jobs, Made(j) \/ Fail(j)
      PROVE  least' <= retention' /\ \A i \in Jobs : Sound(i)
  <2>1. job'[j] = NoJob /\ \A i \in Jobs : i # j => job'[i] = job[i]
    BY <1>9 DEF Made, Fail, Step
  <2>2. retention' = retention /\ (disturbed => disturbed')
        /\ least' \in {least, retention} /\ stored' = stored
    BY <1>9 DEF Made, Fail, Rest
  <2>3. least' # least => \A i \in Jobs : i # j => job[i].at = "idle"
    BY <1>9 DEF Made, Fail, Rest, Active
  <2>4. \A i \in Jobs : i # j => Sound(i)
    <3> SUFFICES ASSUME NEW i \in Jobs, i # j PROVE Sound(i)
      OBVIOUS
    <3>1. \A b \in job'[i].todo : b \in Nat /\ Cardinality(Newer(b)) >= least /\ Newer(b)' = Newer(b)
      BY <1>1, <2>1, <2>2 DEF Newer
    <3>2. CASE least' = least
      <4>1. \A b \in job'[i].todo : Cardinality(Newer(b)') >= least'
        BY <3>1, <3>2
      <4>2. job'[i] = job[i]
        BY <2>1
      <4> QED
        BY <2>2, <3>2, <4>1, <4>2
    <3>3. CASE least' # least
      BY <2>1, <2>3, <3>3
    <3> QED
      BY <3>2, <3>3
  <2>5. Sound(j)
    <3>1. job'[j].at = "idle" /\ job'[j].todo = {}
      BY <2>1 DEF NoJob
    <3> QED
      BY <3>1
  <2>6. least' <= retention'
    <3>1. retention <= retention
      BY <1>1
    <3> QED
      BY <1>1, <2>2, <3>1
  <2> QED
    BY <2>4, <2>5, <2>6
<1>10. CASE TimePasses
  BY <1>4, <1>10 DEF TimePasses
<1>11. ASSUME SetRetention
       PROVE  least' <= retention' /\ \A i \in Jobs : Sound(i)
  <2>1. job' = job /\ stored' = stored /\ disturbed' = TRUE /\ retention' \in Nat
        /\ least' \in {least, retention'}
    BY <1>1, <1>11 DEF SetRetention
  <2>2. least' <= retention'
    BY <1>1, <1>11 DEF SetRetention
  <2>3. \A i \in Jobs : Sound(i)
    <3> SUFFICES ASSUME NEW i \in Jobs PROVE Sound(i)
      OBVIOUS
    <3>1. \A b \in job[i].todo : Newer(b)' = Newer(b) /\ Newer(b) \subseteq stored
      BY <2>1 DEF Newer
    <3>2. \A b \in job[i].todo : Cardinality(Newer(b)) \in Nat
      BY <3>1, StoredFinite
    <3>3. CASE least' <= least
      <4>1. least' \in Nat
        BY <1>1, <2>1
      <4>2. \A b \in job[i].todo : Cardinality(Newer(b)) >= least
        OBVIOUS
      <4>3. \A b \in job'[i].todo : Cardinality(Newer(b)') >= least'
        BY <1>1, <2>1, <3>1, <3>2, <3>3, <4>1, <4>2
      <4>4. job[i].at \in {"list", "delete"} => job[i].keep \in Nat /\ job[i].keep >= least
        BY <1>1
      <4>5. job[i].at \in {"list", "delete"} => job[i].keep >= least'
        BY <1>1, <3>3, <4>1, <4>4
      <4> QED
        BY <2>1, <4>3, <4>5
    <3>4. CASE ~ (least' <= least)
      <4>1. Active = {}
        BY <1>1, <1>11, <3>4 DEF SetRetention
      <4> QED
        BY <2>1, <4>1 DEF Active
    <3> QED
      BY <3>3, <3>4
  <2> QED
    BY <2>2, <2>3
<1>12. ASSUME Crash
       PROVE  least' <= retention' /\ \A i \in Jobs : Sound(i)
  BY <1>1, <1>12 DEF Crash, NoJob
<1> QED
  BY <1>5, <1>6, <1>7, <1>8, <1>9, <1>10, <1>11, <1>12 DEF BackupsNext

\* Once every job has listed, what is too much is planned.
LEMMA PlansKeep ==
  ASSUME BackupsInv, BackupsNext, BackupsTypeOK', ~disturbed'
  PROVE  \/ \E j \in Jobs : job'[j].at \in {"settings", "list"}
         \/ Beyond(retention)' \subseteq Planned'
<1> USE DEF BackupsTypeOK, BackupsInv
<1>1. ASSUME NEW j \in Jobs, RunDue(j) \/ Request(j) \/ Pack(j) \/ Made(j)
      PROVE  /\ UNCHANGED <<stored, retention, disturbed>>
             /\ \A i \in Jobs : /\ job'[i].todo = job[i].todo
                                /\ job[i].at \in {"settings", "list"} => job'[i].at = job[i].at
  <2>1. UNCHANGED <<stored, retention, disturbed>> /\ \A i \in Jobs : i # j => job'[i] = job[i]
    BY <1>1 DEF RunDue, Request, Pack, Made, Step
  <2>2. job[j].at \notin {"settings", "list"} /\ (job[j].at # "delete" \/ Made(j))
    BY <1>1 DEF RunDue, Request, Pack, Made
  <2>3. job[j].todo = {}
    BY <2>2 DEF Made
  <2>4. job'[j].todo = {}
    BY <1>1, <2>3 DEF RunDue, Request, Pack, Made, Step, NoJob
  <2> QED
    BY <2>1, <2>2, <2>3, <2>4
<1>2. ASSUME TimePasses
      PROVE  UNCHANGED <<stored, retention, disturbed, job>>
  BY <1>2 DEF TimePasses
<1>3. ASSUME /\ UNCHANGED <<stored, retention, disturbed>>
             /\ \A i \in Jobs : /\ job'[i].todo = job[i].todo
                                /\ job[i].at \in {"settings", "list"} => job'[i].at = job[i].at
      PROVE  \/ \E j \in Jobs : job'[j].at \in {"settings", "list"}
             \/ Beyond(retention)' \subseteq Planned'
  <2>1. Beyond(retention)' = Beyond(retention)
    BY <1>3 DEF Beyond
  <2>2. Planned' = Planned
    BY <1>3 DEF Planned
  <2> QED
    BY <1>3, <2>1, <2>2
<1>4. ASSUME NEW j \in Jobs, Upload(j) \/ ReadRetention(j)
      PROVE  job'[j].at \in {"settings", "list"}
  BY <1>4 DEF Upload, ReadRetention, Step
<1>5. ASSUME NEW j \in Jobs, List(j)
      PROVE  \/ \E i \in Jobs : job'[i].at \in {"settings", "list"}
             \/ Beyond(retention)' \subseteq Planned'
  <2>1. job'[j].todo = Beyond(retention) /\ UNCHANGED <<stored, retention>>
    BY <1>5 DEF List, Step
  <2>2. Beyond(retention)' = Beyond(retention)
    BY <2>1 DEF Beyond
  <2> QED
    BY <2>1, <2>2 DEF Planned
<1>6. ASSUME NEW j \in Jobs, Delete(j)
      PROVE  \/ \E i \in Jobs : job'[i].at \in {"settings", "list"}
             \/ Beyond(retention)' \subseteq Planned'
  <2>1. PICK d \in job[j].todo : stored' = stored \ {d} /\ job' = [job EXCEPT ![j] = [job[j] EXCEPT !.todo = @ \ {d}]]
    BY <1>6 DEF Delete, Step
  <2>2. job[j].at = "delete" /\ UNCHANGED <<retention, disturbed>>
    BY <1>6 DEF Delete
  <2>3. ASSUME NEW i \in Jobs PROVE job'[i].at = job[i].at /\ job[i].todo \ {d} \subseteq job'[i].todo
    BY <2>1
  <2>4. Planned \ {d} \subseteq Planned'
    BY <2>3 DEF Planned
  <2>5. ASSUME NEW b \in Beyond(retention)' PROVE b \in Beyond(retention) /\ b # d
    <3>1. b \in stored /\ b # d
      BY <2>1 DEF Beyond
    <3>2. Newer(b)' \subseteq Newer(b) /\ Newer(b) \subseteq stored
      BY <2>1 DEF Newer
    <3>3. IsFiniteSet(Newer(b)) /\ Cardinality(Newer(b)) \in Nat
      BY <3>2, StoredFinite
    <3>4. Cardinality(Newer(b)') <= Cardinality(Newer(b)) /\ Cardinality(Newer(b)') \in Nat
      BY <3>2, <3>3, FS_Subset, FS_CardinalityType
    <3>5. Cardinality(Newer(b)') >= retention /\ retention \in Nat
      BY <2>2, BackupsAssumption DEF Beyond, Newer
    <3>6. Cardinality(Newer(b)) >= retention
      BY <3>3, <3>4, <3>5
    <3> QED
      BY <3>1, <3>6 DEF Beyond, Newer
  <2> QED
    BY <2>2, <2>3, <2>4, <2>5
<1>7. ASSUME (\E j \in Jobs : Fail(j)) \/ SetRetention \/ Crash PROVE FALSE
  BY <1>7 DEF Fail, SetRetention, Crash
<1> QED
  BY <1>1, <1>2, <1>3, <1>4, <1>5, <1>6, <1>7 DEF BackupsNext

\* Together: nothing that is needed is planned, and all that is too much is.
LEMMA BackupsStep ==
  ASSUME BackupsInv, [BackupsNext]_bkVars PROVE BackupsInv'
<1>1. CASE BackupsNext
  <2>1. BackupsTypeOK'
    BY <1>1, BackupsTypes
  <2> QED
    BY <1>1, <2>1, JobsKeep, PlansKeep DEF BackupsInv
<1>2. CASE UNCHANGED bkVars
  BY <1>2 DEF bkVars, BackupsInv, BackupsTypeOK, Beyond, Planned, Newer
<1> QED
  BY <1>1, <1>2

\* What a deletion leaves above what it deletes, and what the last job leaves.
LEMMA KeptStep ==
  ASSUME BackupsInv, BackupsNext
  PROVE  /\ \A b \in stored \ stored' : Cardinality({c \in stored' : c > b}) >= least
         /\ Active # {} /\ Active' = {} /\ ~disturbed' => Cardinality(stored') <= retention
<1> USE DEF BackupsInv, BackupsTypeOK
<1>1. ASSUME NEW b \in stored \ stored' PROVE Cardinality({c \in stored' : c > b}) >= least
  <2>1. PICK j \in Jobs : Delete(j)
    BY <1>1 DEF BackupsNext, RunDue, Request, Pack, Upload, ReadRetention, List, Made, Fail, TimePasses, SetRetention, Crash
  <2>2. b \in job[j].todo /\ stored' = stored \ {b}
    BY <1>1, <2>1 DEF Delete
  <2>3. b \in Nat
    BY StoredFinite
  <2>4. {c \in stored' : c > b} = Newer(b)
    <3>1. ~ (b > b)
      BY <2>3
    <3> QED
      BY <2>2, <3>1 DEF Newer
  <2> QED
    BY <2>2, <2>4
<1>2. ASSUME Active # {}, Active' = {}, ~disturbed' PROVE Cardinality(stored') <= retention
  <2>1. PICK j \in Jobs : Made(j)
    <3>1. ASSUME NEW j \in Jobs, RunDue(j) \/ Request(j) \/ Pack(j) \/ Upload(j) \/ ReadRetention(j) \/ List(j) \/ Delete(j)
          PROVE  FALSE
      <4>1. job'[j].at # "idle"
        BY <3>1 DEF RunDue, Request, Pack, Upload, ReadRetention, List, Delete, Step, NoJob
      <4> QED
        BY <1>2, <4>1 DEF Active
    <3> QED
      BY <1>2, <3>1 DEF BackupsNext, TimePasses, Fail, SetRetention, Crash, Active
  <2>2. \A i \in Jobs : i # j => job[i].at = "idle"
    <3>1. \A i \in Jobs : i # j => job'[i] = job[i]
      BY <2>1 DEF Made, Step
    <3> QED
      BY <1>2, <3>1 DEF Active
  <2>3. job[j].at = "delete" /\ job[j].todo = {} /\ stored' = stored /\ ~disturbed
    BY <1>2, <2>1 DEF Made
  <2>4. Planned = {}
    BY <2>2, <2>3 DEF Planned
  <2>5. Beyond(retention) = {}
    BY <2>2, <2>3, <2>4
  <2>6. retention \in Nat
    BY BackupsAssumption
  <2> QED
    BY <2>3, <2>5, <2>6, NothingBeyond
<1> QED
  BY <1>1, <1>2

\* A backup is deleted only while enough newer ones are stored, and backups that
\* end undisturbed leave no more than the retention; for any number of backups at
\* once and any retentions.
THEOREM BackupsKept == BackupsSpec => BackupKept
<1>1. BackupsInv /\ [BackupsNext]_bkVars => BackupsInv'
  BY BackupsStep
<1>2. BackupsInv /\ [BackupsNext]_bkVars =>
        [/\ \A b \in stored \ stored' : Cardinality({c \in stored' : c > b}) >= least
         /\ Active # {} /\ Active' = {} /\ ~disturbed' => Cardinality(stored') <= retention]_bkVars
  BY KeptStep
<1> QED
  BY <1>1, <1>2, BackupsInitial, PTL DEF BackupsSpec, BackupKept

----------------------------------------------------------------------------
(* The parts side by side *)

\* What the instances that are checked together do is what each does alone: a step
\* is one of a part, and none for the others.
LEMMA PartsAlone ==
  Spec => /\ OrganizationsSpec /\ HostKeysSpec /\ StatusCheckerSpec
          /\ IntegrationsSpec /\ BackupsSpec /\ StartupSpec
<1>1. Init => /\ OrganizationsInit /\ HostKeysInit /\ StatusCheckerInit
              /\ IntegrationsInit /\ BackupsInit /\ StartupInit
  BY DEF Init
<1>2. [Next]_<<part, orgVars, hkVars, scVars, intVars, bkVars, stVars>> =>
         /\ [OrganizationsNext]_orgVars /\ [HostKeysNext]_hkVars /\ [StatusCheckerNext]_scVars
         /\ [IntegrationsNext]_intVars /\ [BackupsNext]_bkVars /\ [StartupNext]_stVars
  BY DEF Next, OrganizationsPart, HostKeysPart, StatusCheckerPart, IntegrationsPart, BackupsPart, StartupPart
<1> QED
  BY <1>1, <1>2, PTL DEF Spec, OrganizationsSpec, HostKeysSpec, StatusCheckerSpec, IntegrationsSpec,
                         BackupsSpec, StartupSpec

\* Every part keeps its types: memberships, host keys, status cycles, syncs, backups
\* and migrations, for any values of the constants.
THEOREM ServicesTypeCorrect == Spec => []ServicesTypeOK
<1>1. OrganizationsSpec => []OrganizationsInv
  BY OrganizationsStep, OrganizationsInitial, PTL DEF OrganizationsSpec
<1>2. IntegrationsSpec => []IntegrationsInv
  BY IntegrationsStep, IntegrationsInitial, PTL DEF IntegrationsSpec
<1>3. BackupsSpec => []BackupsInv
  BY BackupsStep, BackupsInitial, PTL DEF BackupsSpec
<1>4. /\ OrganizationsInv => OrganizationsTypeOK
      /\ HostKeysInv => HostKeysTypeOK
      /\ CheckerInv => StatusCheckerTypeOK
      /\ IntegrationsInv => IntegrationsTypeOK
      /\ BackupsInv => BackupsTypeOK
      /\ MigrationsInv => StartupTypeOK
  BY DEF OrganizationsInv, HostKeysInv, CheckerInv, IntegrationsInv, BackupsInv, MigrationsInv
<1> QED
  BY <1>1, <1>2, <1>3, <1>4, PartsAlone, HostKeysInvariant, CheckerInvariant, StartupInvariant, PTL
     DEF ServicesTypeOK

=============================================================================
