------------------------------ MODULE HostKeys ------------------------------
(***************************************************************************)
(* The trusted host key of one address (utils/hostKeys.js) and what an     *)
(* administrator does to it (controllers/hostKey.js).  A connection reads  *)
(* the row, awaits, and writes; so does a decision.  The address has at    *)
(* most one row: migration 0041 puts a unique index on host and port.      *)
(*                                                                         *)
(* Bounds: a connection or decision identifier serves once, and Rows ids   *)
(* are given out.                                                          *)
(***************************************************************************)
EXTENDS FiniteSets

CONSTANTS Keys,         \* key type and fingerprint
          Rows,         \* ids of rows
          Connecting,   \* connections that meet a host key
          Decisions,    \* accept or forget
          NoKey

ASSUME KeysApart == Connecting \cap Decisions = {} /\ NoKey \notin Keys /\ NoKey \notin Rows

VARIABLES row,       \* the row of the address
          unused,    \* ids not given out yet
          verify,    \* the checks of connections
          decision,  \* the administrators' requests
          moved      \* history: the row changed since it was read

hkVars == <<row, unused, verify, decision, moved>>

NoRow == [id |-> NoKey, trusted |-> NoKey, pending |-> NoKey]
NoCheck == [at |-> "idle", key |-> NoKey, saw |-> NoRow]
NoDecision == [at |-> "idle", saw |-> NoRow]

Row == [id : Rows \cup {NoKey}, trusted : Keys \cup {NoKey}, pending : Keys \cup {NoKey}]

HostKeysTypeOK ==
    /\ row \in Row
    /\ unused \subseteq Rows
    /\ verify \in [Connecting -> [at : {"idle", "asked", "create", "mark", "admitted", "refused"},
                                  key : Keys \cup {NoKey}, saw : Row]]
    /\ decision \in [Decisions -> [at : {"idle", "accept", "forget", "done"}, saw : Row]]
    /\ moved \subseteq Connecting \cup Decisions

HostKeysInit ==
    /\ row = NoRow
    /\ unused = Rows
    /\ verify = [v \in Connecting |-> NoCheck]
    /\ decision = [d \in Decisions |-> NoDecision]
    /\ moved = {}

Check(v, record) == verify' = [verify EXCEPT ![v] = record]

(* everyone else who read the row has read an old one *)
Put(x, new) ==
    /\ row' = new
    /\ moved' = IF new = row THEN moved ELSE moved \cup ((Connecting \cup Decisions) \ {x})

Present(v) ==
    /\ verify[v].at = "idle"
    /\ \E k \in Keys : Check(v, [NoCheck EXCEPT !.at = "asked", !.key = k])
    /\ UNCHANGED <<row, unused, decision, moved>>

(* mutated: the key that waits for an administrator is taken too *)
KnownBug(r, k) == k \in {r.trusted, r.pending}

Known(r, k) == r.trusted = k

(* the row is read; a key already marked as new is not marked again *)
ReadRow(v) ==
    /\ verify[v].at = "asked"
    /\ LET k == verify[v].key
       IN Check(v, [verify[v] EXCEPT
                       !.saw = row,
                       !.at = IF row = NoRow THEN "create"
                              ELSE IF Known(row, k) THEN "admitted"
                              ELSE IF row.pending = k THEN "refused" ELSE "mark"])
    /\ moved' = moved \ {v}
    /\ UNCHANGED <<row, unused, decision>>

(* The first connection trusts its key.  Another one that came first makes *)
(* the creation fail, and the check refuses what it cannot decide.         *)
Trust(v) ==
    /\ verify[v].at = "create"
    /\ \/ /\ row = NoRow
          /\ \E i \in unused : /\ Put(v, [id |-> i, trusted |-> verify[v].key, pending |-> NoKey])
                               /\ unused' = unused \ {i}
          /\ Check(v, [verify[v] EXCEPT !.at = "admitted"])
       \/ /\ row # NoRow
          /\ Check(v, [verify[v] EXCEPT !.at = "refused"])
          /\ UNCHANGED <<row, unused, moved>>
    /\ UNCHANGED decision

(* updates are by id: a row forgotten meanwhile stays away *)
Mark(v) ==
    /\ verify[v].at = "mark"
    /\ Put(v, IF row.id = verify[v].saw.id THEN [row EXCEPT !.pending = verify[v].key] ELSE row)
    /\ Check(v, [verify[v] EXCEPT !.at = "refused"])
    /\ UNCHANGED <<unused, decision>>

Decide(d, record) == decision' = [decision EXCEPT ![d] = record]

ReadDecision(d) ==
    /\ decision[d].at = "idle" /\ row # NoRow
    /\ \/ row.pending # NoKey /\ Decide(d, [at |-> "accept", saw |-> row])
       \/ Decide(d, [at |-> "forget", saw |-> row])
    /\ moved' = moved \ {d}
    /\ UNCHANGED <<row, unused, verify>>

Accept(d) ==
    /\ decision[d].at = "accept"
    /\ Put(d, IF row.id = decision[d].saw.id
              THEN [row EXCEPT !.trusted = decision[d].saw.pending, !.pending = NoKey] ELSE row)
    /\ Decide(d, [decision[d] EXCEPT !.at = "done"])
    /\ UNCHANGED <<unused, verify>>

Forget(d) ==
    /\ decision[d].at = "forget"
    /\ Put(d, IF row.id = decision[d].saw.id THEN NoRow ELSE row)
    /\ Decide(d, [decision[d] EXCEPT !.at = "done"])
    /\ UNCHANGED <<unused, verify>>

HostKeysNext == \/ \E v \in Connecting : Present(v) \/ ReadRow(v) \/ Trust(v) \/ Mark(v)
                \/ \E d \in Decisions : ReadDecision(d) \/ Accept(d) \/ Forget(d)

HostKeysSpec == HostKeysInit /\ [][HostKeysNext]_hkVars

Ends(v, how) == verify[v].at \notin {"admitted", "refused"} /\ verify'[v].at = how

(* A connection is admitted with the trusted key alone; one that is        *)
(* refused has another key, which then waits for a decision; and the       *)
(* trusted key of a row changes only to one a connection was refused with. *)
(* What is excepted is a row that an overlapping check or decision changed *)
(* after it was read: the second of two first connections is refused with  *)
(* the key just trusted, and a key accepted while it is marked once more   *)
(* waits although it is trusted.                                           *)
PinnedKey ==
    [][/\ \A v \in Connecting \ moved' :
             /\ Ends(v, "admitted") => row'.trusted = verify[v].key
             /\ Ends(v, "refused") => row' # NoRow /\ row'.trusted # verify[v].key
             /\ Ends(v, "refused") => row'.pending = verify[v].key
       /\ row' # row /\ row'.id = row.id /\ row'.trusted # row.trusted
             => \E v \in Connecting : verify[v].at = "refused" /\ verify[v].key = row'.trusted]_hkVars

=============================================================================
