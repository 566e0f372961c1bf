---------------------------- MODULE Organizations ----------------------------
(***************************************************************************)
(* One organization and its members (controllers/organization.js), with    *)
(* what the deletion of an account (controllers/account.js) and a          *)
(* directory sign-in do to the membership table.                           *)
(*                                                                         *)
(* A handler reads the caller's rank, reads the row it is about, and       *)
(* writes; every read is awaited.  The steps of a request are              *)
(*   "member"  the caller's membership read, the owner not                 *)
(*   "ranked"  the rank is known, the row the request is about is not      *)
(*   "write"   every check passed, the write is due                        *)
(*   "drop"    the account's own rows are removed next                     *)
(* Names, descriptions and audit settings are left out, and so is the data *)
(* of the organization, which goes with its row in one transaction.        *)
(*                                                                         *)
(* Bounds: one organization; a request identifier serves one request, and  *)
(* Init has every table that earlier requests can leave.                   *)
(***************************************************************************)
EXTENDS FiniteSets

CONSTANTS People,          \* accounts
          Administrators,  \* those whose account has the role admin
          Calls,           \* one request each
          NoOne

VARIABLES org,     \* "none", "here" or "gone"
          person,  \* "here" or "gone"
          rank,    \* the membership's role, "none" without a row
          active,  \* its status: active or pending
          call,    \* the requests under way
          recent   \* history: what this request checked is still true

orgVars == <<org, person, rank, active, call, recent>>

Ranks == {"none", "member", "manager", "owner"}
AtLeast(a, b) == \/ b = "none" \/ a = "owner"
                 \/ b = "member" /\ a # "none"
                 \/ b = a

Members == {p \in People : rank[p] # "none"}
ActiveMember(p) == rank[p] # "none" /\ active[p]
OwnerRows == {p \in People : rank[p] = "owner"}
Owners == {p \in OwnerRows : active[p]}

Quiet == [at |-> "idle", op |-> "none", by |-> NoOne, on |-> NoOne, rank |-> "none", to |-> "none"]
Ended == [Quiet EXCEPT !.at = "done"]

RankedOps == {"delete", "invite", "remove", "setRole", "transfer"}
OwnOps == {"create", "accept", "decline", "leave", "join", "deleteAccount"}

OrganizationsTypeOK ==
    /\ org \in {"none", "here", "gone"}
    /\ person \in [People -> {"here", "gone"}]
    /\ rank \in [People -> Ranks]
    /\ active \in [People -> BOOLEAN]
    /\ call \in [Calls -> [at : {"idle", "member", "ranked", "write", "drop", "done"},
                           op : RankedOps \cup OwnOps \cup {"none"},
                           by : People \cup {NoOne}, on : People \cup {NoOne},
                           rank : Ranks, to : Ranks]]
    /\ recent \in [Calls -> BOOLEAN]

(* before the organization, or one with at most one owner, who is active *)
OrganizationsInit ==
    /\ org \in {"none", "here"}
    /\ person = [p \in People |-> "here"]
    /\ rank \in [People -> Ranks]
    /\ active \in [People -> BOOLEAN]
    /\ \A p \in People : /\ rank[p] = "none" => ~active[p]
                         /\ rank[p] = "owner" => active[p]
                         /\ org = "none" => rank[p] = "none"
    /\ \A p, q \in Owners : p = q
    /\ call = [r \in Calls |-> Quiet]
    /\ recent = [r \in Calls |-> FALSE]

Table == <<org, person, rank, active>>

Reads(r, record) ==
    /\ call' = [call EXCEPT ![r] = record]
    /\ recent' = [recent EXCEPT ![r] = @ /\ record.at # "done"]
    /\ UNCHANGED Table

(* What others checked is old when the owners changed, the organization     *)
(* came or went, or an active member left.                                  *)
Disturbing == \/ OwnerRows' # OwnerRows \/ Owners' # Owners
              \/ org' # org
              \/ \E p \in People : ActiveMember(p) /\ ~ActiveMember(p)'

Wrote(r, record) ==
    /\ call' = [call EXCEPT ![r] = record]
    /\ recent' = [q \in Calls |-> recent[q] /\ IF q = r THEN record.at # "done" ELSE ~Disturbing]

Asks(r, record) ==
    /\ call[r].at = "idle"
    /\ person[record.by] = "here"
    /\ call' = [call EXCEPT ![r] = record]
    /\ recent' = [recent EXCEPT ![r] = TRUE]
    /\ UNCHANGED Table

(***************************************************************************)
(* A request begins with its first read; one that this read refuses leaves *)
(* no trace.  Rows of an account that is gone stay unseen.                 *)
(*                                                                         *)
(* effectiveRole: the rank of an active member; an administrator among the *)
(* members acts as the owner of an organization that has none.             *)
(***************************************************************************)

ReadMembership(r) ==
    \E by, on \in People, op \in RankedOps, to \in {"none", "member", "manager"} :
        /\ ActiveMember(by)
        /\ (to # "none") = (op = "setRole")
        /\ op = "delete" => on = by
        /\ Asks(r, [at |-> IF rank[by] = "owner" THEN "ranked" ELSE "member", op |-> op,
                    by |-> by, on |-> on, rank |-> rank[by], to |-> to])

ReadOwner(r) ==
    /\ call[r].at = "member"
    /\ Reads(r, [call[r] EXCEPT !.at = "ranked",
                                !.rank = IF Owners = {} /\ call[r].by \in Administrators
                                         THEN "owner" ELSE @])

(***************************************************************************)
(* The second read of each handler and what it refuses.                    *)
(***************************************************************************)

(* mutated: the owner's role is changed like any member's *)
ChangeableBug(p) == ActiveMember(p)

Changeable(p) == ActiveMember(p) /\ rank[p] # "owner"

MayWrite(q) ==
    \/ q.op = "delete" /\ q.rank = "owner" /\ org = "here"
    \/ q.op = "invite" /\ AtLeast(q.rank, "manager") /\ person[q.on] = "here" /\ rank[q.on] = "none"
    \/ q.op = "remove" /\ AtLeast(q.rank, "manager") /\ rank[q.on] # "none" /\ ~AtLeast(rank[q.on], q.rank)
    \/ q.op = "setRole" /\ q.rank = "owner" /\ Changeable(q.on)
    \/ q.op = "transfer" /\ q.rank = "owner" /\ q.on # q.by /\ ActiveMember(q.on)

ReadTarget(r) ==
    /\ call[r].at = "ranked" /\ call[r].op \in RankedOps
    /\ Reads(r, IF MayWrite(call[r]) THEN [call[r] EXCEPT !.at = "write"] ELSE Ended)

Own(op, p, at) == [Quiet EXCEPT !.at = at, !.op = op, !.by = p, !.on = p]

MayWriteOwn(op, p) ==
    \/ op = "create" /\ org = "none"
    \/ op \in {"accept", "decline"} /\ rank[p] # "none" /\ ~active[p]
    \/ op = "leave" /\ ActiveMember(p) /\ rank[p] # "owner"

ReadOwn(r) ==
    \E p \in People, op \in OwnOps : MayWriteOwn(op, p) /\ Asks(r, Own(op, p, "write"))

(* joinOrganizations keeps a membership it finds, with the rank it reads *)
ReadOrganization(r) == \E p \in People : org = "here" /\ Asks(r, Own("join", p, "ranked"))

ReadJoin(r) ==
    /\ call[r].at = "ranked" /\ call[r].op = "join"
    /\ Reads(r, [call[r] EXCEPT !.at = "write", !.rank = rank[call[r].on]])

(* handOverOrganizations *)
ReadOwned(r) ==
    \E p \in People : Asks(r, Own("deleteAccount", p, IF p \in Owners THEN "ranked" ELSE "drop"))

Others(p) == {q \in People \ {p} : ActiveMember(q)}
Successors(p) == {q \in Others(p) : \A x \in Others(p) : AtLeast(rank[q], rank[x])}

ReadOthers(r) ==
    /\ call[r].at = "ranked" /\ call[r].op = "deleteAccount"
    /\ \/ /\ Others(call[r].by) = {}
          /\ Reads(r, [call[r] EXCEPT !.at = "write", !.on = NoOne])
       \/ \E q \in Successors(call[r].by) : Reads(r, [call[r] EXCEPT !.at = "write", !.on = q])

(***************************************************************************)
(* Writes.  An update or removal of a row that is gone touches nothing; a  *)
(* row that exists already makes its creation fail.                        *)
(***************************************************************************)

Due(r, ops) == call[r].at = "write" /\ call[r].op \in ops

SetRank(p, new) == rank' = [rank EXCEPT ![p] = IF @ = "none" THEN @ ELSE new]
RemoveRow(p) == /\ rank' = [rank EXCEPT ![p] = "none"]
                /\ active' = [active EXCEPT ![p] = FALSE]
CreateRow(p, new, status) ==
    /\ rank' = [rank EXCEPT ![p] = IF @ = "none" THEN new ELSE @]
    /\ active' = [active EXCEPT ![p] = IF rank[p] = "none" THEN status ELSE @]
RemoveAll == /\ org' = "gone"
             /\ rank' = [p \in People |-> "none"]
             /\ active' = [p \in People |-> FALSE]

(* createOrganization: the organization first, its owner after an await; a *)
(* second one creates some other organization.                             *)
CreateOrganization(r) ==
    /\ Due(r, {"create"})
    /\ \/ /\ org = "none"
          /\ org' = "here"
          /\ UNCHANGED <<person, rank, active>>
          /\ Wrote(r, [call[r] EXCEPT !.at = "drop"])
       \/ org # "none" /\ Reads(r, Ended)

CreateOwner(r) ==
    /\ call[r].at = "drop" /\ call[r].op = "create"
    /\ CreateRow(call[r].by, "owner", TRUE)
    /\ UNCHANGED <<org, person>>
    /\ Wrote(r, Ended)

DeleteOrganization(r) == Due(r, {"delete"}) /\ RemoveAll /\ UNCHANGED person /\ Wrote(r, Ended)

AddMember(r) ==
    /\ \/ Due(r, {"invite"}) /\ CreateRow(call[r].on, "member", FALSE)
       \/ Due(r, {"join"}) /\ call[r].rank = "none" /\ CreateRow(call[r].on, "member", TRUE)
    /\ UNCHANGED <<org, person>>
    /\ Wrote(r, Ended)

(* a join writes back the rank it read *)
Activate(r) ==
    /\ \/ Due(r, {"accept"}) /\ UNCHANGED rank
       \/ Due(r, {"join"}) /\ call[r].rank # "none" /\ SetRank(call[r].on, call[r].rank)
    /\ active' = [active EXCEPT ![call[r].on] = rank[call[r].on] # "none"]
    /\ UNCHANGED <<org, person>>
    /\ Wrote(r, Ended)

RemoveMember(r) ==
    /\ Due(r, {"decline", "remove", "leave"})
    /\ RemoveRow(call[r].on)
    /\ UNCHANGED <<org, person>>
    /\ Wrote(r, Ended)

SetMemberRole(r) ==
    /\ Due(r, {"setRole"})
    /\ SetRank(call[r].on, call[r].to)
    /\ UNCHANGED <<org, person, active>>
    /\ Wrote(r, Ended)

(* one transaction: every owner steps down, the successor steps up *)
Transfer(r) ==
    /\ Due(r, {"transfer"})
    /\ rank' = [p \in People |-> IF p = call[r].on /\ rank[p] # "none" THEN "owner"
                                 ELSE IF rank[p] = "owner" THEN "manager" ELSE rank[p]]
    /\ UNCHANGED <<org, person, active>>
    /\ Wrote(r, Ended)

(* The successor owns the organization while the account still does; the   *)
(* last member takes the organization along.                               *)
HandOver(r) ==
    /\ Due(r, {"deleteAccount"})
    /\ \/ call[r].on # NoOne /\ SetRank(call[r].on, "owner") /\ UNCHANGED <<org, active>>
       \/ call[r].on = NoOne /\ RemoveAll
    /\ UNCHANGED person
    /\ Wrote(r, [call[r] EXCEPT !.at = "drop"])

DropAccount(r) ==
    /\ call[r].at = "drop" /\ call[r].op = "deleteAccount"
    /\ person' = [person EXCEPT ![call[r].by] = "gone"]
    /\ RemoveRow(call[r].by)
    /\ UNCHANGED org
    /\ Wrote(r, Ended)

CallStep(r) ==
    \/ ReadMembership(r) \/ ReadOwner(r) \/ ReadTarget(r) \/ ReadOwn(r)
    \/ ReadOrganization(r) \/ ReadJoin(r) \/ ReadOwned(r) \/ ReadOthers(r)
    \/ CreateOrganization(r) \/ CreateOwner(r) \/ DeleteOrganization(r) \/ AddMember(r) \/ Activate(r)
    \/ RemoveMember(r) \/ SetMemberRole(r) \/ Transfer(r) \/ HandOver(r) \/ DropAccount(r)

OrganizationsNext == \E r \in Calls : CallStep(r)

OrganizationsSpec == OrganizationsInit /\ [][OrganizationsNext]_orgVars

(* accounts whose organizations are handed over and whose rows go next *)
Leaving == {call[r].by : r \in {x \in Calls : call[x].at = "drop" /\ call[x].op = "deleteAccount"}}
OneOwner == /\ OwnerRows = Owners
            /\ \A p, q \in Owners \ Leaving : p = q

(* A request never leaves an organization without its owner, never makes a *)
(* second one of it nor an owner whose membership is pending (an account   *)
(* being deleted owns until its rows go), and never leaves a membership    *)
(* without its organization.  Requests may overlap; the exception is a     *)
(* request that writes after another one changed the owners, created or    *)
(* deleted the organization, or ended a membership.                        *)
OwnerKept ==
    [][\A r \in Calls :
          recent[r] /\ Table' # Table /\ call'[r] # call[r] =>
              /\ Owners # {} /\ org' = "here" => Owners' # {}
              /\ OneOwner => OneOwner'
              /\ org' = "gone" /\ (org = "gone" => Members = {}) => Members' = {}]_orgVars

=============================================================================
