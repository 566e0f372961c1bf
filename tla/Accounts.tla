------------------------------ MODULE Accounts ------------------------------
(***************************************************************************)
(* The accounts table and the requests that change it: first set-up,       *)
(* administrators creating, deleting, promoting, demoting, locking and     *)
(* unlocking accounts (controllers/account.js behind routes/users.js), and *)
(* directory sign-ins that create accounts and set their role              *)
(* (controllers/ldap.js, controllers/oidc.js).                             *)
(*                                                                         *)
(* A handler reads, awaits and writes, so each request is a record that    *)
(* moves through the steps between its awaits:                             *)
(*   "asked"  the caller is authenticated, the row not read yet            *)
(*   "found"  the row is read, the count the decision needs is not         *)
(*   "write"  every check passed, the write is due                         *)
(* Nothing else of the row (names of persons, passwords, preferences) is   *)
(* kept: no decision here depends on it.                                   *)
(*                                                                         *)
(* Bounds: a request identifier serves one request and a row identifier    *)
(* one row (the table never uses an id again); the requests before these   *)
(* are in Init, which starts from every table they could leave.            *)
(***************************************************************************)
EXTENDS FiniteSets

CONSTANTS Accounts,   \* ids of rows
          Names,      \* user names
          Requests,   \* one request each
          Nobody      \* no row, no name

ASSUME NobodyAssumption == Nobody \notin Accounts

VARIABLES role,    \* role[a]: "none" before the row exists, "gone" after
          locked,  \* the column disabled
          name,    \* the column username
          req,     \* the requests under way
          fresh    \* history: what this request checked is still true

vars == <<role, locked, name, req, fresh>>

Rows == {a \in Accounts : role[a] \in {"user", "admin"}}
Admins == {a \in Accounts : role[a] = "admin"}
ActiveAdmins == {a \in Admins : ~locked[a]}
Named(n) == {a \in Rows : name[a] = n}
NamesDistinct == \A a, b \in Rows : name[a] = name[b] => a = b

One(S) == \E x \in S : S = {x}
Several(S) == \E x, y \in S : x # y

Idle == [at |-> "idle", op |-> "none", actor |-> Nobody, row |-> Nobody,
         name |-> Nobody, to |-> "none", was |-> "none"]
Done == [Idle EXCEPT !.at = "done"]

Steps == {"idle", "asked", "found", "write", "done"}
Ops == {"none", "setup", "create", "delete", "role", "lock", "unlock", "signIn"}
Roles == {"none", "user", "admin", "gone"}

Request == [at : Steps, op : Ops, actor : Accounts \cup {Nobody}, row : Accounts \cup {Nobody},
            name : Names \cup {Nobody}, to : Roles \ {"gone"}, was : Roles]

TypeOK ==
    /\ role \in [Accounts -> Roles]
    /\ locked \in [Accounts -> BOOLEAN]
    /\ name \in [Accounts -> Names \cup {Nobody}]
    /\ req \in [Requests -> Request]
    /\ fresh \in [Requests -> BOOLEAN]

(* The table is empty, or some administrator can act.  Names are distinct:  *)
(* the check of createAccount, run alone, keeps them so.                    *)
Init ==
    /\ role \in [Accounts -> {"none", "user", "admin"}]
    /\ locked \in [Accounts -> BOOLEAN]
    /\ name \in [Accounts -> Names \cup {Nobody}]
    /\ \A a \in Accounts : /\ role[a] = "none" => ~locked[a]
                           /\ (role[a] = "none") <=> (name[a] = Nobody)
    /\ Rows = {} \/ ActiveAdmins # {}
    /\ NamesDistinct
    /\ req = [r \in Requests |-> Idle]
    /\ fresh = [r \in Requests |-> FALSE]

(***************************************************************************)
(* A request begins.                                                       *)
(***************************************************************************)

Ask(r, record) ==
    /\ req[r].at = "idle"
    /\ req' = [req EXCEPT ![r] = record]
    /\ fresh' = [fresh EXCEPT ![r] = TRUE]
    /\ UNCHANGED <<role, locked, name>>

(* authenticate and isAdmin read the caller's row once *)
MayAdminister(a) == a \in ActiveAdmins

(* mutated: the route lets a caller change the own role *)
OwnRoleBug(actor, a) == FALSE

(* the route refuses a change of the caller's own role *)
OwnRole(actor, a) == actor = a

AskAbout(r) ==
    \E actor, a \in Accounts, op \in {"delete", "role", "lock", "unlock"}, to \in {"user", "admin"} :
        /\ MayAdminister(actor)
        /\ op = "role" => ~OwnRole(actor, a)
        /\ op # "role" => to = "user"
        /\ Ask(r, [Idle EXCEPT !.at = "asked", !.op = op, !.actor = actor, !.row = a, !.to = to])

AskCreate(r) ==
    \E actor \in Accounts, n \in Names :
        /\ MayAdminister(actor)
        /\ Ask(r, [Idle EXCEPT !.at = "asked", !.op = "create", !.actor = actor,
                               !.name = n, !.to = "user"])

(* the registration of the first account needs no sign-in *)
AskSetup(r) ==
    \E n \in Names :
        Ask(r, [Idle EXCEPT !.at = "asked", !.op = "setup", !.name = n, !.to = "admin"])

(* the directory's role: "none" when its groups say nothing about roles *)
AskSignIn(r) ==
    \E n \in Names, to \in {"none", "user", "admin"} :
        Ask(r, [Idle EXCEPT !.at = "asked", !.op = "signIn", !.name = n, !.to = to])

(***************************************************************************)
(* The reads of a handler, each before an await.                           *)
(***************************************************************************)

Keep == UNCHANGED <<role, locked, name>>

Move(r, record) ==
    /\ req' = [req EXCEPT ![r] = record]
    /\ fresh' = [fresh EXCEPT ![r] = @ /\ record.at # "done"]
    /\ Keep

(* Account.count() of a first set-up, before the look at the name *)
CountSetup(r) ==
    /\ req[r].at = "asked" /\ req[r].op = "setup"
    /\ Move(r, IF Rows = {} THEN [req[r] EXCEPT !.at = "found"] ELSE Done)

(* createAccount: no row has the name yet *)
LookName(r) ==
    /\ \/ req[r].at = "asked" /\ req[r].op = "create"
       \/ req[r].at = "found" /\ req[r].op = "setup"
    /\ Move(r, IF Named(req[r].name) = {} THEN [req[r] EXCEPT !.at = "write"] ELSE Done)

(* what setLocked and updateRole refuse of the row they read *)
Refuses(q) ==
    \/ role[q.row] \notin {"user", "admin"}
    \/ q.op = "role" /\ role[q.row] = q.to
    \/ q.op \in {"lock", "unlock"} /\ q.row = q.actor
    \/ q.op \in {"lock", "unlock"} /\ locked[q.row] = (q.op = "lock")

LookRow(r) ==
    /\ req[r].at = "asked" /\ req[r].op \in {"delete", "role", "lock", "unlock"}
    /\ Move(r, IF Refuses(req[r]) THEN Done
               ELSE [req[r] EXCEPT !.at = IF req[r].op = "delete" THEN "found" ELSE "write",
                                   !.was = role[req[r].row]])

(* deleteAccount counts administrators, locked ones too *)
CountAdmins(r) ==
    /\ req[r].at = "found" /\ req[r].op = "delete"
    /\ Move(r, IF One(Admins) /\ req[r].was = "admin" THEN Done
               ELSE [req[r] EXCEPT !.at = "write"])

(* A directory sign-in reads the row of its name.  It ends on a locked row *)
(* or a row of another sign-in method.                                     *)
LookSignIn(r) ==
    /\ req[r].at = "asked" /\ req[r].op = "signIn"
    /\ \/ /\ Named(req[r].name) = {}
          /\ Move(r, [req[r] EXCEPT !.at = "write", !.to = IF @ = "none" THEN "user" ELSE @])
       \/ \E a \in Named(req[r].name) :
             \/ Move(r, Done)
             \/ /\ ~locked[a]
                /\ Move(r, [req[r] EXCEPT !.at = IF @ = "asked" /\ req[r].to = "user" /\ role[a] = "admin"
                                                 THEN "found" ELSE "write",
                                          !.row = a, !.was = role[a]])

(* directoryRole: the last active administrator keeps the role *)
DirectoryRole(r) ==
    /\ req[r].at = "found" /\ req[r].op = "signIn"
    /\ Move(r, [req[r] EXCEPT !.at = "write", !.to = IF Several(ActiveAdmins) THEN @ ELSE "none"])

(***************************************************************************)
(* The write.  Updates and deletions of a row that is gone touch nothing.  *)
(***************************************************************************)

Due(r, ops) == req[r].at = "write" /\ req[r].op \in ops

(* Another request's check is old when a row came, went or changed its      *)
(* role, or an active administrator was locked.                             *)
Disturbing == role' # role \/ ~(ActiveAdmins \subseteq ActiveAdmins')

Written(r) ==
    /\ req' = [req EXCEPT ![r] = Done]
    /\ fresh' = [q \in Requests |-> fresh[q] /\ q # r /\ ~Disturbing]

Insert(r) ==
    /\ Due(r, {"setup", "create", "signIn"}) /\ req[r].row = Nobody
    /\ \E a \in Accounts :
          /\ role[a] = "none"
          /\ role' = [role EXCEPT ![a] = req[r].to]
          /\ name' = [name EXCEPT ![a] = req[r].name]
    /\ UNCHANGED locked
    /\ Written(r)

(* one transaction removes the row and everything that belongs to it *)
Destroy(r) ==
    /\ Due(r, {"delete"})
    /\ role' = [role EXCEPT ![req[r].row] = "gone"]
    /\ locked' = [locked EXCEPT ![req[r].row] = FALSE]
    /\ name' = [name EXCEPT ![req[r].row] = Nobody]
    /\ Written(r)

SetRole(r) ==
    /\ Due(r, {"role", "signIn"}) /\ req[r].row # Nobody
    /\ role' = [role EXCEPT ![req[r].row] =
                   IF @ \in {"user", "admin"} /\ req[r].to # "none" THEN req[r].to ELSE @]
    /\ UNCHANGED <<locked, name>>
    /\ Written(r)

SetLocked(r) ==
    /\ Due(r, {"lock", "unlock"})
    /\ locked' = [locked EXCEPT ![req[r].row] =
                     IF role[req[r].row] \in {"user", "admin"} THEN req[r].op = "lock" ELSE @]
    /\ UNCHANGED <<role, name>>
    /\ Written(r)

RequestStep(r) ==
    \/ AskAbout(r) \/ AskCreate(r) \/ AskSetup(r) \/ AskSignIn(r)
    \/ CountSetup(r) \/ LookName(r) \/ LookRow(r) \/ CountAdmins(r)
    \/ LookSignIn(r) \/ DirectoryRole(r)
    \/ Insert(r) \/ Destroy(r) \/ SetRole(r) \/ SetLocked(r)

Next == \E r \in Requests : RequestStep(r)

Spec == Init /\ [][Next]_vars

(* A request leaves an administrator: an active one, except that an        *)
(* administrator who removes the own account may leave only locked ones    *)
(* (deleteAccount counts those too).  Nor does it give a user name to a    *)
(* second row: no index enforces it.  Requests may overlap; what the       *)
(* checks cannot see is only another request that added, removed or        *)
(* changed the role of a row, or locked an active administrator, between   *)
(* the check and the write.                                                *)
AccountsSound ==
    [][\A r \in Requests :
          fresh[r] /\ req[r].at = "write" /\ req'[r].at = "done" =>
              /\ Admins # {} => Admins' # {}
              /\ ActiveAdmins # {} /\ ~(req[r].op = "delete" /\ req[r].row = req[r].actor)
                    => ActiveAdmins' # {}
              /\ NamesDistinct => NamesDistinct']_vars

=============================================================================
