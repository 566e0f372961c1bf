------------------------------- MODULE SignIns -------------------------------
(***************************************************************************)
(* Sign-in sessions and what is opened in their name: the state sockets of *)
(* browser tabs (lib/StateBroadcaster.js, routes/state.js) and the         *)
(* connections of an account (lib/SessionManager.js, seen only as open or  *)
(* closed).  Sign-ins are rows that utils/sessionAuth.js creates, resolves *)
(* and revokes; revoking a row must close its sockets, and an account left *)
(* without rows must lose its connections.  Accounts are locked and        *)
(* deleted meanwhile (controllers/account.js).                             *)
(*                                                                         *)
(* Each handler is cut at its awaits.  A use of a sign-in (a tab's socket  *)
(* or a connection) is "asked" when the row was found, "resolved" when the *)
(* account was found unlocked, and opens after one more await.  Requests   *)
(* with an API token open connections without a sign-in and are left out.  *)
(*                                                                         *)
(* Bounds: every sign-in, tab and connection identifier serves once; a     *)
(* revocation identifier serves again when its request has ended; a second *)
(* deletion of an account waits for the first to close its connections.    *)
(***************************************************************************)
EXTENDS FiniteSets

CONSTANTS Users,        \* accounts
          SignInIds,    \* rows of the sessions table
          Tabs,         \* state sockets
          Connections,  \* server connections
          Revocations,  \* revocations under way at once
          Free          \* no account, no sign-in

ASSUME IdsApart == /\ Tabs \cap Connections = {} /\ Users \cap Revocations = {}
                   /\ Free \notin Users /\ Free \notin SignInIds

Uses == Tabs \cup Connections

VARIABLES account,    \* "ok", "locked" or "gone"
          deleting,   \* accounts whose deletion logged them out
          signIn,     \* the rows
          use,        \* sockets and connections
          byAccount,  \* sockets in StateBroadcaster.connections
          bySignIn,   \* sockets in StateBroadcaster.sessionIndex
          rev,        \* revocations under way
          left,       \* connections that a revocation or deletion has yet to close
          late        \* history: opened when nothing was left to close it

siVars == <<account, deleting, signIn, use, byAccount, bySignIn, rev, left, late>>

Live(u) == {s \in SignInIds : signIn[s].at = "live" /\ signIn[s].of = u}
IsLive(s) == signIn[s].at = "live"
Owner(x) == signIn[use[x].by].of
OpenOf(u) == {c \in Connections : use[c].at = "open" /\ Owner(c) = u}

NoUse == [at |-> "none", by |-> Free, dead |-> FALSE]
NoRevocation == [at |-> "idle", ids |-> {}, todo |-> {}, now |-> Free]
Found(ids) == [NoRevocation EXCEPT !.at = "found", !.ids = ids]

UseRecord == [at : {"none", "asked", "resolved", "open", "closing", "closed"},
              by : SignInIds \cup {Free}, dead : BOOLEAN]
RevocationRecord == [at : {"idle", "locked", "found", "destroyed", "counting", "removing", "closing"},
                     ids : SUBSET SignInIds, todo : SUBSET Users, now : Users \cup {Free}]

SignInsTypeOK ==
    /\ account \in [Users -> {"ok", "locked", "gone"}]
    /\ deleting \subseteq Users
    /\ signIn \in [SignInIds -> [at : {"none", "verified", "live", "ended"}, of : Users \cup {Free}]]
    /\ use \in [Uses -> UseRecord]
    /\ byAccount \subseteq Tabs
    /\ bySignIn \subseteq byAccount
    /\ rev \in [Revocations -> RevocationRecord]
    /\ left \in [Revocations \cup Users -> SUBSET Connections]
    /\ late \subseteq Uses

NoSignIn == [at |-> "none", of |-> Free]

(* a process starts with the rows that earlier ones left *)
SignInsInit ==
    /\ account = [u \in Users |-> "ok"]
    /\ deleting = {}
    /\ signIn \in [SignInIds -> {NoSignIn} \cup [at : {"live"}, of : Users]]
    /\ use = [x \in Uses |-> NoUse]
    /\ byAccount = {}
    /\ bySignIn = {}
    /\ rev = [r \in Revocations |-> NoRevocation]
    /\ left = [k \in Revocations \cup Users |-> {}]
    /\ late = {}

(***************************************************************************)
(* Signing in: credentials are verified and the lock looked at, then the   *)
(* row is created.  No foreign key ties it to the account.                 *)
(***************************************************************************)

Verify(s) ==
    /\ signIn[s].at = "none"
    /\ \E u \in Users : /\ account[u] = "ok"
                        /\ signIn' = [signIn EXCEPT ![s] = [at |-> "verified", of |-> u]]
    /\ UNCHANGED <<account, deleting, use, byAccount, bySignIn, rev, left, late>>

CreateSignIn(s) ==
    /\ signIn[s].at = "verified"
    /\ signIn' = [signIn EXCEPT ![s].at = "live"]
    /\ UNCHANGED <<account, deleting, use, byAccount, bySignIn, rev, left, late>>

(***************************************************************************)
(* resolveSession, then what it was resolved for.                          *)
(***************************************************************************)

SetUse(x, record) ==
    /\ use' = [use EXCEPT ![x] = record]
    /\ UNCHANGED <<account, deleting, signIn, left>>

FindRow(x) ==
    /\ use[x].at = "none"
    /\ \E s \in SignInIds : IsLive(s) /\ SetUse(x, [NoUse EXCEPT !.at = "asked", !.by = s])
    /\ UNCHANGED <<byAccount, bySignIn, rev, late>>

(* the account is there and not locked *)
FindAccount(x) ==
    /\ use[x].at = "asked" /\ account[Owner(x)] = "ok"
    /\ SetUse(x, [use[x] EXCEPT !.at = "resolved"])
    /\ UNCHANGED <<byAccount, bySignIn, rev, late>>

(* no account, or one locked or a row expired: those revoke the row first *)
Refuse(x) ==
    /\ use[x].at = "asked"
    /\ SetUse(x, [NoUse EXCEPT !.at = "closed", !.by = use[x].by])
    /\ \/ account[Owner(x)] = "gone" /\ UNCHANGED rev
       \/ \E r \in Revocations :
             /\ rev[r] = NoRevocation
             /\ rev' = [rev EXCEPT ![r] = Found({use[x].by})]
    /\ UNCHANGED <<byAccount, bySignIn, late>>

(* register: into both indexes, even a socket that closed meanwhile, whose *)
(* close event has passed.                                                 *)
Register(t) ==
    /\ use[t].at = "resolved"
    /\ SetUse(t, [use[t] EXCEPT !.at = IF use[t].dead THEN "closed" ELSE "open"])
    /\ byAccount' = byAccount \cup {t}
    /\ bySignIn' = bySignIn \cup {t}
    /\ late' = IF ~IsLive(use[t].by) \/ Owner(t) \in deleting THEN late \cup {t} ELSE late
    /\ UNCHANGED rev

(* createSession lists the connection after several more awaits *)
Connect(c) ==
    /\ use[c].at = "resolved"
    /\ SetUse(c, [use[c] EXCEPT !.at = "open"])
    /\ late' = IF Live(Owner(c)) = {} \/ Owner(c) \in deleting THEN late \cup {c} ELSE late
    /\ UNCHANGED <<byAccount, bySignIn, rev>>

Disconnect(c) ==
    /\ use[c].at = "open"
    /\ SetUse(c, [use[c] EXCEPT !.at = "closed"])
    /\ UNCHANGED <<byAccount, bySignIn, rev, late>>

(* mutated: the index of sign-ins is not looked at *)
UnregisterBug(t) == byAccount' = byAccount \ {t} /\ bySignIn' = bySignIn

(* a socket that is no longer found by account is left alone *)
Unregister(t) ==
    /\ byAccount' = byAccount \ {t}
    /\ bySignIn' = bySignIn \ (byAccount \cap {t})

(* the close event of a socket *)
SocketCloses(t) ==
    \/ /\ use[t].at \in {"open", "closing"}
       /\ SetUse(t, [use[t] EXCEPT !.at = "closed"])
       /\ Unregister(t)
       /\ UNCHANGED <<rev, late>>
    \/ /\ use[t].at \in {"asked", "resolved"} /\ ~use[t].dead
       /\ SetUse(t, [use[t] EXCEPT !.dead = TRUE])
       /\ UNCHANGED <<byAccount, bySignIn, rev, late>>

(***************************************************************************)
(* Revoking: the rows found are destroyed, their sockets closed in the     *)
(* same tick, and then each account that owned one of them is counted.     *)
(***************************************************************************)

SetRev(r, record) ==
    /\ rev' = [rev EXCEPT ![r] = record]
    /\ UNCHANGED <<deleting, byAccount, bySignIn, late>>

(* Signing out, ending one device or all others, a new password, the sweep *)
(* of expired rows: each finds some rows.                                  *)
FindRows(r) ==
    /\ rev[r] = NoRevocation
    /\ \E ids \in SUBSET {s \in SignInIds : IsLive(s)} :
          ids # {} /\ SetRev(r, Found(ids))
    /\ UNCHANGED <<account, signIn, use, left>>

Lock(r) ==
    /\ rev[r] = NoRevocation
    /\ \E u \in Users : /\ account[u] = "ok"
                        /\ account' = [account EXCEPT ![u] = "locked"]
                        /\ SetRev(r, [NoRevocation EXCEPT !.at = "locked", !.todo = {u}])
    /\ UNCHANGED <<signIn, use, left>>

Unlock(u) ==
    /\ account[u] = "locked"
    /\ account' = [account EXCEPT ![u] = "ok"]
    /\ UNCHANGED <<deleting, signIn, use, byAccount, bySignIn, rev, left, late>>

FindLocked(r) ==
    /\ rev[r].at = "locked"
    /\ LET ids == UNION {Live(u) : u \in rev[r].todo}
       IN SetRev(r, IF ids = {} THEN NoRevocation ELSE Found(ids))
    /\ UNCHANGED <<account, signIn, use, left>>

(* mutated: the rows go, their sockets stay *)
DestroyRowsBug(r) ==
    /\ rev[r].at = "found"
    /\ signIn' = [s \in SignInIds |-> IF s \in rev[r].ids THEN [signIn[s] EXCEPT !.at = "ended"] ELSE signIn[s]]
    /\ SetRev(r, [rev[r] EXCEPT !.at = "counting", !.todo = {signIn[s].of : s \in rev[r].ids}])
    /\ UNCHANGED <<account, use, left>>

DestroyRows(r) ==
    /\ rev[r].at = "found"
    /\ signIn' = [s \in SignInIds |-> IF s \in rev[r].ids THEN [signIn[s] EXCEPT !.at = "ended"] ELSE signIn[s]]
    /\ SetRev(r, [rev[r] EXCEPT !.at = "destroyed"])
    /\ UNCHANGED <<account, use, left>>

(* forceLogoutSession of every row: its sockets close and leave that index *)
Indexed(ids) == {t \in bySignIn : use[t].by \in ids}
Shut(ts) == [x \in Uses |-> IF x \in ts /\ use[x].at = "open" THEN [use[x] EXCEPT !.at = "closing"] ELSE use[x]]

LogOutSockets(r) ==
    /\ rev[r].at = "destroyed"
    /\ use' = Shut(Indexed(rev[r].ids))
    /\ bySignIn' = bySignIn \ Indexed(rev[r].ids)
    /\ rev' = [rev EXCEPT ![r] = [@ EXCEPT !.at = "counting", !.todo = {signIn[s].of : s \in rev[r].ids}]]
    /\ UNCHANGED <<account, deleting, signIn, byAccount, left, late>>

NextAccount(record, u) ==
    IF record.todo = {u} THEN NoRevocation
    ELSE [record EXCEPT !.at = "counting", !.todo = @ \ {u}, !.now = Free]

Count(r) ==
    /\ rev[r].at = "counting"
    /\ \E u \in rev[r].todo :
          SetRev(r, IF Live(u) = {} THEN [rev[r] EXCEPT !.at = "removing", !.now = u]
                    ELSE NextAccount(rev[r], u))
    /\ UNCHANGED <<account, signIn, use, left>>

(* removeAllByAccountId lists the connections at once and removes one after *)
(* the other, each when the one before is gone.  A removal under way or     *)
(* done by somebody else is waited for.                                     *)
RemoveNext(k, cs, uses) ==
    \/ cs = {} /\ use' = uses /\ left' = [left EXCEPT ![k] = {}]
    \/ \E c \in cs : /\ use' = [uses EXCEPT ![c].at = IF @ = "open" THEN "closed" ELSE @]
                    /\ left' = [left EXCEPT ![k] = cs \ {c}]

RemoveConnections(r) ==
    /\ \/ rev[r].at = "removing" /\ RemoveNext(r, OpenOf(rev[r].now), use)
       \/ rev[r].at = "closing" /\ RemoveNext(r, left[r], use)
    /\ SetRev(r, IF left'[r] = {} THEN NextAccount(rev[r], rev[r].now)
                 ELSE [rev[r] EXCEPT !.at = "closing"])
    /\ UNCHANGED <<account, signIn>>

(***************************************************************************)
(* Deleting an account: its sockets close in one tick, its connections one *)
(* after the other; the transaction that removes the rows comes later.     *)
(***************************************************************************)

(* mutated: deleting an account leaves its connections to the sweep *)
BeginDeletionBug(u) ==
    /\ account[u] # "gone" /\ left[u] = {}
    /\ deleting' = deleting \cup {u}
    /\ LET ts == {t \in byAccount : Owner(t) = u}
       IN /\ use' = Shut(ts)
          /\ byAccount' = byAccount \ ts
          /\ bySignIn' = bySignIn \ ts
    /\ UNCHANGED <<account, signIn, rev, left, late>>

BeginDeletion(u) ==
    /\ account[u] # "gone" /\ left[u] = {}
    /\ deleting' = deleting \cup {u}
    /\ LET ts == {t \in byAccount : Owner(t) = u}
       IN /\ RemoveNext(u, OpenOf(u), Shut(ts))
          /\ byAccount' = byAccount \ ts
          /\ bySignIn' = bySignIn \ ts
    /\ UNCHANGED <<account, signIn, rev, late>>

DeleteConnections(u) ==
    /\ left[u] # {}
    /\ RemoveNext(u, left[u], use)
    /\ UNCHANGED <<account, deleting, signIn, byAccount, bySignIn, rev, late>>

FinishDeletion(u) ==
    /\ u \in deleting /\ account[u] # "gone" /\ left[u] = {}
    /\ account' = [account EXCEPT ![u] = "gone"]
    /\ signIn' = [s \in SignInIds |-> IF s \in Live(u) THEN [signIn[s] EXCEPT !.at = "ended"] ELSE signIn[s]]
    /\ UNCHANGED <<deleting, use, byAccount, bySignIn, rev, left, late>>

SignInStep == \E s \in SignInIds : Verify(s) \/ CreateSignIn(s)
UseStep == \/ \E x \in Uses : FindRow(x) \/ FindAccount(x) \/ Refuse(x)
           \/ \E t \in Tabs : Register(t) \/ SocketCloses(t)
           \/ \E c \in Connections : Connect(c) \/ Disconnect(c)
RevokeStep == \E r \in Revocations :
                 \/ FindRows(r) \/ Lock(r) \/ FindLocked(r) \/ DestroyRows(r)
                 \/ LogOutSockets(r) \/ Count(r) \/ RemoveConnections(r)
AccountStep == \E u \in Users : Unlock(u) \/ BeginDeletion(u) \/ DeleteConnections(u) \/ FinishDeletion(u)

SignInsNext == SignInStep \/ UseStep \/ RevokeStep \/ AccountStep

SignInsSpec == SignInsInit /\ [][SignInsNext]_siVars

(* A revoked sign-in has no open socket: every open state socket can be    *)
(* reached through both indexes of StateBroadcaster, and its row exists,   *)
(* or the revocation that destroyed it closes its sockets next.  Only a    *)
(* socket that was registered too late is missed (resolveSession looked    *)
(* before the row went).                                                   *)
SocketsFollowSignIns ==
    \A t \in Tabs : use[t].at = "open" =>
        /\ t \in byAccount \cap bySignIn
        /\ \/ t \in late
           \/ IsLive(use[t].by)
           \/ \E r \in Revocations : rev[r].at = "destroyed" /\ use[t].by \in rev[r].ids

(* a revocation closes c when it gets there, if no sign-in is left by then *)
WillClose(r, c) ==
    \/ rev[r].at = "destroyed" /\ \E s \in rev[r].ids : signIn[s].of = Owner(c)
    \/ rev[r].at \in {"counting", "removing"} /\ Owner(c) \in rev[r].todo
    \/ rev[r].at = "closing" /\ (c \in left[r] \/ Owner(c) \in rev[r].todo \ {rev[r].now})

(* An account without sign-ins has no connection left but those that a     *)
(* revocation still counting, or one or a deletion still closing them one  *)
(* by one, gets to.  Only a connection opened after the last sign-in or    *)
(* during the deletion of its account is missed.                           *)
ConnectionsFollowSignIns ==
    \A c \in Connections : use[c].at = "open" =>
        \/ c \in late
        \/ Live(Owner(c)) # {}
        \/ c \in left[Owner(c)]
        \/ \E r \in Revocations : WillClose(r, c)

=============================================================================
