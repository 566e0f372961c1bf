------------------------ MODULE AdministrationProofs ------------------------
(***************************************************************************)
(* SignIns keeps its types and both of its safety invariants, and Accounts *)
(* its types and AccountsSound, for any number of accounts, sign-ins,      *)
(* sockets, connections and requests; FileSockets keeps FilesSound for any *)
(* number of file managers of a session.  With the tree of InventoryProofs *)
(* all four keep their types where they are checked side by side.          *)
(***************************************************************************)
EXTENDS MCAdministration, InventoryProofs

----------------------------------------------------------------------------
(* Sign-ins *)

(* every row of the table that was ever made has its account *)
RowsOwned == \A s \in SignInIds : signIn[s].at # "none" => signIn[s].of \in Users

(* what is asked, open or revoked names such a row *)
NamesRows ==
    /\ \A x \in Uses : use[x].at \in {"asked", "resolved", "open"} =>
                          use[x].by \in SignInIds /\ signIn[use[x].by].at # "none"
    /\ \A r \in Revocations : \A s \in rev[r].ids : signIn[s].at # "none"

(* the deletion of an account closed what was open, or has it on its list *)
DeletedLate ==
    \A x \in Uses : use[x].at = "open" /\ Owner(x) \in deleting => x \in late \/ x \in left[Owner(x)]

SignInsInv ==
    /\ SignInsTypeOK /\ RowsOwned /\ NamesRows /\ DeletedLate
    /\ SocketsFollowSignIns /\ ConnectionsFollowSignIns

\* What a close event leaves of sockets and indexes.
LEMMA SocketShape ==
  ASSUME SignInsTypeOK, NEW t \in Tabs, SocketCloses(t)
  PROVE  /\ \A x \in Uses : /\ use'[x].by = use[x].by
                            /\ use'[x].at = use[x].at \/ use'[x].at = "closed"
                            /\ x # t => use'[x] = use[x]
         /\ use'[t].at # "open"
         /\ byAccount \ {t} \subseteq byAccount' /\ bySignIn \ {t} \subseteq bySignIn'
         /\ UNCHANGED <<account, deleting, signIn, rev, left, late>>
<1> USE DEF SignInsTypeOK, UseRecord, SetUse, Uses
<1>1. CASE use[t].at \in {"open", "closing"}
  BY <1>1 DEF SocketCloses, Unregister
<1>2. CASE use[t].at \notin {"open", "closing"}
  <2>1. use' = [use EXCEPT ![t] = [use[t] EXCEPT !.dead = TRUE]]
    BY <1>2 DEF SocketCloses
  <2> QED
    BY <1>2, <2>1 DEF SocketCloses
<1> QED
  BY <1>1, <1>2

(* one step of removing cs from uses, which keeps the list of k *)
Removed(k, cs, uses) ==
    /\ use' \in [Uses -> UseRecord]
    /\ left' \in [Revocations \cup Users -> SUBSET Connections]
    /\ \A x \in Uses : /\ use'[x].by = uses[x].by
                       /\ use'[x].at = uses[x].at \/ use'[x].at = "closed"
                       /\ use'[x].at = "open" => use'[x] = uses[x]
                       /\ x \in cs /\ use'[x].at = "open" => x \in left'[k]
    /\ \A j \in Revocations \cup Users : j # k => left'[j] = left[j]

\* What one step of a removal leaves of the connections and of the lists.
LEMMA RemovalShape ==
  ASSUME SignInsTypeOK, NEW k \in Revocations \cup Users, NEW cs \in SUBSET Connections,
         NEW uses \in [Uses -> UseRecord], RemoveNext(k, cs, uses)
  PROVE  Removed(k, cs, uses)
<1> USE DEF SignInsTypeOK, UseRecord, Uses, Removed
<1>1. CASE cs = {} /\ use' = uses /\ left' = [left EXCEPT ![k] = {}]
  BY <1>1
<1>2. ASSUME NEW c \in cs,
             use' = [uses EXCEPT ![c].at = IF @ = "open" THEN "closed" ELSE @],
             left' = [left EXCEPT ![k] = cs \ {c}]
      PROVE  Removed(k, cs, uses)
  BY <1>2
<1> QED
  BY <1>1, <1>2 DEF RemoveNext

\* Every step keeps the types of sign-ins, sockets, connections and revocations.
LEMMA SignInTypes ==
  ASSUME SignInsTypeOK, RowsOwned, NamesRows, SignInsNext
  PROVE  SignInsTypeOK'
<1> USE DEF SignInsTypeOK
<1>1. ASSUME NEW s \in SignInIds, Verify(s) PROVE SignInsTypeOK'
  BY <1>1 DEF Verify
<1>2. ASSUME NEW s \in SignInIds, CreateSignIn(s) PROVE SignInsTypeOK'
  BY <1>2 DEF CreateSignIn
<1>3. ASSUME NEW x \in Uses, FindRow(x) PROVE SignInsTypeOK'
  <2>1. \A s \in SignInIds : [NoUse EXCEPT !.at = "asked", !.by = s] \in UseRecord
    BY DEF NoUse, UseRecord
  <2> QED
    BY <1>3, <2>1 DEF FindRow, SetUse
<1>4. ASSUME NEW x \in Uses, FindAccount(x) PROVE SignInsTypeOK'
  <2>1. [use[x] EXCEPT !.at = "resolved"] \in UseRecord
    BY DEF UseRecord, Uses
  <2> QED
    BY <1>4, <2>1 DEF FindAccount, SetUse, Uses
<1>5. ASSUME NEW x \in Uses, Refuse(x) PROVE SignInsTypeOK'
  <2>1. [NoUse EXCEPT !.at = "closed", !.by = use[x].by] \in UseRecord
    BY DEF NoUse, UseRecord
  <2>2. use[x].by \in SignInIds
    BY <1>5 DEF NamesRows, Refuse
  <2>3. Found({use[x].by}) \in RevocationRecord
    BY <2>2 DEF Found, NoRevocation, RevocationRecord
  <2> QED
    BY <1>5, <2>1, <2>3 DEF Refuse, SetUse
<1>6. ASSUME NEW t \in Tabs, Register(t) PROVE SignInsTypeOK'
  <2>1. [use[t] EXCEPT !.at = IF use[t].dead THEN "closed" ELSE "open"] \in UseRecord
    BY DEF UseRecord, Uses
  <2> QED
    BY <1>6, <2>1 DEF Register, SetUse, Uses
<1>7. ASSUME NEW t \in Tabs, SocketCloses(t) PROVE SignInsTypeOK'
  <2>1. /\ [use[t] EXCEPT !.at = "closed"] \in UseRecord
        /\ [use[t] EXCEPT !.dead = TRUE] \in UseRecord
    BY DEF UseRecord, Uses
  <2>2. use' \in [Uses -> UseRecord]
    BY <1>7, <2>1 DEF SocketCloses, SetUse
  <2>3. byAccount' \subseteq Tabs /\ bySignIn' \subseteq byAccount'
    BY <1>7 DEF SocketCloses, Unregister
  <2> QED
    BY <1>7, <2>2, <2>3 DEF SocketCloses, SetUse
<1>8. ASSUME NEW c \in Connections, Connect(c) PROVE SignInsTypeOK'
  <2>1. [use[c] EXCEPT !.at = "open"] \in UseRecord
    BY DEF UseRecord, Uses
  <2> QED
    BY <1>8, <2>1 DEF Connect, SetUse, Uses
<1>9. ASSUME NEW c \in Connections, Disconnect(c) PROVE SignInsTypeOK'
  <2>1. [use[c] EXCEPT !.at = "closed"] \in UseRecord
    BY DEF UseRecord, Uses
  <2> QED
    BY <1>9, <2>1 DEF Disconnect, SetUse, Uses
<1>10. ASSUME NEW r \in Revocations, FindRows(r) PROVE SignInsTypeOK'
  <2>1. \E rec \in RevocationRecord : rev' = [rev EXCEPT ![r] = rec]
    BY <1>10 DEF FindRows, SetRev, NoRevocation, Found, RevocationRecord
  <2>2. rev' \in [Revocations -> RevocationRecord]
    BY <2>1
  <2> QED
    BY <1>10, <2>2 DEF FindRows, SetRev, NoRevocation, Found
<1>11. ASSUME NEW r \in Revocations, Lock(r) PROVE SignInsTypeOK'
  <2>1. \E rec \in RevocationRecord : rev' = [rev EXCEPT ![r] = rec]
    BY <1>11, ZenonT(60) DEF Lock, SetRev, NoRevocation, RevocationRecord
  <2>2. rev' \in [Revocations -> RevocationRecord]
    BY <2>1
  <2> QED
    BY <1>11, <2>2 DEF Lock, SetRev, NoRevocation
<1>12. ASSUME NEW r \in Revocations, FindLocked(r) PROVE SignInsTypeOK'
  <2>0. UNION {Live(u) : u \in rev[r].todo} \subseteq SignInIds
    BY DEF Live
  <2>1. Found(UNION {Live(u) : u \in rev[r].todo}) \in RevocationRecord
    BY <2>0 DEF Found, NoRevocation, RevocationRecord
  <2>2. \E rec \in RevocationRecord : rev' = [rev EXCEPT ![r] = rec]
    BY <1>12, <2>1 DEF FindLocked, SetRev, NoRevocation, RevocationRecord
  <2>3. rev' \in [Revocations -> RevocationRecord]
    BY <2>2
  <2> QED
    BY <1>12, <2>3 DEF FindLocked, SetRev
<1>13. ASSUME NEW r \in Revocations, DestroyRows(r) PROVE SignInsTypeOK'
  <2>1. [rev[r] EXCEPT !.at = "destroyed"] \in RevocationRecord
    BY DEF RevocationRecord
  <2> QED
    BY <1>13, <2>1 DEF DestroyRows, SetRev
<1>14. ASSUME NEW r \in Revocations, LogOutSockets(r) PROVE SignInsTypeOK'
  <2>0. {signIn[s].of : s \in rev[r].ids} \subseteq Users
    BY DEF RevocationRecord, RowsOwned, NamesRows
  <2>1. [rev[r] EXCEPT !.at = "counting", !.todo = {signIn[s].of : s \in rev[r].ids}] \in RevocationRecord
    BY <2>0 DEF RevocationRecord
  <2>2. Shut(Indexed(rev[r].ids)) \in [Uses -> UseRecord]
    BY DEF Shut, UseRecord
  <2> QED
    BY <1>14, <2>1, <2>2 DEF LogOutSockets
<1>15. ASSUME NEW r \in Revocations, Count(r) PROVE SignInsTypeOK'
  <2>1. \A u \in Users : [rev[r] EXCEPT !.at = "removing", !.now = u] \in RevocationRecord
    BY DEF RevocationRecord
  <2>2. \A u \in Users : NextAccount(rev[r], u) \in RevocationRecord
    BY DEF NextAccount, NoRevocation, RevocationRecord
  <2>3. PICK u \in Users :
           SetRev(r, IF Live(u) = {} THEN [rev[r] EXCEPT !.at = "removing", !.now = u]
                     ELSE NextAccount(rev[r], u))
    BY <1>15 DEF Count, RevocationRecord
  <2>4. \E rec \in RevocationRecord : rev' = [rev EXCEPT ![r] = rec]
    BY <2>1, <2>2, <2>3 DEF SetRev
  <2>5. rev' \in [Revocations -> RevocationRecord]
    BY <2>4
  <2> QED
    BY <1>15, <2>3, <2>5 DEF Count, SetRev
<1>16. ASSUME NEW r \in Revocations, RemoveConnections(r) PROVE SignInsTypeOK'
  <2>1. NextAccount(rev[r], rev[r].now) \in RevocationRecord
    BY DEF NextAccount, NoRevocation, RevocationRecord
  <2>2. [rev[r] EXCEPT !.at = "closing"] \in RevocationRecord
    BY DEF RevocationRecord
  <2>3. \E cs \in SUBSET Connections : Removed(r, cs, use)
    BY <1>16, RemovalShape DEF RemoveConnections, OpenOf
  <2>4. /\ use' \in [Uses -> UseRecord]
        /\ left' \in [Revocations \cup Users -> SUBSET Connections]
    BY <2>3 DEF Removed
  <2>5. \E rec \in RevocationRecord : rev' = [rev EXCEPT ![r] = rec]
    BY <1>16, <2>1, <2>2 DEF RemoveConnections, SetRev
  <2>6. rev' \in [Revocations -> RevocationRecord]
    BY <2>5
  <2> QED
    BY <1>16, <2>4, <2>6 DEF RemoveConnections, SetRev
<1>17. ASSUME NEW u \in Users, Unlock(u) PROVE SignInsTypeOK'
  BY <1>17 DEF Unlock
<1>18. ASSUME NEW u \in Users, BeginDeletion(u) PROVE SignInsTypeOK'
  <2> DEFINE ts == {t \in byAccount : Owner(t) = u}
  <2>1. Shut(ts) \in [Uses -> UseRecord]
    BY DEF Shut, UseRecord
  <2>2. Removed(u, OpenOf(u), Shut(ts))
    BY <1>18, <2>1, RemovalShape DEF BeginDeletion, OpenOf
  <2>3. /\ use' \in [Uses -> UseRecord]
        /\ left' \in [Revocations \cup Users -> SUBSET Connections]
    BY <2>1, <2>2 DEF Removed
  <2> QED
    BY <1>18, <2>3 DEF BeginDeletion
<1>19. ASSUME NEW u \in Users, FinishDeletion(u) PROVE SignInsTypeOK'
  BY <1>19 DEF FinishDeletion, Live
<1>20. ASSUME NEW u \in Users, DeleteConnections(u) PROVE SignInsTypeOK'
  <2>0. Removed(u, left[u], use)
    BY <1>20, RemovalShape DEF DeleteConnections
  <2>1. /\ use' \in [Uses -> UseRecord]
        /\ left' \in [Revocations \cup Users -> SUBSET Connections]
    BY <2>0 DEF Removed
  <2> QED
    BY <1>20, <2>1 DEF DeleteConnections
<1> QED
  BY <1>1, <1>2, <1>3, <1>4, <1>5, <1>6, <1>7, <1>8, <1>9, <1>10,
     <1>11, <1>12, <1>13, <1>14, <1>15, <1>16, <1>17, <1>18, <1>19, <1>20
  DEF SignInsNext, SignInStep, UseStep, RevokeStep, AccountStep

\* What is asked, open or revoked has a row of the table, which keeps its account.
LEMMA SignInNames ==
  ASSUME SignInsTypeOK, RowsOwned, NamesRows, SignInsNext
  PROVE  RowsOwned' /\ NamesRows'
<1> USE DEF SignInsTypeOK, RowsOwned, NamesRows
<1>1. ASSUME NEW s \in SignInIds, Verify(s) PROVE RowsOwned' /\ NamesRows'
  BY <1>1 DEF Verify
<1>2. ASSUME NEW s \in SignInIds, CreateSignIn(s) PROVE RowsOwned' /\ NamesRows'
  BY <1>2 DEF CreateSignIn
<1>3. ASSUME NEW x \in Uses, FindRow(x) PROVE RowsOwned' /\ NamesRows'
  BY <1>3 DEF FindRow, SetUse, NoUse, IsLive
<1>4. ASSUME NEW x \in Uses, FindAccount(x) PROVE RowsOwned' /\ NamesRows'
  BY <1>4 DEF FindAccount, SetUse
<1>5. ASSUME NEW x \in Uses, Refuse(x) PROVE RowsOwned' /\ NamesRows'
  <2>1. use[x].by \in SignInIds /\ signIn[use[x].by].at # "none"
    BY <1>5 DEF Refuse
  <2>2. \A q \in Revocations : rev'[q].ids = rev[q].ids \/ rev'[q].ids = {use[x].by}
    BY <1>5, ZenonT(60) DEF Refuse, Found, NoRevocation
  <2>3. \A y \in Uses : use'[y].at \in {"asked", "resolved", "open"} => y # x
    BY <1>5 DEF Refuse, SetUse, NoUse
  <2> QED
    BY <1>5, <2>1, <2>2, <2>3 DEF Refuse, SetUse
<1>6. ASSUME NEW t \in Tabs, Register(t) PROVE RowsOwned' /\ NamesRows'
  BY <1>6 DEF Register, SetUse, Owner, IsLive
<1>7. ASSUME NEW t \in Tabs, SocketCloses(t) PROVE RowsOwned' /\ NamesRows'
  BY <1>7, SocketShape DEF Uses
<1>8. ASSUME NEW c \in Connections, Connect(c) PROVE RowsOwned' /\ NamesRows'
  BY <1>8 DEF Connect, SetUse, Owner, Live
<1>9. ASSUME NEW c \in Connections, Disconnect(c) PROVE RowsOwned' /\ NamesRows'
  BY <1>9 DEF Disconnect, SetUse
<1>10. ASSUME NEW r \in Revocations, FindRows(r) PROVE RowsOwned' /\ NamesRows'
  BY <1>10 DEF FindRows, SetRev, NoRevocation, Found, IsLive
<1>11. ASSUME NEW r \in Revocations, Lock(r) PROVE RowsOwned' /\ NamesRows'
  BY <1>11 DEF Lock, SetRev, NoRevocation
<1>12. ASSUME NEW r \in Revocations, FindLocked(r) PROVE RowsOwned' /\ NamesRows'
  BY <1>12 DEF FindLocked, SetRev, NoRevocation, Found, Live
<1>13. ASSUME NEW r \in Revocations, DestroyRows(r) PROVE RowsOwned' /\ NamesRows'
  <2>1. /\ \A s \in SignInIds : /\ signIn'[s].of = signIn[s].of
                                /\ signIn'[s].at = signIn[s].at \/ (signIn[s].at # "none" /\ signIn'[s].at = "ended")
        /\ use' = use /\ \A q \in Revocations : rev'[q].ids = rev[q].ids
    BY <1>13 DEF DestroyRows, SetRev, RevocationRecord
  <2>2. RowsOwned'
    BY <2>1
  <2>3. NamesRows'
    BY <2>1 DEF RevocationRecord
  <2> QED
    BY <2>2, <2>3
<1>14. ASSUME NEW r \in Revocations, LogOutSockets(r) PROVE RowsOwned' /\ NamesRows'
  BY <1>14 DEF LogOutSockets, Indexed, Shut
<1>15. ASSUME NEW r \in Revocations, Count(r) PROVE RowsOwned' /\ NamesRows'
  BY <1>15 DEF Count, SetRev, NextAccount, NoRevocation
<1>16. ASSUME NEW r \in Revocations, RemoveConnections(r) PROVE RowsOwned' /\ NamesRows'
  <2>1. \E cs \in SUBSET Connections : Removed(r, cs, use)
    BY <1>16, RemovalShape DEF RemoveConnections, OpenOf
  <2>2. \A x \in Uses : use'[x].by = use[x].by /\ (use'[x].at = use[x].at \/ use'[x].at = "closed")
    BY <2>1 DEF Removed
  <2>3. \A q \in Revocations : rev'[q].ids \subseteq rev[q].ids
    BY <1>16 DEF RemoveConnections, SetRev, NextAccount, NoRevocation, RevocationRecord
  <2> QED
    BY <1>16, <2>2, <2>3 DEF RemoveConnections
<1>17. ASSUME NEW u \in Users, Unlock(u) PROVE RowsOwned' /\ NamesRows'
  BY <1>17 DEF Unlock
<1>18. ASSUME NEW u \in Users, BeginDeletion(u) PROVE RowsOwned' /\ NamesRows'
  <2> DEFINE ts == {t \in byAccount : Owner(t) = u}
  <2>1. /\ Shut(ts) \in [Uses -> UseRecord]
        /\ \A x \in Uses : /\ Shut(ts)[x].by = use[x].by
                           /\ Shut(ts)[x].at = use[x].at \/ Shut(ts)[x].at = "closing"
    BY DEF Shut, UseRecord
  <2>2. Removed(u, OpenOf(u), Shut(ts))
    BY <1>18, <2>1, RemovalShape DEF BeginDeletion, OpenOf
  <2>3. \A x \in Uses : /\ use'[x].by = Shut(ts)[x].by
                        /\ use'[x].at = Shut(ts)[x].at \/ use'[x].at = "closed"
    BY <2>1, <2>2 DEF Removed
  <2>4. \A x \in Uses : use'[x].by = use[x].by /\ (use'[x].at = use[x].at \/ use'[x].at \in {"closing", "closed"})
    BY <2>1, <2>3
  <2> QED
    BY <1>18, <2>4 DEF BeginDeletion
<1>19. ASSUME NEW u \in Users, FinishDeletion(u) PROVE RowsOwned' /\ NamesRows'
  <2>1. /\ \A s \in SignInIds : /\ signIn'[s].of = signIn[s].of
                                /\ signIn'[s].at = signIn[s].at \/ (signIn[s].at # "none" /\ signIn'[s].at = "ended")
        /\ use' = use /\ \A q \in Revocations : rev'[q].ids = rev[q].ids
    BY <1>19 DEF FinishDeletion, Live
  <2>2. RowsOwned'
    BY <2>1
  <2>3. NamesRows'
    BY <2>1 DEF RevocationRecord
  <2> QED
    BY <2>2, <2>3
<1>20. ASSUME NEW u \in Users, DeleteConnections(u) PROVE RowsOwned' /\ NamesRows'
  <2>0. Removed(u, left[u], use)
    BY <1>20, RemovalShape DEF DeleteConnections
  <2>1. \A x \in Uses : use'[x].by = use[x].by /\ (use'[x].at = use[x].at \/ use'[x].at = "closed")
    BY <2>0 DEF Removed
  <2> QED
    BY <1>20, <2>1 DEF DeleteConnections
<1> QED
  BY <1>1, <1>2, <1>3, <1>4, <1>5, <1>6, <1>7, <1>8, <1>9, <1>10,
     <1>11, <1>12, <1>13, <1>14, <1>15, <1>16, <1>17, <1>18, <1>19, <1>20
  DEF SignInsNext, SignInStep, UseStep, RevokeStep, AccountStep

\* While an account is deleted, what is open in its name was opened too late or
\* is on the list of connections that the deletion has yet to close.
LEMMA SignInDeleted ==
  ASSUME SignInsInv, SignInsNext
  PROVE  DeletedLate'
<1> USE DEF SignInsInv, SignInsTypeOK, RowsOwned, NamesRows, DeletedLate, Owner, Uses
<1>1. ASSUME NEW s \in SignInIds, Verify(s) PROVE DeletedLate'
  BY <1>1 DEF Verify
<1>2. ASSUME NEW s \in SignInIds, CreateSignIn(s) PROVE DeletedLate'
  BY <1>2 DEF CreateSignIn
<1>3. ASSUME NEW x \in Uses, FindRow(x) PROVE DeletedLate'
  BY <1>3 DEF FindRow, SetUse, NoUse, IsLive
<1>4. ASSUME NEW x \in Uses, FindAccount(x) PROVE DeletedLate'
  BY <1>4 DEF FindAccount, SetUse
<1>5. ASSUME NEW x \in Uses, Refuse(x) PROVE DeletedLate'
  BY <1>5 DEF Refuse, SetUse, NoUse, NoRevocation, Found
<1>6. ASSUME NEW t \in Tabs, Register(t) PROVE DeletedLate'
  BY <1>6 DEF Register, SetUse, IsLive
<1>7. ASSUME NEW t \in Tabs, SocketCloses(t) PROVE DeletedLate'
  BY <1>7, SocketShape
<1>8. ASSUME NEW c \in Connections, Connect(c) PROVE DeletedLate'
  BY <1>8 DEF Connect, SetUse, Live
<1>9. ASSUME NEW c \in Connections, Disconnect(c) PROVE DeletedLate'
  BY <1>9 DEF Disconnect, SetUse
<1>10. ASSUME NEW r \in Revocations, FindRows(r) PROVE DeletedLate'
  BY <1>10 DEF FindRows, SetRev, NoRevocation, Found, IsLive
<1>11. ASSUME NEW r \in Revocations, Lock(r) PROVE DeletedLate'
  BY <1>11 DEF Lock, SetRev, NoRevocation
<1>12. ASSUME NEW r \in Revocations, FindLocked(r) PROVE DeletedLate'
  BY <1>12 DEF FindLocked, SetRev, NoRevocation, Found, Live
<1>13. ASSUME NEW r \in Revocations, DestroyRows(r) PROVE DeletedLate'
  <2>1. \A s \in SignInIds : signIn'[s].of = signIn[s].of
    BY <1>13 DEF DestroyRows
  <2>2. UNCHANGED <<use, deleting, left, late>>
    BY <1>13 DEF DestroyRows, SetRev
  <2> QED
    BY <2>1, <2>2
<1>14. ASSUME NEW r \in Revocations, LogOutSockets(r) PROVE DeletedLate'
  BY <1>14 DEF LogOutSockets, Indexed, Shut
<1>15. ASSUME NEW r \in Revocations, Count(r) PROVE DeletedLate'
  BY <1>15 DEF Count, SetRev, NextAccount, NoRevocation
<1>16. ASSUME NEW r \in Revocations, RemoveConnections(r) PROVE DeletedLate'
  <2>1. \E cs \in SUBSET Connections : Removed(r, cs, use)
    BY <1>16, RemovalShape DEF RemoveConnections, OpenOf
  <2>2. /\ \A x \in Uses : use'[x].at = "open" => use'[x] = use[x]
        /\ \A u \in Users : left'[u] = left[u]
    BY IdsApart, <2>1 DEF Removed
  <2> QED
    BY <1>16, <2>2 DEF RemoveConnections, SetRev
<1>17. ASSUME NEW u \in Users, Unlock(u) PROVE DeletedLate'
  BY <1>17 DEF Unlock
<1>18. ASSUME NEW u \in Users, BeginDeletion(u) PROVE DeletedLate'
  <2> DEFINE ts == {t \in byAccount : Owner(t) = u}
  <2>1. /\ Shut(ts) \in [Uses -> UseRecord]
        /\ \A x \in Uses : Shut(ts)[x].at = "open" => Shut(ts)[x] = use[x] /\ x \notin ts
    BY DEF Shut, UseRecord
  <2>2. Removed(u, OpenOf(u), Shut(ts))
    BY <1>18, <2>1, RemovalShape DEF BeginDeletion, OpenOf
  <2>3. /\ \A x \in Uses : use'[x].at = "open" => use'[x] = Shut(ts)[x] /\ (x \in OpenOf(u) => x \in left'[u])
        /\ \A v \in Users : v # u => left'[v] = left[v]
    BY <2>1, <2>2 DEF Removed
  <2>4. \A x \in Uses : use'[x].at = "open" => use'[x] = use[x] /\ x \notin ts
    BY <2>1, <2>3
  <2>5. UNCHANGED <<signIn, late>> /\ deleting' = deleting \cup {u}
    BY <1>18 DEF BeginDeletion
  <2>6. ASSUME NEW x \in Uses, use'[x].at = "open", Owner(x) = u PROVE x \in left'[u]
    <3>1. CASE x \in Tabs
      BY <2>4, <2>6, <3>1 DEF SocketsFollowSignIns
    <3>2. CASE x \in Connections
      BY <2>3, <2>4, <2>6, <3>2 DEF OpenOf
    <3> QED
      BY <3>1, <3>2
  <2> QED
    BY <2>3, <2>4, <2>5, <2>6
<1>19. ASSUME NEW u \in Users, FinishDeletion(u) PROVE DeletedLate'
  <2>1. \A s \in SignInIds : signIn'[s].of = signIn[s].of
    BY <1>19 DEF FinishDeletion, Live
  <2>2. UNCHANGED <<use, deleting, left, late>>
    BY <1>19 DEF FinishDeletion
  <2> QED
    BY <2>1, <2>2
<1>20. ASSUME NEW u \in Users, DeleteConnections(u) PROVE DeletedLate'
  <2>0. Removed(u, left[u], use)
    BY <1>20, RemovalShape DEF DeleteConnections
  <2>1. /\ \A x \in Uses : use'[x].at = "open" => use'[x] = use[x] /\ (x \in left[u] => x \in left'[u])
        /\ \A v \in Users : v # u => left'[v] = left[v]
    BY <2>0 DEF Removed
  <2> QED
    BY <1>20, <2>1 DEF DeleteConnections
<1> QED
  BY <1>1, <1>2, <1>3, <1>4, <1>5, <1>6, <1>7, <1>8, <1>9, <1>10,
     <1>11, <1>12, <1>13, <1>14, <1>15, <1>16, <1>17, <1>18, <1>19, <1>20
  DEF SignInsNext, SignInStep, UseStep, RevokeStep, AccountStep

\* Every step keeps SocketsFollowSignIns.
LEMMA SignInSockets ==
  ASSUME SignInsInv, SignInsNext
  PROVE  SocketsFollowSignIns'
<1> USE IdsApart DEF SignInsInv, SignInsTypeOK, RowsOwned, NamesRows, DeletedLate,
            SocketsFollowSignIns, Owner, IsLive, Uses
<1>1. ASSUME NEW s \in SignInIds, Verify(s) PROVE SocketsFollowSignIns'
  BY <1>1 DEF Verify
<1>2. ASSUME NEW s \in SignInIds, CreateSignIn(s) PROVE SocketsFollowSignIns'
  BY <1>2 DEF CreateSignIn
<1>3. ASSUME NEW x \in Uses, FindRow(x) PROVE SocketsFollowSignIns'
  BY <1>3 DEF FindRow, SetUse, NoUse
<1>4. ASSUME NEW x \in Uses, FindAccount(x) PROVE SocketsFollowSignIns'
  BY <1>4 DEF FindAccount, SetUse
<1>5. ASSUME NEW x \in Uses, Refuse(x) PROVE SocketsFollowSignIns'
  BY <1>5 DEF Refuse, SetUse, NoUse, NoRevocation, Found
<1>6. ASSUME NEW t \in Tabs, Register(t) PROVE SocketsFollowSignIns'
  BY <1>6 DEF Register, SetUse
<1>7. ASSUME NEW t \in Tabs, SocketCloses(t) PROVE SocketsFollowSignIns'
  BY <1>7, SocketShape
<1>8. ASSUME NEW c \in Connections, Connect(c) PROVE SocketsFollowSignIns'
  BY <1>8 DEF Connect, SetUse, Live
<1>9. ASSUME NEW c \in Connections, Disconnect(c) PROVE SocketsFollowSignIns'
  BY <1>9 DEF Disconnect, SetUse
<1>10. ASSUME NEW r \in Revocations, FindRows(r) PROVE SocketsFollowSignIns'
  BY <1>10 DEF FindRows, SetRev, NoRevocation, Found
<1>11. ASSUME NEW r \in Revocations, Lock(r) PROVE SocketsFollowSignIns'
  BY <1>11 DEF Lock, SetRev, NoRevocation
<1>12. ASSUME NEW r \in Revocations, FindLocked(r) PROVE SocketsFollowSignIns'
  BY <1>12 DEF FindLocked, SetRev, NoRevocation, Found, Live
<1>13. ASSUME NEW r \in Revocations, DestroyRows(r) PROVE SocketsFollowSignIns'
  BY <1>13 DEF DestroyRows, SetRev
<1>14. ASSUME NEW r \in Revocations, LogOutSockets(r) PROVE SocketsFollowSignIns'
  BY <1>14 DEF LogOutSockets, Indexed, Shut
<1>15. ASSUME NEW r \in Revocations, Count(r) PROVE SocketsFollowSignIns'
  BY <1>15 DEF Count, SetRev, NextAccount, NoRevocation
<1>16. ASSUME NEW r \in Revocations, RemoveConnections(r) PROVE SocketsFollowSignIns'
  <2>1. \E cs \in SUBSET Connections : Removed(r, cs, use)
    BY <1>16, RemovalShape DEF RemoveConnections, OpenOf
  <2>2. \A x \in Uses : use'[x].at = "open" => use'[x] = use[x]
    BY <2>1 DEF Removed
  <2>3. \A q \in Revocations : rev[q].at = "destroyed" => rev'[q] = rev[q]
    BY <1>16 DEF RemoveConnections, SetRev
  <2> QED
    BY <1>16, <2>2, <2>3 DEF RemoveConnections, SetRev
<1>17. ASSUME NEW u \in Users, Unlock(u) PROVE SocketsFollowSignIns'
  BY <1>17 DEF Unlock
<1>18. ASSUME NEW u \in Users, BeginDeletion(u) PROVE SocketsFollowSignIns'
  <2> DEFINE ts == {t \in byAccount : Owner(t) = u}
  <2>1. /\ Shut(ts) \in [Uses -> UseRecord]
        /\ \A x \in Uses : Shut(ts)[x].at = "open" => Shut(ts)[x] = use[x] /\ x \notin ts
    BY DEF Shut, UseRecord
  <2>2. Removed(u, OpenOf(u), Shut(ts))
    BY <1>18, <2>1, RemovalShape DEF BeginDeletion, OpenOf
  <2>3. \A x \in Uses : use'[x].at = "open" => use'[x] = Shut(ts)[x]
    BY <2>1, <2>2 DEF Removed
  <2>4. \A x \in Uses : use'[x].at = "open" => use'[x] = use[x] /\ x \notin ts
    BY <2>1, <2>3
  <2> QED
    BY <1>18, <2>4 DEF BeginDeletion
<1>19. ASSUME NEW u \in Users, FinishDeletion(u) PROVE SocketsFollowSignIns'
  BY <1>19 DEF FinishDeletion, Live
<1>20. ASSUME NEW u \in Users, DeleteConnections(u) PROVE SocketsFollowSignIns'
  <2>0. Removed(u, left[u], use)
    BY <1>20, RemovalShape DEF DeleteConnections
  <2>1. \A x \in Uses : use'[x].at = "open" => use'[x] = use[x]
    BY <2>0 DEF Removed
  <2> QED
    BY <1>20, <2>1 DEF DeleteConnections
<1> QED
  BY <1>1, <1>2, <1>3, <1>4, <1>5, <1>6, <1>7, <1>8, <1>9, <1>10,
     <1>11, <1>12, <1>13, <1>14, <1>15, <1>16, <1>17, <1>18, <1>19, <1>20
  DEF SignInsNext, SignInStep, UseStep, RevokeStep, AccountStep

\* Every step keeps ConnectionsFollowSignIns.
LEMMA SignInConnections ==
  ASSUME SignInsInv, SignInsNext
  PROVE  ConnectionsFollowSignIns'
<1> USE DEF SignInsInv, SignInsTypeOK, RowsOwned, NamesRows, ConnectionsFollowSignIns
<1>1. ASSUME NEW s \in SignInIds, Verify(s) PROVE ConnectionsFollowSignIns'
  BY <1>1, SMTT(30) DEF Verify, Owner, Live, WillClose, Uses
<1>2. ASSUME NEW s \in SignInIds, CreateSignIn(s) PROVE ConnectionsFollowSignIns'
  BY <1>2 DEF CreateSignIn, Owner, Live, WillClose, Uses
<1>3. ASSUME NEW x \in Uses, FindRow(x) PROVE ConnectionsFollowSignIns'
  BY <1>3 DEF FindRow, SetUse, NoUse, IsLive, Owner, Live, WillClose, Uses
<1>4. ASSUME NEW x \in Uses, FindAccount(x) PROVE ConnectionsFollowSignIns'
  BY <1>4 DEF FindAccount, SetUse, Owner, Live, WillClose, Uses
<1>5. ASSUME NEW x \in Uses, Refuse(x) PROVE ConnectionsFollowSignIns'
  BY <1>5 DEF Refuse, SetUse, NoUse, NoRevocation, Found, Owner, Live, WillClose, Uses
<1>6. ASSUME NEW t \in Tabs, Register(t) PROVE ConnectionsFollowSignIns'
  BY <1>6 DEF Register, SetUse, Owner, IsLive, Live, WillClose, Uses
<1>7. ASSUME NEW t \in Tabs, SocketCloses(t) PROVE ConnectionsFollowSignIns'
  BY <1>7, SocketShape DEF Owner, Live, WillClose, Uses
<1>8. ASSUME NEW c \in Connections, Connect(c) PROVE ConnectionsFollowSignIns'
  BY <1>8 DEF Connect, SetUse, Owner, Live, WillClose, Uses
<1>9. ASSUME NEW c \in Connections, Disconnect(c) PROVE ConnectionsFollowSignIns'
  BY <1>9 DEF Disconnect, SetUse, Owner, Live, WillClose, Uses
<1>10. ASSUME NEW r \in Revocations, FindRows(r) PROVE ConnectionsFollowSignIns'
  <2> SUFFICES ASSUME NEW c \in Connections, use'[c].at = "open", c \notin late', Live(Owner(c))' = {},
                      c \notin left'[Owner(c)']
               PROVE  \E q \in Revocations : WillClose(q, c)'
    BY DEF ConnectionsFollowSignIns
  <2>1. use[c].at = "open" /\ c \notin late /\ Owner(c)' = Owner(c) /\ Live(Owner(c)) = {} /\ c \notin left[Owner(c)]
    BY <1>10 DEF FindRows, SetRev, NoRevocation, Found, Owner, Live, Uses
  <2>2. PICK q \in Revocations : WillClose(q, c)
    BY <2>1
  <2>3. WillClose(q, c)'
    BY <1>10, <2>1, <2>2 DEF FindRows, SetRev, NoRevocation, Found, WillClose
  <2> QED
    BY <2>3
<1>11. ASSUME NEW r \in Revocations, Lock(r) PROVE ConnectionsFollowSignIns'
  <2> SUFFICES ASSUME NEW c \in Connections, use'[c].at = "open", c \notin late', Live(Owner(c))' = {},
                      c \notin left'[Owner(c)']
               PROVE  \E q \in Revocations : WillClose(q, c)'
    BY DEF ConnectionsFollowSignIns
  <2>1. use[c].at = "open" /\ c \notin late /\ Owner(c)' = Owner(c) /\ Live(Owner(c)) = {} /\ c \notin left[Owner(c)]
    BY <1>11 DEF Lock, SetRev, NoRevocation, Owner, Live, Uses
  <2>2. PICK q \in Revocations : WillClose(q, c)
    BY <2>1
  <2>3. WillClose(q, c)'
    BY <1>11, <2>1, <2>2 DEF Lock, SetRev, NoRevocation, WillClose
  <2> QED
    BY <2>3
<1>12. ASSUME NEW r \in Revocations, FindLocked(r) PROVE ConnectionsFollowSignIns'
  <2> SUFFICES ASSUME NEW c \in Connections, use'[c].at = "open", c \notin late', Live(Owner(c))' = {},
                      c \notin left'[Owner(c)']
               PROVE  \E q \in Revocations : WillClose(q, c)'
    BY DEF ConnectionsFollowSignIns
  <2>1. use[c].at = "open" /\ c \notin late /\ Owner(c)' = Owner(c) /\ Live(Owner(c)) = {} /\ c \notin left[Owner(c)]
    BY <1>12 DEF FindLocked, SetRev, NoRevocation, Found, Owner, Live, Uses
  <2>2. PICK q \in Revocations : WillClose(q, c)
    BY <2>1
  <2>3. WillClose(q, c)'
    BY <1>12, <2>1, <2>2 DEF FindLocked, SetRev, NoRevocation, Found, WillClose
  <2> QED
    BY <2>3
<1>13. ASSUME NEW r \in Revocations, DestroyRows(r) PROVE ConnectionsFollowSignIns'
  <2> SUFFICES ASSUME NEW c \in Connections, use'[c].at = "open", c \notin late', Live(Owner(c))' = {},
                      c \notin left'[Owner(c)']
               PROVE  \E q \in Revocations : WillClose(q, c)'
    BY DEF ConnectionsFollowSignIns
  <2>1. use[c].at = "open" /\ c \notin late /\ Owner(c)' = Owner(c) /\ c \notin left[Owner(c)]
    BY <1>13 DEF DestroyRows, SetRev, Owner, Uses
  <2>2. CASE Live(Owner(c)) = {}
    <3>1. PICK q \in Revocations : WillClose(q, c)
      BY <2>1, <2>2
    <3>2. \A s \in SignInIds : signIn'[s].of = signIn[s].of
      BY <1>13 DEF DestroyRows
    <3>3. q # r /\ rev'[q] = rev[q] /\ left' = left
      BY <1>13, <3>1 DEF DestroyRows, SetRev, WillClose
    <3>4. WillClose(q, c)'
      BY <2>1, <3>1, <3>2, <3>3 DEF WillClose, RevocationRecord
    <3> QED
      BY <3>4
  <2>3. CASE Live(Owner(c)) # {}
    <3>1. PICK s \in SignInIds : signIn[s].at = "live" /\ signIn[s].of = Owner(c)
      BY <2>3 DEF Live
    <3>2. s \in rev[r].ids /\ signIn'[s].of = Owner(c)
      BY <1>13, <2>1, <3>1 DEF DestroyRows, Live
    <3>3. WillClose(r, c)'
      BY <1>13, <2>1, <3>2 DEF DestroyRows, SetRev, WillClose
    <3> QED
      BY <3>3
  <2> QED
    BY <2>2, <2>3
<1>14. ASSUME NEW r \in Revocations, LogOutSockets(r) PROVE ConnectionsFollowSignIns'
  <2> SUFFICES ASSUME NEW c \in Connections, use'[c].at = "open", c \notin late', Live(Owner(c))' = {},
                      c \notin left'[Owner(c)']
               PROVE  \E q \in Revocations : WillClose(q, c)'
    BY DEF ConnectionsFollowSignIns
  <2>1. use[c].at = "open" /\ c \notin late /\ Owner(c)' = Owner(c) /\ Live(Owner(c)) = {} /\ c \notin left[Owner(c)]
    BY <1>14 DEF LogOutSockets, Shut, Owner, Live, Uses
  <2>2. PICK q \in Revocations : WillClose(q, c)
    BY <2>1
  <2>3. WillClose(q, c)'
    BY <1>14, <2>1, <2>2 DEF LogOutSockets, Shut, WillClose
  <2> QED
    BY <2>3
<1>15. ASSUME NEW r \in Revocations, Count(r) PROVE ConnectionsFollowSignIns'
  BY <1>15 DEF Count, SetRev, NextAccount, NoRevocation, Owner, Live, WillClose, Uses
<1>16. ASSUME NEW r \in Revocations, RemoveConnections(r) PROVE ConnectionsFollowSignIns'
  <2> DEFINE cs == IF rev[r].at = "removing" THEN OpenOf(rev[r].now) ELSE left[r]
  <2>1. Removed(r, cs, use)
    BY <1>16, RemovalShape DEF RemoveConnections, OpenOf
  <2>2. /\ \A c \in Connections : use'[c].at = "open" => use'[c] = use[c] /\ (c \in cs => c \in left'[r])
        /\ \A j \in Revocations \cup Users : j # r => left'[j] = left[j]
    BY <2>1 DEF Removed, Uses
  <2>3. UNCHANGED <<signIn, late>> /\ \A q \in Revocations : q # r => rev'[q] = rev[q]
    BY <1>16 DEF RemoveConnections, SetRev
  <2>4. rev'[r] = IF left'[r] = {} THEN NextAccount(rev[r], rev[r].now) ELSE [rev[r] EXCEPT !.at = "closing"]
    BY <1>16 DEF RemoveConnections, SetRev
  <2> SUFFICES ASSUME NEW c \in Connections, use'[c].at = "open", c \notin late', Live(Owner(c))' = {},
                      c \notin left'[Owner(c)']
               PROVE  \E q \in Revocations : WillClose(q, c)'
    BY DEF ConnectionsFollowSignIns
  <2>5. /\ use[c].at = "open" /\ c \notin late /\ Owner(c)' = Owner(c) /\ Live(Owner(c)) = {}
        /\ Owner(c) \in Users /\ c \notin left[Owner(c)]
    BY IdsApart, <2>2, <2>3 DEF Owner, Live, Uses
  <2>6. PICK q \in Revocations : WillClose(q, c)
    BY <2>5
  <2>7. CASE q # r
    BY <2>2, <2>3, <2>5, <2>6, <2>7 DEF WillClose
  <2>8. CASE q = r /\ Owner(c) \in rev[r].todo \ {rev[r].now}
    <3>1. rev[r].todo # {rev[r].now}
      BY <2>8
    <3>2. CASE left'[r] = {}
      <4>1. rev'[r] = [rev[r] EXCEPT !.at = "counting", !.todo = @ \ {rev[r].now}, !.now = Free]
        BY <2>4, <3>1, <3>2 DEF NextAccount
      <4>2. rev'[r].at = "counting" /\ rev'[r].todo = rev[r].todo \ {rev[r].now}
        BY <4>1 DEF RevocationRecord
      <4> QED
        BY <2>5, <2>8, <4>2 DEF WillClose
    <3>3. CASE left'[r] # {}
      <4>1. rev'[r].at = "closing" /\ rev'[r].todo = rev[r].todo /\ rev'[r].now = rev[r].now
        BY <2>4, <3>3 DEF RevocationRecord
      <4> QED
        BY <2>5, <2>8, <4>1 DEF WillClose
    <3> QED
      BY <3>2, <3>3
  <2>9. CASE q = r /\ Owner(c) \notin rev[r].todo \ {rev[r].now}
    <3>1. rev[r].at \in {"removing", "closing"}
      BY <1>16 DEF RemoveConnections
    <3>2. c \in cs
      BY <2>5, <2>6, <2>9, <3>1 DEF WillClose, OpenOf
    <3>3. c \in left'[r]
      BY <2>2, <3>2
    <3>4. rev'[r].at = "closing"
      BY <2>4, <3>3 DEF RevocationRecord
    <3> QED
      BY <3>3, <3>4 DEF WillClose
  <2> QED
    BY <2>7, <2>8, <2>9
<1>17. ASSUME NEW u \in Users, Unlock(u) PROVE ConnectionsFollowSignIns'
  BY <1>17 DEF Unlock, Owner, Live, WillClose, Uses
<1>18. ASSUME NEW u \in Users, BeginDeletion(u) PROVE ConnectionsFollowSignIns'
  <2> DEFINE ts == {t \in byAccount : Owner(t) = u}
  <2>1. /\ Shut(ts) \in [Uses -> UseRecord]
        /\ \A x \in Uses : Shut(ts)[x].at = "open" => Shut(ts)[x] = use[x]
    BY DEF Shut, UseRecord
  <2>2. Removed(u, OpenOf(u), Shut(ts))
    BY <1>18, <2>1, RemovalShape DEF BeginDeletion, OpenOf
  <2>3. /\ \A x \in Uses : use'[x].at = "open" => use'[x] = Shut(ts)[x] /\ (x \in OpenOf(u) => x \in left'[u])
        /\ \A j \in Revocations \cup Users : j # u => left'[j] = left[j]
    BY <2>1, <2>2 DEF Removed
  <2>4. UNCHANGED <<signIn, rev, late>> /\ left[u] = {}
    BY <1>18 DEF BeginDeletion
  <2> SUFFICES ASSUME NEW c \in Connections, use'[c].at = "open", c \notin late', Live(Owner(c))' = {},
                      c \notin left'[Owner(c)']
               PROVE  \E q \in Revocations : WillClose(q, c)'
    BY DEF ConnectionsFollowSignIns
  <2>a. use'[c] = use[c] /\ use[c].by \in SignInIds /\ signIn[use[c].by].of \in Users
    BY <2>1, <2>3 DEF Uses
  <2>b. use[c].at = "open" /\ c \notin late /\ Owner(c)' = Owner(c) /\ Owner(c) \in Users
    BY <2>4, <2>a DEF Owner
  <2>c. Live(Owner(c)) = {}
    BY <2>4, <2>b DEF Live
  <2>d. c \notin left[Owner(c)]
    BY <2>3, <2>4, <2>b
  <2>5. /\ use[c].at = "open" /\ c \notin late /\ Owner(c)' = Owner(c) /\ Live(Owner(c)) = {}
        /\ c \notin left[Owner(c)]
    BY <2>b, <2>c, <2>d
  <2>6. PICK q \in Revocations : WillClose(q, c)
    BY <2>5
  <2>7. WillClose(q, c)'
    BY IdsApart, <2>3, <2>4, <2>5, <2>6 DEF WillClose
  <2> QED
    BY <2>7
<1>19. ASSUME NEW u \in Users, FinishDeletion(u) PROVE ConnectionsFollowSignIns'
  <2>1. \A c \in Connections : use[c].at = "open" /\ Owner(c) = u => c \in late
    BY <1>19 DEF FinishDeletion, DeletedLate, Uses
  <2>2. \A c \in Connections : use[c].at = "open" => Owner(c)' = Owner(c)
    BY <1>19 DEF FinishDeletion, Live, Owner, Uses
  <2>3. \A v : v # u => Live(v)' = Live(v)
    BY <1>19 DEF FinishDeletion, Live
  <2>4. \A q \in Revocations : \A c \in Connections :
           use[c].at = "open" /\ WillClose(q, c) => WillClose(q, c)'
    <3>1. \A s \in SignInIds : signIn'[s].of = signIn[s].of
      BY <1>19 DEF FinishDeletion, Live
    <3> QED
      BY <1>19, <2>2, <3>1 DEF FinishDeletion, WillClose, RevocationRecord
  <2> QED
    BY <1>19, <2>1, <2>2, <2>3, <2>4 DEF FinishDeletion
<1>20. ASSUME NEW u \in Users, DeleteConnections(u) PROVE ConnectionsFollowSignIns'
  <2>0. Removed(u, left[u], use)
    BY <1>20, RemovalShape DEF DeleteConnections
  <2>1. /\ \A c \in Connections : use'[c].at = "open" => use'[c] = use[c] /\ (c \in left[u] => c \in left'[u])
        /\ \A j \in Revocations \cup Users : j # u => left'[j] = left[j]
    BY <2>0 DEF Removed, Uses
  <2>2. UNCHANGED <<signIn, rev, late>>
    BY <1>20 DEF DeleteConnections
  <2>3. \A c \in Connections : use'[c].at = "open" => Owner(c)' = Owner(c) /\ Live(Owner(c))' = Live(Owner(c))
    BY <2>1, <2>2 DEF Owner, Live
  <2>4. \A q \in Revocations : \A c \in Connections :
           use'[c].at = "open" /\ WillClose(q, c) => WillClose(q, c)'
    BY IdsApart, <2>1, <2>2, <2>3 DEF WillClose
  <2>5. \A c \in Connections : use[c].at = "open" => Owner(c) \in Users
    BY DEF Owner, Uses
  <2> QED
    BY <2>1, <2>2, <2>3, <2>4, <2>5
<1> QED
  BY <1>1, <1>2, <1>3, <1>4, <1>5, <1>6, <1>7, <1>8, <1>9, <1>10,
     <1>11, <1>12, <1>13, <1>14, <1>15, <1>16, <1>17, <1>18, <1>19, <1>20
  DEF SignInsNext, SignInStep, UseStep, RevokeStep, AccountStep

\* The invariant of SignIns.
LEMMA SignInsInvariant == SignInsSpec => []SignInsInv
<1>1. SignInsInit => SignInsInv
  BY DEF SignInsInit, SignInsInv, SignInsTypeOK, RowsOwned, NamesRows, DeletedLate,
         SocketsFollowSignIns, ConnectionsFollowSignIns, NoSignIn, NoUse, NoRevocation,
         UseRecord, RevocationRecord, Owner, Uses
<1>2. SignInsInv /\ [SignInsNext]_siVars => SignInsInv'
  <2>1. ASSUME SignInsInv, SignInsNext PROVE SignInsInv'
    BY <2>1, SignInTypes, SignInNames, SignInDeleted, SignInSockets, SignInConnections DEF SignInsInv
  <2>2. ASSUME SignInsInv, UNCHANGED siVars PROVE SignInsInv'
    BY <2>2 DEF SignInsInv, siVars, SignInsTypeOK, RowsOwned, NamesRows, DeletedLate,
       SocketsFollowSignIns, ConnectionsFollowSignIns, WillClose, IsLive, Live, Owner
  <2> QED
    BY <2>1, <2>2
<1> QED
  BY <1>1, <1>2, PTL DEF SignInsSpec

\* Rows, sockets, connections and revocations keep their types, and the index by
\* sign-in of StateBroadcaster never holds more than the one by account.
THEOREM SignInsTypeCorrect == SignInsSpec => []SignInsTypeOK
<1>1. SignInsInv => SignInsTypeOK
  BY DEF SignInsInv
<1> QED
  BY <1>1, SignInsInvariant, PTL

\* However sign-ins are revoked, locked and deleted, an open state socket is in
\* both indexes and has a live row or a revocation that closes it next, unless
\* it was registered after that.
THEOREM SocketsRevoked == SignInsSpec => []SocketsFollowSignIns
<1>1. SignInsInv => SocketsFollowSignIns
  BY DEF SignInsInv
<1> QED
  BY <1>1, SignInsInvariant, PTL

\* An open connection has a sign-in of its account, or is still to be counted or
\* closed by a revocation or a deletion of the account, unless it was opened when
\* no sign-in was left or during the deletion (such a connection stays).
THEOREM ConnectionsRevoked == SignInsSpec => []ConnectionsFollowSignIns
<1>1. SignInsInv => ConnectionsFollowSignIns
  BY DEF SignInsInv
<1> QED
  BY <1>1, SignInsInvariant, PTL

----------------------------------------------------------------------------
(* Accounts *)

(* what an account request has checked and another request can make old *)
Checked(r) ==
  LET q == req[r]
  IN /\ q.op = "role" => q.row # q.actor
     /\ q.op \in {"lock", "unlock"} /\ q.at = "write" => q.row # q.actor
     /\ q.op = "signIn" /\ q.at = "asked" => q.row = Nobody
     /\ q.op = "signIn" /\ q.at = "found" => q.to = "user" /\ q.row # Nobody
     /\ fresh[r] =>
          /\ q.op \in {"delete", "role", "lock", "unlock"} => q.actor \in ActiveAdmins
          /\ q.op = "delete" /\ q.at \in {"found", "write"} => q.was = role[q.row]
          /\ q.op = "delete" /\ q.at = "write" => ~(One(Admins) /\ q.was = "admin")
          /\ q.op \in {"setup", "create", "signIn"} /\ q.at = "write" /\ q.row = Nobody
                => Named(q.name) = {}
          /\ q.op = "signIn" /\ q.at = "write" /\ q.row # Nobody /\ q.to = "user"
                => role[q.row] # "admin" \/ Several(ActiveAdmins)

AccountsInv == TypeOK /\ \A r \in Requests : Checked(r)

Write(r) == Insert(r) \/ Destroy(r) \/ SetRole(r) \/ SetLocked(r)

\* A request that only reads leaves what the others have checked.
LEMMA ReadsKeep ==
  ASSUME NEW q \in Requests, Checked(q), UNCHANGED <<role, locked, name>>,
         req'[q] = req[q], fresh'[q] = fresh[q]
  PROVE  Checked(q)'
BY DEF Checked, ActiveAdmins, Admins, Named, Rows

\* A request record is built from the idle one or from the one before.
LEMMA RecordTypes ==
  /\ Idle \in Request /\ Done \in Request
  /\ \A q \in Request, at \in Steps : [q EXCEPT !.at = at] \in Request
  /\ \A q \in Request, to \in Roles \ {"gone"} : [q EXCEPT !.to = to] \in Request
BY DEF Idle, Done, Request, Steps, Ops, Roles

\* Beginning a request and moving it on keep the types.
LEMMA AskType ==
  ASSUME TypeOK, NEW r \in Requests, NEW record \in Request, Ask(r, record)
  PROVE  TypeOK'
BY DEF TypeOK, Ask

LEMMA MoveType ==
  ASSUME TypeOK, NEW r \in Requests, NEW record \in Request, Move(r, record)
  PROVE  TypeOK'
BY DEF TypeOK, Move, Keep

\* Every step keeps the types of rows and requests.
LEMMA RequestTypes ==
  ASSUME TypeOK, Next
  PROVE  TypeOK'
<1> PICK r \in Requests : RequestStep(r)
  BY DEF Next
<1> DEFINE q == req[r]
<1>0. q \in Request
  BY DEF TypeOK
<1>1. CASE AskAbout(r)
  <2>1. PICK actor, a \in Accounts, op \in {"delete", "role", "lock", "unlock"}, to \in {"user", "admin"} :
            Ask(r, [Idle EXCEPT !.at = "asked", !.op = op, !.actor = actor, !.row = a, !.to = to])
    BY <1>1 DEF AskAbout
  <2>2. [Idle EXCEPT !.at = "asked", !.op = op, !.actor = actor, !.row = a, !.to = to] \in Request
    BY DEF Idle, Request, Steps, Ops, Roles
  <2> QED
    BY <2>1, <2>2, AskType
<1>2. CASE AskCreate(r)
  <2>1. \A actor \in Accounts, n \in Names :
            [Idle EXCEPT !.at = "asked", !.op = "create", !.actor = actor, !.name = n, !.to = "user"] \in Request
    BY DEF Idle, Request, Steps, Ops, Roles
  <2> QED
    BY <1>2, <2>1, AskType DEF AskCreate
<1>3. CASE AskSetup(r)
  <2>1. \A n \in Names : [Idle EXCEPT !.at = "asked", !.op = "setup", !.name = n, !.to = "admin"] \in Request
    BY DEF Idle, Request, Steps, Ops, Roles
  <2> QED
    BY <1>3, <2>1, AskType DEF AskSetup
<1>4. CASE AskSignIn(r)
  <2>1. \A n \in Names, to \in {"none", "user", "admin"} :
            [Idle EXCEPT !.at = "asked", !.op = "signIn", !.name = n, !.to = to] \in Request
    BY DEF Idle, Request, Steps, Ops, Roles
  <2> QED
    BY <1>4, <2>1, AskType DEF AskSignIn
<1>5. CASE CountSetup(r) \/ LookName(r) \/ CountAdmins(r)
  <2>1. [q EXCEPT !.at = "found"] \in Request /\ [q EXCEPT !.at = "write"] \in Request
    BY <1>0, RecordTypes DEF Steps
  <2> QED
    BY <1>5, <2>1, RecordTypes, MoveType DEF CountSetup, LookName, CountAdmins
<1>6. CASE LookRow(r)
  <2>1. CASE Refuses(q)
    BY <1>6, <2>1, RecordTypes, MoveType DEF LookRow
  <2>2. CASE ~Refuses(q)
    <3>1. \A at \in Steps : [q EXCEPT !.at = at, !.was = role[q.row]] \in Request
      BY <1>0, <2>2 DEF Refuses, Request, Roles
    <3>2. PICK at \in Steps : Move(r, [q EXCEPT !.at = at, !.was = role[q.row]])
      BY <1>6, <2>2 DEF LookRow, Steps
    <3> QED
      BY <3>1, <3>2, MoveType
  <2> QED
    BY <2>1, <2>2
<1>7. CASE LookSignIn(r)
  <2>1. [q EXCEPT !.at = "write", !.to = IF @ = "none" THEN "user" ELSE @] \in Request
    BY <1>0, ZenonT(60) DEF Request, Steps, Roles
  <2>2. \A a \in Named(q.name), at \in Steps : [q EXCEPT !.at = at, !.row = a, !.was = role[a]] \in Request
    BY <1>0 DEF Request, Roles, TypeOK, Named, Rows
  <2>3. ASSUME NEW a \in Named(q.name),
               Move(r, [q EXCEPT !.at = IF @ = "asked" /\ q.to = "user" /\ role[a] = "admin"
                                        THEN "found" ELSE "write",
                                 !.row = a, !.was = role[a]])
        PROVE  TypeOK'
    <3>1. PICK at \in Steps : Move(r, [q EXCEPT !.at = at, !.row = a, !.was = role[a]])
      BY <2>3, <1>0 DEF Steps, Request
    <3> QED
      BY <2>2, <3>1, MoveType
  <2> QED
    BY <1>7, <2>1, <2>3, RecordTypes, MoveType DEF LookSignIn
<1>8. CASE DirectoryRole(r)
  <2>1. [q EXCEPT !.at = "write", !.to = IF Several(ActiveAdmins) THEN @ ELSE "none"] \in Request
    BY <1>0, ZenonT(60) DEF Request, Steps, Roles
  <2> QED
    BY <1>8, <2>1, MoveType DEF DirectoryRole
<1>9. CASE Insert(r)
  BY <1>9, <1>0, RecordTypes DEF Insert, Written, TypeOK, Request, Roles
<1>10. CASE Destroy(r)
  BY <1>10, RecordTypes DEF Destroy, Written, TypeOK, Roles
<1>11. CASE SetRole(r)
  BY <1>11, <1>0, RecordTypes DEF SetRole, Written, TypeOK, Request, Roles
<1>12. CASE SetLocked(r)
  BY <1>12, RecordTypes DEF SetLocked, Written, TypeOK
<1> QED
  BY <1>1, <1>2, <1>3, <1>4, <1>5, <1>6, <1>7, <1>8, <1>9, <1>10, <1>11, <1>12 DEF RequestStep

\* A write of r ends r; the others' checks still hold, or are known to be old.
LEMMA WritesKeep ==
  ASSUME TypeOK, NEW r \in Requests, Write(r), \A q \in Requests : Checked(q), NEW q \in Requests
  PROVE  Checked(q)'
<1>1. CASE q = r
  <2>1. req'[q] = Done
    BY <1>1 DEF Write, Insert, Destroy, SetRole, SetLocked, Written, TypeOK
  <2> QED
    BY <2>1 DEF Checked, Done, Idle
<1>2. CASE q # r /\ ~fresh'[q]
  <2>1. req'[q] = req[q]
    BY <1>2 DEF Write, Insert, Destroy, SetRole, SetLocked, Written, TypeOK
  <2> QED
    BY <1>2, <2>1 DEF Checked
<1>3. CASE q # r /\ fresh'[q]
  <2>1. req'[q] = req[q] /\ fresh[q] /\ role' = role /\ ActiveAdmins \subseteq ActiveAdmins'
    BY <1>3 DEF Write, Insert, Destroy, SetRole, SetLocked, Written, Disturbing, TypeOK
  <2>2. \A a \in Rows : name'[a] = name[a]
    BY <2>1 DEF Write, Insert, Destroy, SetRole, SetLocked, Rows, TypeOK, Roles
  <2>3. Admins' = Admins /\ Rows' = Rows /\ Named(req[q].name)' = Named(req[q].name)
    BY <2>1, <2>2 DEF Admins, Rows, Named
  <2>4. Several(ActiveAdmins) => Several(ActiveAdmins)'
    BY <2>1 DEF Several
  <2> QED
    BY <1>3, <2>1, <2>3, <2>4 DEF Checked
<1> QED
  BY <1>1, <1>2, <1>3

\* Every step keeps the checks of every request.
LEMMA ChecksKept ==
  ASSUME AccountsInv, Next
  PROVE  \A q \in Requests : Checked(q)'
<1> USE NobodyAssumption
<1> SUFFICES ASSUME NEW q \in Requests PROVE Checked(q)'
  OBVIOUS
<1> PICK r \in Requests : RequestStep(r)
  BY DEF Next
<1>1. CASE Write(r)
  BY <1>1, WritesKeep DEF AccountsInv
<1>2. CASE ~Write(r) /\ q # r
  <2>1. UNCHANGED <<role, locked, name>> /\ req'[q] = req[q] /\ fresh'[q] = fresh[q]
    BY <1>2 DEF RequestStep, Write, AskAbout, AskCreate, AskSetup, AskSignIn, CountSetup, LookName,
                LookRow, CountAdmins, LookSignIn, DirectoryRole, Ask, Move, Keep, AccountsInv, TypeOK
  <2> QED
    BY <2>1, ReadsKeep DEF AccountsInv
<1>3. CASE ~Write(r) /\ q = r
  <2> DEFINE p == req[r]
  <2>0. /\ p \in Request /\ req \in [Requests -> Request] /\ fresh \in [Requests -> BOOLEAN]
        /\ Checked(r)
    BY DEF AccountsInv, TypeOK
  <2> HIDE DEF p
  <2>1. CASE AskAbout(r)
    <3>1. PICK actor, a \in Accounts, op \in {"delete", "role", "lock", "unlock"}, to \in {"user", "admin"} :
              /\ actor \in ActiveAdmins
              /\ op = "role" => actor # a
              /\ Ask(r, [Idle EXCEPT !.at = "asked", !.op = op, !.actor = actor, !.row = a, !.to = to])
      BY <2>1 DEF AskAbout, MayAdminister, OwnRole
    <3>2. req'[r].at = "asked" /\ req'[r].op = op /\ req'[r].actor = actor /\ req'[r].row = a
      BY <2>0, <3>1 DEF Ask, Idle
    <3>3. ActiveAdmins' = ActiveAdmins
      BY <3>1 DEF Ask, ActiveAdmins, Admins
    <3> QED
      BY <1>3, <3>1, <3>2, <3>3 DEF Checked
  <2>2. CASE AskCreate(r) \/ AskSetup(r) \/ AskSignIn(r)
    <3>1. CASE AskCreate(r)
      BY <1>3, <2>0, <3>1 DEF AskCreate, Ask, Idle, Checked
    <3>2. CASE AskSetup(r)
      BY <1>3, <2>0, <3>2 DEF AskSetup, Ask, Idle, Checked
    <3>3. CASE AskSignIn(r)
      BY <1>3, <2>0, <3>3 DEF AskSignIn, Ask, Idle, Checked
    <3> QED
      BY <2>2, <3>1, <3>2, <3>3
  <2>3. ASSUME NEW record, Move(r, record), record \in Request
        PROVE  /\ req'[r] = record /\ UNCHANGED <<role, locked, name>>
               /\ fresh'[r] => fresh[r] /\ record.at # "done"
               /\ ActiveAdmins' = ActiveAdmins /\ Admins' = Admins
               /\ \A n : Named(n)' = Named(n)
    BY <2>0, <2>3 DEF Move, Keep, ActiveAdmins, Admins, Named, Rows
  <2>4. CASE req'[r] = Done
    BY <1>3, <2>4 DEF Checked, Done, Idle
  <2>5. CASE CountSetup(r) /\ req'[r] # Done
    <3>1. Move(r, [p EXCEPT !.at = "found"]) /\ p.op = "setup"
      BY <2>0, <2>5 DEF CountSetup, Move, p
    <3>2. req'[r] = [p EXCEPT !.at = "found"]
      BY <2>0, <2>3, <3>1, RecordTypes DEF Steps
    <3> QED
      BY <1>3, <2>0, <3>1, <3>2 DEF Checked, Request
  <2>6. CASE LookName(r) /\ req'[r] # Done
    <3>1. /\ Move(r, [p EXCEPT !.at = "write"]) /\ p.op \in {"setup", "create"}
          /\ Named(p.name) = {}
      BY <2>0, <2>6 DEF LookName, Move, p
    <3>2. [p EXCEPT !.at = "write"] \in Request
      BY <2>0, RecordTypes DEF Steps
    <3>3. /\ req'[r].op \in {"setup", "create"} /\ req'[r].name = p.name
          /\ name' = name /\ role' = role
      BY <2>0, <2>3, <3>1, <3>2 DEF Request
    <3>4. Named(req[r].name)' = {}
      BY <3>1, <3>3 DEF Named, Rows
    <3> QED
      BY <1>3, <3>3, <3>4 DEF Checked
  <2>7. CASE LookRow(r) /\ req'[r] # Done
    <3>1. /\ Move(r, [p EXCEPT !.at = IF p.op = "delete" THEN "found" ELSE "write", !.was = role[p.row]])
          /\ ~Refuses(p) /\ p.op \in {"delete", "role", "lock", "unlock"}
      BY <2>0, <2>7 DEF LookRow, Move, p
    <3>2. PICK at \in Steps : /\ Move(r, [p EXCEPT !.at = at, !.was = role[p.row]])
                              /\ at = IF p.op = "delete" THEN "found" ELSE "write"
      BY <3>1 DEF Steps
    <3>3. [p EXCEPT !.at = at, !.was = role[p.row]] \in Request
      BY <2>0, <3>1 DEF Refuses, Request, Roles
    <3> DEFINE record == [p EXCEPT !.at = at, !.was = role[p.row]]
    <3>a. /\ req'[r] = record /\ role' = role
          /\ ActiveAdmins' = ActiveAdmins /\ (fresh'[r] => fresh[r])
      BY <2>3, <3>2, <3>3
    <3>b. /\ record.op = p.op /\ record.row = p.row /\ record.actor = p.actor /\ record.at = at
          /\ record.was = role[p.row]
      BY <2>0 DEF Request
    <3> HIDE DEF record
    <3>4. /\ req'[r].op = p.op /\ req'[r].row = p.row /\ req'[r].actor = p.actor /\ req'[r].at = at
          /\ req'[r].was = role[p.row] /\ role' = role
          /\ ActiveAdmins' = ActiveAdmins /\ (fresh'[r] => fresh[r])
      BY <3>a, <3>b
    <3> QED
      BY <1>3, <2>0, <3>1, <3>2, <3>4 DEF Checked, Refuses, p
  <2>8. CASE CountAdmins(r) /\ req'[r] # Done
    <3>1. /\ Move(r, [p EXCEPT !.at = "write"]) /\ p.op = "delete" /\ p.at = "found"
          /\ ~(One(Admins) /\ p.was = "admin")
      BY <2>0, <2>8 DEF CountAdmins, Move, p
    <3>2. [p EXCEPT !.at = "write"] \in Request
      BY <2>0, RecordTypes DEF Steps
    <3>3. /\ req'[r].op = "delete" /\ req'[r].actor = p.actor /\ req'[r].row = p.row /\ req'[r].was = p.was
          /\ role' = role /\ ActiveAdmins' = ActiveAdmins /\ Admins' = Admins /\ (fresh'[r] => fresh[r])
      BY <2>0, <2>3, <3>1, <3>2 DEF Request
    <3> QED
      BY <1>3, <2>0, <3>1, <3>3 DEF Checked, One, p
  <2>9. CASE LookSignIn(r) /\ req'[r] # Done
    <3>1. CASE /\ Named(p.name) = {}
               /\ Move(r, [p EXCEPT !.at = "write", !.to = IF @ = "none" THEN "user" ELSE @])
      <4>1. [p EXCEPT !.at = "write", !.to = IF @ = "none" THEN "user" ELSE @] \in Request
        BY <2>0, ZenonT(60) DEF Request, Steps, Roles
      <4> DEFINE record == [p EXCEPT !.at = "write", !.to = IF @ = "none" THEN "user" ELSE @]
      <4>a. req'[r] = record /\ name' = name /\ role' = role
        BY <2>3, <3>1, <4>1
      <4>b. record.op = p.op /\ record.at = "write" /\ record.name = p.name /\ record.row = p.row
        BY <2>0 DEF Request
      <4> HIDE DEF record
      <4>2. /\ req'[r].op = p.op /\ req'[r].at = "write" /\ req'[r].name = p.name /\ req'[r].row = p.row
            /\ name' = name /\ role' = role
        BY <4>a, <4>b
      <4>3. p.row = Nobody /\ p.op = "signIn"
        BY <2>0, <2>9 DEF LookSignIn, Checked, p
      <4>4. Named(req[r].name)' = {}
        BY <3>1, <4>2 DEF Named, Rows
      <4> QED
        BY <1>3, <4>2, <4>3, <4>4 DEF Checked
    <3>2. CASE \E a \in Named(p.name) :
                  Move(r, [p EXCEPT !.at = IF @ = "asked" /\ p.to = "user" /\ role[a] = "admin"
                                           THEN "found" ELSE "write",
                                    !.row = a, !.was = role[a]])
      <4>1. PICK a \in Named(p.name), at \in Steps :
                  /\ Move(r, [p EXCEPT !.at = at, !.row = a, !.was = role[a]])
                  /\ at = IF p.at = "asked" /\ p.to = "user" /\ role[a] = "admin" THEN "found" ELSE "write"
        BY <2>0, <3>2 DEF Steps, Request
      <4>2. [p EXCEPT !.at = at, !.row = a, !.was = role[a]] \in Request /\ a # Nobody
        BY <2>0 DEF Request, Roles, Named, Rows, AccountsInv, TypeOK
      <4>3. p.op = "signIn" /\ p.at = "asked"
        BY <2>9 DEF LookSignIn, p
      <4> DEFINE record == [p EXCEPT !.at = at, !.row = a, !.was = role[a]]
      <4>a. req'[r] = record /\ role' = role
        BY <2>3, <4>1, <4>2
      <4>b. record.op = "signIn" /\ record.row = a /\ record.to = p.to /\ record.at = at
        BY <2>0, <4>3 DEF Request
      <4> HIDE DEF record
      <4>4. /\ req'[r].op = "signIn" /\ req'[r].row = a /\ req'[r].to = p.to /\ role' = role
            /\ req'[r].at = at
        BY <4>a, <4>b
      <4> QED
        BY <1>3, <4>1, <4>2, <4>3, <4>4 DEF Checked
    <3> QED
      BY <2>9, <3>1, <3>2, <2>0, <2>3, RecordTypes DEF LookSignIn, p
  <2>10. CASE DirectoryRole(r) /\ req'[r] # Done
    <3>1. PICK to \in Roles \ {"gone"} : /\ Move(r, [p EXCEPT !.at = "write", !.to = to])
                                          /\ to = IF Several(ActiveAdmins) THEN p.to ELSE "none"
      BY <2>0, <2>10 DEF DirectoryRole, Request, Roles, p
    <3>2. [p EXCEPT !.at = "write", !.to = to] \in Request
      BY <2>0 DEF Request, Steps
    <3> DEFINE record == [p EXCEPT !.at = "write", !.to = to]
    <3>a. req'[r] = record /\ ActiveAdmins' = ActiveAdmins
      BY <2>3, <3>1, <3>2
    <3>b. record.op = p.op /\ record.at = "write" /\ record.row = p.row /\ record.to = to
      BY <2>0 DEF Request
    <3> HIDE DEF record
    <3>3. /\ req'[r].op = p.op /\ req'[r].at = "write" /\ req'[r].row = p.row /\ req'[r].to = to
          /\ ActiveAdmins' = ActiveAdmins
      BY <3>a, <3>b
    <3>4. p.row # Nobody /\ p.op = "signIn"
      BY <2>0, <2>10 DEF DirectoryRole, Checked, p
    <3>5. Several(ActiveAdmins) => Several(ActiveAdmins)'
      BY <3>3 DEF Several
    <3> QED
      BY <1>3, <3>1, <3>3, <3>4, <3>5 DEF Checked
  <2> QED
    BY <1>3, <2>1, <2>2, <2>4, <2>5, <2>6, <2>7, <2>8, <2>9, <2>10 DEF RequestStep, Write
<1> QED
  BY <1>1, <1>2, <1>3

Ending(r) == fresh[r] /\ req[r].at = "write" /\ req'[r].at = "done"
Sound(r) ==
  /\ Admins # {} => Admins' # {}
  /\ ActiveAdmins # {} /\ ~(req[r].op = "delete" /\ req[r].row = req[r].actor) => ActiveAdmins' # {}
  /\ NamesDistinct => NamesDistinct'

\* A write by a request whose checks still hold is sound.
LEMMA WriteSound ==
  ASSUME AccountsInv, NEW r \in Requests, Write(r), fresh[r]
  PROVE  Sound(r)
<1> USE NobodyAssumption
<1> USE DEF AccountsInv, TypeOK
<1>1. CASE Insert(r)
  <2>1. PICK a \in Accounts : /\ role[a] = "none" /\ role' = [role EXCEPT ![a] = req[r].to]
                              /\ name' = [name EXCEPT ![a] = req[r].name] /\ locked' = locked
    BY <1>1 DEF Insert
  <2>2. Named(req[r].name) = {}
    BY <1>1 DEF Insert, Due, Checked
  <2>3. Admins \subseteq Admins' /\ ActiveAdmins \subseteq ActiveAdmins'
    BY <2>1 DEF Admins, ActiveAdmins
  <2>4. NamesDistinct => NamesDistinct'
    BY <2>1, <2>2 DEF NamesDistinct, Named, Rows
  <2> QED
    BY <2>3, <2>4 DEF Sound
<1>2. CASE Destroy(r)
  <2>1. /\ req[r].actor \in ActiveAdmins /\ req[r].was = role[req[r].row]
        /\ ~(One(Admins) /\ req[r].was = "admin")
    BY <1>2 DEF Destroy, Due, Checked
  <2>2. Admins' = Admins \ {req[r].row}
    BY <1>2 DEF Destroy, Admins
  <2>3. Admins # {} => Admins' # {}
    BY <2>1, <2>2 DEF One, Admins
  <2>4. req[r].row # req[r].actor => req[r].actor \in ActiveAdmins'
    BY <1>2, <2>1 DEF Destroy, ActiveAdmins, Admins
  <2>5. NamesDistinct => NamesDistinct'
    BY <1>2 DEF Destroy, NamesDistinct, Rows
  <2> QED
    BY <1>2, <2>3, <2>4, <2>5 DEF Sound, Destroy, Due
<1>3. CASE SetRole(r)
  <2>1. NamesDistinct => NamesDistinct'
    BY <1>3 DEF SetRole, NamesDistinct, Rows, Roles
  <2>2. CASE req[r].op = "role"
    <3>1. req[r].actor \in ActiveAdmins /\ req[r].row # req[r].actor
      BY <2>2 DEF Checked
    <3>2. req[r].actor \in ActiveAdmins'
      BY <1>3, <3>1 DEF SetRole, ActiveAdmins, Admins
    <3> QED
      BY <2>1, <3>2 DEF Sound, ActiveAdmins
  <2>3. CASE req[r].op = "signIn"
    <3>1. \A a \in ActiveAdmins : a # req[r].row => a \in ActiveAdmins'
      BY <1>3 DEF SetRole, ActiveAdmins, Admins
    <3>2. \A a \in Admins : a # req[r].row => a \in Admins'
      BY <1>3 DEF SetRole, Admins
    <3>3. CASE req[r].to = "user" /\ role[req[r].row] = "admin"
      <4>1. Several(ActiveAdmins)
        BY <1>3, <2>3, <3>3 DEF SetRole, Due, Checked
      <4>2. ActiveAdmins' # {}
        BY <3>1, <4>1 DEF Several
      <4> QED
        BY <2>1, <4>2 DEF Sound, ActiveAdmins
    <3>4. CASE ~(req[r].to = "user" /\ role[req[r].row] = "admin")
      <4>1. Admins \subseteq Admins'
        BY <1>3, <3>4 DEF SetRole, Admins, Roles, Request
      <4>2. ActiveAdmins \subseteq ActiveAdmins'
        BY <1>3, <4>1 DEF SetRole, ActiveAdmins
      <4> QED
        BY <2>1, <4>1, <4>2 DEF Sound
    <3> QED
      BY <3>3, <3>4
  <2> QED
    BY <1>3, <2>2, <2>3 DEF SetRole, Due
<1>4. CASE SetLocked(r)
  <2>1. req[r].actor \in ActiveAdmins /\ req[r].row # req[r].actor
    BY <1>4 DEF SetLocked, Due, Checked
  <2>2. req[r].actor \in ActiveAdmins' /\ Admins' = Admins
    BY <1>4, <2>1 DEF SetLocked, ActiveAdmins, Admins
  <2>3. NamesDistinct => NamesDistinct'
    BY <1>4 DEF SetLocked, NamesDistinct, Rows
  <2> QED
    BY <2>2, <2>3 DEF Sound
<1> QED
  BY <1>1, <1>2, <1>3, <1>4 DEF Write

\* Only the write of r itself ends r from "write".
LEMMA EndsByWriting ==
  ASSUME TypeOK, NEW r \in Requests, Ending(r), Next
  PROVE  Write(r)
<1> PICK q \in Requests : RequestStep(q)
  BY DEF Next
<1> USE DEF TypeOK, Ending
<1>1. CASE q # r
  <2>1. req'[r] = req[r]
    BY <1>1 DEF RequestStep, AskAbout, AskCreate, AskSetup, AskSignIn, CountSetup, LookName,
                LookRow, CountAdmins, LookSignIn, DirectoryRole, Ask, Move,
                Insert, Destroy, SetRole, SetLocked, Written
  <2> QED
    BY <2>1
<1>2. CASE q = r
  BY <1>2 DEF RequestStep, Write, AskAbout, AskCreate, AskSetup, AskSignIn, CountSetup, LookName,
              LookRow, CountAdmins, LookSignIn, DirectoryRole, Ask
<1> QED
  BY <1>1, <1>2

\* The invariant of Accounts.
LEMMA AccountsInvariant == Spec => []AccountsInv
<1>1. Init => AccountsInv
  <2> SUFFICES ASSUME Init PROVE AccountsInv
    OBVIOUS
  <2>1. TypeOK
    BY RecordTypes DEF Init, TypeOK, Roles
  <2>2. \A r \in Requests : req[r].at = "idle" /\ req[r].op = "none" /\ ~fresh[r]
    BY DEF Init, Idle
  <2> QED
    BY <2>1, <2>2 DEF AccountsInv, Checked
<1>2. AccountsInv /\ [Next]_vars => AccountsInv'
  <2>1. ASSUME AccountsInv, Next PROVE AccountsInv'
    BY <2>1, RequestTypes, ChecksKept DEF AccountsInv
  <2>2. ASSUME AccountsInv, UNCHANGED vars PROVE AccountsInv'
    BY <2>2, ZenonT(60) DEF AccountsInv, vars, TypeOK, Checked, ActiveAdmins, Admins, Named, Rows
  <2> QED
    BY <2>1, <2>2
<1> QED
  BY <1>1, <1>2, PTL DEF Spec

\* Rows and requests keep their types.
THEOREM AccountsTypeCorrect == Spec => []TypeOK
<1>1. AccountsInv => TypeOK
  BY DEF AccountsInv
<1> QED
  BY <1>1, AccountsInvariant, PTL

\* AccountsSound, for any accounts, names and requests: administrators and user
\* names survive every request whose checks no other request made old.
THEOREM AccountsKept == Spec => AccountsSound
<1> DEFINE A == \A r \in Requests : Ending(r) => Sound(r)
<1>1. AccountsInv /\ [Next]_vars => [A]_vars
  BY EndsByWriting, WriteSound DEF AccountsInv, Ending
<1>2. A => \A r \in Requests :
              fresh[r] /\ req[r].at = "write" /\ req'[r].at = "done" =>
                /\ Admins # {} => Admins' # {}
                /\ ActiveAdmins # {} /\ ~(req[r].op = "delete" /\ req[r].row = req[r].actor)
                      => ActiveAdmins' # {}
                /\ NamesDistinct => NamesDistinct'
  BY DEF Ending, Sound
<1> QED
  BY <1>1, <1>2, AccountsInvariant, PTL DEF Spec, AccountsSound

----------------------------------------------------------------------------
(* File managers *)

(* what the session holds *)
MasterKnown ==
    /\ ~listed => master = Nothing
    /\ master # Nothing => master \in installed
    /\ taping # "no" \/ Terminal \in installed => term \in {"open", "gone"}
    /\ Terminal \in installed /\ term = "open" => listed /\ master = Terminal

(* what a file manager holds at each stage *)
Staged(k) ==
    /\ sock[k].at # "on" => sock[k].own = "none" /\ sock[k].chan = "none" /\ ~sock[k].shares
    /\ sock[k].at \in {"new", "auth", "dial"} => sock[k].clean = "no"
    /\ sock[k].at = "on" /\ sock[k].net = "closed" => sock[k].deaf \/ sock[k].clean # "no"
    /\ sock[k].shares => /\ sock[k].own = "none" /\ k \notin installed
                         /\ term \in {"open", "gone"} /\ (term = "open" => master = Terminal)
    /\ sock[k].shares /\ sock[k].clean # "no" => sock[k].net = "closed" \/ sock[k].chan = "none"
    /\ sock[k].clean = "done" => ~Alive(sock[k])
    /\ k \in installed => sock[k].own \in {"open", "ending", "ended"}

(* FilesSound, of one of them *)
Held(k) ==
    /\ k \in installed /\ Alive(sock[k]) => listed /\ master = k
    /\ listed /\ master = k /\ ~Alive(sock[k]) =>
           sock[k].clean = "audit" \/ sock[k].kept \/ taping = "flushing"
    /\ sock[k].shares /\ sock[k].chan = "open" =>
        /\ k \in handles /\ master = Terminal /\ term = "open"
        /\ sock[k].net = "closed" => sock[k].deaf \/ sock[k].late \/ sock[k].clean = "audit"

FilesInv == FileSocketsTypeOK /\ MasterKnown /\ \A k \in Sockets : Staged(k) /\ Held(k)

(* what the helpers leave alone *)
Alike(q, r) == q.at = r.at /\ q.shares = r.shares /\ q.deaf = r.deaf /\ q.late = r.late /\ q.kept = r.kept

LEMMA CloseSocketRecord ==
  ASSUME NEW r \in SocketRecord, NEW q, q = CloseSocket(r)
  PROVE  /\ q \in SocketRecord /\ Alike(q, r)
         /\ q.own = r.own /\ q.chan = r.chan /\ q.clean = r.clean
         /\ q.net = "closed" <=> r.net = "closed"
<1>1. CASE r.net = "open"
  BY <1>1 DEF CloseSocket, SocketRecord, Alike
<1>2. CASE r.net # "open"
  BY <1>2 DEF CloseSocket, Alike
<1> QED
  BY <1>1, <1>2

LEMMA BeginCleanupRecord ==
  ASSUME NEW r \in SocketRecord, NEW q, q = BeginCleanup(r, TRUE) \/ q = BeginCleanup(r, FALSE)
  PROVE  /\ q \in SocketRecord /\ Alike(q, r)
         /\ q.own = r.own /\ q.chan = r.chan
         /\ q.clean = IF r.clean = "no" THEN "audit" ELSE r.clean
         /\ q.net = "closed" <=> r.net = "closed"
<1>1. CASE r.clean = "no"
  BY ZenonT(60), <1>1 DEF BeginCleanup, SocketRecord, Alike
<1>2. CASE r.clean # "no" /\ q = BeginCleanup(r, TRUE)
  BY SMTT(30), <1>2, CloseSocketRecord DEF BeginCleanup
<1>3. CASE r.clean # "no" /\ q = BeginCleanup(r, FALSE)
  BY <1>3 DEF BeginCleanup, Alike
<1> QED
  BY <1>1, <1>2, <1>3

LEMMA CutRecord ==
  ASSUME NEW r \in SocketRecord, NEW q, q = Cut(r)
  PROVE  /\ q \in SocketRecord /\ Alike(q, r)
         /\ q.own = r.own /\ q.net = r.net /\ q.clean = r.clean
         /\ q.chan # "open" /\ (q.chan = "none" <=> r.chan = "none")
<1>1. CASE r.chan = "open"
  BY <1>1 DEF Cut, SocketRecord, Alike
<1>2. CASE r.chan # "open"
  BY <1>2 DEF Cut, Alike
<1> QED
  BY <1>1, <1>2

LEMMA EndOwnRecord ==
  ASSUME NEW r \in SocketRecord, NEW q, q = EndOwn(r)
  PROVE  /\ q \in SocketRecord /\ Alike(q, r)
         /\ q.chan = r.chan /\ q.net = r.net /\ q.clean = r.clean
         /\ ~Alive(q) /\ (q.own = "none" <=> r.own = "none")
         /\ r.own \in {"open", "ending", "ended"} => q.own \in {"open", "ending", "ended"}
<1>1. CASE Alive(r)
  BY <1>1 DEF EndOwn, SocketRecord, Alike, Alive
<1>2. CASE ~Alive(r)
  BY <1>2 DEF EndOwn, Alike
<1> QED
  BY <1>1, <1>2

LEMMA FilesInitial == ASSUME FileSocketsInit PROVE FilesInv
<1>1. NewSocket \in SocketRecord
  BY DEF NewSocket, SocketRecord
<1>2. FileSocketsTypeOK
  BY <1>1 DEF FileSocketsInit, FileSocketsTypeOK
<1>3. /\ NewSocket.at = "new" /\ NewSocket.own = "none" /\ NewSocket.chan = "none"
      /\ NewSocket.shares = FALSE /\ NewSocket.clean = "no"
  BY DEF NewSocket
<1>4. \A k \in Sockets : Staged(k) /\ Held(k)
  BY <1>3, FilesApart DEF FileSocketsInit, Staged, Held, Alive
<1>5. MasterKnown
  BY DEF FileSocketsInit, MasterKnown
<1> QED
  BY <1>2, <1>4, <1>5 DEF FilesInv

\* A step of one file manager that takes nothing from the session.
LEMMA SocketStep ==
  ASSUME FilesInv, NEW k \in Sockets, NEW r \in SocketRecord, SetSock(k, r),
         UNCHANGED <<listed, master, taping, term, installed>>, paused' \in BOOLEAN,
         handles' \subseteq Sockets, handles \ {k} \subseteq handles',
         Staged(k)', Held(k)'
  PROVE  FilesInv'
<1> USE DEF FilesInv, FileSocketsTypeOK, SetSock
<1>1. \A j \in Sockets : j # k => sock'[j] = sock[j]
  OBVIOUS
<1>2. ASSUME NEW j \in Sockets, j # k PROVE Staged(j)' /\ Held(j)'
  BY <1>1, <1>2 DEF Staged, Held, Alive
<1>3. MasterKnown'
  BY DEF MasterKnown
<1>4. FileSocketsTypeOK'
  OBVIOUS
<1> QED
  BY <1>2, <1>3, <1>4

LEMMA SocketSet ==
  ASSUME FileSocketsTypeOK, NEW k \in Sockets, NEW r, SetSock(k, r)
  PROVE  sock'[k] = r
BY DEF FileSocketsTypeOK, SetSock

\* Before its handlers are attached a socket holds nothing.
LEMMA EarlySteps ==
  ASSUME FilesInv, NEW k \in Sockets,
         OpenSocket(k) \/ Refused(k) \/ ShareConnection(k) \/ DialOwn(k)
         \/ CreateClient(k) \/ CreateClientFails(k)
  PROVE  FilesInv'
<1> DEFINE Step(r) == /\ r \in SocketRecord /\ SetSock(k, r)
                      /\ UNCHANGED <<listed, master, handles, taping, term, installed>> /\ paused' \in BOOLEAN
                      /\ Staged(k)' /\ Held(k)'
<1>0. /\ sock[k] \in SocketRecord /\ FileSocketsTypeOK /\ Staged(k) /\ MasterKnown
      /\ paused \in BOOLEAN /\ handles \subseteq Sockets
  BY DEF FilesInv, FileSocketsTypeOK
<1>1. ASSUME NEW r, Step(r) PROVE FilesInv'
  BY <1>0, <1>1, SocketStep
<1>2. CASE OpenSocket(k)
  <2> DEFINE r == IF listed THEN [sock[k] EXCEPT !.at = "auth"]
                  ELSE [sock[k] EXCEPT !.at = "off", !.net = "closing"]
  <2>1. SetSock(k, r) /\ sock'[k] = r
    BY <1>0, <1>2, SocketSet DEF OpenSocket
  <2>2. /\ r \in SocketRecord /\ r.own = "none" /\ r.chan = "none"
        /\ ~r.shares /\ r.clean = "no" /\ r.at \in {"auth", "off"}
    BY <1>0, <1>2 DEF OpenSocket, SocketRecord, Staged
  <2>3. k \notin installed
    BY <1>0, <1>2 DEF OpenSocket, Staged
  <2>4. Staged(k)' /\ Held(k)'
    BY <1>0, <1>2, <2>1, <2>2, <2>3, FilesApart DEF OpenSocket, Staged, Held, Alive, MasterKnown
  <2> QED
    BY <1>0, <1>1, <1>2, <2>1, <2>2, <2>4 DEF OpenSocket
<1>3. CASE Refused(k)
  <2> DEFINE p == [sock[k] EXCEPT !.at = "off"]
             r == CloseSocket(p)
  <2>1. SetSock(k, r) /\ sock'[k] = r
    BY <1>0, <1>3, SocketSet DEF Refused
  <2>2. /\ p \in SocketRecord /\ p.own = "none" /\ p.chan = "none"
        /\ ~p.shares /\ p.clean = "no" /\ p.at = "off"
    BY <1>0, <1>3 DEF Refused, SocketRecord, Staged
  <2>a. r = CloseSocket(p)
    OBVIOUS
  <2> HIDE DEF p, r
  <2>3. /\ r \in SocketRecord /\ r.own = "none" /\ r.chan = "none"
        /\ ~r.shares /\ r.clean = "no" /\ r.at = "off"
    BY SMTT(30), <2>a, <2>2, CloseSocketRecord DEF Alike
  <2>4. k \notin installed
    BY <1>0, <1>3 DEF Refused, Staged
  <2>5. Staged(k)' /\ Held(k)'
    BY <1>0, <1>3, <2>1, <2>3, <2>4, FilesApart DEF Refused, Staged, Held, Alive, MasterKnown
  <2> QED
    BY <1>0, <1>1, <1>3, <2>1, <2>3, <2>5 DEF Refused
<1>4. CASE ShareConnection(k)
  <2> DEFINE p == [sock[k] EXCEPT !.at = "on", !.shares = TRUE, !.deaf = (sock[k].net = "closed")]
             o == [p EXCEPT !.chan = "asked"]
             r == IF term = "open" THEN o ELSE BeginCleanup(p, TRUE)
  <2>1. SetSock(k, r) /\ sock'[k] = r
    BY <1>0, <1>4, SocketSet DEF ShareConnection
  <2>2. /\ p \in SocketRecord /\ p.at = "on" /\ p.own = "none" /\ p.chan = "none" /\ p.clean = "no"
        /\ p.net = "closed" => p.deaf
    BY <1>0, <1>4 DEF ShareConnection, SocketRecord, Staged
  <2>a. o = [p EXCEPT !.chan = "asked"] /\ r = IF term = "open" THEN o ELSE BeginCleanup(p, TRUE)
    OBVIOUS
  <2> HIDE DEF p, o, r
  <2>3. /\ o \in SocketRecord /\ o.at = "on" /\ o.own = "none" /\ o.chan = "asked" /\ o.clean = "no"
        /\ o.net = "closed" => o.deaf
    BY <2>a, <2>2 DEF SocketRecord
  <2>4. /\ r \in SocketRecord /\ r.at = "on" /\ r.own = "none" /\ r.chan # "open" /\ r.clean # "done"
        /\ r.clean # "no" => r.chan = "none"
        /\ r.net = "closed" => r.deaf
    <3>1. CASE term = "open"
      BY <2>a, <2>3, <3>1
    <3>2. CASE term # "open"
      BY ZenonT(60), <2>a, <2>2, <3>2, BeginCleanupRecord DEF Alike
    <3> QED
      BY <3>1, <3>2
  <2>5. /\ k \notin installed /\ listed /\ Terminal \in installed
        /\ term \in {"open", "gone"} /\ master = Terminal
    BY <1>0, <1>4, FilesApart DEF ShareConnection, Staged, MasterKnown
  <2>6. Staged(k)' /\ Held(k)'
    BY <1>4, <2>1, <2>4, <2>5, FilesApart DEF ShareConnection, Staged, Held, Alive
  <2> QED
    BY <1>0, <1>1, <1>4, <2>1, <2>4, <2>6 DEF ShareConnection, Resume
<1>5. CASE DialOwn(k)
  <2> DEFINE r == [sock[k] EXCEPT !.at = "dial"]
  <2>1. SetSock(k, r) /\ sock'[k] = r
    BY <1>0, <1>5, SocketSet DEF DialOwn
  <2>2. /\ r \in SocketRecord /\ r.own = "none" /\ r.chan = "none"
        /\ ~r.shares /\ r.clean = "no" /\ r.at = "dial"
    BY <1>0, <1>5 DEF DialOwn, SocketRecord, Staged
  <2>3. k \notin installed
    BY <1>0, <1>5 DEF DialOwn, Staged
  <2>4. Staged(k)' /\ Held(k)'
    BY <1>0, <1>5, <2>1, <2>2, <2>3, FilesApart DEF DialOwn, Staged, Held, Alive, MasterKnown
  <2> QED
    BY <1>0, <1>1, <1>5, <2>1, <2>2, <2>4 DEF DialOwn, Resume
<1>6. CASE CreateClient(k)
  <2> DEFINE r == [sock[k] EXCEPT !.at = "on", !.own = "connecting", !.deaf = (sock[k].net = "closed")]
  <2>1. SetSock(k, r) /\ sock'[k] = r
    BY <1>0, <1>6, SocketSet DEF CreateClient
  <2>2. /\ r \in SocketRecord /\ r.at = "on" /\ r.own = "connecting" /\ r.chan = "none" /\ ~r.shares /\ r.clean = "no"
        /\ r.net = "closed" => r.deaf
    BY <1>0, <1>6 DEF CreateClient, SocketRecord, Staged
  <2>3. k \notin installed
    BY <1>0, <1>6 DEF CreateClient, Staged
  <2>4. Staged(k)' /\ Held(k)'
    BY <1>0, <1>6, <2>1, <2>2, <2>3, FilesApart DEF CreateClient, Staged, Held, Alive, MasterKnown
  <2> QED
    BY <1>0, <1>1, <1>6, <2>1, <2>2, <2>4 DEF CreateClient
<1>7. CASE CreateClientFails(k)
  <2> DEFINE p == [sock[k] EXCEPT !.at = "off"]
             r == BeginCleanup(p, TRUE)
  <2>1. SetSock(k, r) /\ sock'[k] = r
    BY <1>0, <1>7, SocketSet DEF CreateClientFails
  <2>2. /\ p \in SocketRecord /\ p.own = "none" /\ p.chan = "none"
        /\ ~p.shares /\ p.clean = "no" /\ p.at = "off"
    BY <1>0, <1>7 DEF CreateClientFails, SocketRecord, Staged
  <2>a. r = BeginCleanup(p, TRUE)
    OBVIOUS
  <2> HIDE DEF p, r
  <2>3. /\ r \in SocketRecord /\ r.own = "none" /\ r.chan = "none"
        /\ ~r.shares /\ r.clean = "audit" /\ r.at = "off"
    BY ZenonT(60), <2>a, <2>2, BeginCleanupRecord DEF Alike
  <2>4. k \notin installed
    BY <1>0, <1>7 DEF CreateClientFails, Staged
  <2>5. Staged(k)' /\ Held(k)'
    BY <1>0, <1>7, <2>1, <2>3, <2>4, FilesApart DEF CreateClientFails, Staged, Held, Alive, MasterKnown
  <2> QED
    BY <1>0, <1>1, <1>7, <2>1, <2>3, <2>5 DEF CreateClientFails
<1> QED
  BY <1>2, <1>3, <1>4, <1>5, <1>6, <1>7

\* What happens to a connection or a socket with its handlers attached.
LEMMA EventSteps ==
  ASSUME FilesInv, NEW k \in Sockets,
         OwnReady(k) \/ OwnErrors(k) \/ OwnEnds(k) \/ ChannelFails(k) \/ CloseEvent(k)
  PROVE  FilesInv'
<1> DEFINE Step(r) == /\ r \in SocketRecord /\ SetSock(k, r)
                      /\ UNCHANGED <<listed, paused, master, handles, taping, term, installed>>
                      /\ Staged(k)' /\ Held(k)'
<1>0. /\ sock[k] \in SocketRecord /\ FileSocketsTypeOK /\ Staged(k) /\ Held(k) /\ MasterKnown
      /\ paused \in BOOLEAN /\ handles \subseteq Sockets
  BY DEF FilesInv, FileSocketsTypeOK
<1>1. ASSUME NEW r, Step(r) PROVE FilesInv'
  BY <1>0, <1>1, SocketStep
<1>2. CASE OwnReady(k)
  <2> DEFINE r == [sock[k] EXCEPT !.own = "open", !.chan = "asked"]
  <2>1. SetSock(k, r) /\ sock'[k] = r
    BY <1>0, <1>2, SocketSet DEF OwnReady
  <2>2. /\ r \in SocketRecord /\ Alike(r, sock[k]) /\ r.clean = sock[k].clean /\ r.net = sock[k].net
        /\ r.own = "open" /\ r.chan = "asked"
    BY <1>0 DEF SocketRecord, Alike
  <2>3. sock[k].at = "on" /\ ~sock[k].shares /\ k \notin installed /\ sock[k].clean # "done"
    BY <1>0, <1>2 DEF OwnReady, Staged, Alive
  <2>4. Staged(k)' /\ Held(k)'
    BY <1>0, <1>2, <2>1, <2>2, <2>3, FilesApart DEF OwnReady, Staged, Held, Alive, Alike, MasterKnown
  <2> QED
    BY <1>1, <1>2, <2>1, <2>2, <2>4 DEF OwnReady
<1>3. ASSUME NEW r, SetSock(k, r), sock[k].own \in {"connecting", "open", "ending"},
             \/ r = BeginCleanup(Cut([sock[k] EXCEPT !.own = "ended"]), TRUE)
             \/ r = BeginCleanup(Cut([sock[k] EXCEPT !.own = "ended"]), FALSE),
             UNCHANGED <<listed, paused, master, handles, taping, term, installed>>
      PROVE  FilesInv'
  <2> DEFINE p == [sock[k] EXCEPT !.own = "ended"]
             q == Cut(p)
  <2>1. SetSock(k, r) /\ sock'[k] = r
    BY <1>0, <1>3, SocketSet
  <2>2. /\ p \in SocketRecord /\ Alike(p, sock[k]) /\ p.clean = sock[k].clean
        /\ p.net = sock[k].net /\ p.own = "ended"
    BY <1>0 DEF SocketRecord, Alike
  <2>3. q \in SocketRecord /\ Alike(q, p) /\ q.clean = p.clean /\ q.net = p.net /\ q.own = "ended"
    BY <2>2, CutRecord
  <2>4. /\ r \in SocketRecord /\ Alike(r, q) /\ r.own = "ended" /\ (r.net = "closed" <=> q.net = "closed")
        /\ r.clean = IF q.clean = "no" THEN "audit" ELSE q.clean
    BY <1>3, <2>3, BeginCleanupRecord
  <2>5. /\ r.own = "ended" /\ Alike(r, sock[k]) /\ (r.net = "closed" <=> sock[k].net = "closed")
        /\ r.clean = IF sock[k].clean = "no" THEN "audit" ELSE sock[k].clean
    BY <2>2, <2>3, <2>4 DEF Alike
  <2>6. sock[k].at = "on" /\ ~sock[k].shares
    BY <1>0, <1>3 DEF Staged
  <2>7. sock[k].clean \in {"no", "audit", "done"}
    BY <1>0 DEF SocketRecord
  <2>8. Staged(k)' /\ Held(k)'
    BY <1>0, <1>3, <2>1, <2>5, <2>6, <2>7, FilesApart DEF Staged, Held, Alive, Alike
  <2> QED
    BY <1>1, <1>3, <2>1, <2>4, <2>8
<1>4. CASE OwnErrors(k)
  BY <1>3, <1>4 DEF OwnErrors
<1>5. CASE OwnEnds(k)
  BY <1>3, <1>5 DEF OwnEnds
<1>6. CASE ChannelFails(k)
  <2> DEFINE p == [sock[k] EXCEPT !.chan = "none"]
             r == CloseSocket(p)
  <2>1. SetSock(k, r) /\ sock'[k] = r
    BY <1>0, <1>6, SocketSet DEF ChannelFails
  <2>2. /\ p \in SocketRecord /\ Alike(p, sock[k]) /\ p.clean = sock[k].clean /\ p.net = sock[k].net
        /\ p.own = sock[k].own /\ p.chan = "none"
    BY <1>0 DEF SocketRecord, Alike
  <2>3. /\ r \in SocketRecord /\ Alike(r, sock[k]) /\ r.clean = sock[k].clean
        /\ (r.net = "closed" <=> sock[k].net = "closed") /\ r.own = sock[k].own /\ r.chan = "none"
    BY ZenonT(60), <2>2, CloseSocketRecord DEF Alike
  <2>4. Staged(k)' /\ Held(k)'
    BY <1>0, <1>6, <2>1, <2>3 DEF ChannelFails, Staged, Held, Alive, Alike
  <2> QED
    BY <1>1, <1>6, <2>1, <2>3, <2>4 DEF ChannelFails
<1>7. CASE CloseEvent(k)
  <2> DEFINE p == [sock[k] EXCEPT !.net = "closed"]
             r == IF p.at = "on" THEN BeginCleanup(p, FALSE) ELSE p
  <2>1. SetSock(k, r) /\ sock'[k] = r
    BY <1>0, <1>7, SocketSet DEF CloseEvent
  <2>2. /\ p \in SocketRecord /\ Alike(p, sock[k]) /\ p.clean = sock[k].clean
        /\ p.own = sock[k].own /\ p.chan = sock[k].chan /\ p.net = "closed"
    BY <1>0 DEF SocketRecord, Alike
  <2>a. r = IF p.at = "on" THEN BeginCleanup(p, FALSE) ELSE p
    OBVIOUS
  <2> HIDE DEF p, r
  <2>3. /\ r \in SocketRecord /\ Alike(r, sock[k]) /\ r.own = sock[k].own /\ r.chan = sock[k].chan
        /\ r.net = "closed"
        /\ r.clean = IF sock[k].at = "on" /\ sock[k].clean = "no" THEN "audit" ELSE sock[k].clean
    <3>1. CASE p.at = "on"
      BY ZenonT(60), <2>a, <2>2, <3>1, BeginCleanupRecord DEF Alike
    <3>2. CASE p.at # "on"
      BY <2>a, <2>2, <3>2 DEF Alike
    <3> QED
      BY <3>1, <3>2
  <2>4. sock[k].clean \in {"no", "audit", "done"}
    BY <1>0 DEF SocketRecord
  <2>5. Staged(k)'
    BY <1>0, <1>7, <2>1, <2>3, <2>4 DEF CloseEvent, Staged, Alive, Alike
  <2>6. Held(k)'
    BY <1>0, <1>7, <2>1, <2>3, <2>4 DEF CloseEvent, Staged, Held, Alive, Alike
  <2> QED
    BY <1>1, <1>7, <2>1, <2>3, <2>5, <2>6 DEF CloseEvent
<1> QED
  BY <1>2, <1>4, <1>5, <1>6, <1>7

(* what remove() and the end of a connection do to a file manager *)
Near(q, r) ==
    /\ Alike(q, r) /\ (q.net = "closed" <=> r.net = "closed")
    /\ q.own = "none" <=> r.own = "none"
    /\ Alive(q) => q.own = r.own
    /\ r.own \in {"open", "ending", "ended"} => q.own \in {"open", "ending", "ended"}
    /\ q.chan = "open" => r.chan = "open"
    /\ q.chan = "none" <=> r.chan = "none"
    /\ q.clean = r.clean \/ (r.clean = "audit" /\ q.clean = "done" /\ ~q.shares /\ ~Alive(q))

LEMMA NearSelf == ASSUME NEW r PROVE Near(r, r)
BY DEF Near, Alike, Alive

LEMMA NearCut ==
  ASSUME NEW r \in SocketRecord, NEW q, q = Cut(r)
  PROVE  q \in SocketRecord /\ Near(q, r) /\ q.chan # "open"
<1>1. /\ q \in SocketRecord /\ Alike(q, r)
      /\ q.own = r.own /\ q.net = r.net /\ q.clean = r.clean
      /\ q.chan # "open" /\ (q.chan = "none" <=> r.chan = "none")
  BY CutRecord
<1> QED
  BY <1>1 DEF Near, Alive

LEMMA NearEnd ==
  ASSUME NEW r \in SocketRecord, NEW q, q = EndOwn(r)
  PROVE  q \in SocketRecord /\ Near(q, r) /\ ~Alive(q)
<1>1. /\ q \in SocketRecord /\ Alike(q, r)
      /\ q.chan = r.chan /\ q.net = r.net /\ q.clean = r.clean
      /\ ~Alive(q) /\ (q.own = "none" <=> r.own = "none")
      /\ r.own \in {"open", "ending", "ended"} => q.own \in {"open", "ending", "ended"}
  BY EndOwnRecord
<1> QED
  BY <1>1 DEF Near

LEMMA NearBoth == ASSUME NEW p, NEW q, NEW r, Near(p, q), Near(q, r) PROVE Near(p, r)
BY DEF Near, Alike, Alive

\* remove(), with f and t for what its caller did before.
LEMMA RemoveKeeps ==
  ASSUME FilesInv, NEW f \in [Sockets -> SocketRecord], NEW t,
         t = term \/ (t = "gone" /\ term \in {"dialling", "open"}),
         \A j \in Sockets : Near(f[j], sock[j]) /\ (f[j].shares /\ f[j].chan = "open" => t = term),
         Remove(f, t) \/ (Drop(f, t) /\ taping' \in {"no", taping}),
         paused' \in BOOLEAN, UNCHANGED installed
  PROVE  FilesInv'
<1>0. FileSocketsTypeOK /\ MasterKnown /\ \A j \in Sockets : Staged(j) /\ Held(j)
  BY DEF FilesInv
<1>1. CASE Stays(f, t) /\ (listed => taping' = "flushing")
           /\ taping' \in {"no", "on", "flushing"} /\ (taping' # "no" => taping # "no")
  <2>1. FileSocketsTypeOK'
    BY <1>0, <1>1 DEF FileSocketsTypeOK, Stays
  <2>2. MasterKnown'
    BY <1>0, <1>1 DEF MasterKnown, Stays
  <2>3. ASSUME NEW j \in Sockets PROVE Staged(j)'
    BY <1>0, <1>1 DEF Staged, Stays, Near, Alike, Alive
  <2>4. ASSUME NEW j \in Sockets PROVE Held(j)'
    BY <1>0, <1>1 DEF Held, Stays, Near, Alike, Alive
  <2> QED
    BY <2>1, <2>2, <2>3, <2>4 DEF FilesInv
<1>2. CASE Drop(f, t) /\ taping' \in {"no", taping}
  <2>1. ASSUME NEW j \in Sockets
        PROVE  /\ sock'[j] \in SocketRecord /\ Near(sock'[j], sock[j])
               /\ j = master => ~Alive(sock'[j])
               /\ master = Terminal /\ sock'[j].shares => sock'[j].chan # "open"
    <3>1. CASE master = Terminal
      <4>1. sock'[j] = IF f[j].shares THEN Cut(f[j]) ELSE f[j]
        BY <1>2, <3>1 DEF Drop, CutShared
      <4> QED
        BY <3>1, <4>1, NearCut, NearBoth, FilesApart DEF Near, Alike
    <3>2. CASE master # Terminal
      <4>1. sock'[j] = IF j = master THEN EndOwn(f[j]) ELSE f[j]
        BY <1>2, <3>2 DEF Drop
      <4> QED
        BY <3>2, <4>1, NearEnd, NearBoth
    <3> QED
      BY <3>1, <3>2
  <2>2. FileSocketsTypeOK'
    <3>1. sock' = [j \in Sockets |-> sock'[j]]
      BY <1>2 DEF Drop, CutShared
    <3>2. sock' \in [Sockets -> SocketRecord]
      BY <2>1, <3>1
    <3> QED
      BY <1>0, <1>2, <3>2 DEF FileSocketsTypeOK, Drop
  <2>3. MasterKnown'
    BY <1>0, <1>2 DEF MasterKnown, Drop, FileSocketsTypeOK
  <2>4. ASSUME NEW j \in Sockets PROVE Staged(j)'
    BY <1>0, <1>2, <2>1 DEF Staged, Drop, Near, Alike, Alive
  <2>5. ASSUME NEW j \in Sockets PROVE Held(j)'
    BY <1>0, <1>2, <2>1 DEF Held, Drop, Near, Alike, Alive
  <2> QED
    BY <2>2, <2>3, <2>4, <2>5 DEF FilesInv
<1> QED
  BY <1>0, <1>1, <1>2 DEF Remove, FileSocketsTypeOK, Stays

\* The end of cleanup(), each of its three ways out.
LEMMA CleanupKeeps == ASSUME FilesInv, NEW k \in Sockets, FinishCleanup(k) PROVE FilesInv'
<1> DEFINE r == [sock[k] EXCEPT !.clean = "done"]
           s == IF r.shuts THEN CloseSocket(r) ELSE r
           c == Cut(s)
           e == EndOwn(s)
           f == [sock EXCEPT ![k] = e]
           g == [e EXCEPT !.kept = TRUE]
<1>0. /\ sock[k] \in SocketRecord /\ FileSocketsTypeOK /\ Staged(k) /\ Held(k) /\ MasterKnown
      /\ paused \in BOOLEAN /\ handles \subseteq Sockets
      /\ sock[k].clean = "audit" /\ UNCHANGED <<paused, installed>>
  BY DEF FilesInv, FileSocketsTypeOK, FinishCleanup
<1>1. /\ r \in SocketRecord /\ Alike(r, sock[k]) /\ r.net = sock[k].net
      /\ r.own = sock[k].own /\ r.chan = sock[k].chan /\ r.clean = "done"
  BY <1>0 DEF SocketRecord, Alike
<1>2. /\ s \in SocketRecord /\ Alike(s, sock[k]) /\ (s.net = "closed" <=> sock[k].net = "closed")
      /\ s.own = sock[k].own /\ s.chan = sock[k].chan /\ s.clean = "done"
  <2> HIDE DEF r
  <2>1. CASE r.shuts
    BY SMTT(30), <1>1, <2>1, CloseSocketRecord DEF Alike
  <2>2. CASE ~r.shuts
    BY <1>1, <2>2
  <2> QED
    BY <2>1, <2>2
<1>3. \/ /\ sock[k].shares /\ SetSock(k, c) /\ UNCHANGED <<listed, master, taping, term>>
         /\ handles' = IF s.chan \in {"open", "ended"} THEN handles \ {k} ELSE handles
      \/ /\ ~sock[k].shares /\ SetSock(k, g)
         /\ UNCHANGED <<listed, master, handles, taping, term>>
      \/ ~sock[k].shares /\ Remove(f, term)
  BY DEF FinishCleanup
<1>4. e = EndOwn(s) /\ c = Cut(s) /\ f = [sock EXCEPT ![k] = e] /\ g = [e EXCEPT !.kept = TRUE]
  OBVIOUS
<1> HIDE DEF r, s, c, e, f, g
<1>5. /\ e \in SocketRecord /\ Alike(e, s) /\ e.chan = s.chan /\ e.net = s.net /\ e.clean = s.clean
      /\ ~Alive(e) /\ (e.own = "none" <=> s.own = "none")
      /\ s.own \in {"open", "ending", "ended"} => e.own \in {"open", "ending", "ended"}
  BY <1>4, <1>2, EndOwnRecord
<1>6. /\ c \in SocketRecord /\ Alike(c, s) /\ c.own = s.own /\ c.net = s.net /\ c.clean = s.clean
      /\ c.chan # "open" /\ (c.chan = "none" <=> s.chan = "none")
  BY <1>4, <1>2, CutRecord
<1>7. CASE /\ sock[k].shares /\ SetSock(k, c) /\ UNCHANGED <<listed, master, taping, term>>
           /\ handles' = IF s.chan \in {"open", "ended"} THEN handles \ {k} ELSE handles
  <2>1. sock'[k] = c
    BY <1>0, <1>7, SocketSet
  <2>2. /\ c.own = "none" /\ c.shares /\ c.clean = "done" /\ c.at = sock[k].at
        /\ c.net = "closed" <=> sock[k].net = "closed"
        /\ c.chan = "none" <=> sock[k].chan = "none"
    BY <1>0, <1>2, <1>6, <1>7 DEF Staged, Alike
  <2>3. /\ k \notin installed /\ master # k /\ sock[k].at = "on"
        /\ term \in {"open", "gone"} /\ (term = "open" => master = Terminal)
        /\ sock[k].net = "closed" \/ sock[k].chan = "none"
    BY <1>0, <1>7, FilesApart DEF Staged, MasterKnown
  <2>4. Staged(k)'
    BY <1>0, <1>7, <2>1, <2>2, <2>3 DEF Staged, Alive
  <2>5. Held(k)'
    BY <1>0, <1>6, <1>7, <2>1, <2>2, <2>3 DEF Held, Alive
  <2>6. handles' \subseteq Sockets /\ handles \ {k} \subseteq handles'
    BY <1>0, <1>7
  <2> QED
    BY <1>0, <1>6, <1>7, <2>4, <2>5, <2>6, SocketStep
<1>8. CASE ~sock[k].shares /\ SetSock(k, g) /\ UNCHANGED <<listed, master, handles, taping, term>>
  <2>1. sock'[k] = g
    BY <1>0, <1>8, SocketSet
  <2>2. /\ g \in SocketRecord /\ g.own = e.own /\ g.clean = "done" /\ g.kept = TRUE
        /\ g.chan = sock[k].chan /\ g.at = sock[k].at /\ ~g.shares
    BY <1>2, <1>5, <1>8, <1>4 DEF SocketRecord, Alike
  <2>3. ~Alive(g)
    BY <1>5, <2>2 DEF Alive
  <2>4. Staged(k)'
    BY <1>0, <1>2, <1>5, <1>8, <2>1, <2>2, <2>3 DEF Staged
  <2>5. Held(k)'
    BY <1>0, <1>8, <2>1, <2>2, <2>3 DEF Held
  <2> QED
    BY <1>0, <1>8, <2>2, <2>4, <2>5, SocketStep
<1>9. CASE ~sock[k].shares /\ Remove(f, term)
  <2>1. f \in [Sockets -> SocketRecord] /\ f[k] = e /\ \A j \in Sockets : j # k => f[j] = sock[j]
    BY <1>0, <1>5, <1>4 DEF FileSocketsTypeOK
  <2>2. Near(e, sock[k])
    BY <1>0, <1>2, <1>5, <1>9 DEF Near, Alike
  <2>3. \A j \in Sockets : Near(f[j], sock[j])
    BY <2>1, <2>2, NearSelf
  <2> QED
    BY <1>0, <1>9, <2>1, <2>3, RemoveKeeps
<1> QED
  BY <1>3, <1>7, <1>8, <1>9

\* A channel opens: the session learns of it, or is given its connection.
LEMMA ChannelKeeps == ASSUME FilesInv, NEW k \in Sockets, ChannelOpens(k) PROVE FilesInv'
<1> DEFINE r == [sock[k] EXCEPT !.chan = "open", !.late = (sock[k].clean = "done")]
<1>0. /\ sock[k] \in SocketRecord /\ FileSocketsTypeOK /\ Staged(k) /\ Held(k) /\ MasterKnown
      /\ paused \in BOOLEAN /\ handles \subseteq Sockets
      /\ sock[k].chan = "asked" /\ UNCHANGED <<listed, paused, taping, term>>
  BY DEF FilesInv, FileSocketsTypeOK, ChannelOpens
<1>1. SetSock(k, r) /\ sock'[k] = r
  BY <1>0, SocketSet DEF ChannelOpens
<1>2. /\ r \in SocketRecord /\ r.at = sock[k].at /\ r.shares = sock[k].shares /\ r.own = sock[k].own
      /\ r.deaf = sock[k].deaf /\ r.kept = sock[k].kept /\ r.net = sock[k].net /\ r.clean = sock[k].clean
      /\ r.chan = "open" /\ r.late = (sock[k].clean = "done")
  BY <1>0 DEF SocketRecord
<1>3. sock[k].at = "on" /\ sock[k].clean \in {"no", "audit", "done"}
  BY <1>0 DEF Staged, SocketRecord
<1> HIDE DEF r
<1>4. CASE sock[k].shares
  <2>1. term = "open" /\ master = Terminal /\ listed /\ k \notin installed /\ sock[k].own = "none"
    BY <1>0, <1>4, FilesApart DEF ChannelOpens, Connected, Staged, MasterKnown
  <2>2. handles' = handles \cup {k} /\ UNCHANGED <<master, installed>>
    BY <1>4, <2>1, FilesApart DEF ChannelOpens
  <2>3. Staged(k)'
    BY <1>0, <1>1, <1>2, <1>3, <2>1, <2>2 DEF Staged, Alive
  <2>4. Held(k)'
    BY <1>0, <1>1, <1>2, <1>3, <2>1, <2>2, FilesApart DEF Held, Staged, Alive
  <2> QED
    BY <1>0, <1>1, <1>2, <2>2, <2>3, <2>4, SocketStep
<1>5. CASE ~sock[k].shares /\ ~(listed /\ master = Nothing)
  <2>1. UNCHANGED <<master, installed, handles>>
    BY <1>5 DEF ChannelOpens, SetConnection
  <2>2. Staged(k)'
    BY <1>0, <1>1, <1>2, <1>3, <1>5, <2>1 DEF Staged, Alive
  <2>3. Held(k)'
    BY <1>0, <1>1, <1>2, <1>5, <2>1 DEF Held, Alive
  <2> QED
    BY <1>0, <1>1, <1>2, <2>1, <2>2, <2>3, SocketStep
<1>6. CASE ~sock[k].shares /\ listed /\ master = Nothing
  <2>1. /\ master' = k /\ installed' = installed \cup {k} /\ UNCHANGED handles
        /\ sock[k].own = "open"
    BY <1>6 DEF ChannelOpens, SetConnection, Connected
  <2>2. \A j \in Sockets : j # k => sock'[j] = sock[j]
    BY <1>0, <1>1 DEF FileSocketsTypeOK, SetSock
  <2>3. FileSocketsTypeOK'
    BY <1>0, <1>1, <1>2, <2>1 DEF FileSocketsTypeOK, SetSock
  <2>4. MasterKnown'
    BY <1>0, <1>6, <2>1, FilesApart DEF MasterKnown
  <2>5. ASSUME NEW j \in Sockets PROVE Staged(j)'
    <3>1. CASE j = k
      BY <1>0, <1>1, <1>2, <1>3, <1>6, <2>1, <3>1 DEF Staged, Alive
    <3>2. CASE j # k
      BY <1>0, <1>6, <2>1, <2>2, <3>2, FilesApart DEF Staged, Alive, FilesInv
    <3> QED
      BY <3>1, <3>2
  <2>6. ASSUME NEW j \in Sockets PROVE Held(j)'
    <3>1. CASE j = k
      BY <1>0, <1>1, <1>2, <1>6, <2>1, <3>1 DEF Held, Alive
    <3>2. CASE j # k
      BY <1>0, <1>6, <2>1, <2>2, <3>2, FilesApart DEF Held, Alive, FilesInv
    <3> QED
      BY <3>1, <3>2
  <2> QED
    BY <2>3, <2>4, <2>5, <2>6 DEF FilesInv
<1> QED
  BY <1>4, <1>5, <1>6

\* The session and its terminal.
LEMMA SessionKeeps ==
  ASSUME FilesInv,
         Delete \/ RemoveFinish \/ Pause \/ Unpause \/ ShellOpens \/ DialFails \/ ShellCloses
  PROVE  FilesInv'
<1>0. /\ FileSocketsTypeOK /\ MasterKnown /\ \A j \in Sockets : Staged(j) /\ Held(j)
      /\ sock \in [Sockets -> SocketRecord] /\ paused \in BOOLEAN
  BY DEF FilesInv, FileSocketsTypeOK
<1>1. CASE Delete
  BY <1>0, <1>1, NearSelf, RemoveKeeps DEF Delete
<1>2. CASE RemoveFinish
  BY <1>0, <1>2, NearSelf, RemoveKeeps DEF RemoveFinish
<1>3. CASE DialFails
  <2>1. \A j \in Sockets : ~(sock[j].shares /\ sock[j].chan = "open")
    BY <1>0, <1>3 DEF DialFails, Held
  <2> QED
    BY <1>0, <1>3, <2>1, NearSelf, RemoveKeeps DEF DialFails
<1>4. CASE ShellCloses
  <2> DEFINE f == CutShared(sock)
  <2>1. \A j \in Sockets : f[j] = IF sock[j].shares THEN Cut(sock[j]) ELSE sock[j]
    BY DEF CutShared
  <2>2. ASSUME NEW j \in Sockets
        PROVE  /\ f[j] \in SocketRecord /\ Near(f[j], sock[j])
               /\ ~(f[j].shares /\ f[j].chan = "open")
    <3>1. CASE sock[j].shares
      BY <1>0, <2>1, <3>1, NearCut
    <3>2. CASE ~sock[j].shares
      BY <1>0, <2>1, <3>2, NearSelf
    <3> QED
      BY <3>1, <3>2
  <2>3. f = [j \in Sockets |-> f[j]]
    BY DEF CutShared
  <2>4. Remove(f, "gone") /\ UNCHANGED <<paused, installed>> /\ term = "open"
    BY <1>4 DEF ShellCloses
  <2> HIDE DEF f
  <2>5. f \in [Sockets -> SocketRecord]
    BY <2>2, <2>3
  <2> QED
    BY <1>0, <2>2, <2>4, <2>5, RemoveKeeps
<1>5. CASE Pause \/ Unpause
  <2>1. /\ UNCHANGED <<listed, master, handles, taping, term, sock, installed>>
        /\ paused' \in BOOLEAN
    BY <1>5 DEF Pause, Unpause
  <2> QED
    BY <1>0, <2>1 DEF FilesInv, FileSocketsTypeOK, MasterKnown, Staged, Held, Alive
<1>6. CASE ShellOpens
  <2>1. /\ term = "dialling" /\ term' = "open" /\ UNCHANGED <<listed, paused, handles, sock>>
        /\ taping' \in {"on", taping} /\ SetConnection(Terminal) /\ taping = "no"
        /\ Terminal \notin installed /\ \A j \in Sockets : ~sock[j].shares
    BY <1>0, <1>6 DEF ShellOpens, MasterKnown, Staged, FileSocketsTypeOK
  <2>2. \/ /\ listed /\ master = Nothing
           /\ master' = Terminal /\ installed' = installed \cup {Terminal}
        \/ ~(listed /\ master = Nothing) /\ UNCHANGED <<master, installed>>
    BY <2>1 DEF SetConnection
  <2>3. FileSocketsTypeOK'
    BY <1>0, <2>1, <2>2 DEF FileSocketsTypeOK
  <2>4. MasterKnown'
    BY <1>0, <2>1, <2>2, FilesApart DEF MasterKnown
  <2>5. ASSUME NEW j \in Sockets PROVE Staged(j)'
    BY <1>0, <2>1, <2>2, FilesApart DEF Staged, Alive
  <2>6. ASSUME NEW j \in Sockets PROVE Held(j)'
    BY <1>0, <2>1, <2>2, FilesApart DEF Held, Alive
  <2> QED
    BY <2>3, <2>4, <2>5, <2>6 DEF FilesInv
<1> QED
  BY <1>1, <1>2, <1>3, <1>4, <1>5, <1>6

\* What a file manager keeps and what the session's log of managers knows holds throughout.
LEMMA FilesInvariant == FileSocketsSpec => []FilesInv
<1>1. FileSocketsInit => FilesInv
  BY FilesInitial
<1>2. FilesInv /\ [FileSocketsNext]_fsVars => FilesInv'
  <2> SUFFICES ASSUME FilesInv, [FileSocketsNext]_fsVars PROVE FilesInv'
    OBVIOUS
  <2>1. CASE UNCHANGED fsVars
    BY <2>1 DEF fsVars, FilesInv, FileSocketsTypeOK, MasterKnown, Staged, Held, Alive
  <2>2. CASE FileSocketsNext
    BY <2>2, SessionKeeps, EarlySteps, EventSteps, ChannelKeeps, CleanupKeeps DEF FileSocketsNext
  <2> QED
    BY <2>1, <2>2
<1> QED
  BY <1>1, <1>2, PTL DEF FileSocketsSpec

\* What a session was given ends with it, and what a file manager opened ends with the
\* file manager (cleanup, sftpWS.js), with the exceptions FilesSound names.
THEOREM FilesKept == FileSocketsSpec => []FilesSound
<1>1. FilesInv => FilesSound
  <2> SUFFICES ASSUME FilesInv PROVE FilesSound
    OBVIOUS
  <2>1. FileSocketsTypeOK /\ MasterKnown /\ \A k \in Sockets : sock[k] \in SocketRecord /\ Staged(k) /\ Held(k)
    BY DEF FilesInv, FileSocketsTypeOK
  <2>2. OwnReleased
    BY <2>1 DEF OwnReleased, Staged, Alive, SocketRecord
  <2>3. InstalledHeld
    BY <2>1 DEF InstalledHeld, FileSocketsTypeOK, Held, MasterKnown
  <2>4. NoDeadMaster /\ SharedChannels
    BY <2>1 DEF NoDeadMaster, SharedChannels, Held
  <2> QED
    BY <2>2, <2>3, <2>4 DEF FilesSound
<1> QED
  BY <1>1, FilesInvariant, PTL

----------------------------------------------------------------------------
(* The parts side by side *)

\* What the parts that are checked together do is what each does alone: a step is one
\* of a part, and none for the others.
LEMMA PartsAlone ==
  AdministrationSpec => Spec /\ SignInsSpec /\ InventorySpec /\ FileSocketsSpec
<1>1. AdministrationInit => Init /\ SignInsInit /\ InventoryInit /\ FileSocketsInit
  BY DEF AdministrationInit
<1>2. [AdministrationNext]_<<part, vars, siVars, invVars, fsVars>> =>
         [Next]_vars /\ [SignInsNext]_siVars /\ [InventoryNext]_invVars /\ [FileSocketsNext]_fsVars
  BY DEF AdministrationNext, AccountsPart, SignInsPart, InventoryPart, FileSocketsPart
<1> QED
  BY <1>1, <1>2, PTL DEF AdministrationSpec, Spec, SignInsSpec, InventorySpec, FileSocketsSpec

\* Every part keeps its types: accounts and requests about them, sign-ins and sockets,
\* folders and entries, file managers, for any values of the constants.
THEOREM AdministrationTypeCorrect == AdministrationSpec => []AdministrationTypeOK
<1>1. /\ AccountsInv => TypeOK
      /\ SignInsInv => SignInsTypeOK
      /\ InventoryInv => InventoryTypeOK
      /\ FilesInv => FileSocketsTypeOK
  BY DEF AccountsInv, SignInsInv, InventoryInv, FilesInv
<1> QED
  BY <1>1, PartsAlone, AccountsInvariant, SignInsInvariant, InventoryInvariant, FilesInvariant, PTL
     DEF AdministrationTypeOK
=============================================================================
