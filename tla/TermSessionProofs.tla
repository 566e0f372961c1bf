-------------------------- MODULE TermSessionProofs --------------------------
(***************************************************************************)
(* Types of TermSession, its share index and its expiry timers, for any    *)
(* sets of sessions, sockets and links.                                    *)
(***************************************************************************)
EXTENDS TermSession, TLAPS

Ready0 == {"open", "closing", "closed"}
Remotes == {"none", "open", "closed"}

\* ws.close() keeps ready states ready states.
LEMMA ClosingType ==
  ASSUME NEW n \in [Sockets -> Ready0], NEW K
  PROVE  Closing(n, K) \in [Sockets -> Ready0]
BY DEF Closing, Ready0

\* clearTimeout never leaves fewer than no timers.
LEMMA ClearTimerType == ASSUME NEW n \in Nat PROVE ClearTimer(n) \in Nat
BY DEF ClearTimer

\* Dropping a link from the index keeps it an index.
LEMMA UnindexedType ==
  ASSUME TypeOK, NEW s \in Sessions
  PROVE  Unindexed(s) \in [Links -> Sessions \cup {NoSession}]
BY DEF Unindexed, TypeOK

\* What remove() writes has the right types, whichever way it goes.
LEMMA RemoveType ==
  ASSUME TypeOK, NEW s \in Sessions,
         NEW r \in [Sessions -> Remotes], NEW n \in [Sockets -> Ready0],
         Remove(s, r, n)
  PROVE  /\ live' \subseteq Sessions
         /\ conn' \in [Sessions -> BOOLEAN]
         /\ recording' \in [Sessions -> {"off", "on", "closing", "kept"}]
         /\ remote' \in [Sessions -> Remotes]
         /\ shareId' \in [Sessions -> Links \cup {NoLink}]
         /\ writable' \in [Sessions -> BOOLEAN]
         /\ timers' \in [Sessions -> Nat]
         /\ index' \in [Links -> Sessions \cup {NoSession}]
         /\ owners' \in [Sessions -> SUBSET Sockets]
         /\ viewers' \in [Sessions -> SUBSET Sockets]
         /\ active' \in [Sessions -> Sockets \cup {NoSocket}]
         /\ net' \in [Sockets -> Ready0]
<1>1. CASE s \notin live
  BY <1>1 DEF Remove, TypeOK, shareVars, regVars, Remotes
<1>2. CASE s \in live
  <2> DEFINE closed == Closing(n, owners[s] \cup viewers[s])
  <2>1. closed \in [Sockets -> Ready0]
    BY ClosingType
  <2>2. /\ owners' \in [Sessions -> SUBSET Sockets]
        /\ viewers' \in [Sessions -> SUBSET Sockets]
        /\ active' \in [Sessions -> Sockets \cup {NoSocket}]
    BY <1>2 DEF Remove, TypeOK
  <2>3. CASE recording[s] = "on"
    <3>1. /\ recording' = [recording EXCEPT ![s] = "closing"]
          /\ remote' = r /\ net' = closed
          /\ UNCHANGED <<live, conn, shareVars>>
      BY <1>2, <2>3 DEF Remove
    <3> HIDE DEF closed
    <3> QED
      BY <2>1, <2>2, <3>1 DEF TypeOK, shareVars, Remotes
  <2>4. CASE recording[s] # "on"
    <3>1. Drop(s, r, closed) /\ UNCHANGED recording
      BY <1>2, <2>4 DEF Remove
    <3>2. Closing(closed, HungUp(s)) \in [Sockets -> Ready0]
      BY <2>1, ClosingType
    <3>3. ClearTimer(timers[s]) \in Nat
      BY ClearTimerType DEF TypeOK
    <3>4. index' \in [Links -> Sessions \cup {NoSession}]
      BY <3>1, UnindexedType DEF Drop
    <3>5. net' \in [Sockets -> Ready0]
      BY <2>1, <3>1, <3>2 DEF Drop
    <3> HIDE DEF closed
    <3> QED
      BY <2>2, <3>1, <3>3, <3>4, <3>5 DEF Drop, TypeOK, Remotes
  <2> QED
    BY <2>3, <2>4
<1> QED
  BY <1>1, <1>2

\* stopSharing keeps every variable in its type.
LEMMA EndShareType ==
  ASSUME TypeOK, NEW s \in Sessions, NEW m \in Nat, EndShare(s, m)
  PROVE  TypeOK'
<1>1. net' \in [Sockets -> Ready0]
  BY ClosingType DEF EndShare, TypeOK, Ready0
<1>2. index' \in [Links -> Sessions \cup {NoSession}]
  BY UnindexedType DEF EndShare
<1> QED
  BY <1>1, <1>2 DEF EndShare, TypeOK, flags, dialVars, sockVars, Ready0

\* A dial that is resolved goes to the way, to the login, or no further.
LEMMA Resolved ==
  ASSUME NEW s \in Sessions, ResolveOk(s)
  PROVE  \E stage \in {"reach", "login", "failed"} :
           /\ dial' = [dial EXCEPT ![s] = stage]
           /\ stage = "failed" <=> s \notin live
<1>1. \A p : Routes(p) \subseteq {"reach", "login"}
  <2> TAKE p
  <2>1. Routes(p) = {"reach", "login"} \/ Routes(p) = {"reach"} \/ Routes(p) = {"login"}
    BY DEF Routes
  <2> QED
    BY <2>1
<1>2. CASE s \in live
  BY <1>1, <1>2 DEF ResolveOk
<1>3. CASE s \notin live
  BY <1>3 DEF ResolveOk
<1> QED
  BY <1>2, <1>3

\* One step of a session keeps every variable in its type.
LEMMA SessionStepType ==
  ASSUME TypeOK, NEW s \in Sessions, SessionStep(s)
  PROVE  TypeOK'
<1> USE DEF flags, dialVars, shareVars, regVars, sockVars
<1>1. CASE \E p \in Protocols : Create(s, p)
  BY <1>1 DEF Create, TypeOK, Protocols
<1>2. CASE ResolveOk(s) \/ Reached(s)
  BY <1>2, Resolved DEF ResolveOk, Reached, TypeOK
<1>3. CASE LoginPrompt(s)
  BY <1>3 DEF LoginPrompt, TypeOK
<1>4. CASE PromptSettled(s)
  BY <1>4 DEF PromptSettled, TypeOK
<1>5. CASE Ready(s)
  BY <1>5 DEF Ready, TypeOK, AfterOpen, Remotes
<1>6. CASE ShellOpen(s)
  BY <1>6 DEF ShellOpen, TypeOK, AfterOpen
<1>7. CASE Install(s)
  BY <1>7 DEF Install, TypeOK
<1>8. CASE GoIdle(s)
  BY <1>8 DEF GoIdle, TypeOK
<1>9. CASE Hibernate(s)
  BY <1>9 DEF Hibernate, TypeOK
<1>10. CASE Resume(s)
  BY <1>10 DEF Resume, TypeOK
<1>11. CASE ResolveFails(s)
  <2>1. Remove(s, remote, net)
    BY <1>11 DEF ResolveFails
  <2>2. remote \in [Sessions -> Remotes] /\ net \in [Sockets -> Ready0]
    BY DEF TypeOK, Remotes, Ready0
  <2> QED
    BY <1>11, <2>1, <2>2, RemoveType DEF ResolveFails, TypeOK, Remotes, Ready0
<1>12. CASE DialFail(s)
  <2>1. Remove(s, remote, net)
    BY <1>12 DEF DialFail
  <2>2. remote \in [Sessions -> Remotes] /\ net \in [Sockets -> Ready0]
    BY DEF TypeOK, Remotes, Ready0
  <2> QED
    BY <1>12, <2>1, <2>2, RemoveType DEF DialFail, TypeOK, Remotes, Ready0
<1>13. CASE Delete(s)
  <2>1. Remove(s, remote, net)
    BY <1>13 DEF Delete
  <2>2. remote \in [Sessions -> Remotes] /\ net \in [Sockets -> Ready0]
    BY DEF TypeOK, Remotes, Ready0
  <2> QED
    BY <1>13, <2>1, <2>2, RemoveType DEF Delete, TypeOK, Remotes, Ready0
<1>14. CASE Cleanup(s)
  <2>1. Remove(s, remote, net)
    BY <1>14 DEF Cleanup
  <2>2. remote \in [Sessions -> Remotes] /\ net \in [Sockets -> Ready0]
    BY DEF TypeOK, Remotes, Ready0
  <2> QED
    BY <1>14, <2>1, <2>2, RemoveType DEF Cleanup, TypeOK, Remotes, Ready0
<1>15. CASE RemoteClose(s)
  <2>1. Closing(net, HungUp(s)) \in [Sockets -> Ready0]
    BY ClosingType DEF TypeOK, Ready0
  <2>2. [remote EXCEPT ![s] = "closed"] \in [Sessions -> Remotes]
    BY DEF TypeOK, Remotes
  <2>3. Remove(s, [remote EXCEPT ![s] = "closed"], Closing(net, HungUp(s)))
    BY <1>15 DEF RemoteClose
  <2> QED
    BY <1>15, <2>1, <2>2, <2>3, RemoveType DEF RemoteClose, TypeOK, Remotes, Ready0
<1>16. CASE RemoveFinish(s)
  <2>1. CASE s \notin live
    BY <1>16, <2>1 DEF RemoveFinish, TypeOK
  <2>2. CASE s \in live
    <3>1. Drop(s, remote, net)
      BY <1>16, <2>2 DEF RemoveFinish
    <3>2. net' \in [Sockets -> Ready0]
      BY <3>1, ClosingType DEF Drop, TypeOK, Ready0
    <3>3. ClearTimer(timers[s]) \in Nat
      BY ClearTimerType DEF TypeOK
    <3>4. index' \in [Links -> Sessions \cup {NoSession}]
      BY <3>1, UnindexedType DEF Drop
    <3> QED
      BY <1>16, <3>1, <3>2, <3>3, <3>4 DEF RemoveFinish, Drop, TypeOK, Ready0
  <2> QED
    BY <2>1, <2>2
<1>17. CASE StopSharing(s)
  <2>1. EndShare(s, ClearTimer(timers[s]))
    BY <1>17 DEF StopSharing
  <2> QED
    BY <2>1, EndShareType, ClearTimerType DEF TypeOK
<1>18. CASE ShareExpires(s)
  <2>1. ClearTimer(timers[s]) \in Nat
    BY ClearTimerType DEF TypeOK
  <2>2. CASE s \in live /\ shareId[s] # NoLink
    BY <1>18, <2>1, <2>2, EndShareType DEF ShareExpires
  <2>3. CASE ~(s \in live /\ shareId[s] # NoLink)
    BY <1>18, <2>1, <2>3 DEF ShareExpires, TypeOK
  <2> QED
    BY <2>2, <2>3
<1>19. CASE \E l \in Links, w \in BOOLEAN : StartSharing(s, l, w)
  <2>1. ClearTimer(timers[s]) + 1 \in Nat
    BY ClearTimerType DEF TypeOK
  <2> QED
    BY <1>19, <2>1 DEF StartSharing, TypeOK
<1>20. CASE \E w \in BOOLEAN : UpdateShare(s, w)
  BY <1>20 DEF UpdateShare, TypeOK
<1> QED
  BY <1>1, <1>2, <1>3, <1>4, <1>5, <1>6, <1>7, <1>8, <1>9, <1>10, <1>11, <1>12, <1>13, <1>14, <1>15, <1>16, <1>17, <1>18, <1>19, <1>20 DEF SessionStep

\* What TypeOK does not say of a socket: once opened it names a session, and
\* it has not slept before it waits.
SocketsAimed ==
  \A k \in Sockets : /\ pc[k] # "idle" => target[k] \in Sessions
                     /\ pc[k] \in {"idle", "auth"} => polls[k] = 0

\* One turn of waitForConnection keeps what it writes in its type.
LEMMA LookType ==
  ASSUME TypeOK, NEW k \in Sockets, target[k] \in Sessions, polls[k] < MaxPolls, Look(k)
  PROVE  /\ pc' \in [Sockets -> {"idle", "auth", "waiting", "attached", "done"}]
         /\ owners' \in [Sessions -> SUBSET Sockets]
         /\ viewers' \in [Sessions -> SUBSET Sockets]
         /\ active' \in [Sessions -> Sockets \cup {NoSocket}]
         /\ polls' \in [Sockets -> 0..MaxPolls]
         /\ net' \in [Sockets -> Ready0]
<1> USE PollAssumption
<1>1. CASE target[k] \notin live
  <2>1. net' \in [Sockets -> Ready0]
    BY <1>1, ClosingType DEF Look, Refused, TypeOK, Ready0
  <2> QED
    BY <1>1, <2>1 DEF Look, Refused, TypeOK, regVars
<1>2. CASE target[k] \in live /\ conn[target[k]]
  <2>1. /\ pc' = [pc EXCEPT ![k] = "attached"]
        /\ owners' = [owners EXCEPT ![target[k]] = @ \cup {k}]
        /\ active' = [active EXCEPT ![target[k]] = k]
        /\ UNCHANGED <<viewers, polls, net>>
    BY <1>2 DEF Look
  <2>2. owners' \in [Sessions -> SUBSET Sockets]
    BY <2>1 DEF TypeOK
  <2> QED
    BY <2>1, <2>2 DEF TypeOK, Ready0
<1>3. CASE target[k] \in live /\ ~conn[target[k]]
  <2>1. polls' \in [Sockets -> 0..MaxPolls]
    BY <1>3 DEF Look, TypeOK
  <2> QED
    BY <1>3, <2>1 DEF Look, TypeOK, Ready0, regVars
<1> QED
  BY <1>1, <1>2, <1>3

\* One step of a socket keeps every variable in its type.
LEMMA SocketStepType ==
  ASSUME TypeOK, SocketsAimed, NEW k \in Sockets, SocketStep(k)
  PROVE  TypeOK'
<1> USE PollAssumption DEF flags, dialVars, shareVars, regVars, sockVars
<1>1. Closing(net, {k}) \in [Sockets -> Ready0]
  BY ClosingType DEF TypeOK, Ready0
<1>2. CASE \E s \in Sessions : OpenOwner(k, s)
  BY <1>2 DEF OpenOwner, TypeOK
<1>3. CASE \E l \in Links : OpenViewer(k, l)
  BY <1>3 DEF OpenViewer, TypeOK
<1>4. CASE AuthFails(k)
  BY <1>1, <1>4 DEF AuthFails, Refused, TypeOK, Ready0
<1>5. CASE AuthOwner(k)
  <2>1. target[k] \in Sessions /\ polls[k] < MaxPolls /\ Look(k)
    BY <1>5 DEF AuthOwner, SocketsAimed
  <2> QED
    BY <1>5, <2>1, LookType DEF AuthOwner, TypeOK, Ready0
<1>6. CASE Poll(k)
  <2>1. target[k] \in Sessions /\ polls[k] < MaxPolls /\ Look(k)
    BY <1>6 DEF Poll, SocketsAimed
  <2> QED
    BY <1>6, <2>1, LookType DEF Poll, TypeOK, Ready0
<1>7. CASE WaitTimeout(k)
  <2>1. target[k] \in Sessions
    BY <1>7 DEF WaitTimeout, SocketsAimed
  <2>2. Remove(target[k], remote, Closing(net, {k})) /\ remote \in [Sessions -> Remotes]
    BY <1>7 DEF WaitTimeout, TypeOK, Remotes
  <2> QED
    BY <1>1, <1>7, <2>1, <2>2, RemoveType DEF WaitTimeout, TypeOK, Remotes, Ready0
<1>8. CASE AttachViewer(k)
  <2>1. net' \in [Sockets -> Ready0]
    BY <1>1, <1>8 DEF AttachViewer, Refused, TypeOK, Ready0
  <2>2. pc' \in [Sockets -> {"idle", "auth", "waiting", "attached", "done"}]
    BY <1>8 DEF AttachViewer, Refused, TypeOK
  <2>3. owners' \in [Sessions -> SUBSET Sockets]
    BY <1>8 DEF AttachViewer, TypeOK
  <2>4. viewers' \in [Sessions -> SUBSET Sockets]
    BY <1>8 DEF AttachViewer, TypeOK
  <2>5. active' \in [Sessions -> Sockets \cup {NoSocket}]
    BY <1>8 DEF AttachViewer, TypeOK
  <2> QED
    BY <1>8, <2>1, <2>2, <2>3, <2>4, <2>5 DEF AttachViewer, TypeOK, Ready0
<1>9. CASE Input(k)
  BY <1>9 DEF Input, TypeOK
<1>10. CASE PeerClose(k)
  <2>1. owners' \in [Sessions -> SUBSET Sockets]
    BY <1>10 DEF PeerClose, Deregister, TypeOK
  <2>2. viewers' \in [Sessions -> SUBSET Sockets]
    BY <1>10 DEF PeerClose, Deregister, TypeOK
  <2>3. active' \in [Sessions -> Sockets \cup {NoSocket}]
    BY <1>10 DEF PeerClose, Deregister, TypeOK
  <2> QED
    BY <1>10, <2>1, <2>2, <2>3 DEF PeerClose, TypeOK
<1> QED
  BY <1>2, <1>3, <1>4, <1>5, <1>6, <1>7, <1>8, <1>9, <1>10 DEF SocketStep

\* No step lets an open socket lose its session or count before it waits.
LEMMA StepAimed ==
  ASSUME TypeOK, SocketsAimed, [Next]_vars
  PROVE  SocketsAimed'
<1> USE DEF SocketsAimed, sockVars
<1>1. ASSUME NEW s \in Sessions, SessionStep(s) PROVE SocketsAimed'
  <2>1. UNCHANGED <<pc, target, polls>>
    BY <1>1 DEF SessionStep, Create, ResolveOk, ResolveFails, Reached, LoginPrompt, PromptSettled,
       DialFail, Ready, ShellOpen, Install, RemoteClose, Delete, GoIdle, Cleanup,
       RemoveFinish, Hibernate, Resume, StopSharing, ShareExpires, EndShare, StartSharing,
       UpdateShare
  <2> QED
    BY <2>1
<1>2. ASSUME NEW k \in Sockets, SocketStep(k) PROVE SocketsAimed'
  <2>1. CASE \E s \in Sessions : OpenOwner(k, s)
    BY <2>1 DEF OpenOwner, TypeOK
  <2>2. CASE \E l \in Links : OpenViewer(k, l)
    BY <2>2 DEF OpenViewer, TypeOK
  <2>3. CASE AuthFails(k)
    BY <2>3 DEF AuthFails, Refused, TypeOK
  <2>4. CASE AuthOwner(k) \/ Poll(k)
    <3>1. /\ pc[k] \in {"auth", "waiting"} /\ UNCHANGED target
          /\ \E c \in {"waiting", "attached", "done"} : pc' = [pc EXCEPT ![k] = c]
          /\ \E m \in Nat : polls' = [polls EXCEPT ![k] = m]
      BY <2>4 DEF AuthOwner, Poll, Look, Refused, TypeOK
    <3> QED
      BY <3>1 DEF TypeOK
  <2>5. CASE WaitTimeout(k)
    BY <2>5 DEF WaitTimeout, TypeOK
  <2>6. CASE AttachViewer(k)
    BY <2>6 DEF AttachViewer, Refused, TypeOK
  <2>7. CASE Input(k)
    BY <2>7 DEF Input
  <2>8. CASE PeerClose(k)
    BY <2>8 DEF PeerClose, TypeOK
  <2> QED
    BY <1>2, <2>1, <2>2, <2>3, <2>4, <2>5, <2>6, <2>7, <2>8 DEF SocketStep
<1>3. CASE UNCHANGED vars
  BY <1>3 DEF vars
<1> QED
  BY <1>1, <1>2, <1>3 DEF Next

\* TypeOK is not inductive on its own: an action on a socket needs to know that
\* the socket names a session.
TypeInv == TypeOK /\ SocketsAimed

\* Types, together with what keeps a socket's session and its polls in range
LEMMA TypeInvariant == Spec => []TypeInv
<1>1. Init => TypeInv
  BY PollAssumption DEF Init, TypeInv, TypeOK, SocketsAimed
<1>2. TypeInv /\ [Next]_vars => TypeInv'
  <2> SUFFICES ASSUME TypeOK, SocketsAimed, [Next]_vars PROVE TypeOK' /\ SocketsAimed'
    BY DEF TypeInv
  <2>1. CASE Next
    BY <2>1, SessionStepType, SocketStepType, StepAimed DEF Next
  <2>2. CASE UNCHANGED vars
    BY <2>2, StepAimed DEF TypeOK, vars, flags, dialVars, shareVars, regVars, sockVars
  <2> QED
    BY <2>1, <2>2
<1> QED
  BY <1>1, <1>2, PTL DEF Spec

\* Every variable keeps its type: no map ever holds a session, socket or link
\* that does not exist, in whatever order the callbacks run.
THEOREM TypeCorrect == Spec => []TypeOK
<1>1. TypeInv => TypeOK
  BY DEF TypeInv
<1> QED
  BY <1>1, TypeInvariant, PTL

----------------------------------------------------------------------------
(* Sharing *)

\* What the share index needs to stay exact: a removed session keeps no link,
\* and every link in the index was handed out, so a fresh one is in no entry.
ShareInv ==
  /\ ShareIndexExact
  /\ OneExpiryTimer
  /\ \A s \in Sessions : s \notin live => shareId[s] = NoLink
  /\ \A l \in Links : index[l] # NoSession => l \in spent

\* Dropping the session's own link is dropping every link that leads to it.
LEMMA UnindexedExact ==
  ASSUME TypeOK, ShareInv, NEW s \in live
  PROVE  \A l \in Links : Unindexed(s)[l] = IF index[l] = s THEN NoSession ELSE index[l]
BY SessionAssumption, LinkAssumption DEF Unindexed, ShareInv, ShareIndexExact, TypeOK

\* A step that takes the link and the timer from one session of the table, and
\* perhaps the session too, keeps the index exact.
LEMMA UnshareInv ==
  ASSUME TypeOK, ShareInv, NEW s \in live,
         index' = Unindexed(s),
         shareId' = [shareId EXCEPT ![s] = NoLink],
         timers' = [timers EXCEPT ![s] = 0],
         live' = live \/ live' = live \ {s},
         spent' = spent
  PROVE  ShareInv'
<1>1. s \in Sessions
  BY DEF TypeOK
<1>2. ShareIndexExact'
  <2> SUFFICES ASSUME NEW l \in Links, NEW t \in Sessions
               PROVE  index'[l] = t <=> t \in live' /\ shareId'[t] = l
    BY DEF ShareIndexExact
  <2>1. index'[l] = IF index[l] = s THEN NoSession ELSE index[l]
    BY UnindexedExact
  <2>2. index[l] = t <=> t \in live /\ shareId[t] = l
    BY DEF ShareInv, ShareIndexExact
  <2> QED
    BY <1>1, <2>1, <2>2, SessionAssumption, LinkAssumption DEF TypeOK
<1>3. OneExpiryTimer'
  BY <1>1 DEF ShareInv, OneExpiryTimer, TypeOK
<1>4. \A t \in Sessions : t \notin live' => shareId'[t] = NoLink
  BY <1>1 DEF ShareInv, TypeOK
<1>5. \A l \in Links : index'[l] # NoSession => l \in spent'
  BY UnindexedExact DEF ShareInv
<1> QED
  BY <1>2, <1>3, <1>4, <1>5 DEF ShareInv

\* The timer a shared session holds is the only one, so clearing it leaves none.
LEMMA ClearLast ==
  ASSUME TypeOK, ShareInv, NEW s \in Sessions
  PROVE  [timers EXCEPT ![s] = IF shareId[s] = NoLink THEN @ ELSE ClearTimer(@)]
           = [timers EXCEPT ![s] = 0]
         /\ (shareId[s] # NoLink => ClearTimer(timers[s]) = 0)
<1>1. timers[s] = IF shareId[s] = NoLink THEN 0 ELSE 1
  BY DEF ShareInv, OneExpiryTimer
<1>2. ClearTimer(timers[s]) = 0
  BY <1>1 DEF ClearTimer
<1> QED
  BY <1>1, <1>2 DEF TypeOK

\* remove() keeps the index exact, whether it ends the session or only begins to.
LEMMA RemoveShareInv ==
  ASSUME TypeOK, ShareInv, NEW s \in Sessions, NEW r, NEW n, Remove(s, r, n), spent' = spent
  PROVE  ShareInv'
<1>1. CASE UNCHANGED <<live, shareVars>>
  BY <1>1 DEF shareVars, ShareInv, ShareIndexExact, OneExpiryTimer
<1>2. CASE s \in live /\ \E m : Drop(s, r, m)
  BY <1>2, ClearLast, UnshareInv DEF Drop
<1> QED
  BY <1>1, <1>2 DEF Remove

\* stopSharing keeps the index exact.
LEMMA EndShareInv ==
  ASSUME TypeOK, ShareInv, NEW s \in live, shareId[s] # NoLink,
         EndShare(s, ClearTimer(timers[s]))
  PROVE  ShareInv'
<1>1. s \in Sessions
  BY DEF TypeOK
<1> QED
  BY <1>1, ClearLast, UnshareInv DEF EndShare

\* startSharing keeps the index exact, for a new link and for the same one.
LEMMA StartSharingInv ==
  ASSUME TypeOK, ShareInv, NEW s \in Sessions, NEW l \in Links, NEW w \in BOOLEAN,
         StartSharing(s, l, w)
  PROVE  ShareInv'
<1> USE SessionAssumption, LinkAssumption DEF ShareInv, StartSharing
<1>1. index[l] \in {s, NoSession} /\ shareId[s] \in {l, NoLink}
  BY DEF ShareIndexExact, TypeOK
<1>2. ShareIndexExact'
  <2> SUFFICES ASSUME NEW m \in Links, NEW t \in Sessions
               PROVE  index'[m] = t <=> t \in live' /\ shareId'[t] = m
    BY DEF ShareIndexExact
  <2>1. index[m] = t <=> t \in live /\ shareId[t] = m
    BY DEF ShareIndexExact
  <2>2. index[l] = t <=> t \in live /\ shareId[t] = l
    BY DEF ShareIndexExact
  <2> QED
    BY <1>1, <2>1, <2>2 DEF TypeOK
<1>3. OneExpiryTimer'
  BY DEF OneExpiryTimer, ClearTimer, TypeOK
<1>4. /\ \A t \in Sessions : t \notin live' => shareId'[t] = NoLink
      /\ \A m \in Links : index'[m] # NoSession => m \in spent'
  BY DEF TypeOK
<1> QED
  BY <1>2, <1>3, <1>4

\* Index, links and timers agree in every state.
LEMMA ShareInvariant == Spec => []ShareInv
<1>1. Init => ShareInv
  BY SessionAssumption, LinkAssumption
     DEF Init, ShareInv, ShareIndexExact, OneExpiryTimer
<1>2. TypeInv /\ ShareInv /\ [Next]_vars => ShareInv'
  <2> SUFFICES ASSUME TypeOK, SocketsAimed, ShareInv, [Next]_vars PROVE ShareInv'
    BY DEF TypeInv
  <2>1. ASSUME UNCHANGED <<live, shareVars, spent>> PROVE ShareInv'
    BY <2>1 DEF shareVars, ShareInv, ShareIndexExact, OneExpiryTimer
  <2>2. ASSUME NEW s \in Sessions, SessionStep(s) PROVE ShareInv'
    <3>1. CASE \E p \in Protocols : Create(s, p)
      <4>1. live' = live \cup {s} /\ UNCHANGED <<shareVars, spent>>
        BY <3>1 DEF Create
      <4>2. s \notin live => shareId[s] = NoLink
        BY DEF ShareInv
      <4> QED
        BY <4>1, <4>2, SessionAssumption, LinkAssumption
           DEF shareVars, ShareInv, ShareIndexExact, OneExpiryTimer
    <3>2. CASE ResolveFails(s) \/ DialFail(s) \/ RemoteClose(s) \/ Delete(s) \/ Cleanup(s)
      BY <3>2, RemoveShareInv DEF ResolveFails, DialFail, RemoteClose, Delete, Cleanup
    <3>3. CASE RemoveFinish(s)
      <4>1. CASE s \in live
        BY <3>3, <4>1, ClearLast, UnshareInv DEF RemoveFinish, Drop
      <4>2. CASE s \notin live
        BY <2>1, <3>3, <4>2 DEF RemoveFinish
      <4> QED
        BY <4>1, <4>2
    <3>4. CASE StopSharing(s)
      BY <3>4, EndShareInv DEF StopSharing
    <3>5. CASE ShareExpires(s)
      <4>1. s \in live /\ shareId[s] # NoLink
        BY <3>5 DEF ShareExpires, ShareInv, OneExpiryTimer, TypeOK
      <4> QED
        BY <3>5, <4>1, EndShareInv DEF ShareExpires
    <3>6. CASE \E l \in Links, w \in BOOLEAN : StartSharing(s, l, w)
      BY <3>6, StartSharingInv
    <3>7. CASE \E w \in BOOLEAN : UpdateShare(s, w)
      BY <3>7 DEF UpdateShare, ShareInv, ShareIndexExact, OneExpiryTimer
    <3>8. CASE \/ ResolveOk(s) \/ Reached(s) \/ LoginPrompt(s) \/ PromptSettled(s) \/ Ready(s)
               \/ ShellOpen(s) \/ Install(s) \/ GoIdle(s) \/ Hibernate(s) \/ Resume(s)
      BY <2>1, <3>8 DEF ResolveOk, Reached, LoginPrompt, PromptSettled, Ready, ShellOpen, Install,
         GoIdle, Hibernate, Resume
    <3> QED
      BY <2>2, <3>1, <3>2, <3>3, <3>4, <3>5, <3>6, <3>7, <3>8 DEF SessionStep
  <2>3. ASSUME NEW k \in Sockets, SocketStep(k) PROVE ShareInv'
    <3>1. CASE WaitTimeout(k)
      <4>1. target[k] \in Sessions
        BY <2>3, <3>1 DEF WaitTimeout, SocketsAimed
      <4> QED
        BY <3>1, <4>1, RemoveShareInv DEF WaitTimeout
    <3>2. CASE ~WaitTimeout(k)
      BY <2>1, <2>3, <3>2 DEF SocketStep, OpenOwner, OpenViewer, AuthFails, AuthOwner, Poll,
         AttachViewer, Input, PeerClose
    <3> QED
      BY <3>1, <3>2
  <2> QED
    BY <2>1, <2>2, <2>3 DEF Next, vars
<1> QED
  BY <1>1, <1>2, TypeInvariant, PTL DEF Spec

\* A link leads to the session that holds it and to no other, and only while
\* that session is in the table; and a session has one armed timer exactly when
\* it is shared, so an earlier share's timer never ends a later share.
THEOREM ShareExact == Spec => []ShareSound
<1>1. ShareInv => ShareSound
  BY DEF ShareInv, ShareSound
<1> QED
  BY <1>1, ShareInvariant, PTL
=============================================================================
