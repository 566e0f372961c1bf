------------------------- MODULE TermLifecycleProofs -------------------------
(***************************************************************************)
(* TermSession implements SessionLifecycle, for any numbers of sessions,   *)
(* sockets and links: every step is one step of a session's life, the      *)
(* issue or the end of a link, or nothing at all.                          *)
(***************************************************************************)
EXTENDS TermConnProofs

Inv == TypeInv /\ ShareInv /\ ConnInv

\* What SessionLifecycle sees of the state
Seen == <<[s \in Sessions |-> Phase(s)], spent, index>>

\* The phase of a session is the same when these are.
SamePhase(t) ==
  /\ dial'[t] = "none" <=> dial[t] = "none"
  /\ t \in live' <=> t \in live
  /\ conn'[t] = conn[t]

\* The phase depends on the table, the connection and whether it was created.
LEMMA SamePhaseStays ==
  ASSUME NEW t, SamePhase(t)
  PROVE  Phase(t)' = Phase(t)
BY DEF SamePhase, Phase

\* A step that changes none of these, nor a link, is invisible to SessionLifecycle.
LEMMA Unseen ==
  ASSUME UNCHANGED <<live, conn, spent, index>>,
         \A t \in Sessions : dial'[t] = "none" <=> dial[t] = "none"
  PROVE  UNCHANGED Seen
<1>1. \A t \in Sessions : Phase(t)' = Phase(t)
  BY SamePhaseStays DEF SamePhase
<1> QED
  BY <1>1 DEF Seen

\* Leaving the table is the end of the session and of its link at once.
LEMMA EndStep ==
  ASSUME Inv, NEW s \in live, index' = Unindexed(s), UNCHANGED spent,
         live' = live \ {s}, conn' = [conn EXCEPT ![s] = FALSE],
         \A t \in Sessions : dial'[t] = "none" <=> dial[t] = "none"
  PROVE  Lifecycle!End(s)
<1>1. s \in Sessions /\ TypeOK
  BY DEF Inv, TypeInv, TypeOK
<1>2. Phase(s) \in {"connecting", "connected"} /\ Phase(s)' = "ended"
  BY <1>1 DEF Inv, ConnInv, ConnOk, Phase
<1>3. \A t \in Sessions \ {s} : Phase(t)' = Phase(t)
  BY <1>1, SamePhaseStays DEF SamePhase, TypeOK
<1>4. index' = [l \in Links |-> IF index[l] = s THEN NoSession ELSE index[l]]
  <2>1. Unindexed(s) \in [Links -> Sessions \cup {NoSession}]
    BY <1>1, UnindexedType
  <2>2. \A l \in Links : Unindexed(s)[l] = IF index[l] = s THEN NoSession ELSE index[l]
    BY <1>1, UnindexedExact DEF Inv
  <2> QED
    BY <2>1, <2>2
<1> QED
  BY <1>1, <1>2, <1>3, <1>4 DEF Lifecycle!End

\* remove() ends the session, or only begins to: then nothing is seen of it.
LEMMA RemoveStep ==
  ASSUME Inv, NEW s \in Sessions, NEW r, NEW n, Remove(s, r, n), UNCHANGED spent,
         \A t \in Sessions : dial'[t] = "none" <=> dial[t] = "none"
  PROVE  Lifecycle!End(s) \/ UNCHANGED Seen
<1>1. CASE UNCHANGED <<live, conn, shareVars>>
  BY <1>1, Unseen DEF shareVars
<1>2. CASE s \in live /\ \E m : Drop(s, r, m)
  BY <1>2, EndStep DEF Drop
<1> QED
  BY <1>1, <1>2 DEF Remove

\* Ending a share is the end of its link and of nothing else.
LEMMA EndShareStep ==
  ASSUME Inv, NEW s \in Sessions, NEW m, s \in live, shareId[s] # NoLink, EndShare(s, m)
  PROVE  Lifecycle!Revoke(shareId[s]) /\ shareId[s] \in Links
<1>1. shareId[s] \in Links /\ index[shareId[s]] = s
  BY DEF Inv, TypeInv, TypeOK, ShareInv, ShareIndexExact
<1>2. \A t \in Sessions : Phase(t)' = Phase(t)
  BY SamePhaseStays DEF EndShare, SamePhase, dialVars
<1> QED
  BY <1>1, <1>2, SessionAssumption DEF EndShare, Unindexed, Lifecycle!Revoke

\* A first share issues a fresh link; sharing again keeps the link.
LEMMA StartSharingStep ==
  ASSUME Inv, NEW s \in Sessions, NEW l \in Links, NEW w \in BOOLEAN, StartSharing(s, l, w)
  PROVE  Lifecycle!Issue(s, l) \/ UNCHANGED Seen
<1>1. s \in live /\ TypeOK /\ ShareIndexExact /\ UNCHANGED <<live, conn, dial>>
  BY DEF Inv, TypeInv, ShareInv, StartSharing, dialVars
<1>2. CASE shareId[s] = NoLink
  <2>1. \A m \in Links : index[m] # s
    BY <1>1, <1>2, LinkAssumption DEF ShareIndexExact
  <2>2. Phase(s) \in {"connecting", "connected"}
    BY <1>1 DEF Inv, ConnInv, ConnOk, Phase
  <2>3. \A t \in Sessions : Phase(t)' = Phase(t)
    BY <1>1, SamePhaseStays DEF SamePhase
  <2> QED
    BY <1>2, <2>1, <2>2, <2>3 DEF StartSharing, Lifecycle!Issue, Lifecycle!LinksOf
<1>3. CASE shareId[s] # NoLink
  <2>1. l = shareId[s] /\ index[l] = s /\ l \in spent
    BY <1>1, <1>3, SessionAssumption DEF StartSharing, Inv, ShareInv, ShareIndexExact
  <2>2. index' = index /\ spent' = spent
    BY <1>1, <2>1 DEF StartSharing, TypeOK
  <2> QED
    BY <1>1, <2>2, Unseen
<1> QED
  BY <1>2, <1>3

\* createSession begins a session that was never there.
LEMMA CreateStep ==
  ASSUME Inv, NEW s \in Sessions, NEW p \in Protocols, Create(s, p)
  PROVE  Lifecycle!Begin(s)
<1>1. TypeOK /\ s \notin live /\ ~conn[s]
  BY DEF Inv, TypeInv, ConnInv, ConnOk, Create
<1>2. Phase(s) = "absent" /\ Phase(s)' = "connecting"
  BY <1>1 DEF Create, Phase, TypeOK
<1>3. \A t \in Sessions \ {s} : Phase(t)' = Phase(t)
  BY <1>1, SamePhaseStays DEF SamePhase, Create, TypeOK
<1> QED
  BY <1>2, <1>3 DEF Create, shareVars, Lifecycle!Begin

\* Installing a connection connects a session that is still in the table.
LEMMA InstallStep ==
  ASSUME Inv, NEW s \in Sessions, Install(s)
  PROVE  Lifecycle!Connect(s) \/ UNCHANGED Seen
<1>1. TypeOK /\ ~conn[s] /\ UNCHANGED <<live, spent, index>>
  BY DEF Inv, TypeInv, ConnInv, ConnOk, Install, Dialling, shareVars
<1>2. CASE s \in live
  <2>1. Phase(s) = "connecting" /\ Phase(s)' = "connected"
    BY <1>1, <1>2 DEF Install, Phase, TypeOK
  <2>2. \A t \in Sessions \ {s} : Phase(t)' = Phase(t)
    BY <1>1, SamePhaseStays DEF SamePhase, Install, TypeOK
  <2> QED
    BY <1>1, <2>1, <2>2 DEF Lifecycle!Connect
<1>3. CASE s \notin live
  <2>1. conn' = conn /\ \A t \in Sessions : dial'[t] = "none" <=> dial[t] = "none"
    BY <1>1, <1>3 DEF Install, TypeOK
  <2> QED
    BY <1>1, <2>1, Unseen
<1> QED
  BY <1>2, <1>3

\* Every step of a session, and of a socket, is a step of SessionLifecycle or
\* one it does not see.
LEMMA SessionStepLifecycle ==
  ASSUME Inv, NEW s \in Sessions, SessionStep(s)
  PROVE  Lifecycle!Next \/ UNCHANGED Seen
<1> USE DEF Lifecycle!Next
<1>1. CASE \E p \in Protocols : Create(s, p)
  BY <1>1, CreateStep
<1>2. CASE Install(s)
  BY <1>2, InstallStep
<1>3. CASE ResolveFails(s) \/ DialFail(s) \/ RemoteClose(s) \/ Delete(s) \/ Cleanup(s)
  <2>1. /\ \E r, n : Remove(s, r, n)
        /\ UNCHANGED spent
        /\ \A t \in Sessions : dial'[t] = "none" <=> dial[t] = "none"
    BY <1>3 DEF ResolveFails, DialFail, RemoteClose, Delete, Cleanup, dialVars, Inv, TypeInv,
       TypeOK
  <2> QED
    BY <2>1, RemoveStep
<1>4. CASE RemoveFinish(s)
  <2>1. CASE s \in live
    BY <1>4, <2>1, EndStep DEF RemoveFinish, Drop, dialVars
  <2>2. CASE s \notin live
    BY <1>4, <2>2, Unseen DEF RemoveFinish, dialVars, shareVars
  <2> QED
    BY <2>1, <2>2
<1>5. CASE StopSharing(s)
  BY <1>5, EndShareStep DEF StopSharing
<1>6. CASE ShareExpires(s)
  <2>1. s \in live /\ shareId[s] # NoLink
    BY <1>6 DEF ShareExpires, Inv, TypeInv, TypeOK, ShareInv, OneExpiryTimer
  <2> QED
    BY <1>6, <2>1, EndShareStep DEF ShareExpires
<1>7. CASE \E l \in Links, w \in BOOLEAN : StartSharing(s, l, w)
  BY <1>7, StartSharingStep
<1>8. CASE \/ ResolveOk(s) \/ Reached(s) \/ LoginPrompt(s) \/ PromptSettled(s) \/ Ready(s) \/ ShellOpen(s)
           \/ GoIdle(s) \/ Hibernate(s) \/ Resume(s) \/ \E w \in BOOLEAN : UpdateShare(s, w)
  <2>1. /\ UNCHANGED <<live, conn, spent, index>>
        /\ \A t \in Sessions : dial'[t] = "none" <=> dial[t] = "none"
    BY <1>8 DEF ResolveOk, Routes, Reached, LoginPrompt, PromptSettled, Ready, ShellOpen, AfterOpen, GoIdle,
       Hibernate, Resume, UpdateShare, dialVars, shareVars, Inv, TypeInv, TypeOK
  <2> QED
    BY <2>1, Unseen
<1> QED
  BY <1>1, <1>2, <1>3, <1>4, <1>5, <1>6, <1>7, <1>8 DEF SessionStep

\* The same for a socket, whose timeout may remove the session it waits for.
LEMMA SocketStepLifecycle ==
  ASSUME Inv, NEW k \in Sockets, SocketStep(k)
  PROVE  Lifecycle!Next \/ UNCHANGED Seen
<1>1. CASE WaitTimeout(k)
  <2>1. target[k] \in Sessions
    BY <1>1 DEF WaitTimeout, Inv, TypeInv, SocketsAimed
  <2>2. Lifecycle!End(target[k]) \/ UNCHANGED Seen
    BY <1>1, <2>1, RemoveStep DEF WaitTimeout, dialVars
  <2> QED
    BY <2>1, <2>2 DEF Lifecycle!Next
<1>2. CASE ~WaitTimeout(k)
  <2>1. UNCHANGED <<live, conn, spent, index, dial>>
    BY <1>2 DEF SocketStep, OpenOwner, OpenViewer, AuthFails, AuthOwner, Poll, AttachViewer,
       Input, PeerClose, dialVars, shareVars
  <2> QED
    BY <2>1, Unseen
<1> QED
  BY <1>1, <1>2

\* Sessions connect at most once and never come back, and a link is exclusive,
\* opens only a session that has not ended, and is never valid again.
THEOREM LifecycleImplemented == Spec => ImplementsLifecycle
<1>1. Init => Lifecycle!Init
  BY DEF Init, Lifecycle!Init, Phase
<1>2. Inv /\ [Next]_vars => [Lifecycle!Next]_Seen
  <2> SUFFICES ASSUME Inv, [Next]_vars PROVE Lifecycle!Next \/ UNCHANGED Seen
    OBVIOUS
  <2>1. CASE UNCHANGED vars
    BY <2>1, Unseen DEF vars, dialVars, shareVars
  <2> QED
    BY <2>1, SessionStepLifecycle, SocketStepLifecycle DEF Next
<1>3. Spec => []Inv
  BY TypeInvariant, ShareInvariant, ConnInvariant, PTL DEF Inv
<1> QED
  BY <1>1, <1>2, <1>3, PTL DEF Spec, ImplementsLifecycle, Lifecycle!Spec, Seen
=============================================================================
