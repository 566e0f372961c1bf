------------------------- MODULE GuacSessionProofs -------------------------
(***************************************************************************)
(* GuacSession keeps its types and its safety invariants, for any number   *)
(* of sockets and of looks for the master.                                 *)
(***************************************************************************)
EXTENDS GuacSession, TLAPS

Clients == {"none", "open", "closed"}
ReadyStates == {"open", "closing", "closed"}

----------------------------------------------------------------------------
(* Types *)

\* ws.close() keeps ready states ready states.
LEMMA ClosingType ==
  ASSUME NEW n \in [Sockets -> ReadyStates], NEW K
  PROVE  Closing(n, K) \in [Sockets -> ReadyStates]
BY DEF Closing, ReadyStates

\* What remove() writes has the right types, whichever way it goes.
LEMMA RemoveType ==
  ASSUME TypeOK, NEW o \in SUBSET Sockets, NEW v \in SUBSET Sockets,
         NEW n \in [Sockets -> ReadyStates], NEW g \in [Sockets -> Clients],
         Remove(o, v, n, g)
  PROVE  /\ live' \in BOOLEAN /\ shared' \in BOOLEAN /\ writable' \in BOOLEAN
         /\ mid' \in BOOLEAN
         /\ master' \in Sockets \cup {NoSocket}
         /\ recording' \in {"off", "on", "closing", "kept"}
         /\ owners' \subseteq Sockets /\ viewers' \subseteq Sockets
         /\ active' \in Sockets \cup {NoSocket}
         /\ net' \in [Sockets -> ReadyStates]
         /\ masters' \subseteq Sockets
         /\ gd' \in [Sockets -> Clients]
<1>1. CASE ~live
  BY <1>1 DEF Remove, TypeOK, shareVars, masterVars
<1>2. CASE live
  <2>1. /\ owners' = {} /\ viewers' = {} /\ active' = NoSocket
        /\ net' = Closing(n, o \cup v) /\ masters' = masters
        /\ gd' = IF master = NoSocket THEN g ELSE [g EXCEPT ![master] = "closed"]
    BY <1>2 DEF Remove
  <2>2. /\ net' \in [Sockets -> ReadyStates]
        /\ gd' \in [Sockets -> Clients]
    BY <2>1, ClosingType DEF TypeOK, Clients
  <2>3. CASE recording \in {"on", "closing"}
    BY <1>2, <2>1, <2>2, <2>3 DEF Remove, TypeOK, shareVars
  <2>4. CASE recording \notin {"on", "closing"}
    BY <1>2, <2>1, <2>2, <2>4 DEF Remove, Drop, TypeOK
  <2> QED
    BY <2>3, <2>4
<1> QED
  BY <1>1, <1>2

\* Every step of the session itself keeps every variable in its type.
LEMMA SessionStepType ==
  ASSUME TypeOK, SessionStep
  PROVE  TypeOK'
<1> USE DEF TypeOK, sessVars, shareVars, regVars, masterVars
<1>1. CASE PrepareOk
  BY <1>1 DEF PrepareOk
<1>2. CASE PrepareFails \/ Delete \/ Cleanup
  BY <1>2, RemoveType DEF PrepareFails, Delete, Cleanup, RemoveNow, Clients, ReadyStates
<1>3. CASE GoIdle
  BY <1>3 DEF GoIdle
<1>4. CASE RemoveFinish
  BY <1>4 DEF RemoveFinish, Drop
<1>5. CASE \E h \in BOOLEAN : Pause(h)
  BY <1>5 DEF Pause
<1>6. CASE \E w \in BOOLEAN : Share(w)
  BY <1>6 DEF Share
<1>7. CASE StopSharing
  BY <1>7, ClosingType DEF StopSharing, ReadyStates
<1> QED
  BY <1>1, <1>2, <1>3, <1>4, <1>5, <1>6, <1>7 DEF SessionStep

\* Leaving a session, last or not, keeps types.
LEMMA LeaveType ==
  ASSUME TypeOK, NEW k \in Sockets, NEW n \in [Sockets -> ReadyStates], Leave(k, n),
         UNCHANGED <<sessVars, tries, deaf>>
  PROVE  TypeOK'
<1> DEFINE o == IF live THEN owners \ {k} ELSE owners
           g == IF k \in masters THEN gd ELSE [gd EXCEPT ![k] = "closed"]
<1>1. /\ o \in SUBSET Sockets /\ viewers \in SUBSET Sockets
      /\ g \in [Sockets -> Clients] /\ Closing(n, {k}) \in [Sockets -> ReadyStates]
  BY ClosingType DEF TypeOK, Clients
<1>2. pc' \in [Sockets -> {"idle", "auth", "settings", "waiting", "attached",
                           "lookup", "watching", "stranded", "done"}]
  BY DEF Leave, TypeOK
<1>3. CASE live /\ ~hib /\ o = {} /\ viewers = {}
  <2>1. Remove(o, viewers, Closing(n, {k}), g)
    BY <1>3 DEF Leave
  <2> HIDE DEF o, g
  <2> QED
    BY <2>1, <1>1, <1>2, RemoveType DEF TypeOK, sessVars, Clients, ReadyStates
<1>4. CASE ~(live /\ ~hib /\ o = {} /\ viewers = {})
  <2>1. /\ owners' = o
        /\ active' = IF live /\ active = k THEN NoSocket ELSE active
        /\ net' = Closing(n, {k}) /\ gd' = g
        /\ UNCHANGED <<live, shareVars, viewers, masterVars>>
    BY <1>4 DEF Leave
  <2> HIDE DEF o, g
  <2> QED
    BY <2>1, <1>1, <1>2 DEF TypeOK, sessVars, shareVars, masterVars, Clients, ReadyStates
<1> QED
  BY <1>3, <1>4

\* Every step of a socket keeps every variable in its type.
LEMMA SocketStepType ==
  ASSUME TypeOK, NEW k \in Sockets, SocketStep(k)
  PROVE  TypeOK'
<1> USE DEF sessVars, shareVars, regVars, masterVars
<1>1. CASE OpenOwner(k) \/ OpenViewer(k)
  BY <1>1 DEF OpenOwner, OpenViewer, TypeOK
<1>2. CASE AuthFails(k)
  BY <1>2, ClosingType DEF AuthFails, Refused, TypeOK, ReadyStates
<1>3. CASE Settle(k)
  BY <1>3 DEF Settle, CreateMaster, Join, Attach, TypeOK
<1>4. CASE Look(k)
  <2>1. CASE live /\ mid /\ Join(k)
    BY <1>4, <2>1 DEF Look, Join, Attach, TypeOK
  <2>2. CASE ~live \/ (live /\ ~mid)
    BY <1>4, <2>2, ClosingType, AttemptAssumption DEF Look, Refused, TypeOK, ReadyStates, Join, Attach
  <2> QED
    BY <1>4, <2>1, <2>2 DEF Look
<1>5. CASE \E interacts \in BOOLEAN : Message(k, interacts)
  BY <1>5 DEF Message, TypeOK
<1>6. CASE Expire(k)
  BY <1>6, LeaveType DEF Expire, TypeOK, ReadyStates
<1>7. CASE AttachViewer(k) \/ ViewerInput(k)
  BY <1>7, ClosingType DEF AttachViewer, ViewerInput, Refused, TypeOK, ReadyStates
<1>8. CASE MasterReady(k)
  BY <1>8 DEF MasterReady, TypeOK
<1>9. CASE GuacdCloses(k)
  <2> DEFINE g == [gd EXCEPT ![k] = "closed"]
  <2>1. /\ g \in [Sockets -> Clients] /\ Closing(net, {k}) \in [Sockets -> ReadyStates]
        /\ owners \in SUBSET Sockets /\ viewers \in SUBSET Sockets
    BY ClosingType DEF TypeOK, Clients, ReadyStates
  <2>2. CASE k \in masters
    <3>1. Remove(owners, viewers, Closing(net, {k}), g) /\ deaf' = deaf \cup {k}
      BY <1>9, <2>2 DEF GuacdCloses
    <3> HIDE DEF g
    <3> QED
      BY <1>9, <2>1, <3>1, RemoveType DEF GuacdCloses, TypeOK, Clients, ReadyStates
  <2>3. CASE k \notin masters
    BY <1>9, <2>1, <2>3 DEF GuacdCloses, TypeOK, Clients, ReadyStates
  <2> QED
    BY <2>2, <2>3
<1>10. CASE PeerClose(k)
  <2> DEFINE n == [net EXCEPT ![k] = "closed"]
  <2>1. n \in [Sockets -> ReadyStates]
    BY DEF TypeOK, ReadyStates
  <2>2. CASE Leave(k, n)
    BY <1>10, <2>1, <2>2, LeaveType DEF PeerClose
  <2>3. CASE ~Leave(k, n)
    BY <1>10, <2>1, <2>3 DEF PeerClose, ViewerLeaves, TypeOK, ReadyStates
  <2> QED
    BY <2>2, <2>3
<1>11. CASE AuthOwner(k)
  <2>1. hib' \in BOOLEAN /\ idle' \in BOOLEAN
    BY <1>11, Zenon DEF AuthOwner
  <2>2. /\ pc' = [pc EXCEPT ![k] = "settings"] \/ pc' = [pc EXCEPT ![k] = "done"]
        /\ net' = net \/ net' = Closing(net, {k})
        /\ UNCHANGED <<live, prep, shareVars, regVars, masterVars, tries, deaf, gd>>
    BY <1>11 DEF AuthOwner, Refused
  <2> QED
    BY <2>1, <2>2, ClosingType DEF TypeOK, ReadyStates
<1> QED
  BY <1>1, <1>2, <1>3, <1>4, <1>5, <1>6, <1>7, <1>8, <1>9, <1>10, <1>11 DEF SocketStep

\* Every variable of a remote desktop session keeps its type; in particular a
\* socket never looks for its master more often than it may.
THEOREM TypeCorrect == Spec => []TypeOK
<1>1. Init => TypeOK
  <2>1. 0 \in 0..MaxAttempts - 1
    BY AttemptAssumption
  <2> QED
    BY <2>1 DEF Init, TypeOK
<1>2. TypeOK /\ [Next]_vars => TypeOK'
  <2> SUFFICES ASSUME TypeOK, [Next]_vars PROVE TypeOK'
    OBVIOUS
  <2>1. CASE Next
    BY <2>1, SessionStepType, SocketStepType DEF Next
  <2>2. CASE UNCHANGED vars
    BY <2>2 DEF TypeOK, vars, sessVars, shareVars, regVars, masterVars
  <2> QED
    BY <2>1, <2>2
<1> QED
  BY <1>1, <1>2, PTL DEF Spec

----------------------------------------------------------------------------
(* One master *)

\* The table knows the master connection from its creation to the end of the
\* session, and a removal under way has cut it already.
MasterInv ==
  /\ \A k \in masters : pc[k] \in {"attached", "done"}
  /\ masters # {} => ~live \/ masters = {master}
  /\ live /\ recording \in {"on", "closing"} => masters # {}
  /\ \A k \in masters : gd[k] = "open" => live /\ recording # "closing"
  /\ mid => live /\ master # NoSocket
  /\ live /\ master # NoSocket => masters = {master}

\* remove() keeps the master connection and the session in step.
LEMMA RemoveMaster ==
  ASSUME TypeOK, MasterInv, NEW o, NEW v, NEW n, NEW g \in [Sockets -> Clients],
         \A k \in masters : g[k] = "open" => gd[k] = "open",
         \A k \in masters : pc'[k] \in {"attached", "done"},
         Remove(o, v, n, g)
  PROVE  MasterInv'
<1>1. CASE ~live
  BY <1>1 DEF Remove, MasterInv, masterVars
<1>2. CASE live /\ recording \in {"on", "closing"}
  <2>1. /\ UNCHANGED <<live, master, mid, masters>> /\ recording' = "closing"
        /\ gd' = IF master = NoSocket THEN g ELSE [g EXCEPT ![master] = "closed"]
    BY <1>2 DEF Remove
  <2>2. master # NoSocket /\ masters = {master} /\ master \in Sockets
    BY <1>2, SocketAssumption DEF MasterInv, TypeOK
  <2> QED
    BY <1>2, <2>1, <2>2 DEF MasterInv, TypeOK
<1>3. CASE live /\ recording \notin {"on", "closing"}
  <2>1. /\ ~live' /\ ~mid' /\ UNCHANGED <<recording, masters>>
        /\ gd' = IF master = NoSocket THEN g ELSE [g EXCEPT ![master] = "closed"]
    BY <1>3 DEF Remove, Drop
  <2>2. masters # {} => masters = {master} /\ master \in Sockets
    BY <1>3 DEF MasterInv, TypeOK
  <2>3. \A k \in masters : gd'[k] # "open"
    BY <2>1, <2>2, SocketAssumption
  <2> QED
    BY <2>1, <2>3 DEF MasterInv
<1> QED
  BY <1>1, <1>2, <1>3 DEF TypeOK

\* The last to leave may end the session; MasterInv survives that.
LEMMA LeaveMaster ==
  ASSUME TypeOK, MasterInv, NEW k \in Sockets, pc[k] = "attached", NEW n, Leave(k, n)
  PROVE  MasterInv'
<1> DEFINE o == IF live THEN owners \ {k} ELSE owners
           g == IF k \in masters THEN gd ELSE [gd EXCEPT ![k] = "closed"]
<1>1. /\ g \in [Sockets -> Clients]
      /\ \A j \in masters : g[j] = gd[j]
  BY DEF TypeOK, Clients
<1>2. \A j \in masters : pc'[j] \in {"attached", "done"}
  BY DEF Leave, MasterInv, TypeOK
<1>3. CASE live /\ ~hib /\ o = {} /\ viewers = {}
  <2>1. Remove(o, viewers, Closing(n, {k}), g)
    BY <1>3 DEF Leave
  <2> HIDE DEF o, g
  <2> QED
    BY <2>1, <1>1, <1>2, RemoveMaster
<1>4. CASE ~(live /\ ~hib /\ o = {} /\ viewers = {})
  <2>1. gd' = g /\ UNCHANGED <<live, masterVars>>
    BY <1>4 DEF Leave
  <2> HIDE DEF o, g
  <2> QED
    BY <2>1, <1>1, <1>2 DEF MasterInv, masterVars
<1> QED
  BY <1>3, <1>4

\* Only a session without a master gets one.
LEMMA AttachMaster ==
  ASSUME TypeOK, MasterInv, NEW k \in Sockets, pc[k] \in {"settings", "waiting"}, live,
         UNCHANGED live,
         \/ master = NoSocket /\ CreateMaster(k)
         \/ Join(k)
  PROVE  MasterInv'
<1>1. k \notin masters
  BY DEF MasterInv
<1>2. CASE master = NoSocket /\ CreateMaster(k)
  <2>1. masters = {}
    BY <1>2, SocketAssumption DEF MasterInv, TypeOK
  <2> QED
    BY <1>2, <2>1, SocketAssumption DEF MasterInv, CreateMaster, Attach, TypeOK
<1>3. CASE Join(k)
  BY <1>1, <1>3 DEF MasterInv, Join, Attach, masterVars, TypeOK
<1> QED
  BY <1>2, <1>3

\* Every step keeps the master connection and the session in step.
LEMMA StepMaster ==
  ASSUME TypeOK, MasterInv, [Next]_vars
  PROVE  MasterInv'
<1>1. CASE PrepareFails \/ Delete \/ Cleanup
  BY <1>1, RemoveMaster DEF PrepareFails, Delete, Cleanup, RemoveNow, TypeOK, Clients, MasterInv
<1>2. CASE PrepareOk \/ GoIdle \/ (\E h \in BOOLEAN : Pause(h)) \/ (\E w \in BOOLEAN : Share(w)) \/ StopSharing
  BY <1>2 DEF PrepareOk, GoIdle, Pause, Share, StopSharing, MasterInv, masterVars
<1>3. CASE RemoveFinish
  BY <1>3 DEF RemoveFinish, Drop, MasterInv
<1>4. ASSUME NEW k \in Sockets, SocketStep(k) PROVE MasterInv'
  <2>1. CASE OpenOwner(k) \/ OpenViewer(k) \/ AuthFails(k) \/ AuthOwner(k)
    BY <1>4, <2>1 DEF OpenOwner, OpenViewer, AuthFails, AuthOwner, Refused, MasterInv, masterVars, TypeOK
  <2>2. CASE Settle(k)
    <3>1. CASE live /\ ((master = NoSocket /\ CreateMaster(k)) \/ Join(k))
      BY <2>2, <3>1, AttachMaster DEF Settle
    <3>2. CASE pc' = [pc EXCEPT ![k] = "waiting"] /\ UNCHANGED <<live, masterVars, gd>>
      BY <2>2, <3>2 DEF Settle, MasterInv, masterVars, TypeOK
    <3> QED
      BY <2>2, <3>1, <3>2 DEF Settle
  <2>3. CASE Look(k)
    <3>1. CASE live /\ Join(k)
      BY <2>3, <3>1, AttachMaster DEF Look
    <3>2. CASE UNCHANGED <<live, masterVars, gd>> /\ \A j \in Sockets : j # k => pc'[j] = pc[j]
      BY <2>3, <3>2 DEF Look, MasterInv, masterVars, TypeOK
    <3> QED
      BY <2>3, <3>1, <3>2 DEF Look, Refused, TypeOK
  <2>4. CASE \E interacts \in BOOLEAN : Message(k, interacts)
    BY <2>4 DEF Message, MasterInv, masterVars
  <2>5. CASE Expire(k)
    BY <2>5, LeaveMaster DEF Expire
  <2>6. CASE AttachViewer(k) \/ ViewerInput(k)
    BY <2>6 DEF AttachViewer, ViewerInput, Refused, MasterInv, masterVars, TypeOK
  <2>7. CASE MasterReady(k)
    BY <2>7 DEF MasterReady, MasterInv
  <2>8. CASE GuacdCloses(k)
    <3> DEFINE g == [gd EXCEPT ![k] = "closed"]
    <3>1. g \in [Sockets -> Clients] /\ \A j \in masters : g[j] = "open" => gd[j] = "open"
      BY DEF TypeOK, Clients
    <3>2. \A j \in masters : pc'[j] \in {"attached", "done"}
      BY <2>8 DEF GuacdCloses, MasterInv
    <3>3. CASE Remove(owners, viewers, Closing(net, {k}), g)
      <4> HIDE DEF g
      <4> QED
        BY <3>1, <3>2, <3>3, RemoveMaster
    <3>4. CASE gd' = g /\ UNCHANGED <<live, masterVars>>
      <4> HIDE DEF g
      <4> QED
        BY <3>1, <3>2, <3>4 DEF MasterInv, masterVars
    <3> QED
      BY <2>8, <3>3, <3>4 DEF GuacdCloses
  <2>9. CASE PeerClose(k)
    <3>1. CASE Leave(k, [net EXCEPT ![k] = "closed"]) /\ pc[k] = "attached"
      BY <3>1, LeaveMaster
    <3>2. CASE pc[k] = "watching" /\ ViewerLeaves(k, [net EXCEPT ![k] = "closed"])
      BY <3>2 DEF ViewerLeaves, MasterInv, masterVars, TypeOK
    <3>3. CASE UNCHANGED <<live, masterVars, pc, gd>>
      BY <3>3 DEF MasterInv, masterVars
    <3> QED
      BY <2>9, <3>1, <3>2, <3>3 DEF PeerClose
  <2> QED
    BY <1>4, <2>1, <2>2, <2>3, <2>4, <2>5, <2>6, <2>7, <2>8, <2>9 DEF SocketStep
<1>5. CASE UNCHANGED vars
  BY <1>5 DEF vars, MasterInv, masterVars
<1> QED
  BY <1>1, <1>2, <1>3, <1>4, <1>5 DEF Next, SessionStep

\* However many sockets come back from an await at once, guacd holds at most
\* one master connection of a session, and it goes with the session.
THEOREM MasterUnique == Spec => []OneMaster
<1>1. Init => MasterInv
  BY DEF Init, MasterInv
<1>2. MasterInv /\ TypeOK => OneMaster
  BY DEF MasterInv, OneMaster, TypeOK
<1> QED
  BY <1>1, <1>2, StepMaster, TypeCorrect, PTL DEF Spec

----------------------------------------------------------------------------
(* Every socket is held, registered and heard *)

\* JoinsHeld, OpenRegistered and ActiveAttached, for the socket j
SocketOk(j) ==
  /\ j \notin masters /\ gd[j] = "open" => pc[j] \in {"attached", "watching"}
  /\ net[j] = "open" /\ pc[j] = "attached" => j \in owners /\ (live \/ recording = "kept")
  /\ net[j] = "open" /\ pc[j] = "watching" => j \in viewers /\ (live \/ recording = "kept")
  /\ live /\ net[j] = "open" /\ pc[j] = "waiting" => j \in owners
  /\ live /\ active = j => pc[j] \in {"attached", "watching"}

SocketInv == \A j \in Sockets : SocketOk(j)

\* remove() leaves no open socket that a live session does not know.
LEMMA RemoveSocket ==
  ASSUME TypeOK, NEW j \in Sockets, NEW o, NEW v,
         NEW n \in [Sockets -> ReadyStates], NEW g \in [Sockets -> Clients],
         j \notin masters /\ g[j] = "open" => pc'[j] \in {"attached", "watching"},
         n[j] = "open" /\ pc'[j] = "attached" => j \in o /\ (live \/ recording = "kept"),
         n[j] = "open" /\ pc'[j] = "watching" => j \in v /\ (live \/ recording = "kept"),
         live /\ n[j] = "open" /\ pc'[j] = "waiting" => j \in o,
         Remove(o, v, n, g)
  PROVE  SocketOk(j)'
<1>1. CASE ~live
  BY <1>1 DEF Remove, SocketOk, masterVars
<1>2. CASE live
  <2>1. active' = NoSocket /\ net' = Closing(n, o \cup v) /\ masters' = masters
    BY <1>2 DEF Remove
  <2>2. gd'[j] = "open" => g[j] = "open"
    BY <1>2 DEF Remove, Clients, TypeOK
  <2>3. net'[j] = "open" => n[j] = "open" /\ j \notin o \cup v
    BY <2>1 DEF Closing
  <2> QED
    BY <1>2, <2>1, <2>2, <2>3, SocketAssumption DEF SocketOk
<1> QED
  BY <1>1, <1>2 DEF TypeOK

\* A socket's leaving leaves the others as they were, or ends the session.
LEMMA LeaveSocket ==
  ASSUME TypeOK, SocketInv, NEW k \in Sockets, NEW n \in [Sockets -> ReadyStates],
         pc[k] = "attached", \A j \in Sockets \ {k} : n[j] = net[j], Leave(k, n),
         NEW j \in Sockets
  PROVE  SocketOk(j)'
<1> DEFINE o == IF live THEN owners \ {k} ELSE owners
           g == IF k \in masters THEN gd ELSE [gd EXCEPT ![k] = "closed"]
           c == Closing(n, {k})
<1>1. /\ g \in [Sockets -> Clients] /\ c \in [Sockets -> ReadyStates]
      /\ pc' = [pc EXCEPT ![k] = "done"]
  BY ClosingType DEF TypeOK, Clients, Leave
<1>2. /\ j \notin masters /\ g[j] = "open" => pc'[j] \in {"attached", "watching"}
      /\ c[j] = "open" /\ pc'[j] = "attached" => j \in o /\ (live \/ recording = "kept")
      /\ c[j] = "open" /\ pc'[j] = "watching" => j \in viewers /\ (live \/ recording = "kept")
      /\ live /\ c[j] = "open" /\ pc'[j] = "waiting" => j \in o
  BY <1>1 DEF SocketInv, SocketOk, Closing, TypeOK, Clients
<1>3. CASE live /\ ~hib /\ o = {} /\ viewers = {}
  <2>1. Remove(o, viewers, c, g)
    BY <1>3 DEF Leave
  <2> HIDE DEF o, g, c
  <2> QED
    BY <2>1, <1>1, <1>2, RemoveSocket
<1>4. CASE ~(live /\ ~hib /\ o = {} /\ viewers = {})
  <2>1. /\ gd' = g /\ net' = c /\ owners' = o
        /\ active' = IF live /\ active = k THEN NoSocket ELSE active
        /\ UNCHANGED <<live, viewers, masterVars>>
    BY <1>4 DEF Leave
  <2>2. live /\ active' = j => active = j /\ j # k
    BY <2>1, SocketAssumption
  <2>3. live /\ active' = j => pc'[j] \in {"attached", "watching"}
    BY <2>2, <1>1 DEF SocketInv, SocketOk, TypeOK
  <2> HIDE DEF o, g, c
  <2> QED
    BY <2>1, <2>3, <1>2 DEF SocketOk, masterVars
<1> QED
  BY <1>3, <1>4

\* Attaching a socket that knows its session makes it known and active.
LEMMA AttachSocket ==
  ASSUME TypeOK, SocketInv, NEW k \in Sockets, NEW j \in Sockets, Attach(k), live,
         UNCHANGED <<live, net>>, masters \subseteq masters'
  PROVE  SocketOk(j)'
BY DEF Attach, SocketInv, SocketOk, TypeOK

\* Every step keeps every socket held, registered and heard.
LEMMA StepSocket ==
  ASSUME TypeOK, SocketInv, [Next]_vars
  PROVE  SocketInv'
<1> SUFFICES ASSUME NEW j \in Sockets PROVE SocketOk(j)'
  BY DEF SocketInv
<1> DEFINE Same == UNCHANGED <<live, owners, viewers, active, pc, net, gd, masters, recording>>
<1>0. SocketOk(j)
  BY DEF SocketInv
<1>1. CASE Same
  BY <1>0, <1>1 DEF SocketOk
<1>2. CASE PrepareFails \/ Delete \/ Cleanup
  <2>1. Remove(owners, viewers, net, gd) /\ pc' = pc
    BY <1>2 DEF PrepareFails, Delete, Cleanup, RemoveNow
  <2> QED
    BY <1>0, <2>1, RemoveSocket DEF SocketOk, TypeOK, Clients, ReadyStates
<1>3. CASE PrepareOk \/ GoIdle \/ (\E h \in BOOLEAN : Pause(h)) \/ (\E w \in BOOLEAN : Share(w))
  <2>1. Same
    BY <1>3 DEF PrepareOk, GoIdle, Pause, Share, regVars, masterVars
  <2> QED
    BY <2>1, <1>1
<1>4. CASE RemoveFinish
  BY <1>0, <1>4 DEF RemoveFinish, Drop, SocketOk, regVars
<1>5. CASE StopSharing
  BY <1>0, <1>5, SocketAssumption DEF StopSharing, SocketOk, Closing, masterVars, TypeOK
<1>6. ASSUME NEW k \in Sockets, SocketStep(k) PROVE SocketOk(j)'
  <2>1. CASE OpenOwner(k) \/ OpenViewer(k) \/ AuthFails(k) \/ AuthOwner(k)
    BY <1>0, <2>1 DEF OpenOwner, OpenViewer, AuthFails, AuthOwner, Refused, Closing, SocketOk,
       regVars, masterVars, TypeOK
  <2>2. CASE Settle(k)
    <3>1. CASE Attach(k) /\ live /\ UNCHANGED <<live, net>> /\ masters \subseteq masters'
      BY <3>1, AttachSocket
    <3>2. CASE /\ pc' = [pc EXCEPT ![k] = "waiting"]
               /\ owners' = IF live THEN owners \cup {k} ELSE owners
               /\ UNCHANGED <<live, viewers, active, masters, net, gd, recording>>
               /\ pc[k] = "settings"
      BY <1>0, <3>2 DEF SocketOk, TypeOK
    <3> QED
      BY <2>2, <3>1, <3>2 DEF Settle, CreateMaster, Join, masterVars
  <2>3. CASE Look(k)
    <3>1. CASE Join(k) /\ live /\ UNCHANGED live
      BY <3>1, AttachSocket DEF Join, masterVars
    <3>2. CASE ~(Join(k) /\ live)
      BY <1>0, <2>3, <3>2 DEF Look, Refused, Closing, SocketOk, regVars, masterVars, TypeOK
    <3> QED
      BY <2>3, <3>1, <3>2 DEF Look
  <2>4. CASE \E interacts \in BOOLEAN : Message(k, interacts)
    BY <1>0, <2>4 DEF Message, SocketOk, masterVars
  <2>5. CASE Expire(k)
    BY <2>5, LeaveSocket DEF Expire, TypeOK, ReadyStates
  <2>6. CASE AttachViewer(k) \/ ViewerInput(k)
    BY <1>0, <2>6 DEF AttachViewer, ViewerInput, Refused, Closing, SocketOk, regVars, masterVars, TypeOK
  <2>7. CASE MasterReady(k)
    <3>1. Same
      BY <2>7 DEF MasterReady, regVars
    <3> QED
      BY <3>1, <1>1
  <2>8. CASE GuacdCloses(k)
    <3> DEFINE g == [gd EXCEPT ![k] = "closed"]
               c == Closing(net, {k})
    <3>1. /\ g \in [Sockets -> Clients] /\ c \in [Sockets -> ReadyStates]
          /\ g[j] = "open" => gd[j] = "open"
          /\ c[j] = "open" => net[j] = "open"
      BY ClosingType DEF TypeOK, Clients, ReadyStates, Closing
    <3>2. pc' = pc
      BY <2>8 DEF GuacdCloses
    <3>3. CASE Remove(owners, viewers, c, g)
      <4> HIDE DEF g, c
      <4> QED
        BY <1>0, <3>1, <3>2, <3>3, RemoveSocket DEF SocketOk
    <3>4. CASE gd' = g /\ (net' = c \/ net' = net) /\ UNCHANGED <<live, regVars, masterVars>>
      <4> HIDE DEF g, c
      <4> QED
        BY <1>0, <3>1, <3>2, <3>4 DEF SocketOk, regVars, masterVars
    <3> QED
      BY <2>8, <3>3, <3>4 DEF GuacdCloses
  <2>9. CASE PeerClose(k)
    <3> DEFINE n == [net EXCEPT ![k] = "closed"]
    <3>1. n \in [Sockets -> ReadyStates] /\ \A i \in Sockets \ {k} : n[i] = net[i]
      BY DEF TypeOK, ReadyStates
    <3>2. CASE Leave(k, n) /\ pc[k] = "attached"
      BY <3>1, <3>2, LeaveSocket
    <3>3. CASE pc[k] = "watching" /\ ViewerLeaves(k, n)
      BY <1>0, <3>3, SocketAssumption DEF ViewerLeaves, SocketOk, masterVars, TypeOK
    <3>4. CASE net' = n /\ UNCHANGED <<live, regVars, masterVars, pc, gd>>
      BY <1>0, <3>4 DEF SocketOk, regVars, masterVars, TypeOK
    <3> QED
      BY <2>9, <3>2, <3>3, <3>4 DEF PeerClose
  <2> QED
    BY <1>6, <2>1, <2>2, <2>3, <2>4, <2>5, <2>6, <2>7, <2>8, <2>9 DEF SocketStep
<1>7. CASE UNCHANGED vars
  BY <1>1, <1>7 DEF vars, regVars, masterVars
<1> QED
  BY <1>2, <1>3, <1>4, <1>5, <1>6, <1>7 DEF Next, SessionStep

\* Sockets, their clients and the session's sets agree in every state.
LEMMA SocketInvariant == Spec => []SocketInv
<1>1. Init => SocketInv
  BY SocketAssumption DEF Init, SocketInv, SocketOk
<1> QED
  BY <1>1, StepSocket, TypeCorrect, PTL DEF Spec

\* No joined connection to guacd is left behind by its socket.
THEOREM JoinsReleased == Spec => []JoinsHeld
<1>1. TypeOK /\ SocketInv => JoinsHeld
  BY DEF TypeOK, SocketInv, SocketOk, JoinsHeld
<1> QED
  BY <1>1, SocketInvariant, TypeCorrect, PTL

\* No open attached socket is unknown to its session, so a removal that begins
\* closes all there are; one that is open when the session is gone was let in
\* while the removal awaited the recording.
THEOREM SocketsKept == Spec => []OpenRegistered
<1>1. TypeOK /\ SocketInv => OpenRegistered
  BY DEF TypeOK, SocketInv, SocketOk, OpenRegistered
<1> QED
  BY <1>1, SocketInvariant, TypeCorrect, PTL

\* The active socket still has its handlers.
THEOREM ActiveServed == Spec => []ActiveAttached
<1>1. TypeOK /\ SocketInv => ActiveAttached
  BY DEF TypeOK, SocketInv, SocketOk, ActiveAttached
<1> QED
  BY <1>1, SocketInvariant, TypeCorrect, PTL

----------------------------------------------------------------------------
(* The last socket ends the session *)

\* This step removes the session, or starts to.
Ends == live /\ (~live' \/ (recording = "on" /\ recording' = "closing"))

\* close() ends the session only when no other socket is registered.
LEMMA LeaveLast ==
  ASSUME TypeOK, SocketInv, NEW k \in Sockets, NEW n, Leave(k, n), Ends,
         NEW j \in Sockets \ {k}, pc[j] \in {"attached", "waiting", "watching"}
  PROVE  net[j] # "open"
<1>1. owners \ {k} = {} /\ viewers = {}
  BY DEF Leave, Ends, masterVars
<1>2. j \notin owners /\ j \notin viewers
  BY <1>1
<1> QED
  BY <1>2 DEF SocketInv, SocketOk, Ends

\* A session is ended by the leaving of its last open socket only: registration
\* (SocketInv) makes the count in close() see every other one.
THEOREM LastLeaves == Spec => LeavingSparesOthers
<1> DEFINE Spared ==
      \A k \in Sockets :
        /\ PeerClose(k) \/ Expire(k)
        /\ Ends
        => \A j \in Sockets \ {k} :
             pc[j] \in {"attached", "waiting", "watching"} => net[j] # "open"
<1>1. TypeOK /\ SocketInv => Spared
  <2> SUFFICES ASSUME TypeOK, SocketInv, NEW k \in Sockets, PeerClose(k) \/ Expire(k), Ends,
                      NEW j \in Sockets \ {k}, pc[j] \in {"attached", "waiting", "watching"}
               PROVE  net[j] # "open"
    OBVIOUS
  <2>1. CASE Expire(k)
    BY <2>1, LeaveLast DEF Expire
  <2>2. CASE PeerClose(k)
    <3>1. CASE Leave(k, [net EXCEPT ![k] = "closed"])
      BY <3>1, LeaveLast
    <3>2. CASE UNCHANGED <<live, masterVars>>
      BY <3>2 DEF Ends, masterVars
    <3> QED
      BY <2>2, <3>1, <3>2 DEF PeerClose, ViewerLeaves
  <2> QED
    BY <2>1, <2>2
<1>2. Init => SocketInv
  BY SocketAssumption DEF Init, SocketInv, SocketOk
<1>3. TypeOK /\ SocketInv => [Spared]_vars
  BY <1>1
<1> QED
  BY <1>2, <1>3, StepSocket, TypeCorrect, PTL DEF Spec, LeavingSparesOthers, Ends
=============================================================================
