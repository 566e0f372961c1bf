--------------------------- MODULE TermConnProofs ---------------------------
(***************************************************************************)
(* A session in the table is dialling or holds a usable connection, a      *)
(* connection that was installed is released with its session, and the     *)
(* sockets of a session are the ones it knows, for any numbers of          *)
(* sessions, sockets and links.                                            *)
(***************************************************************************)
EXTENDS TermSessionProofs

Dialling == {"resolve", "reach", "login", "prompt", "shell", "recInit"}

\* One session's part of the inductive invariant: the three properties, and that
\* nothing is connected or recorded before Install, which finds its connection
\* open unless the session is gone.
ConnOk(s) ==
  /\ dial[s] = "none" => s \notin live
  /\ dial[s] \in Dialling \cup {"none"} => ~conn[s] /\ recording[s] = "off"
  /\ s \in live /\ dial[s] = "recInit" => remote[s] = "open"
  /\ conn[s] => s \in live /\ dial[s] = "up" /\ (remote[s] = "open" \/ recording[s] = "closing")
  /\ s \in live => conn[s] \/ dial[s] \in Dialling
  /\ dial[s] = "up" /\ s \notin live => remote[s] = "closed" /\ recording[s] # "on" /\ ~conn[s]

ConnInv == \A s \in Sessions : ConnOk(s)

\* What ConnOk(t) reads of the session t is the same after the step.
Untouched(t) ==
  /\ t \in live' <=> t \in live
  /\ conn'[t] = conn[t] /\ recording'[t] = recording[t]
  /\ remote'[t] = remote[t] /\ dial'[t] = dial[t]

\* A session whose connection state a step leaves alone stays consistent.
LEMMA UntouchedOk ==
  ASSUME NEW t \in Sessions, ConnOk(t), Untouched(t)
  PROVE  ConnOk(t)'
BY DEF ConnOk, Untouched

\* Remove(s, r, n) leaves a session alone that is not s; s itself is out of the
\* table already, or waits for its recording, or is dropped.
LEMMA RemoveEffect ==
  ASSUME TypeOK, NEW s \in Sessions, NEW r \in [Sessions -> Remotes], NEW n, Remove(s, r, n)
  PROVE  /\ \A t \in Sessions \ {s} :
              /\ t \in live' <=> t \in live
              /\ conn'[t] = conn[t] /\ recording'[t] = recording[t] /\ remote'[t] = r[t]
         /\ \/ /\ s \notin live /\ s \notin live'
               /\ conn'[s] = conn[s] /\ recording'[s] = recording[s] /\ remote'[s] = r[s]
            \/ /\ s \in live /\ s \in live' /\ recording[s] = "on" /\ recording'[s] = "closing"
               /\ conn'[s] = conn[s] /\ remote'[s] = r[s]
            \/ /\ s \in live /\ s \notin live' /\ recording[s] # "on"
               /\ recording'[s] = recording[s] /\ ~conn'[s]
               /\ remote'[s] = IF conn[s] THEN "closed" ELSE r[s]
<1>1. CASE s \notin live
  BY <1>1 DEF Remove
<1>2. CASE s \in live /\ recording[s] = "on"
  BY <1>2 DEF Remove, TypeOK
<1>3. CASE s \in live /\ recording[s] # "on"
  <2>1. Drop(s, r, Closing(n, owners[s] \cup viewers[s])) /\ recording' = recording
    BY <1>3 DEF Remove
  <2>2. /\ live' = live \ {s} /\ conn' = [conn EXCEPT ![s] = FALSE]
        /\ remote' = IF conn[s] THEN [r EXCEPT ![s] = "closed"] ELSE r
    BY <2>1 DEF Drop
  <2> QED
    BY <1>3, <2>1, <2>2 DEF TypeOK
<1> QED
  BY <1>1, <1>2, <1>3

\* A removal that starts from unchanged connections keeps the invariant, also
\* when the step marks the dialling of an unconnected session as failed.
LEMMA PlainRemoveOk ==
  ASSUME TypeOK, ConnInv, NEW s \in Sessions, NEW n, Remove(s, remote, n),
         \/ dial' = dial
         \/ dial[s] \in Dialling /\ dial' = [dial EXCEPT ![s] = "failed"]
  PROVE  ConnInv'
<1>1. remote \in [Sessions -> Remotes]
  BY DEF TypeOK, Remotes
<1>2. ASSUME NEW t \in Sessions \ {s} PROVE ConnOk(t)'
  <2>1. /\ t \in live' <=> t \in live
        /\ conn'[t] = conn[t] /\ recording'[t] = recording[t] /\ remote'[t] = remote[t]
    BY <1>1, <1>2, RemoveEffect
  <2>2. dial'[t] = dial[t]
    BY <1>2 DEF TypeOK
  <2> QED
    BY <1>2, <2>1, <2>2, UntouchedOk DEF ConnInv, Untouched
<1>3. ConnOk(s)'
  <2>1. ConnOk(s)
    BY DEF ConnInv
  <2>2. \/ /\ s \notin live /\ s \notin live'
           /\ conn'[s] = conn[s] /\ recording'[s] = recording[s] /\ remote'[s] = remote[s]
        \/ /\ s \in live /\ s \in live' /\ recording[s] = "on" /\ recording'[s] = "closing"
           /\ conn'[s] = conn[s] /\ remote'[s] = remote[s]
        \/ /\ s \in live /\ s \notin live' /\ recording[s] # "on"
           /\ recording'[s] = recording[s] /\ ~conn'[s]
           /\ remote'[s] = IF conn[s] THEN "closed" ELSE remote[s]
    BY <1>1, RemoveEffect
  <2>3. dial'[s] = dial[s] \/ (dial[s] \in Dialling /\ dial'[s] = "failed")
    BY DEF TypeOK
  <2> QED
    BY <2>1, <2>2, <2>3 DEF ConnOk, Dialling
<1> QED
  BY <1>2, <1>3 DEF ConnInv

\* So does the removal that follows a closed connection.
LEMMA RemoteCloseOk ==
  ASSUME TypeOK, ConnInv, NEW s \in Sessions, RemoteClose(s)
  PROVE  ConnInv'
<1> DEFINE r == [remote EXCEPT ![s] = "closed"]
<1>1. Remove(s, r, Closing(net, HungUp(s))) /\ r \in [Sessions -> Remotes]
  BY DEF RemoteClose, TypeOK, Remotes
<1>2. dial' = [dial EXCEPT ![s] = IF @ = "shell" THEN "failed" ELSE @] /\ remote[s] = "open"
  BY DEF RemoteClose
<1>3. r[s] = "closed" /\ \A t \in Sessions \ {s} : r[t] = remote[t]
  BY DEF TypeOK
<1> HIDE DEF r
<1>4. ASSUME NEW t \in Sessions \ {s} PROVE ConnOk(t)'
  <2>1. /\ t \in live' <=> t \in live
        /\ conn'[t] = conn[t] /\ recording'[t] = recording[t] /\ remote'[t] = remote[t]
    BY <1>1, <1>3, <1>4, RemoveEffect
  <2>2. dial'[t] = dial[t]
    BY <1>2, <1>4 DEF TypeOK
  <2> QED
    BY <1>4, <2>1, <2>2, UntouchedOk DEF ConnInv, Untouched
<1>5. ConnOk(s)'
  BY <1>1, <1>2, <1>3, RemoveEffect DEF ConnInv, ConnOk, TypeOK, Dialling
<1> QED
  BY <1>4, <1>5 DEF ConnInv

\* A step of the session s that installs, records or dials
LEMMA DialOk ==
  ASSUME TypeOK, ConnInv, NEW s \in Sessions,
         \/ \E p \in Protocols : Create(s, p)
         \/ ResolveOk(s) \/ Reached(s) \/ LoginPrompt(s) \/ PromptSettled(s)
         \/ Ready(s) \/ ShellOpen(s) \/ Install(s)
  PROVE  ConnInv'
<1> USE DEF dialVars
<1>1. ASSUME NEW t \in Sessions \ {s} PROVE ConnOk(t)'
  <2>1. Untouched(t)
    BY <1>1 DEF Create, ResolveOk, Reached, LoginPrompt, PromptSettled, Ready, ShellOpen, Install,
       Untouched, TypeOK
  <2> QED
    BY <2>1, UntouchedOk DEF ConnInv
<1>2. ConnOk(s)
  BY DEF ConnInv
<1>3. ASSUME \E p \in Protocols : Create(s, p) PROVE ConnOk(s)'
  BY <1>2, <1>3 DEF Create, ConnOk, Dialling, TypeOK
<1>4. ASSUME ResolveOk(s) \/ Reached(s) PROVE ConnOk(s)'
  BY <1>2, <1>4 DEF ResolveOk, Routes, Reached, ConnOk, Dialling, TypeOK
<1>5. ASSUME LoginPrompt(s) \/ PromptSettled(s) PROVE ConnOk(s)'
  BY <1>2, <1>5 DEF LoginPrompt, PromptSettled, ConnOk, Dialling, TypeOK
<1>6. ASSUME Ready(s) \/ ShellOpen(s) PROVE ConnOk(s)'
  BY <1>2, <1>6 DEF Ready, ShellOpen, AfterOpen, ConnOk, Dialling, TypeOK
<1>7. ASSUME Install(s) PROVE ConnOk(s)'
  BY <1>2, <1>7 DEF Install, ConnOk, Dialling, TypeOK
<1>8. ConnOk(s)'
  BY <1>3, <1>4, <1>5, <1>6, <1>7
<1> QED
  BY <1>1, <1>8 DEF ConnInv

\* So does the removal that goes on once its recording is on disk.
LEMMA RemoveFinishOk ==
  ASSUME TypeOK, ConnInv, NEW s \in Sessions, RemoveFinish(s)
  PROVE  ConnInv'
<1> USE DEF dialVars
<1>1. recording[s] = "closing" /\ recording' = [recording EXCEPT ![s] = "kept"] /\ dial' = dial
  BY DEF RemoveFinish
<1>2. CASE s \notin live
  BY <1>1, <1>2 DEF RemoveFinish, ConnInv, ConnOk, Dialling, TypeOK
<1>3. CASE s \in live
  <2>1. /\ live' = live \ {s} /\ conn' = [conn EXCEPT ![s] = FALSE]
        /\ remote' = IF conn[s] THEN [remote EXCEPT ![s] = "closed"] ELSE remote
    BY <1>3 DEF RemoveFinish, Drop
  <2>2. ASSUME NEW t \in Sessions \ {s} PROVE ConnOk(t)'
    BY <1>1, <2>1, <2>2, UntouchedOk DEF ConnInv, Untouched, TypeOK
  <2>3. ConnOk(s)'
    BY <1>1, <1>3, <2>1 DEF ConnInv, ConnOk, Dialling, TypeOK
  <2> QED
    BY <2>2, <2>3 DEF ConnInv
<1> QED
  BY <1>2, <1>3

\* Connection, recording and dialling of every session agree in every state.
LEMMA ConnInvariant == Spec => []ConnInv
<1>1. Init => ConnInv
  BY DEF Init, ConnInv, ConnOk, Dialling
<1>2. TypeInv /\ ConnInv /\ [Next]_vars => ConnInv'
  <2> SUFFICES ASSUME TypeOK, SocketsAimed, ConnInv, [Next]_vars PROVE ConnInv'
    BY DEF TypeInv
  <2>1. ASSUME UNCHANGED <<live, conn, recording, remote, dial>> PROVE ConnInv'
    BY <2>1 DEF ConnInv, ConnOk
  <2>2. ASSUME NEW s \in Sessions, SessionStep(s) PROVE ConnInv'
    <3>1. CASE \/ \E p \in Protocols : Create(s, p)
               \/ ResolveOk(s) \/ Reached(s) \/ LoginPrompt(s) \/ PromptSettled(s)
               \/ Ready(s) \/ ShellOpen(s) \/ Install(s)
      BY <3>1, DialOk
    <3>2. CASE ResolveFails(s) \/ DialFail(s) \/ Delete(s) \/ Cleanup(s)
      BY <3>2, PlainRemoveOk DEF ResolveFails, DialFail, Delete, Cleanup, dialVars, Dialling
    <3>3. CASE RemoteClose(s)
      BY <3>3, RemoteCloseOk
    <3>4. CASE RemoveFinish(s)
      BY <3>4, RemoveFinishOk
    <3>5. CASE \/ GoIdle(s) \/ Hibernate(s) \/ Resume(s) \/ StopSharing(s) \/ ShareExpires(s)
               \/ \E l \in Links, w \in BOOLEAN : StartSharing(s, l, w)
               \/ \E w \in BOOLEAN : UpdateShare(s, w)
      BY <2>1, <3>5 DEF GoIdle, Hibernate, Resume, StopSharing, ShareExpires, EndShare,
         StartSharing, UpdateShare, dialVars
    <3> QED
      BY <2>2, <3>1, <3>2, <3>3, <3>4, <3>5 DEF SessionStep
  <2>3. ASSUME NEW k \in Sockets, SocketStep(k) PROVE ConnInv'
    <3>1. CASE WaitTimeout(k)
      <4>1. target[k] \in Sessions
        BY <3>1 DEF WaitTimeout, SocketsAimed
      <4> QED
        BY <3>1, <4>1, PlainRemoveOk DEF WaitTimeout, dialVars
    <3>2. CASE ~WaitTimeout(k)
      BY <2>1, <2>3, <3>2 DEF SocketStep, OpenOwner, OpenViewer, AuthFails, AuthOwner, Poll,
         AttachViewer, Input, PeerClose, dialVars
    <3> QED
      BY <3>1, <3>2
  <2> QED
    BY <2>1, <2>2, <2>3 DEF Next, vars, dialVars
<1> QED
  BY <1>1, <1>2, TypeInvariant, PTL DEF Spec

\* No failure, hang-up or timeout leaves an entry in the table that neither
\* dials nor holds a connection, and so would never be removed by its own events.
THEOREM NoZombies == Spec => []NoZombieSession
<1>1. TypeInv /\ ConnInv => NoZombieSession
  BY DEF TypeInv, TypeOK, ConnInv, ConnOk, NoZombieSession, Dialling
<1> QED
  BY <1>1, TypeInvariant, ConnInvariant, PTL

\* A session's connection is open except while its removal waits for the
\* recording, so what attaches or types finds a connection that works.
THEOREM Usable == Spec => []ConnectionUsable
<1>1. ConnInv => ConnectionUsable
  BY DEF ConnInv, ConnOk, ConnectionUsable
<1> QED
  BY <1>1, ConnInvariant, PTL

\* An installed connection goes with its session: it is closed and its recording
\* has ended, whichever removal came first.
THEOREM Released == Spec => []InstalledReleased
<1>1. ConnInv => InstalledReleased
  BY DEF ConnInv, ConnOk, InstalledReleased
<1> QED
  BY <1>1, ConnInvariant, PTL

----------------------------------------------------------------------------
(* Browser sockets *)

\* Inductive strengthening: who waits is no viewer, a socket names a session that
\* was created, and a session that was not has nothing registered.
RegInv ==
  /\ AttachedRegistered
  /\ ActiveAttached
  /\ \A k \in Sockets : pc[k] = "waiting" => ~Viewer(k)
  /\ \A k \in Sockets : target[k] # NoSession => dial[target[k]] # "none"
  /\ \A s \in Sessions : dial[s] = "none" => owners[s] = {} /\ viewers[s] = {} /\ active[s] = NoSocket

\* The step opens no socket, attaches none and detaches none, and no session
\* loses its dialling.
Quiet ==
  /\ UNCHANGED <<target, via>>
  /\ \A k \in Sockets : /\ net'[k] = "open" => net[k] = "open"
                        /\ pc'[k] = "attached" <=> pc[k] = "attached"
                        /\ pc'[k] = "waiting" => pc[k] = "waiting"
  /\ \A s \in Sessions : dial'[s] = "none" => dial[s] = "none"

\* The recording of a session that is out of the table or leaves it is kept when
\* it was kept or when this step takes it away.
LeftKept ==
  \A s \in Sessions : s \notin live' /\ (s \in live \/ recording[s] = "kept") => recording'[s] = "kept"

\* ws.close() opens nothing and leaves no socket of K open.
LEMMA ClosingEffect ==
  ASSUME NEW n, NEW K, NEW k \in Sockets
  PROVE  /\ Closing(n, K)[k] = "open" => n[k] = "open" /\ k \notin K
         /\ k \in K => Closing(n, K)[k] # "open"
BY DEF Closing

\* A step of nobody's registration, after which no more sessions are in the table
LEMMA QuietReg ==
  ASSUME TypeOK, RegInv, Quiet, LeftKept, UNCHANGED regVars, live' \subseteq live
  PROVE  RegInv'
<1>1. AttachedRegistered'
  BY DEF RegInv, AttachedRegistered, Quiet, LeftKept, regVars, Attached, Viewer, TypeOK
<1>2. ActiveAttached'
  BY DEF RegInv, ActiveAttached, Quiet, regVars, Attached, TypeOK
<1>3. \A s \in Sessions : dial'[s] = "none" => owners'[s] = {} /\ viewers'[s] = {} /\ active'[s] = NoSocket
  BY DEF RegInv, Quiet, regVars
<1>4. /\ \A k \in Sockets : pc'[k] = "waiting" => via'[k] = NoLink
      /\ \A k \in Sockets : target'[k] # NoSession => dial'[target'[k]] # "none"
  BY DEF RegInv, Quiet, Viewer, TypeOK
<1> QED
  BY <1>1, <1>2, <1>3, <1>4 DEF RegInv, Viewer

\* remove() closes whom it forgets, and leaves the registration of the others.
LEMMA RemoveReg ==
  ASSUME TypeOK, RegInv, Quiet, NEW s \in Sessions, NEW r, NEW n, Remove(s, r, n),
         \A k \in Sockets : n[k] = "open" => net[k] = "open"
  PROVE  RegInv'
<1>1. CASE s \notin live
  BY <1>1, QuietReg DEF Remove, LeftKept
<1>2. CASE s \in live
  <2> DEFINE closed == Closing(n, owners[s] \cup viewers[s])
  <2>1. /\ owners' = [owners EXCEPT ![s] = {}]
        /\ viewers' = [viewers EXCEPT ![s] = {}]
        /\ active' = [active EXCEPT ![s] = NoSocket]
    BY <1>2 DEF Remove
  <2>2. \A k \in Sockets : closed[k] = "open" => net[k] = "open" /\ k \notin owners[s] \cup viewers[s]
    BY ClosingEffect
  <2>3. /\ live' \subseteq live
        /\ net' = closed \/ net' = Closing(closed, HungUp(s))
    BY <1>2 DEF Remove, Drop
  <2> HIDE DEF closed
  <2>4. \A k \in Sockets : net'[k] = "open" => net[k] = "open" /\ k \notin owners[s] \cup viewers[s]
    BY <2>2, <2>3, ClosingEffect
  <2>7. \A t \in Sessions \ {s} : recording'[t] = recording[t] /\ (t \in live' <=> t \in live)
    BY <1>2 DEF Remove, Drop, TypeOK
  <2>5. AttachedRegistered'
    BY <1>2, <2>1, <2>3, <2>4, <2>7 DEF RegInv, AttachedRegistered, Quiet, Attached, Viewer, TypeOK
  <2>6. ActiveAttached'
    BY <2>1, <2>3 DEF RegInv, ActiveAttached, Quiet, Attached, TypeOK
  <2> QED
    BY <2>1, <2>5, <2>6 DEF RegInv, Quiet, Viewer, TypeOK
<1> QED
  BY <1>1, <1>2

\* So does stopSharing.
LEMMA EndShareReg ==
  ASSUME TypeOK, RegInv, NEW s \in Sessions, NEW m, EndShare(s, m)
  PROVE  RegInv'
<1> USE DEF sockVars, dialVars
<1>1. /\ viewers' = [viewers EXCEPT ![s] = {}] /\ owners' = owners
      /\ active' = [active EXCEPT ![s] = IF @ \in viewers[s] THEN NoSocket ELSE @]
      /\ UNCHANGED <<live, recording, dial, pc, target, via>>
      /\ net' = Closing(net, viewers[s])
  BY DEF EndShare
<1>2. \A k \in Sockets : net'[k] = "open" => net[k] = "open" /\ k \notin viewers[s]
  BY <1>1, ClosingEffect
<1>3. AttachedRegistered'
  BY <1>1, <1>2 DEF RegInv, AttachedRegistered, Attached, Viewer, TypeOK
<1>4. ActiveAttached'
  BY <1>1 DEF RegInv, ActiveAttached, Attached, TypeOK
<1> QED
  BY <1>1, <1>3, <1>4 DEF RegInv, Viewer, TypeOK

\* A step of a session registers nobody.
LEMMA SessionStepReg ==
  ASSUME TypeOK, ConnInv, RegInv, NEW s \in Sessions, SessionStep(s)
  PROVE  RegInv'
<1> USE DEF sockVars, dialVars
<1>1. CASE \E p \in Protocols : Create(s, p)
  <2>1. /\ dial[s] = "none" /\ s \notin live /\ live' = live \cup {s}
        /\ dial' = [dial EXCEPT ![s] = "resolve"]
        /\ UNCHANGED <<recording, regVars, pc, target, via, net>>
    BY <1>1 DEF Create, ConnInv, ConnOk
  <2>2. \A k \in Sockets : target[k] # s
    BY <2>1, SessionAssumption DEF RegInv
  <2> QED
    BY <2>1, <2>2 DEF RegInv, AttachedRegistered, ActiveAttached, Attached, Viewer, regVars, TypeOK
<1>2. CASE \/ ResolveOk(s) \/ Reached(s) \/ LoginPrompt(s) \/ PromptSettled(s)
           \/ Ready(s) \/ ShellOpen(s) \/ Install(s)
  <2>1. UNCHANGED <<live, regVars, pc, target, via, net>>
    BY <1>2 DEF ResolveOk, Reached, LoginPrompt, PromptSettled, Ready, ShellOpen, Install
  <2>2. \A t \in Sessions : dial'[t] = "none" => dial[t] = "none"
    BY <1>2 DEF ResolveOk, Routes, Reached, LoginPrompt, PromptSettled, Ready, ShellOpen,
       Install, AfterOpen, TypeOK
  <2>3. LeftKept
    BY <1>2, <2>1 DEF ResolveOk, Reached, LoginPrompt, PromptSettled, Ready, ShellOpen, Install,
       LeftKept, ConnInv, ConnOk, Dialling, TypeOK
  <2> QED
    BY <2>1, <2>2, <2>3, QuietReg DEF Quiet
<1>3. CASE ResolveFails(s) \/ DialFail(s) \/ Delete(s) \/ Cleanup(s)
  <2>1. Remove(s, remote, net) /\ UNCHANGED <<pc, target, via>>
    BY <1>3 DEF ResolveFails, DialFail, Delete, Cleanup
  <2>2. dial' \in {dial, [dial EXCEPT ![s] = "failed"]}
    BY <1>3 DEF ResolveFails, DialFail, Delete, Cleanup
  <2>3. \A k \in Sockets : net'[k] = "open" => net[k] = "open"
    BY <2>1, ClosingEffect DEF Remove, Drop
  <2>4. Quiet
    BY <2>1, <2>2, <2>3 DEF Quiet, TypeOK
  <2> QED
    BY <2>1, <2>4, RemoveReg
<1>4. CASE RemoteClose(s)
  <2> DEFINE r == [remote EXCEPT ![s] = "closed"]  n == Closing(net, HungUp(s))
  <2>1. Remove(s, r, n) /\ UNCHANGED <<pc, target, via>>
    BY <1>4 DEF RemoteClose
  <2>2. \A k \in Sockets : n[k] = "open" => net[k] = "open"
    BY ClosingEffect
  <2>3. \A t \in Sessions : dial'[t] = "none" => dial[t] = "none"
    BY <1>4 DEF RemoteClose, TypeOK
  <2> HIDE DEF r, n
  <2>4. \A k \in Sockets : net'[k] = "open" => net[k] = "open"
    BY <2>1, <2>2, ClosingEffect DEF Remove, Drop
  <2> QED
    BY <2>1, <2>2, <2>3, <2>4, RemoveReg DEF Quiet
<1>5. CASE RemoveFinish(s)
  <2>1. UNCHANGED <<regVars, pc, target, via, dial>> /\ live' \subseteq live
    BY <1>5 DEF RemoveFinish, Drop
  <2>2. \A k \in Sockets : net'[k] = "open" => net[k] = "open"
    BY <1>5, ClosingEffect DEF RemoveFinish, Drop
  <2>3. LeftKept
    BY <1>5 DEF RemoveFinish, Drop, LeftKept, TypeOK
  <2> QED
    BY <2>1, <2>2, <2>3, QuietReg DEF Quiet
<1>6. CASE StopSharing(s) \/ ShareExpires(s)
  <2>1. \/ EndShare(s, ClearTimer(timers[s]))
        \/ UNCHANGED <<live, recording, dial, regVars, pc, target, via, net>>
    BY <1>6 DEF StopSharing, ShareExpires
  <2> QED
    BY <2>1, EndShareReg, QuietReg DEF Quiet, LeftKept
<1>7. CASE \/ GoIdle(s) \/ Hibernate(s) \/ Resume(s)
           \/ \E l \in Links, w \in BOOLEAN : StartSharing(s, l, w)
           \/ \E w \in BOOLEAN : UpdateShare(s, w)
  <2>1. UNCHANGED <<live, recording, dial, regVars, pc, target, via, net>>
    BY <1>7 DEF GoIdle, Hibernate, Resume, StartSharing, UpdateShare
  <2> QED
    BY <2>1, QuietReg DEF Quiet, LeftKept
<1> QED
  BY <1>1, <1>2, <1>3, <1>4, <1>5, <1>6, <1>7 DEF SessionStep

\* A socket that waits or is let in is in no set yet.
LEMMA Unregistered ==
  ASSUME TypeOK, RegInv, NEW k \in Sockets, pc[k] # "attached", NEW s \in live
  PROVE  k \notin owners[s] /\ k \notin viewers[s] /\ active[s] # k
BY SocketAssumption DEF RegInv, AttachedRegistered, ActiveAttached, Attached, TypeOK

\* A socket that ends before it was attached changes no registration.
LEMMA RefusedReg ==
  ASSUME TypeOK, RegInv, NEW k \in Sockets, pc[k] # "attached",
         pc' = [pc EXCEPT ![k] = "done"], net' = Closing(net, {k}),
         UNCHANGED <<live, recording, dial, regVars, target, via>>
  PROVE  RegInv'
<1>1. \A j \in Sockets : net'[j] = "open" => net[j] = "open"
  BY ClosingEffect
<1>2. Quiet
  BY <1>1 DEF Quiet, TypeOK
<1> QED
  BY <1>2, QuietReg DEF LeftKept

\* A socket that is attached is registered where its kind belongs and may
\* become the active one.
LEMMA AttachReg ==
  ASSUME TypeOK, RegInv, NEW k \in Sockets, pc[k] # "attached", target[k] \in live,
         pc' = [pc EXCEPT ![k] = "attached"],
         owners' = IF Viewer(k) THEN owners ELSE [owners EXCEPT ![target[k]] = @ \cup {k}],
         viewers' = IF Viewer(k) THEN [viewers EXCEPT ![target[k]] = @ \cup {k}] ELSE viewers,
         active' \in {active, [active EXCEPT ![target[k]] = k]},
         UNCHANGED <<live, recording, dial, target, via, net>>
  PROVE  RegInv'
<1>0. target[k] \in Sessions
  BY DEF TypeOK
<1>1. AttachedRegistered'
  <2>1. \A s \in live : k \notin owners[s] /\ k \notin viewers[s]
    BY Unregistered
  <2>2. \A s \in Sessions, j \in Sockets : Attached(j, s)' /\ j # k => Attached(j, s)
    BY DEF Attached, TypeOK
  <2>3. \A s \in Sessions : Attached(k, s)' => s = target[k]
    BY DEF Attached
  <2>4. \A s \in Sessions : /\ owners'[s] = owners[s] \cup (IF s = target[k] /\ ~Viewer(k) THEN {k} ELSE {})
                            /\ viewers'[s] = viewers[s] \cup (IF s = target[k] /\ Viewer(k) THEN {k} ELSE {})
    BY <1>0 DEF TypeOK
  <2>5. \A s \in Sessions, j \in Sockets : Attached(j, s) => Attached(j, s)'
    BY DEF Attached, TypeOK
  <2>6. Attached(k, target[k])'
    BY DEF Attached, TypeOK
  <2> SUFFICES ASSUME NEW s \in Sessions, NEW j \in Sockets
               PROVE  /\ Attached(j, s)' /\ net'[j] = "open" =>
                           /\ j \in IF Viewer(j) THEN viewers'[s] ELSE owners'[s]
                           /\ s \notin live => recording[s] = "kept"
                      /\ s \in live /\ j \in owners'[s] => Attached(j, s)' /\ ~Viewer(j)
                      /\ s \in live /\ j \in viewers'[s] => Attached(j, s)' /\ Viewer(j)
    BY DEF AttachedRegistered, Viewer
  <2>7. CASE j = k
    BY <1>0, <2>1, <2>3, <2>4, <2>6, <2>7
  <2>8. CASE j # k
    BY <2>2, <2>4, <2>5, <2>8 DEF RegInv, AttachedRegistered
  <2> QED
    BY <2>7, <2>8
<1>2. ActiveAttached'
  <2>1. \A s \in Sessions : active'[s] = active[s] \/ (s = target[k] /\ active'[s] = k)
    BY DEF TypeOK
  <2>4. \A s \in live : s \in Sessions /\ active[s] \in Sockets \cup {NoSocket}
    BY DEF TypeOK
  <2> SUFFICES ASSUME NEW s \in live, active'[s] # NoSocket
               PROVE  pc'[active'[s]] = "attached" /\ target'[active'[s]] = s
    BY DEF ActiveAttached, Attached
  <2>5. CASE active'[s] = k /\ s = target[k]
    BY <2>5 DEF TypeOK
  <2>6. CASE active'[s] = active[s]
    <3>1. active[s] \in Sockets /\ Attached(active[s], s)
      BY <2>4, <2>6 DEF RegInv, ActiveAttached
    <3> QED
      BY <2>6, <3>1 DEF Attached, TypeOK
  <2> QED
    BY <2>1, <2>4, <2>5, <2>6
<1>3. dial[target[k]] # "none"
  BY <1>0, SessionAssumption DEF RegInv
<1>4. \A s \in Sessions : dial'[s] = "none" => owners'[s] = {} /\ viewers'[s] = {} /\ active'[s] = NoSocket
  BY <1>0, <1>3 DEF RegInv, TypeOK
<1> QED
  BY <1>1, <1>2, <1>4 DEF RegInv, Viewer, TypeOK

\* One turn of waitForConnection
LEMMA LookReg ==
  ASSUME TypeOK, RegInv, NEW k \in Sockets, pc[k] \in {"auth", "waiting"}, ~Viewer(k),
         target[k] \in Sessions, Look(k), UNCHANGED <<live, recording, dial, target, via>>
  PROVE  RegInv'
<1>1. CASE target[k] \notin live
  BY <1>1, RefusedReg DEF Look, Refused
<1>2. CASE target[k] \in live /\ conn[target[k]]
  BY <1>2, AttachReg DEF Look
<1>3. CASE target[k] \in live /\ ~conn[target[k]]
  <2>1. pc' = [pc EXCEPT ![k] = "waiting"] /\ UNCHANGED <<regVars, net>>
    BY <1>3 DEF Look
  <2>2. AttachedRegistered'
    BY <2>1 DEF RegInv, AttachedRegistered, Attached, Viewer, regVars, TypeOK
  <2>3. ActiveAttached'
    BY <2>1 DEF RegInv, ActiveAttached, Attached, regVars, TypeOK
  <2> QED
    BY <2>1, <2>2, <2>3 DEF RegInv, Viewer, regVars, TypeOK
<1> QED
  BY <1>1, <1>2, <1>3

\* A socket that opens is attached nowhere and names a session that was created.
LEMMA OpenReg ==
  ASSUME TypeOK, ConnInv, RegInv, NEW k \in Sockets, NEW s \in live, NEW l, pc[k] = "idle",
         pc' = [pc EXCEPT ![k] = "auth"], target' = [target EXCEPT ![k] = s],
         via' = [via EXCEPT ![k] = l], UNCHANGED <<live, recording, dial, regVars, net>>
  PROVE  RegInv'
<1>1. s \in Sessions /\ dial[s] # "none"
  BY DEF ConnInv, ConnOk, TypeOK
<1>2. \A t \in live : k \notin owners[t] /\ k \notin viewers[t] /\ active[t] # k
  BY Unregistered
<1>3. AttachedRegistered'
  BY <1>2 DEF RegInv, AttachedRegistered, Attached, Viewer, regVars, TypeOK
<1>4. ActiveAttached'
  BY <1>2 DEF RegInv, ActiveAttached, Attached, regVars, TypeOK
<1> QED
  BY <1>1, <1>3, <1>4 DEF RegInv, Viewer, regVars, TypeOK

\* The close handler of an attached socket takes it out of its session.
LEMMA PeerCloseReg ==
  ASSUME TypeOK, SocketsAimed, RegInv, NEW k \in Sockets, PeerClose(k)
  PROVE  RegInv'
<1> USE DEF sockVars, dialVars
<1>0. net' = [net EXCEPT ![k] = "closed"] /\ UNCHANGED <<live, recording, dial, target, via>>
  BY DEF PeerClose
<1>1. CASE pc[k] # "attached"
  <2>1. UNCHANGED <<pc, regVars>>
    BY <1>1 DEF PeerClose, TypeOK
  <2> QED
    BY <1>0, <2>1, QuietReg DEF Quiet, LeftKept, TypeOK
<1>2. CASE pc[k] = "attached"
  <2>0. pc' = [pc EXCEPT ![k] = "done"] /\ target[k] \in Sessions
    BY <1>2 DEF PeerClose, SocketsAimed
  <2>1. /\ owners' = IF target[k] \in live THEN [owners EXCEPT ![target[k]] = @ \ {k}] ELSE owners
        /\ viewers' = IF target[k] \in live THEN [viewers EXCEPT ![target[k]] = @ \ {k}] ELSE viewers
        /\ active' = IF target[k] \in live
                     THEN [active EXCEPT ![target[k]] = IF @ = k THEN NoSocket ELSE @] ELSE active
    BY <1>2 DEF PeerClose, Deregister, regVars
  <2>2. AttachedRegistered'
    BY <1>0, <2>0, <2>1 DEF RegInv, AttachedRegistered, Attached, Viewer, TypeOK
  <2>3. ActiveAttached'
    BY <1>0, <2>0, <2>1 DEF RegInv, ActiveAttached, Attached, TypeOK
  <2>4. \A s \in Sessions : dial'[s] = "none" => owners'[s] = {} /\ viewers'[s] = {} /\ active'[s] = NoSocket
    BY <1>0, <2>0, <2>1 DEF RegInv, TypeOK
  <2> QED
    BY <1>0, <2>0, <2>2, <2>3, <2>4 DEF RegInv, Viewer, TypeOK
<1> QED
  BY <1>1, <1>2

\* A step of a socket keeps every set in step with the sockets.
LEMMA SocketStepReg ==
  ASSUME TypeOK, SocketsAimed, ConnInv, RegInv, NEW k \in Sockets, SocketStep(k)
  PROVE  RegInv'
<1> USE DEF sockVars, dialVars
<1>1. CASE \E s \in Sessions : OpenOwner(k, s)
  <2>1. via = [via EXCEPT ![k] = via[k]]
    BY DEF TypeOK
  <2>2. PICK s \in live : target' = [target EXCEPT ![k] = s]
    BY <1>1 DEF OpenOwner
  <2>3. /\ pc[k] = "idle" /\ pc' = [pc EXCEPT ![k] = "auth"]
        /\ via' = [via EXCEPT ![k] = via[k]] /\ UNCHANGED <<live, recording, dial, regVars, net>>
    BY <1>1, <2>1 DEF OpenOwner
  <2> QED
    BY <2>2, <2>3, OpenReg
<1>2. CASE \E l \in Links : OpenViewer(k, l)
  BY <1>2, OpenReg DEF OpenViewer
<1>3. CASE AuthFails(k)
  BY <1>3, RefusedReg DEF AuthFails, Refused
<1>4. CASE AuthOwner(k)
  BY <1>4, LookReg DEF AuthOwner, SocketsAimed
<1>5. CASE Poll(k)
  BY <1>5, LookReg DEF Poll, SocketsAimed, RegInv
<1>6. CASE WaitTimeout(k)
  <2>1. /\ target[k] \in Sessions /\ pc[k] = "waiting" /\ pc' = [pc EXCEPT ![k] = "done"]
        /\ Remove(target[k], remote, Closing(net, {k})) /\ UNCHANGED <<dial, target, via>>
    BY <1>6 DEF WaitTimeout, SocketsAimed
  <2>2. \A j \in Sockets : Closing(net, {k})[j] = "open" => net[j] = "open"
    BY ClosingEffect
  <2>3. \A j \in Sockets : net'[j] = "open" => net[j] = "open"
    BY <2>1, <2>2, ClosingEffect DEF Remove, Drop
  <2>4. Quiet
    BY <2>1, <2>3 DEF Quiet, TypeOK
  <2> QED
    BY <2>1, <2>2, <2>4, RemoveReg
<1>7. CASE AttachViewer(k)
  <2>1. target[k] \in Sessions /\ Viewer(k) /\ pc[k] = "auth"
        /\ UNCHANGED <<live, recording, dial, target, via>>
    BY <1>7 DEF AttachViewer, SocketsAimed
  <2>2. active = [active EXCEPT ![target[k]] = active[target[k]]]
    BY DEF TypeOK
  <2>3. CASE Viewable(target[k])
    BY <1>7, <2>1, <2>2, <2>3, AttachReg DEF AttachViewer, Viewable, ConnInv, ConnOk
  <2>4. CASE ~Viewable(target[k])
    BY <1>7, <2>1, <2>4, RefusedReg DEF AttachViewer, Refused
  <2> QED
    BY <2>3, <2>4
<1>8. CASE Input(k)
  <2>1. /\ pc[k] = "attached" /\ target[k] \in live
        /\ active' = [active EXCEPT ![target[k]] = k]
        /\ UNCHANGED <<live, recording, dial, pc, target, via, owners, viewers, net>>
    BY <1>8 DEF Input
  <2>2. dial[target[k]] # "none"
    BY <2>1, SessionAssumption DEF RegInv, TypeOK
  <2>3. AttachedRegistered'
    BY <2>1 DEF RegInv, AttachedRegistered, Attached, Viewer
  <2>4. ActiveAttached'
    BY <2>1 DEF RegInv, ActiveAttached, Attached, TypeOK
  <2> QED
    BY <2>1, <2>2, <2>3, <2>4 DEF RegInv, Viewer, TypeOK
<1>9. CASE PeerClose(k)
  BY <1>9, PeerCloseReg
<1> QED
  BY <1>1, <1>2, <1>3, <1>4, <1>5, <1>6, <1>7, <1>8, <1>9 DEF SocketStep

\* Sets of sockets, attached sockets and the active socket agree in every state.
LEMMA RegInvariant == Spec => []RegInv
<1>1. Init => RegInv
  BY DEF Init, RegInv, AttachedRegistered, ActiveAttached, Attached
<1>2. TypeInv /\ ConnInv /\ RegInv /\ [Next]_vars => RegInv'
  <2> SUFFICES ASSUME TypeOK, SocketsAimed, ConnInv, RegInv, [Next]_vars PROVE RegInv'
    BY DEF TypeInv
  <2>1. CASE UNCHANGED vars
    BY <2>1, QuietReg DEF Quiet, LeftKept, vars, dialVars, sockVars
  <2> QED
    BY <2>1, SessionStepReg, SocketStepReg DEF Next
<1> QED
  BY <1>1, <1>2, TypeInvariant, ConnInvariant, PTL DEF Spec

\* However many callbacks attach, close, stop sharing and remove, a removal or the
\* end of a share that begins finds every open socket there is, and an open socket
\* a removal left behind attached while that removal awaited the recording.
THEOREM SocketsFound == Spec => []AttachedRegistered
<1>1. RegInv => AttachedRegistered
  BY DEF RegInv
<1> QED
  BY <1>1, RegInvariant, PTL

\* Output and size questions never go to a socket whose close handler has run.
THEOREM ActiveServed == Spec => []ActiveAttached
<1>1. RegInv => ActiveAttached
  BY DEF RegInv
<1> QED
  BY <1>1, RegInvariant, PTL
=============================================================================
