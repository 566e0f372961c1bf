---------------------------- MODULE GuacSession ----------------------------
(***************************************************************************)
(* A remote desktop session (RDP, VNC, a Proxmox machine) of INFRA-W, from *)
(* the moment it is listed until it is removed:                            *)
(*                                                                         *)
(*   lib/ClientConnection.js   a browser socket that creates the master    *)
(*                             connection to guacd or joins it             *)
(*   lib/GuacdClient.js        one connection to guacd                     *)
(*   hooks/guacamole.js        viewers of a share link                     *)
(*   lib/SessionManager.js     what the above call                         *)
(*                                                                         *)
(* Sessions share nothing, so there is one.  An action is the code between *)
(* two awaits or timers; masterConnectionPending is set and cleared within *)
(* one action and is left out.  guacd is the environment: it gets ready,   *)
(* or closes any connection, when it likes.                                *)
(***************************************************************************)
EXTENDS Naturals, FiniteSets

CONSTANTS Sockets,      \* browser web sockets, each opened once
          MaxAttempts,  \* looks for a master that is not ready (50 in the code)
          NoSocket

ASSUME SocketAssumption == NoSocket \notin Sockets
ASSUME AttemptAssumption == MaxAttempts \in Nat \ {0}

VARIABLES
  live,        \* the session is in SessionManager.sessions
  prep,        \* prepareGuacamoleSession: "running", "ready" (guacReady), "failed"
  hib, idle,   \* isHibernated; lastActivity is more than six hours ago
  shared, writable,  \* the session has a share link; viewers may type
  master,      \* the socket whose GuacdClient is masterConnection, or NoSocket
  mid,         \* guacdConnectionId of the master connection is known
  recording,   \* of the master: "off", "on", "closing" (finalisation awaited), "kept"
  owners, viewers, active,  \* connectedWs, sharedWs, activeWs
  pc,          \* where the handler of a socket stands
  net,         \* its readyState: "open", "closing", "closed"
  tries,       \* its looks for the master
  deaf,        \* sockets whose listeners were removed while attached
  gd,          \* the GuacdClient of a socket: "none", "open", "closed"
  masters      \* sockets whose GuacdClient was created as master

sessVars == <<prep, hib, idle>>
shareVars == <<shared, writable>>
regVars == <<owners, viewers, active>>
masterVars == <<master, mid, recording, masters>>
vars == <<live, sessVars, shareVars, regVars, masterVars, pc, net, tries, deaf, gd>>

TypeOK ==
  /\ live \in BOOLEAN /\ hib \in BOOLEAN /\ idle \in BOOLEAN
  /\ shared \in BOOLEAN /\ writable \in BOOLEAN /\ mid \in BOOLEAN
  /\ prep \in {"running", "ready", "failed"}
  /\ master \in Sockets \cup {NoSocket}
  /\ recording \in {"off", "on", "closing", "kept"}
  /\ owners \subseteq Sockets /\ viewers \subseteq Sockets
  /\ active \in Sockets \cup {NoSocket}
  /\ pc \in [Sockets -> {"idle", "auth", "settings", "waiting", "attached",
                         "lookup", "watching", "stranded", "done"}]
  /\ net \in [Sockets -> {"open", "closing", "closed"}]
  /\ tries \in [Sockets -> 0..MaxAttempts - 1]
  /\ deaf \subseteq Sockets /\ masters \subseteq Sockets
  /\ gd \in [Sockets -> {"none", "open", "closed"}]

\* SessionManager.create has run, the connection data is being loaded
Init ==
  /\ live = TRUE /\ prep = "running" /\ hib = FALSE /\ idle = FALSE
  /\ shared = FALSE /\ writable = FALSE
  /\ master = NoSocket /\ mid = FALSE /\ recording = "off" /\ masters = {}
  /\ owners = {} /\ viewers = {} /\ active = NoSocket
  /\ pc = [k \in Sockets |-> "idle"]
  /\ net = [k \in Sockets |-> "open"]
  /\ tries = [k \in Sockets |-> 0]
  /\ deaf = {}
  /\ gd = [k \in Sockets |-> "none"]

----------------------------------------------------------------------------
(* Removing the session *)

\* ws.close() on every socket of K, given the ready states n
Closing(n, K) == [k \in Sockets |-> IF k \in K /\ n[k] = "open" THEN "closing" ELSE n[k]]

\* The rest of remove(): the link, the master connection and the entry go.
Drop ==
  /\ live' = FALSE
  /\ shared' = FALSE /\ writable' = FALSE
  /\ master' = NoSocket /\ mid' = FALSE

\* Mutant: remove() leaves the connection to guacd open
RemoveBug(o, v, n, g) ==
  \/ /\ ~live
     /\ owners' = o /\ viewers' = v /\ net' = n /\ gd' = g
     /\ UNCHANGED <<live, shareVars, active, masterVars>>
  \/ /\ live
     /\ owners' = {} /\ viewers' = {} /\ active' = NoSocket
     /\ net' = Closing(n, o \cup v)
     /\ gd' = g
     /\ IF recording \in {"on", "closing"}
          THEN recording' = "closing" /\ UNCHANGED <<live, shareVars, master, mid, masters>>
          ELSE Drop /\ UNCHANGED <<recording, masters>>

\* remove(), called with the sockets o and v registered, ready states n and
\* clients g: closes the sockets, cuts the master connection, and with a
\* recording awaits its file, whichever call of remove() this is.
Remove(o, v, n, g) ==
  \/ /\ ~live
     /\ owners' = o /\ viewers' = v /\ net' = n /\ gd' = g
     /\ UNCHANGED <<live, shareVars, active, masterVars>>
  \/ /\ live
     /\ owners' = {} /\ viewers' = {} /\ active' = NoSocket
     /\ net' = Closing(n, o \cup v)
     /\ gd' = IF master = NoSocket THEN g ELSE [g EXCEPT ![master] = "closed"]
     /\ IF recording \in {"on", "closing"}
          THEN recording' = "closing" /\ UNCHANGED <<live, shareVars, master, mid, masters>>
          ELSE Drop /\ UNCHANGED <<recording, masters>>

RemoveNow == Remove(owners, viewers, net, gd)

\* Mutant: the removal that awaited the recording does not go on
RemoveFinishBug ==
  /\ recording = "closing"
  /\ recording' = "kept"
  /\ UNCHANGED <<live, sessVars, shareVars, regVars, master, mid, masters, pc, net, tries, deaf, gd>>

\* The first of the removals that await the recording goes on; the others find
\* the session gone and change nothing.
RemoveFinish ==
  /\ recording = "closing"
  /\ recording' = "kept"
  /\ Drop
  /\ UNCHANGED <<sessVars, regVars, masters, pc, net, tries, deaf, gd>>

----------------------------------------------------------------------------
(* The session *)

PrepareOk ==
  /\ prep = "running"
  /\ prep' = "ready"
  /\ UNCHANGED <<live, hib, idle, shareVars, regVars, masterVars, pc, net, tries, deaf, gd>>

PrepareFails ==
  /\ prep = "running"
  /\ prep' = "failed"
  /\ RemoveNow
  /\ UNCHANGED <<hib, idle, pc, tries, deaf>>

\* DELETE /:id, a locked or deleted account, a deleted entry
Delete ==
  /\ live
  /\ RemoveNow
  /\ UNCHANGED <<sessVars, pc, tries, deaf>>

GoIdle ==
  /\ live /\ ~idle
  /\ idle' = TRUE
  /\ UNCHANGED <<live, prep, hib, shareVars, regVars, masterVars, pc, net, tries, deaf, gd>>

\* cleanupOldSessions
Cleanup ==
  /\ live /\ ~hib /\ idle
  /\ RemoveNow
  /\ UNCHANGED <<sessVars, pc, tries, deaf>>

\* hibernate and resume
Pause(h) ==
  /\ live
  /\ hib' = h /\ idle' = FALSE
  /\ UNCHANGED <<live, prep, shareVars, regVars, masterVars, pc, net, tries, deaf, gd>>

\* startSharing, or new permissions for the link
Share(w) ==
  /\ live
  /\ shared' = TRUE /\ writable' = w
  /\ UNCHANGED <<live, sessVars, regVars, masterVars, pc, net, tries, deaf, gd>>

\* Mutant: the viewers are forgotten and not closed
StopSharingBug ==
  /\ live /\ shared
  /\ shared' = FALSE /\ writable' = FALSE
  /\ viewers' = {}
  /\ active' = IF active \in viewers THEN NoSocket ELSE active
  /\ UNCHANGED <<live, sessVars, owners, masterVars, pc, net, tries, deaf, gd>>

\* The owner stops sharing, or the link expires
StopSharing ==
  /\ live /\ shared
  /\ shared' = FALSE /\ writable' = FALSE
  /\ net' = Closing(net, viewers)
  /\ viewers' = {}
  /\ active' = IF active \in viewers THEN NoSocket ELSE active
  /\ UNCHANGED <<live, sessVars, owners, masterVars, pc, tries, deaf, gd>>

----------------------------------------------------------------------------
(* The owner's sockets *)

\* wsAuth finds the session; entry and identity are then awaited.
OpenOwner(k) ==
  /\ pc[k] = "idle" /\ live
  /\ pc' = [pc EXCEPT ![k] = "auth"]
  /\ idle' = FALSE
  /\ UNCHANGED <<live, prep, hib, shareVars, regVars, masterVars, net, tries, deaf, gd>>

\* ws.close(code, reason) before anything is attached
Refused(k) ==
  /\ pc' = [pc EXCEPT ![k] = "done"]
  /\ net' = Closing(net, {k})

AuthFails(k) ==
  /\ pc[k] \in {"auth", "lookup"}
  /\ Refused(k)
  /\ UNCHANGED <<live, sessVars, shareVars, regVars, masterVars, tries, deaf, gd>>

\* The session is resumed; unless it is gone or not prepared, the settings of
\* the organization are awaited.
AuthOwner(k) ==
  /\ pc[k] = "auth"
  /\ hib' = (hib /\ ~live) /\ idle' = (idle /\ ~live)
  /\ \/ /\ live /\ prep = "ready"
        /\ pc' = [pc EXCEPT ![k] = "settings"]
        /\ UNCHANGED net
     \/ /\ ~(live /\ prep = "ready")
        /\ Refused(k)
  /\ UNCHANGED <<live, prep, shareVars, regVars, masterVars, tries, deaf, gd>>

\* k gets its handlers and its clock, and becomes the active socket.
Attach(k) ==
  /\ pc' = [pc EXCEPT ![k] = "attached"]
  /\ owners' = owners \cup {k}
  /\ active' = k
  /\ gd' = [gd EXCEPT ![k] = "open"]
  /\ UNCHANGED viewers

\* createMasterConnection; whether it is recorded was awaited
CreateMaster(k) ==
  /\ master' = k /\ masters' = masters \cup {k}
  /\ recording' \in {"on", "off"}
  /\ Attach(k)
  /\ UNCHANGED <<mid, tries, net>>

\* joinMasterConnection; nobody asks whether that connection still stands
Join(k) ==
  /\ Attach(k)
  /\ UNCHANGED <<masterVars, tries, net>>

\* Mutant: the first look for the master is not repeated after the await
SettleBug(k) ==
  /\ pc[k] = "settings"
  /\ live /\ ~mid
  /\ CreateMaster(k)
  /\ UNCHANGED <<live, sessVars, shareVars, deaf>>

\* initialize() goes on: the first socket makes the master connection, later
\* ones join it, or wait, registered already, until it has an id.
Settle(k) ==
  /\ pc[k] = "settings"
  /\ \/ live /\ master = NoSocket /\ CreateMaster(k)
     \/ live /\ mid /\ Join(k)
     \/ /\ ~live \/ (master # NoSocket /\ ~mid)
        /\ pc' = [pc EXCEPT ![k] = "waiting"]
        /\ owners' = IF live THEN owners \cup {k} ELSE owners
        /\ UNCHANGED <<viewers, active, masterVars, tries, net, gd>>
  /\ UNCHANGED <<live, sessVars, shareVars, deaf>>

\* Mutant: the looks are not counted
LookBug(k) ==
  /\ pc[k] = "waiting"
  /\ \/ /\ ~live
        /\ pc' = [pc EXCEPT ![k] = "stranded"]
        /\ UNCHANGED <<regVars, masterVars, tries, net, gd>>
     \/ live /\ mid /\ Join(k)
     \/ /\ live /\ ~mid
        /\ UNCHANGED <<regVars, masterVars, tries, pc, net, gd>>
  /\ UNCHANGED <<live, sessVars, shareVars, deaf>>

\* Mutant: one look too many
LookAgainBug(k) ==
  /\ pc[k] = "waiting" /\ live /\ ~mid /\ tries[k] < MaxAttempts
  /\ tries' = [tries EXCEPT ![k] = @ + 1]
  /\ UNCHANGED <<live, sessVars, shareVars, regVars, masterVars, pc, net, deaf, gd>>

\* checkMaster: the session is gone and the socket is forgotten, open as it
\* is; the master is ready; or this was the last look, the socket is closed
\* and stays registered.
Look(k) ==
  /\ pc[k] = "waiting"
  /\ \/ /\ ~live
        /\ pc' = [pc EXCEPT ![k] = "stranded"]
        /\ UNCHANGED <<regVars, masterVars, tries, net, gd>>
     \/ live /\ mid /\ Join(k)
     \/ /\ live /\ ~mid /\ tries[k] + 1 >= MaxAttempts
        /\ Refused(k)
        /\ UNCHANGED <<regVars, masterVars, tries, gd>>
     \/ /\ live /\ ~mid /\ tries[k] + 1 < MaxAttempts
        /\ tries' = [tries EXCEPT ![k] = @ + 1]
        /\ UNCHANGED <<regVars, masterVars, pc, net, gd>>
  /\ UNCHANGED <<live, sessVars, shareVars, deaf>>

\* Any message renews the session; a key or a mouse button also takes over.
Message(k, interacts) ==
  /\ pc[k] = "attached" /\ k \notin deaf /\ net[k] # "closed" /\ live
  /\ idle' = FALSE
  /\ active' = IF interacts THEN k ELSE active
  /\ UNCHANGED <<live, prep, hib, shareVars, owners, viewers, masterVars, pc, net, tries, deaf, gd>>

\* Mutant: viewers and other sockets do not count when the last one leaves
LeaveBug(k, n) ==
  LET o == IF live THEN owners \ {k} ELSE owners
      g == IF k \in masters THEN gd ELSE [gd EXCEPT ![k] = "closed"]
  IN /\ pc' = [pc EXCEPT ![k] = "done"]
     /\ IF live /\ ~hib /\ o = {}
          THEN Remove(o, viewers, Closing(n, {k}), g)
          ELSE /\ owners' = o
               /\ active' = IF live /\ active = k THEN NoSocket ELSE active
               /\ net' = Closing(n, {k}) /\ gd' = g
               /\ UNCHANGED <<live, shareVars, viewers, masterVars>>

\* Mutant: a joined connection stays open when its socket leaves
LeaveOpenBug(k, n) ==
  LET o == IF live THEN owners \ {k} ELSE owners
  IN /\ pc' = [pc EXCEPT ![k] = "done"]
     /\ IF live /\ ~hib /\ o = {} /\ viewers = {}
          THEN Remove(o, viewers, Closing(n, {k}), gd)
          ELSE /\ owners' = o
               /\ active' = IF live /\ active = k THEN NoSocket ELSE active
               /\ net' = Closing(n, {k}) /\ gd' = gd
               /\ UNCHANGED <<live, shareVars, viewers, masterVars>>

\* ClientConnection.close, with ready states n: a joined connection is closed,
\* the master's stays for the others; the last socket of a session that is not
\* paused ends the session.
Leave(k, n) ==
  LET o == IF live THEN owners \ {k} ELSE owners
      g == IF k \in masters THEN gd ELSE [gd EXCEPT ![k] = "closed"]
  IN /\ pc' = [pc EXCEPT ![k] = "done"]
     /\ IF live /\ ~hib /\ o = {} /\ viewers = {}
          THEN Remove(o, viewers, Closing(n, {k}), g)
          ELSE /\ owners' = o
               /\ active' = IF live /\ active = k THEN NoSocket ELSE active
               /\ net' = Closing(n, {k}) /\ gd' = g
               /\ UNCHANGED <<live, shareVars, viewers, masterVars>>

\* Mutant: the clock closes only sockets that are open
ExpireBug(k) ==
  /\ pc[k] = "attached" /\ net[k] = "open"
  /\ Leave(k, net)
  /\ UNCHANGED <<sessVars, tries, deaf>>

\* Ten seconds without a message, from a socket that may be closed already
Expire(k) ==
  /\ pc[k] = "attached"
  /\ Leave(k, net)
  /\ UNCHANGED <<sessVars, tries, deaf>>

----------------------------------------------------------------------------
(* Viewers, guacd and the network *)

\* The link is looked up, the entry is awaited.
OpenViewer(k) ==
  /\ pc[k] = "idle" /\ live /\ shared
  /\ pc' = [pc EXCEPT ![k] = "lookup"]
  /\ UNCHANGED <<live, sessVars, shareVars, regVars, masterVars, net, tries, deaf, gd>>

\* handleSharedGuac
AttachViewer(k) ==
  /\ pc[k] = "lookup"
  /\ \/ /\ live /\ mid
        /\ pc' = [pc EXCEPT ![k] = "watching"]
        /\ viewers' = viewers \cup {k}
        /\ active' = IF writable THEN k ELSE active
        /\ gd' = [gd EXCEPT ![k] = "open"]
        /\ UNCHANGED <<owners, net>>
     \/ /\ ~(live /\ mid)
        /\ Refused(k)
        /\ UNCHANGED <<regVars, gd>>
  /\ UNCHANGED <<live, sessVars, shareVars, masterVars, tries, deaf>>

\* A viewer who may type uses a key or a mouse button.
ViewerInput(k) ==
  /\ pc[k] = "watching" /\ net[k] # "closed" /\ live /\ writable
  /\ active' = k
  /\ UNCHANGED <<live, sessVars, shareVars, owners, viewers, masterVars, pc, net, tries, deaf, gd>>

\* guacd tells the id of the master connection.
MasterReady(k) ==
  /\ k \in masters /\ gd[k] = "open" /\ ~mid
  /\ mid' = (live /\ master # NoSocket)
  /\ UNCHANGED <<live, sessVars, shareVars, regVars, master, recording, masters, pc, net, tries, deaf, gd>>

\* guacd closes a connection, or fails.  The master's end takes its socket's
\* listeners and the session along; a joined one ends alone and unseen by its
\* socket; a viewer's closes the viewer.
GuacdCloses(k) ==
  LET g == [gd EXCEPT ![k] = "closed"]
  IN /\ gd[k] = "open"
     /\ \/ /\ k \in masters
           /\ deaf' = deaf \cup {k}
           /\ Remove(owners, viewers, Closing(net, {k}), g)
        \/ /\ k \notin masters
           /\ gd' = g
           /\ net' = IF pc[k] = "watching" THEN Closing(net, {k}) ELSE net
           /\ UNCHANGED <<live, shareVars, regVars, masterVars, deaf>>
     /\ UNCHANGED <<sessVars, pc, tries>>

\* Mutant: the close handler of a viewer leaves activeWs alone
ViewerLeavesBug(k, n) ==
  /\ pc' = [pc EXCEPT ![k] = "done"]
  /\ viewers' = IF live THEN viewers \ {k} ELSE viewers
  /\ gd' = [gd EXCEPT ![k] = "closed"]
  /\ net' = n
  /\ UNCHANGED <<live, shareVars, owners, active, masterVars>>

\* The close handler of a viewer; it never ends the session.
ViewerLeaves(k, n) ==
  /\ pc' = [pc EXCEPT ![k] = "done"]
  /\ viewers' = IF live THEN viewers \ {k} ELSE viewers
  /\ active' = IF live /\ active = k THEN NoSocket ELSE active
  /\ gd' = [gd EXCEPT ![k] = "closed"]
  /\ net' = n
  /\ UNCHANGED <<live, shareVars, owners, masterVars>>

\* A socket closes; only a listening one hears it.
PeerClose(k) ==
  LET n == [net EXCEPT ![k] = "closed"]
  IN /\ pc[k] # "idle" /\ net[k] # "closed"
     /\ \/ pc[k] = "attached" /\ k \notin deaf /\ Leave(k, n)
        \/ pc[k] = "watching" /\ ViewerLeaves(k, n)
        \/ /\ pc[k] \notin {"attached", "watching"} \/ k \in deaf
           /\ net' = n
           /\ UNCHANGED <<live, shareVars, regVars, masterVars, pc, gd>>
     /\ UNCHANGED <<sessVars, tries, deaf>>

----------------------------------------------------------------------------
SessionStep ==
  \/ PrepareOk \/ PrepareFails
  \/ Delete \/ GoIdle \/ Cleanup \/ RemoveFinish
  \/ \E h \in BOOLEAN : Pause(h)
  \/ \E w \in BOOLEAN : Share(w)
  \/ StopSharing

SocketStep(k) ==
  \/ OpenOwner(k) \/ AuthFails(k) \/ AuthOwner(k) \/ Settle(k) \/ Look(k)
  \/ \E interacts \in BOOLEAN : Message(k, interacts)
  \/ Expire(k)
  \/ OpenViewer(k) \/ AttachViewer(k) \/ ViewerInput(k)
  \/ MasterReady(k) \/ GuacdCloses(k)
  \/ PeerClose(k)

Next == SessionStep \/ \E k \in Sockets : SocketStep(k)

Spec == Init /\ [][Next]_vars

\* The clock of a socket that can send nothing any more runs out, and a socket
\* that was closed reaches the closed state; database answers, the 100 ms
\* timers, the recording file and the sweep come.  Nothing is assumed of
\* guacd, the owner, the viewers or an open socket.
Fairness ==
  /\ WF_vars(RemoveFinish)
  /\ WF_vars(Cleanup)
  /\ \A k \in Sockets :
       /\ WF_vars(AuthFails(k) \/ AuthOwner(k) \/ AttachViewer(k))
       /\ WF_vars(Settle(k))
       /\ WF_vars(Look(k))
       /\ WF_vars(net[k] = "closed" /\ Expire(k))
       /\ WF_vars(net[k] = "closing" /\ PeerClose(k))

LiveSpec == Spec /\ Fairness

----------------------------------------------------------------------------
(* Safety *)

\* However many sockets come back from the settings at once, guacd holds at
\* most one master connection of the session, and it is the one that the
\* session table knows; it goes with the session.
OneMaster ==
  \A k \in masters : gd[k] = "open" => live /\ master = k

\* A connection to guacd that is not the master's is held by an attached
\* socket or viewer, whose leaving will close it: none is left behind.
JoinsHeld ==
  \A k \in Sockets \ masters : gd[k] = "open" => pc[k] \in {"attached", "watching"}

\* An open socket that is attached, waits or watches is registered, so the last
\* one to leave sees it, and a removal or an end of sharing that begins now
\* closes it.  One that is still open when the session is gone attached while
\* the removal awaited the recording (SessionManager.js:253-270): nobody closes
\* that one.
OpenRegistered ==
  \A k \in Sockets : net[k] = "open" =>
    /\ pc[k] = "attached" => k \in owners
    /\ pc[k] = "watching" => k \in viewers
    /\ pc[k] = "waiting" /\ live => k \in owners
    /\ pc[k] \in {"attached", "watching"} /\ ~live => recording = "kept"

\* activeWs is a socket whose handlers have not run their close yet.
ActiveAttached ==
  live /\ active # NoSocket => pc[active] \in {"attached", "watching"}

\* A session is ended by its last socket only: when the leaving of one starts
\* its removal, no other attached, waiting or watching one is open.
LeavingSparesOthers ==
  [][\A k \in Sockets :
       /\ PeerClose(k) \/ Expire(k)
       /\ live /\ (~live' \/ (recording = "on" /\ recording' = "closing"))
       => \A j \in Sockets \ {k} :
            pc[j] \in {"attached", "waiting", "watching"} => net[j] # "open"]_vars

----------------------------------------------------------------------------
(* Liveness, under LiveSpec *)

\* An owner's socket does not wait for ever: it is attached, or closed, or the
\* session it waits for is gone.
OwnerServed ==
  \A k \in Sockets : pc[k] \in {"auth", "settings", "waiting"} ~>
    pc[k] \in {"attached", "done"} \/ ~live

\* A socket that is closed is found out, also when it closed before its
\* handlers were there or after they were removed.
DeadSocketLeaves ==
  \A k \in Sockets : pc[k] = "attached" /\ net[k] = "closed" ~> pc[k] = "done"

\* A removal that awaits its recording is carried through.
RemovalCompletes == recording = "closing" ~> ~live
=============================================================================
