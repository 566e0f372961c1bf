---------------------------- MODULE TermSession ----------------------------
(***************************************************************************)
(* A terminal session of INFRA-W, from the request that creates it to the  *)
(* moment its remote connection is gone:                                   *)
(*                                                                         *)
(*   lib/SessionManager.js      the session table, sharing, removal        *)
(*   lib/ConnectionService.js   dialling SSH, telnet and Proxmox consoles  *)
(*   routes/term.js, hooks/*    a browser socket waiting for the           *)
(*                              connection, attaching to it, leaving it    *)
(*   middlewares/wsAuth.js      what is looked up before a socket attaches *)
(*                                                                         *)
(* Node runs one callback at a time, so the code between two awaits is one *)
(* action; a promise rejection and the .catch that removes the session run *)
(* in one go and are one action too.  Session ids and share links are      *)
(* random and are never reused.  A session object outlives its entry in    *)
(* the table (closures keep it), so its fields stay defined after removal. *)
(* SFTP and RDP/VNC sessions take other paths and are not in this module.  *)
(***************************************************************************)
EXTENDS Naturals, FiniteSets

CONSTANTS Sessions,    \* session ids
          Sockets,     \* browser web sockets, each opened once
          Links,       \* share ids
          MaxPolls,    \* looks a waiting socket takes (5000 ms / 100 ms in the code)
          NoSession, NoSocket, NoLink

ASSUME SessionAssumption == NoSession \notin Sessions
ASSUME SocketAssumption == NoSocket \notin Sockets
ASSUME LinkAssumption == NoLink \notin Links
ASSUME PollAssumption == MaxPolls \in Nat \ {0}

Protocols == {"ssh", "telnet", "pve"}

VARIABLES
  live,        \* keys of SessionManager.sessions
  proto,       \* protocol of the session's entry, "none" before it is created
  hib,         \* isHibernated
  idle,        \* lastActivity is more than six hours ago
  conn,        \* masterConnection is set
  asking,      \* awaitingInput
  recording,   \* "off", "on", "closing" (finalisation awaited), "kept"
  dial,        \* how far createConnectionForSession got
  remote,      \* the connection to the server: "none", "open", "closed"
  shareId, writable, timers,   \* the session's share link, its mode, armed expiry timers
  index,       \* shareIndex: link -> session
  spent,       \* links handed out so far
  owners, viewers, active,     \* connectedWs, sharedWs, activeWs
  pc, target, via,             \* a socket's handler, its session, its link (NoLink: the owner's)
  net,         \* readyState of a socket: "open", "closing", "closed"
  polls        \* 100 ms sleeps since waitForConnection last set its start

flags == <<hib, idle>>
dialVars == <<proto, asking, dial>>
shareVars == <<shareId, writable, timers, index>>
regVars == <<owners, viewers, active>>
sockVars == <<pc, target, via, polls>>
vars == <<live, conn, recording, remote, flags, dialVars, shareVars, spent, regVars, sockVars, net>>

TypeOK ==
  /\ live \subseteq Sessions
  /\ proto \in [Sessions -> Protocols \cup {"none"}]
  /\ hib \in [Sessions -> BOOLEAN]
  /\ idle \in [Sessions -> BOOLEAN]
  /\ conn \in [Sessions -> BOOLEAN]
  /\ asking \in [Sessions -> BOOLEAN]
  /\ recording \in [Sessions -> {"off", "on", "closing", "kept"}]
  /\ dial \in [Sessions -> {"none", "resolve", "reach", "login", "prompt", "shell",
                            "recInit", "up", "late", "failed"}]
  /\ remote \in [Sessions -> {"none", "open", "closed"}]
  /\ shareId \in [Sessions -> Links \cup {NoLink}]
  /\ writable \in [Sessions -> BOOLEAN]
  /\ timers \in [Sessions -> Nat]
  /\ index \in [Links -> Sessions \cup {NoSession}]
  /\ spent \subseteq Links
  /\ owners \in [Sessions -> SUBSET Sockets]
  /\ viewers \in [Sessions -> SUBSET Sockets]
  /\ active \in [Sessions -> Sockets \cup {NoSocket}]
  /\ pc \in [Sockets -> {"idle", "auth", "waiting", "attached", "done"}]
  /\ target \in [Sockets -> Sessions \cup {NoSession}]
  /\ via \in [Sockets -> Links \cup {NoLink}]
  /\ net \in [Sockets -> {"open", "closing", "closed"}]
  /\ polls \in [Sockets -> 0..MaxPolls]

Init ==
  /\ live = {} /\ spent = {}
  /\ proto = [s \in Sessions |-> "none"]
  /\ hib = [s \in Sessions |-> FALSE]
  /\ idle = [s \in Sessions |-> FALSE]
  /\ conn = [s \in Sessions |-> FALSE]
  /\ asking = [s \in Sessions |-> FALSE]
  /\ recording = [s \in Sessions |-> "off"]
  /\ dial = [s \in Sessions |-> "none"]
  /\ remote = [s \in Sessions |-> "none"]
  /\ shareId = [s \in Sessions |-> NoLink]
  /\ writable = [s \in Sessions |-> FALSE]
  /\ timers = [s \in Sessions |-> 0]
  /\ index = [l \in Links |-> NoSession]
  /\ owners = [s \in Sessions |-> {}]
  /\ viewers = [s \in Sessions |-> {}]
  /\ active = [s \in Sessions |-> NoSocket]
  /\ pc = [k \in Sockets |-> "idle"]
  /\ target = [k \in Sockets |-> NoSession]
  /\ via = [k \in Sockets |-> NoLink]
  /\ net = [k \in Sockets |-> "open"]
  /\ polls = [k \in Sockets |-> 0]

----------------------------------------------------------------------------
(* Helpers *)

\* ws.close() on every socket of K, given the ready states n
Closing(n, K) == [k \in Sockets |-> IF k \in K /\ n[k] = "open" THEN "closing" ELSE n[k]]

\* Mutant: startSharing and stopSharing without their clearTimeout
ClearTimerBug(n) == n

\* clearTimeout of the one timer handle the session object holds
ClearTimer(n) == IF n = 0 THEN 0 ELSE n - 1

Viewer(k) == via[k] # NoLink
Attached(k, s) == pc[k] = "attached" /\ target[k] = s

\* A Proxmox console that closes takes the viewers attached to it along.
HungUp(s) == {k \in Sockets : proto[s] = "pve" /\ Attached(k, s) /\ Viewer(k)}

\* The index without the entry of s
Unindexed(s) == IF shareId[s] = NoLink THEN index ELSE [index EXCEPT ![shareId[s]] = NoSession]

\* Mutant: remove() forgets to close the connection
DropBug(s, r, n) ==
  /\ remote' = r /\ net' = n /\ live' = live \ {s}
  /\ conn' = [conn EXCEPT ![s] = FALSE]
  /\ index' = Unindexed(s)
  /\ shareId' = [shareId EXCEPT ![s] = NoLink]
  /\ writable' = [writable EXCEPT ![s] = FALSE]
  /\ timers' = [timers EXCEPT ![s] = IF shareId[s] = NoLink THEN @ ELSE ClearTimer(@)]

\* remove(), after the recording is finalised: close the connection, drop the
\* link and its timer, delete the session from the table.  r and n are the
\* states of the connections and of the sockets at that point.
Drop(s, r, n) ==
  /\ remote' = IF conn[s] THEN [r EXCEPT ![s] = "closed"] ELSE r
  /\ net' = IF conn[s] THEN Closing(n, HungUp(s)) ELSE n
  /\ conn' = [conn EXCEPT ![s] = FALSE]
  /\ index' = Unindexed(s)
  /\ shareId' = [shareId EXCEPT ![s] = NoLink]
  /\ writable' = [writable EXCEPT ![s] = FALSE]
  /\ timers' = [timers EXCEPT ![s] = IF shareId[s] = NoLink THEN @ ELSE ClearTimer(@)]
  /\ live' = live \ {s}

\* remove(): closes the session's sockets; with a recording running it then
\* waits for the file, and RemoveFinish goes on; a second call meanwhile finds
\* no recording and does not wait.
Remove(s, r, n) ==
  \/ /\ s \notin live
     /\ remote' = r /\ net' = n
     /\ UNCHANGED <<live, conn, recording, shareVars, regVars>>
  \/ /\ s \in live
     /\ owners' = [owners EXCEPT ![s] = {}]
     /\ viewers' = [viewers EXCEPT ![s] = {}]
     /\ active' = [active EXCEPT ![s] = NoSocket]
     /\ LET closed == Closing(n, owners[s] \cup viewers[s])
        IN IF recording[s] = "on"
             THEN /\ recording' = [recording EXCEPT ![s] = "closing"]
                  /\ remote' = r /\ net' = closed
                  /\ UNCHANGED <<live, conn, shareVars>>
             ELSE Drop(s, r, closed) /\ UNCHANGED recording

----------------------------------------------------------------------------
(* Creating the session and dialling the server *)

\* createSession, after its checks: the connection is started, not awaited
Create(s, p) ==
  /\ dial[s] = "none"
  /\ live' = live \cup {s}
  /\ proto' = [proto EXCEPT ![s] = p]
  /\ dial' = [dial EXCEPT ![s] = "resolve"]
  /\ UNCHANGED <<conn, recording, remote, flags, asking, shareVars, spent, regVars, sockVars, net>>

\* What comes before the login: a Proxmox console first asks the cluster for a
\* ticket and a console, and SSH may go through jump hosts.
Routes(p) == CASE p = "ssh" -> {"reach", "login"} [] p = "pve" -> {"reach"} [] OTHER -> {"login"}

\* Entry, identity and script are loaded; a session removed meanwhile is not dialled.
ResolveOk(s) ==
  /\ dial[s] = "resolve"
  /\ \E stage \in IF s \in live THEN Routes(proto[s]) ELSE {"failed"} :
       dial' = [dial EXCEPT ![s] = stage]
  /\ UNCHANGED <<live, conn, recording, remote, flags, proto, asking, shareVars, spent, regVars, sockVars, net>>

\* The cluster answered, or the last jump host forwards: the login begins, with
\* its timer.  Nothing limits how long this stage takes.
Reached(s) ==
  /\ dial[s] = "reach"
  /\ dial' = [dial EXCEPT ![s] = "login"]
  /\ UNCHANGED <<live, conn, recording, remote, flags, proto, asking, shareVars, spent, regVars, sockVars, net>>

ResolveFails(s) ==
  /\ dial[s] = "resolve"
  /\ dial' = [dial EXCEPT ![s] = "failed"]
  /\ Remove(s, remote, net)
  /\ UNCHANGED <<flags, proto, asking, spent, sockVars>>

\* keyboard-interactive: the account is asked and the 30 s timer is stopped
LoginPrompt(s) ==
  /\ dial[s] = "login" /\ proto[s] = "ssh"
  /\ dial' = [dial EXCEPT ![s] = "prompt"]
  /\ asking' = [asking EXCEPT ![s] = TRUE]
  /\ UNCHANGED <<live, conn, recording, remote, flags, proto, shareVars, spent, regVars, sockVars, net>>

\* Mutant: the flag is cleared but the login does not go on
PromptSettledBug(s) ==
  /\ asking[s]
  /\ asking' = [asking EXCEPT ![s] = FALSE]
  /\ UNCHANGED <<live, conn, recording, remote, flags, proto, dial, shareVars, spent, regVars, sockVars, net>>

\* Answered, cancelled or not answered in two minutes: the login goes on, and
\* a prompt that outlives a failed login only clears the flag.
PromptSettled(s) ==
  /\ asking[s]
  /\ asking' = [asking EXCEPT ![s] = FALSE]
  /\ dial' = [dial EXCEPT ![s] = IF @ = "prompt" THEN "login" ELSE @]
  /\ UNCHANGED <<live, conn, recording, remote, flags, proto, shareVars, spent, regVars, sockVars, net>>

\* Mutant: the rejection is logged and the session stays
DialFailBug(s) ==
  /\ dial[s] \in {"reach", "login", "prompt"}
  /\ dial' = [dial EXCEPT ![s] = "failed"]
  /\ UNCHANGED <<live, conn, recording, remote, flags, proto, asking, shareVars, spent, regVars, sockVars, net>>

\* Refused, unreachable, or out of time: reject, then .catch removes the session
DialFail(s) ==
  /\ dial[s] \in {"reach", "login", "prompt"}
  /\ dial' = [dial EXCEPT ![s] = "failed"]
  /\ Remove(s, remote, net)
  /\ UNCHANGED <<flags, proto, asking, spent, sockVars>>

\* initRecording finds no session and returns at once, or waits for the
\* organization's settings
AfterOpen(s) == IF s \in live THEN "recInit" ELSE "late"

\* "ready" (SSH, which then asks for a shell), "connect" or "open"
Ready(s) ==
  /\ dial[s] = "login"
  /\ remote' = [remote EXCEPT ![s] = "open"]
  /\ dial' = [dial EXCEPT ![s] = IF proto[s] = "ssh" THEN "shell" ELSE AfterOpen(s)]
  /\ UNCHANGED <<live, conn, recording, flags, proto, asking, shareVars, spent, regVars, sockVars, net>>

ShellOpen(s) ==
  /\ dial[s] = "shell" /\ remote[s] = "open"
  /\ dial' = [dial EXCEPT ![s] = AfterOpen(s)]
  /\ UNCHANGED <<live, conn, recording, remote, flags, proto, asking, shareVars, spent, regVars, sockVars, net>>

\* The settings are there: a recording starts if the organization keeps them,
\* even on a session that was removed meanwhile; setConnection then refuses a
\* session that is gone, and nobody looks at what it returns.
Install(s) ==
  /\ dial[s] = "recInit"
  /\ \E kept \in {"on", "off"} : recording' = [recording EXCEPT ![s] = kept]
  /\ conn' = [conn EXCEPT ![s] = s \in live]
  /\ dial' = [dial EXCEPT ![s] = IF s \in live THEN "up" ELSE "late"]
  /\ UNCHANGED <<live, remote, flags, proto, asking, shareVars, spent, regVars, sockVars, net>>

\* Mutant: the close handler does not remove the session once it is connected
RemoteCloseBug(s) ==
  /\ remote[s] = "open" /\ dial[s] = "up"
  /\ remote' = [remote EXCEPT ![s] = "closed"]
  /\ UNCHANGED <<live, conn, recording, flags, dialVars, shareVars, spent, regVars, sockVars, net>>

\* The server ends the connection.  Every stage removes the session: through
\* reject while dialling, through the "close" handlers afterwards.  A
\* connection that came up late has one only in telnet and Proxmox.
RemoteClose(s) ==
  /\ remote[s] = "open"
  /\ dial' = [dial EXCEPT ![s] = IF @ = "shell" THEN "failed" ELSE @]
  /\ Remove(s, [remote EXCEPT ![s] = "closed"], Closing(net, HungUp(s)))
  /\ UNCHANGED <<flags, proto, asking, spent, sockVars>>

----------------------------------------------------------------------------
(* Keeping, pausing and ending the session *)

\* DELETE /:id, a locked or deleted account, a deleted entry or folder
Delete(s) ==
  /\ s \in live
  /\ Remove(s, remote, net)
  /\ UNCHANGED <<flags, dialVars, spent, sockVars>>

\* Six hours pass, whatever the session is doing: the way to a jump host or to a
\* Proxmox cluster and the request for a shell have no timer.
GoIdle(s) ==
  /\ s \in live /\ ~idle[s]
  /\ idle' = [idle EXCEPT ![s] = TRUE]
  /\ UNCHANGED <<live, conn, recording, remote, hib, dialVars, shareVars, spent, regVars, sockVars, net>>

\* Mutant: the sweep skips sessions that hold a connection
CleanupBug(s) ==
  /\ s \in live /\ ~hib[s] /\ idle[s] /\ ~conn[s]
  /\ Remove(s, remote, net)
  /\ UNCHANGED <<flags, dialVars, spent, sockVars>>

\* cleanupOldSessions, for one session of its loop
Cleanup(s) ==
  /\ s \in live /\ ~hib[s] /\ idle[s]
  /\ Remove(s, remote, net)
  /\ UNCHANGED <<flags, dialVars, spent, sockVars>>

\* Mutant: remove() does not go on after the recording
RemoveFinishBug(s) ==
  /\ recording[s] = "closing"
  /\ recording' = [recording EXCEPT ![s] = "kept"]
  /\ UNCHANGED <<live, conn, remote, flags, dialVars, shareVars, spent, regVars, sockVars, net>>

\* The recording is on disk: the remove() that waited for it goes on.
RemoveFinish(s) ==
  /\ recording[s] = "closing"
  /\ recording' = [recording EXCEPT ![s] = "kept"]
  /\ IF s \in live THEN Drop(s, remote, net)
     ELSE UNCHANGED <<live, conn, remote, shareVars, net>>
  /\ UNCHANGED <<flags, dialVars, spent, regVars, sockVars>>

Hibernate(s) ==
  /\ s \in live
  /\ hib' = [hib EXCEPT ![s] = TRUE]
  /\ idle' = [idle EXCEPT ![s] = FALSE]
  /\ UNCHANGED <<live, conn, recording, remote, dialVars, shareVars, spent, regVars, sockVars, net>>

Resume(s) ==
  /\ s \in live
  /\ hib' = [hib EXCEPT ![s] = FALSE]
  /\ idle' = [idle EXCEPT ![s] = FALSE]
  /\ UNCHANGED <<live, conn, recording, remote, dialVars, shareVars, spent, regVars, sockVars, net>>

----------------------------------------------------------------------------
(* Sharing *)

\* Mutant: the session object looked up before the policy was awaited is used
StartSharingBug(s, l, w) ==
  /\ dial[s] # "none"
  /\ IF shareId[s] = NoLink THEN l \notin spent ELSE l = shareId[s]
  /\ shareId' = [shareId EXCEPT ![s] = l]
  /\ index' = [index EXCEPT ![l] = s]
  /\ spent' = spent \cup {l}
  /\ writable' = [writable EXCEPT ![s] = w]
  /\ timers' = [timers EXCEPT ![s] = ClearTimer(@) + 1]
  /\ UNCHANGED <<live, conn, recording, remote, flags, dialVars, regVars, sockVars, net>>

\* A new link, or the same one with a new mode and a new expiry timer
StartSharing(s, l, w) ==
  /\ s \in live
  /\ IF shareId[s] = NoLink THEN l \notin spent ELSE l = shareId[s]
  /\ shareId' = [shareId EXCEPT ![s] = l]
  /\ index' = [index EXCEPT ![l] = s]
  /\ spent' = spent \cup {l}
  /\ writable' = [writable EXCEPT ![s] = w]
  /\ timers' = [timers EXCEPT ![s] = ClearTimer(@) + 1]
  /\ UNCHANGED <<live, conn, recording, remote, flags, dialVars, regVars, sockVars, net>>

\* Mutant: the viewers are forgotten but not closed
EndShareBug(s, t) ==
  /\ index' = Unindexed(s)
  /\ active' = [active EXCEPT ![s] = IF @ \in viewers[s] THEN NoSocket ELSE @]
  /\ viewers' = [viewers EXCEPT ![s] = {}]
  /\ timers' = [timers EXCEPT ![s] = t]
  /\ shareId' = [shareId EXCEPT ![s] = NoLink]
  /\ writable' = [writable EXCEPT ![s] = FALSE]
  /\ UNCHANGED <<live, conn, recording, remote, flags, dialVars, spent, owners, sockVars, net>>

\* SessionManager.stopSharing, with t timers left armed before its clearTimeout
EndShare(s, t) ==
  /\ index' = Unindexed(s)
  /\ active' = [active EXCEPT ![s] = IF @ \in viewers[s] THEN NoSocket ELSE @]
  /\ net' = Closing(net, viewers[s])
  /\ viewers' = [viewers EXCEPT ![s] = {}]
  /\ timers' = [timers EXCEPT ![s] = t]
  /\ shareId' = [shareId EXCEPT ![s] = NoLink]
  /\ writable' = [writable EXCEPT ![s] = FALSE]
  /\ UNCHANGED <<live, conn, recording, remote, flags, dialVars, spent, owners, sockVars>>

\* The owner stops sharing, or a lookup finds the link past its expiry
StopSharing(s) ==
  /\ s \in live /\ shareId[s] # NoLink
  /\ EndShare(s, ClearTimer(timers[s]))

\* An expiry timer fires
ShareExpires(s) ==
  /\ timers[s] > 0
  /\ IF s \in live /\ shareId[s] # NoLink
       THEN EndShare(s, ClearTimer(timers[s]))
       ELSE /\ timers' = [timers EXCEPT ![s] = ClearTimer(@)]
            /\ UNCHANGED <<live, conn, recording, remote, flags, dialVars, shareId, writable,
                           index, spent, regVars, sockVars, net>>

UpdateShare(s, w) ==
  /\ s \in live /\ shareId[s] # NoLink
  /\ writable' = [writable EXCEPT ![s] = w]
  /\ UNCHANGED <<live, conn, recording, remote, flags, dialVars, shareId, timers, index,
                 spent, regVars, sockVars, net>>

----------------------------------------------------------------------------
(* Browser sockets *)

\* The socket of the owner names a session; entry and identity are then awaited.
OpenOwner(k, s) ==
  /\ pc[k] = "idle" /\ s \in live
  /\ pc' = [pc EXCEPT ![k] = "auth"]
  /\ target' = [target EXCEPT ![k] = s]
  /\ idle' = [idle EXCEPT ![s] = FALSE]
  /\ UNCHANGED <<live, conn, recording, remote, hib, dialVars, shareVars, spent, regVars, via, polls, net>>

\* The socket of a viewer names a link, which is looked up now; the entry is awaited.
OpenViewer(k, l) ==
  /\ pc[k] = "idle" /\ index[l] \in live
  /\ pc' = [pc EXCEPT ![k] = "auth"]
  /\ target' = [target EXCEPT ![k] = index[l]]
  /\ via' = [via EXCEPT ![k] = l]
  /\ UNCHANGED <<live, conn, recording, remote, flags, dialVars, shareVars, spent, regVars, polls, net>>

\* ws.close(code, reason) before anything is attached
Refused(k) ==
  /\ pc' = [pc EXCEPT ![k] = "done"]
  /\ net' = Closing(net, {k})

\* No entry, no access, no identity, no connection reason
AuthFails(k) ==
  /\ pc[k] = "auth"
  /\ Refused(k)
  /\ UNCHANGED <<live, conn, recording, remote, flags, dialVars, shareVars, spent, regVars,
                 target, via, polls>>

\* Mutant: every turn restarts the five seconds
LookBug(k) ==
  LET s == target[k]
  IN \/ /\ s \notin live
        /\ Refused(k)
        /\ UNCHANGED <<regVars, polls>>
     \/ /\ s \in live /\ conn[s]
        /\ pc' = [pc EXCEPT ![k] = "attached"]
        /\ owners' = [owners EXCEPT ![s] = @ \cup {k}]
        /\ active' = [active EXCEPT ![s] = k]
        /\ UNCHANGED <<viewers, polls, net>>
     \/ /\ s \in live /\ ~conn[s]
        /\ pc' = [pc EXCEPT ![k] = "waiting"]
        /\ polls' = [polls EXCEPT ![k] = 1]
        /\ UNCHANGED <<regVars, net>>

\* One turn of waitForConnection: the session is gone, the connection is
\* there (the hook attaches the socket and makes it the active one), or the
\* loop sleeps, from zero again while a login prompt is open.  A socket that
\* closed meanwhile is attached all the same.
Look(k) ==
  LET s == target[k]
  IN \/ /\ s \notin live
        /\ Refused(k)
        /\ UNCHANGED <<regVars, polls>>
     \/ /\ s \in live /\ conn[s]
        /\ pc' = [pc EXCEPT ![k] = "attached"]
        /\ owners' = [owners EXCEPT ![s] = @ \cup {k}]
        /\ active' = [active EXCEPT ![s] = k]
        /\ UNCHANGED <<viewers, polls, net>>
     \/ /\ s \in live /\ ~conn[s]
        /\ pc' = [pc EXCEPT ![k] = "waiting"]
        /\ polls' = [polls EXCEPT ![k] = IF asking[s] THEN 1 ELSE @ + 1]
        /\ UNCHANGED <<regVars, net>>

\* The owner is let in: the session is resumed and looked at for the first time.
AuthOwner(k) ==
  /\ pc[k] = "auth" /\ ~Viewer(k)
  /\ hib' = [hib EXCEPT ![target[k]] = @ /\ target[k] \notin live]
  /\ idle' = [idle EXCEPT ![target[k]] = @ /\ target[k] \notin live]
  /\ Look(k)
  /\ UNCHANGED <<live, conn, recording, remote, dialVars, shareVars, spent, target, via>>

\* Mutant: one look too many
PollBug(k) ==
  /\ pc[k] = "waiting" /\ polls[k] <= MaxPolls
  /\ Look(k)
  /\ UNCHANGED <<live, conn, recording, remote, flags, dialVars, shareVars, spent, target, via>>

\* A sleep is over and the five seconds are not.
Poll(k) ==
  /\ pc[k] = "waiting" /\ polls[k] < MaxPolls
  /\ Look(k)
  /\ UNCHANGED <<live, conn, recording, remote, flags, dialVars, shareVars, spent, target, via>>

\* The five seconds are over: the session is removed without another look.
WaitTimeout(k) ==
  /\ pc[k] = "waiting" /\ polls[k] = MaxPolls
  /\ pc' = [pc EXCEPT ![k] = "done"]
  /\ Remove(target[k], remote, Closing(net, {k}))
  /\ UNCHANGED <<flags, dialVars, spent, target, via, polls>>

\* Telnet refuses viewers, a Proxmox console wants its socket open, and all
\* want the connection; the link is not looked at again.
Viewable(s) == conn[s] /\ proto[s] # "telnet" /\ (proto[s] = "pve" => remote[s] = "open")

AttachViewer(k) ==
  /\ pc[k] = "auth" /\ Viewer(k)
  /\ LET s == target[k]
     IN \/ /\ Viewable(s)
           /\ pc' = [pc EXCEPT ![k] = "attached"]
           /\ viewers' = [viewers EXCEPT ![s] = @ \cup {k}]
           /\ active' = [active EXCEPT ![s] = IF writable[s] THEN k ELSE @]
           /\ UNCHANGED <<owners, net>>
        \/ /\ ~Viewable(s)
           /\ Refused(k)
           /\ UNCHANGED regVars
  /\ UNCHANGED <<live, conn, recording, remote, flags, dialVars, shareVars, spent, target, via, polls>>

\* A keystroke makes its socket the active one, in ssh and Proxmox consoles;
\* a viewer's counts only while the share is writable.
Input(k) ==
  LET s == target[k]
  IN /\ pc[k] = "attached" /\ net[k] # "closed" /\ s \in live
     /\ proto[s] # "telnet"
     /\ proto[s] = "pve" => remote[s] = "open"
     /\ Viewer(k) => writable[s]
     /\ active' = [active EXCEPT ![s] = k]
     /\ UNCHANGED <<live, conn, recording, remote, flags, dialVars, shareVars, spent, owners,
                    viewers, sockVars, net>>

\* Mutant: the active socket is not forgotten
DeregisterBug(k, s) ==
  /\ owners' = [owners EXCEPT ![s] = @ \ {k}]
  /\ viewers' = [viewers EXCEPT ![s] = @ \ {k}]
  /\ UNCHANGED active

\* removeWebSocket
Deregister(k, s) ==
  /\ owners' = [owners EXCEPT ![s] = @ \ {k}]
  /\ viewers' = [viewers EXCEPT ![s] = @ \ {k}]
  /\ active' = [active EXCEPT ![s] = IF @ = k THEN NoSocket ELSE @]

\* The socket closes.  Only an attached one has a handler to hear it.
PeerClose(k) ==
  /\ pc[k] # "idle" /\ net[k] # "closed"
  /\ net' = [net EXCEPT ![k] = "closed"]
  /\ pc' = [pc EXCEPT ![k] = IF @ = "attached" THEN "done" ELSE @]
  /\ IF pc[k] = "attached" /\ target[k] \in live THEN Deregister(k, target[k])
     ELSE UNCHANGED regVars
  /\ UNCHANGED <<live, conn, recording, remote, flags, dialVars, shareVars, spent, target, via, polls>>

----------------------------------------------------------------------------
SessionStep(s) ==
  \/ \E p \in Protocols : Create(s, p)
  \/ ResolveOk(s)
  \/ ResolveFails(s)
  \/ Reached(s)
  \/ LoginPrompt(s)
  \/ PromptSettled(s)
  \/ DialFail(s)
  \/ Ready(s)
  \/ ShellOpen(s)
  \/ Install(s)
  \/ RemoteClose(s)
  \/ Delete(s)
  \/ GoIdle(s)
  \/ Cleanup(s)
  \/ RemoveFinish(s)
  \/ Hibernate(s)
  \/ Resume(s)
  \/ StopSharing(s)
  \/ ShareExpires(s)
  \/ \E l \in Links, w \in BOOLEAN : StartSharing(s, l, w)
  \/ \E w \in BOOLEAN : UpdateShare(s, w)

SocketStep(k) ==
  \/ \E s \in Sessions : OpenOwner(k, s)
  \/ \E l \in Links : OpenViewer(k, l)
  \/ AuthFails(k)
  \/ AuthOwner(k)
  \/ Poll(k)
  \/ WaitTimeout(k)
  \/ AttachViewer(k)
  \/ Input(k)
  \/ PeerClose(k)

Next == (\E s \in Sessions : SessionStep(s)) \/ (\E k \in Sockets : SocketStep(k))

Spec == Init /\ [][Next]_vars

\* Each stretch of a login is bounded by the 30 s timer; a question stops it.
LoginOver(s) == dial[s] = "login" /\ (Ready(s) \/ DialFail(s))

\* What the event loop does sooner or later: database answers, the prompt's two
\* minutes, timers, the 30-minute sweep, a file that finishes.  Nothing is
\* assumed of the owner, the viewers or the server, nor of jump hosts, Proxmox
\* requests and the shell request, which have no timer, nor of share expiry,
\* which the owner may put off.  A question starts the login's timer again, so
\* weak fairness is all a login has.
Fairness ==
  /\ \A s \in Sessions :
       /\ WF_vars(ResolveOk(s) \/ ResolveFails(s))
       /\ WF_vars(PromptSettled(s))
       /\ WF_vars(LoginOver(s))
       /\ WF_vars(Install(s))
       /\ WF_vars(RemoveFinish(s))
       /\ WF_vars(Cleanup(s))
  /\ \A k \in Sockets :
       /\ WF_vars(AuthFails(k) \/ AuthOwner(k) \/ AttachViewer(k))
       /\ WF_vars(Poll(k) \/ WaitTimeout(k))

LiveSpec == Spec /\ Fairness

----------------------------------------------------------------------------
(* Safety *)

\* A link leads to the session that holds it and to no other, and only while
\* that session is in the table: getByShareId relies on it (SessionManager.js
\* keeps the two maps and the field in step in four places).
ShareIndexExact ==
  \A l \in Links, s \in Sessions : index[l] = s <=> s \in live /\ shareId[s] = l

\* Every shared session has exactly one armed expiry timer and no other
\* session has any, so an old timer never ends a later share.
OneExpiryTimer ==
  \A s \in Sessions : timers[s] = IF shareId[s] = NoLink THEN 0 ELSE 1

\* What startSharing, stopSharing, the timer and remove() keep in step between them.
ShareSound == ShareIndexExact /\ OneExpiryTimer

\* An open attached socket is in the set that closeAllWebSockets or
\* stopSharing goes through, so a removal or an end of sharing that begins now
\* misses none, and the sets hold attached sockets only.  When the session is
\* gone and such a socket is still open, it attached while the removal awaited
\* the recording (SessionManager.js:253-256): nobody closes that one.
AttachedRegistered ==
  \A s \in Sessions, k \in Sockets :
    /\ Attached(k, s) /\ net[k] = "open" =>
         /\ k \in IF Viewer(k) THEN viewers[s] ELSE owners[s]
         /\ s \notin live => recording[s] = "kept"
    /\ s \in live /\ k \in owners[s] => Attached(k, s) /\ ~Viewer(k)
    /\ s \in live /\ k \in viewers[s] => Attached(k, s) /\ Viewer(k)

\* activeWs never points at a socket whose close handler has run, whatever
\* order keystrokes, closes, stopped shares and removals come in.
ActiveAttached ==
  \A s \in live : active[s] # NoSocket => Attached(active[s], s)

\* A session in the table is still dialling, or holds its connection: no
\* failure or hang-up leaves an entry nobody will ever remove.
NoZombieSession ==
  \A s \in live : conn[s] \/ dial[s] \in {"resolve", "reach", "login", "prompt", "shell", "recInit"}

\* The connection a session holds is open, except while the removal waits for
\* the recording of a connection that has closed.
ConnectionUsable ==
  \A s \in Sessions : conn[s] =>
    s \in live /\ dial[s] = "up" /\ (remote[s] = "open" \/ recording[s] = "closing")

\* Once installed, a connection is released: when its session has left the
\* table the connection is closed and no recording is left running, however
\* many removals ran at once.
InstalledReleased ==
  \A s \in Sessions : dial[s] = "up" /\ s \notin live =>
    remote[s] = "closed" /\ recording[s] # "on" /\ ~conn[s]

\* The promise of SessionLifecycle, kept by the session manager
Phase(s) ==
  IF dial[s] = "none" THEN "absent"
  ELSE IF s \notin live THEN "ended"
  ELSE IF conn[s] THEN "connected" ELSE "connecting"

Lifecycle == INSTANCE SessionLifecycle WITH
  phase <- [s \in Sessions |-> Phase(s)], issued <- spent, opens <- index

\* Sessions connect once and never return; links are exclusive and die for good.
ImplementsLifecycle == Lifecycle!Spec

----------------------------------------------------------------------------
(* Liveness, under LiveSpec *)

\* The server keeps asking for ever: nobody limits its questions.
AsksForever(s) == []<>(dial[s] = "login") /\ []<>(dial[s] = "prompt")

\* Once its server is reached a login comes to an end, unless the server keeps
\* asking for ever.
LoginEnds ==
  \A s \in Sessions :
    \/ dial[s] \in {"resolve", "login", "prompt"} ~> dial[s] \notin {"resolve", "login", "prompt"}
    \/ AsksForever(s)

\* A browser socket is never left waiting: it is attached or told that there is
\* no connection, also when the way to the server or its shell never answers;
\* only a server that keeps asking for ever can hold it, since every open
\* question starts the five seconds again.
WaiterServed ==
  \A k \in Sockets, s \in Sessions :
    \/ pc[k] \in {"auth", "waiting"} /\ target[k] = s ~> pc[k] \in {"attached", "done"}
    \/ AsksForever(s)

\* A removal that waits for its recording is carried through.
RemovalCompletes == \A s \in Sessions : recording[s] = "closing" ~> s \notin live

\* A session nobody resumes, reconnects to or pauses is removed after its six
\* hours, whatever state it is stuck in.
IdleReaped ==
  \A s \in Sessions : s \in live /\ idle[s] /\ ~hib[s] ~> s \notin live \/ ~idle[s] \/ hib[s]
=============================================================================
