----------------------------- MODULE FileSockets -----------------------------
(***************************************************************************)
(* The file managers of one session (routes/sftpWS.js): sockets that share *)
(* the SSH connection of a terminal, or open one of their own and hand it  *)
(* to the session.  A session made for files has no terminal; one made for *)
(* a terminal may still dial when a file manager opens.                    *)
(*                                                                         *)
(* A socket's handler awaits its authentication, createSshClient, and in   *)
(* cleanup() the audit log.  Close events before the handlers are attached *)
(* are missed.  What is read and written over a channel is left out.       *)
(***************************************************************************)

CONSTANTS Sockets,
          Terminal,   \* the terminal's connection
          Nothing     \* no connection

ASSUME FilesApart == Terminal \notin Sockets /\ Nothing \notin Sockets /\ Nothing # Terminal

VARIABLES listed,     \* the session is in SessionManager.sessions
          paused,     \* isHibernated
          master,     \* whose connection is masterConnection
          handles,    \* masterConnection.sftpHandles, by socket
          taping,     \* session.recording: "on", or awaited by remove()
          term,       \* the SSH connection of the terminal
          sock,       \* the file managers
          installed   \* history: connections that were masterConnection

fsVars == <<listed, paused, master, handles, taping, term, sock, installed>>

SocketRecord ==
    [at    : {"new", "auth", "dial", "on", "off"},  \* "on": its handlers are attached
     net   : {"open", "closing", "closed"},
     shares : BOOLEAN,                              \* reuseExistingSsh
     own   : {"none", "connecting", "open", "ending", "ended"},
     chan  : {"none", "asked", "open", "ended"},    \* sftp
     clean : {"no", "audit", "done"},               \* isClosing, and how far cleanup() is
     shuts : BOOLEAN,                               \* the caller of cleanup() closes the socket
     deaf  : BOOLEAN,                               \* history: closed before its handlers
     late  : BOOLEAN,                               \* history: the channel came after cleanup()
     kept  : BOOLEAN]                               \* history: cleanup() met a paused session

NewSocket == [at |-> "new", net |-> "open", shares |-> FALSE, own |-> "none", chan |-> "none",
              clean |-> "no", shuts |-> FALSE, deaf |-> FALSE, late |-> FALSE, kept |-> FALSE]

FileSocketsTypeOK ==
    /\ listed \in BOOLEAN /\ paused \in BOOLEAN
    /\ master \in Sockets \cup {Terminal, Nothing}
    /\ handles \subseteq Sockets
    /\ taping \in {"no", "on", "flushing"}
    /\ term \in {"none", "dialling", "open", "gone"}
    /\ sock \in [Sockets -> SocketRecord]
    /\ installed \subseteq Sockets \cup {Terminal}

FileSocketsInit ==
    /\ listed = TRUE /\ paused = FALSE /\ master = Nothing /\ handles = {}
    /\ taping = "no" /\ term \in {"none", "dialling"}
    /\ sock = [k \in Sockets |-> NewSocket] /\ installed = {}

Alive(r) == r.own \in {"connecting", "open"}

(* mutated: a connection that still logs in is not ended *)
EndOwnBug(r) == IF r.own = "open" THEN [r EXCEPT !.own = "ending"] ELSE r

EndOwn(r) == IF Alive(r) THEN [r EXCEPT !.own = "ending"] ELSE r

Cut(r) == IF r.chan = "open" THEN [r EXCEPT !.chan = "ended"] ELSE r

(* the end of the connection everything on it shares *)
CutShared(f) == [k \in Sockets |-> IF f[k].shares THEN Cut(f[k]) ELSE f[k]]

----------------------------------------------------------------------------
(* SessionManager *)

(* the part of remove() after its await: f are the sockets and t the terminal by then *)
Drop(f, t) ==
    /\ listed' = FALSE /\ master' = Nothing /\ handles' = {}
    /\ term' = IF master = Terminal THEN "gone" ELSE t
    /\ sock' = IF master = Terminal THEN CutShared(f)
               ELSE [k \in Sockets |-> IF k = master THEN EndOwn(f[k]) ELSE f[k]]

Stays(f, t) == sock' = f /\ term' = t /\ UNCHANGED <<listed, master, handles>>

Remove(f, t) ==
    \/ ~listed /\ Stays(f, t) /\ UNCHANGED taping
    \/ listed /\ taping = "on" /\ taping' = "flushing" /\ Stays(f, t)
    \/ listed /\ taping # "on" /\ Drop(f, t) /\ UNCHANGED taping

Delete == Remove(sock, term) /\ listed /\ UNCHANGED <<paused, installed>>

RemoveFinish ==
    /\ taping = "flushing" /\ taping' = "no"
    /\ Drop(sock, term)
    /\ UNCHANGED <<paused, installed>>

Pause == listed /\ ~paused /\ paused' = TRUE
         /\ UNCHANGED <<listed, master, handles, taping, term, sock, installed>>

Unpause == listed /\ paused /\ paused' = FALSE
           /\ UNCHANGED <<listed, master, handles, taping, term, sock, installed>>

SetConnection(c) ==
    IF listed /\ master = Nothing
    THEN master' = c /\ installed' = installed \cup {c}
    ELSE UNCHANGED <<master, installed>>

----------------------------------------------------------------------------
(* the terminal of the session *)

ShellOpens ==
    /\ term = "dialling" /\ term' = "open"
    /\ SetConnection(Terminal)
    /\ taping' \in IF listed THEN {"on", taping} ELSE {taping}
    /\ UNCHANGED <<listed, paused, handles, sock>>

DialFails ==
    /\ term = "dialling"
    /\ Remove(sock, "gone")
    /\ UNCHANGED <<paused, installed>>

ShellCloses ==
    /\ term = "open"
    /\ Remove(CutShared(sock), "gone")
    /\ UNCHANGED <<paused, installed>>

----------------------------------------------------------------------------
(* a file manager *)

SetSock(k, r) == sock' = [sock EXCEPT ![k] = r]

CloseSocket(r) == IF r.net = "open" THEN [r EXCEPT !.net = "closing"] ELSE r

(* cleanup() up to its await *)
BeginCleanup(r, shuts) ==
    IF r.clean = "no" THEN [r EXCEPT !.clean = "audit", !.shuts = shuts]
    ELSE IF shuts THEN CloseSocket(r) ELSE r

OpenSocket(k) ==
    /\ sock[k].at = "new"
    /\ SetSock(k, IF listed THEN [sock[k] EXCEPT !.at = "auth"]
                  ELSE [sock[k] EXCEPT !.at = "off", !.net = "closing"])
    /\ UNCHANGED <<listed, paused, master, handles, taping, term, installed>>

Refused(k) ==
    /\ sock[k].at = "auth"
    /\ SetSock(k, CloseSocket([sock[k] EXCEPT !.at = "off"]))
    /\ UNCHANGED <<listed, paused, master, handles, taping, term, installed>>

Resume == paused' = (paused /\ ~listed)

(* a channel on the terminal's connection; one that is gone throws *)
ShareConnection(k) ==
    /\ sock[k].at = "auth" /\ master = Terminal
    /\ LET r == [sock[k] EXCEPT !.at = "on", !.shares = TRUE, !.deaf = (sock[k].net = "closed")]
       IN  SetSock(k, IF term = "open" THEN [r EXCEPT !.chan = "asked"] ELSE BeginCleanup(r, TRUE))
    /\ Resume
    /\ UNCHANGED <<listed, master, handles, taping, term, installed>>

DialOwn(k) ==
    /\ sock[k].at = "auth" /\ master # Terminal
    /\ SetSock(k, [sock[k] EXCEPT !.at = "dial"])
    /\ Resume
    /\ UNCHANGED <<listed, master, handles, taping, term, installed>>

CreateClient(k) ==
    /\ sock[k].at = "dial"
    /\ SetSock(k, [sock[k] EXCEPT !.at = "on", !.own = "connecting", !.deaf = (sock[k].net = "closed")])
    /\ UNCHANGED <<listed, paused, master, handles, taping, term, installed>>

CreateClientFails(k) ==
    /\ sock[k].at = "dial"
    /\ SetSock(k, BeginCleanup([sock[k] EXCEPT !.at = "off"], TRUE))
    /\ UNCHANGED <<listed, paused, master, handles, taping, term, installed>>

OwnReady(k) ==
    /\ sock[k].own = "connecting"
    /\ SetSock(k, [sock[k] EXCEPT !.own = "open", !.chan = "asked"])
    /\ UNCHANGED <<listed, paused, master, handles, taping, term, installed>>

OwnErrors(k) ==
    /\ sock[k].own \in {"connecting", "open", "ending"}
    /\ SetSock(k, BeginCleanup(Cut([sock[k] EXCEPT !.own = "ended"]), TRUE))
    /\ UNCHANGED <<listed, paused, master, handles, taping, term, installed>>

OwnEnds(k) ==
    /\ sock[k].own \in {"connecting", "open", "ending"}
    /\ SetSock(k, BeginCleanup(Cut([sock[k] EXCEPT !.own = "ended"]), FALSE))
    /\ UNCHANGED <<listed, paused, master, handles, taping, term, installed>>

(* the callback of ssh.sftp *)
Connected(k) == IF sock[k].shares THEN term = "open" ELSE sock[k].own = "open"

ChannelOpens(k) ==
    /\ sock[k].chan = "asked" /\ Connected(k)
    /\ SetSock(k, [sock[k] EXCEPT !.chan = "open", !.late = (sock[k].clean = "done")])
    /\ IF sock[k].shares
       THEN /\ handles' = IF listed /\ master # Nothing THEN handles \cup {k} ELSE handles
            /\ UNCHANGED <<master, installed>>
       ELSE SetConnection(k) /\ UNCHANGED handles
    /\ UNCHANGED <<listed, paused, taping, term>>

ChannelFails(k) ==
    /\ sock[k].chan = "asked"
    /\ SetSock(k, CloseSocket([sock[k] EXCEPT !.chan = "none"]))
    /\ UNCHANGED <<listed, paused, master, handles, taping, term, installed>>

CloseEvent(k) ==
    /\ sock[k].at # "new" /\ sock[k].net # "closed"
    /\ LET r == [sock[k] EXCEPT !.net = "closed"]
       IN  SetSock(k, IF r.at = "on" THEN BeginCleanup(r, FALSE) ELSE r)
    /\ UNCHANGED <<listed, paused, master, handles, taping, term, installed>>

(* cleanup() after its await, and what its caller does then *)
FinishCleanup(k) ==
    LET r == [sock[k] EXCEPT !.clean = "done"]
        s == IF r.shuts THEN CloseSocket(r) ELSE r
    IN  /\ sock[k].clean = "audit"
        /\ IF sock[k].shares
           THEN /\ SetSock(k, Cut(s))
                /\ handles' = IF s.chan \in {"open", "ended"} THEN handles \ {k} ELSE handles
                /\ UNCHANGED <<listed, master, taping, term>>
           ELSE IF listed /\ paused
           THEN /\ SetSock(k, [EndOwn(s) EXCEPT !.kept = TRUE])
                /\ UNCHANGED <<listed, master, handles, taping, term>>
           ELSE Remove([sock EXCEPT ![k] = EndOwn(s)], term)
        /\ UNCHANGED <<paused, installed>>

----------------------------------------------------------------------------
FileSocketsNext ==
    \/ Delete \/ RemoveFinish \/ Pause \/ Unpause
    \/ ShellOpens \/ DialFails \/ ShellCloses
    \/ \E k \in Sockets :
          \/ OpenSocket(k) \/ Refused(k) \/ ShareConnection(k) \/ DialOwn(k)
          \/ CreateClient(k) \/ CreateClientFails(k) \/ OwnReady(k) \/ OwnErrors(k) \/ OwnEnds(k)
          \/ ChannelOpens(k) \/ ChannelFails(k) \/ CloseEvent(k) \/ FinishCleanup(k)

FileSocketsSpec == FileSocketsInit /\ [][FileSocketsNext]_fsVars

----------------------------------------------------------------------------
(* A file manager's own connection does not outlive its socket, unless the *)
(* socket closed before its handlers were attached.                        *)
OwnReleased == \A k \in Sockets :
    Alive(sock[k]) /\ sock[k].net = "closed" => sock[k].deaf \/ sock[k].clean = "audit"

(* What the session was given ends with the session. *)
InstalledHeld == \A c \in installed :
    (IF c = Terminal THEN term = "open" ELSE Alive(sock[c])) => listed /\ master = c

(* A session whose connection ended goes, unless it was paused when the    *)
(* file manager looked.                                                    *)
NoDeadMaster == \A k \in Sockets :
    listed /\ master = k /\ ~Alive(sock[k]) =>
        sock[k].clean = "audit" \/ sock[k].kept \/ taping = "flushing"

(* The session knows every channel on its terminal's connection and ends   *)
(* it with that; one whose socket closed ends before, unless it was opened *)
(* too late for that or the close went unheard.                            *)
SharedChannels == \A k \in Sockets :
    sock[k].shares /\ sock[k].chan = "open" =>
        /\ k \in handles /\ master = Terminal /\ term = "open"
        /\ sock[k].net = "closed" => sock[k].deaf \/ sock[k].late \/ sock[k].clean = "audit"

FilesSound == OwnReleased /\ InstalledHeld /\ NoDeadMaster /\ SharedChannels
=============================================================================
