---------------------------- MODULE MCTermClaims ----------------------------
(***************************************************************************)
(* What the documentation says of terminal sessions, checked against       *)
(* TermSession.  typed remembers what the code does not: whether the owner *)
(* used the session in the last six hours.                                 *)
(***************************************************************************)
EXTENDS TermSession

VARIABLE typed

ClaimInit == Init /\ typed = [s \in Sessions |-> FALSE]

\* A keystroke of the owner counts as use, and six hours without one do not.
ClaimNext ==
  \/ \E k \in Sockets : Input(k) /\ ~Viewer(k) /\ typed' = [typed EXCEPT ![target[k]] = TRUE]
  \/ \E s \in Sessions : GoIdle(s) /\ typed' = [typed EXCEPT ![s] = FALSE]
  \/ Next /\ UNCHANGED typed

ClaimSpec == ClaimInit /\ [][ClaimNext]_<<vars, typed>>

\* docs/workspace.md:70: "The link stops working when its time is up, when you
\* stop sharing, or when the session ends": an open viewer's link leads to the
\* session it watches.
ViewerHasLink ==
  \A k \in Sockets : pc[k] = "attached" /\ Viewer(k) /\ net[k] = "open" =>
    index[via[k]] = target[k]

\* docs/workspace.md:81: "Sessions that are not paused are closed after 6 hours
\* without activity": the sweep closes no session its owner typed in since.
OnlyInactiveCleaned == [][\A s \in Sessions : Cleanup(s) => ~typed[s]]_<<vars, typed>>

\* docs/administration.md:32: "Locking signs the account out on every device and
\* closes its connections": the connection of a removed session is closed as
\* soon as nothing is left to dial.
RemovedDisconnected ==
  \A s \in Sessions : s \notin live /\ dial[s] \in {"up", "late", "failed"} => remote[s] # "open"
=============================================================================
