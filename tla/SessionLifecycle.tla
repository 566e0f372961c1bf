-------------------------- MODULE SessionLifecycle --------------------------
(***************************************************************************)
(* What the session manager promises about terminal sessions and their     *)
(* share links, without sockets, timers, recordings or dialling stages: a  *)
(* session connects at most once and never comes back after it ended; a    *)
(* link is issued for a session that has not ended and has no other valid  *)
(* link, and is invalid for good when it is revoked or the session ends.   *)
(* TermSession implements this.                                            *)
(***************************************************************************)
CONSTANTS Sessions, Links, NoSession

VARIABLES phase,   \* of a session
          issued,  \* links handed out so far
          opens    \* the session a link opens, or NoSession

Phases == {"absent", "connecting", "connected", "ended"}

Init ==
  /\ phase = [s \in Sessions |-> "absent"]
  /\ issued = {}
  /\ opens = [l \in Links |-> NoSession]

LinksOf(s) == {l \in Links : opens[l] = s}

Begin(s) ==
  /\ phase[s] = "absent"
  /\ phase' = [phase EXCEPT ![s] = "connecting"]
  /\ UNCHANGED <<issued, opens>>

Connect(s) ==
  /\ phase[s] = "connecting"
  /\ phase' = [phase EXCEPT ![s] = "connected"]
  /\ UNCHANGED <<issued, opens>>

\* The session ends and its link dies in the same instant.
End(s) ==
  /\ phase[s] \in {"connecting", "connected"}
  /\ phase' = [phase EXCEPT ![s] = "ended"]
  /\ opens' = [l \in Links |-> IF opens[l] = s THEN NoSession ELSE opens[l]]
  /\ UNCHANGED issued

Issue(s, l) ==
  /\ phase[s] \in {"connecting", "connected"}
  /\ l \notin issued /\ LinksOf(s) = {}
  /\ issued' = issued \cup {l}
  /\ opens' = [opens EXCEPT ![l] = s]
  /\ UNCHANGED phase

Revoke(l) ==
  /\ opens[l] # NoSession
  /\ opens' = [opens EXCEPT ![l] = NoSession]
  /\ UNCHANGED <<phase, issued>>

Next ==
  \/ \E s \in Sessions : Begin(s) \/ Connect(s) \/ End(s)
  \/ \E s \in Sessions, l \in Links : Issue(s, l)
  \/ \E l \in Links : Revoke(l)

Spec == Init /\ [][Next]_<<phase, issued, opens>>
=============================================================================
