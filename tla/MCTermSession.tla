--------------------------- MODULE MCTermSession ---------------------------
(* TermSession on small sets of sessions, sockets and links *)
EXTENDS TermSession, TLC

\* Sockets and links are interchangeable, and so are sessions.
Symmetry == Permutations(Sessions) \cup Permutations(Sockets) \cup Permutations(Links)
=============================================================================
