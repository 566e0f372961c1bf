--------------------------- MODULE MCGuacSession ---------------------------
(* GuacSession with a few sockets *)
EXTENDS GuacSession, TLC

\* Sockets are interchangeable.
Symmetry == Permutations(Sockets)
=============================================================================
