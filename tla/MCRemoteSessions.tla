--------------------------- MODULE MCRemoteSessions ---------------------------
(* Model values and symmetry for checking RemoteSessions with TLC. *)
EXTENDS RemoteSessions, TLC

(* Connections, and dial-backs of one session, are interchangeable. *)
Symmetry == Permutations(Conns) \cup Permutations(Dials)

===============================================================================
