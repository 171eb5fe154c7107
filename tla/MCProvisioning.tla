---------------------------- MODULE MCProvisioning ----------------------------
(* Instances of module Provisioning for TLC. *)
EXTENDS Provisioning, TLC

(* Slots and machines are interchangeable; used by the runs that check no  *)
(* liveness.                                                               *)
Symmetry == Permutations(Execs) \cup Permutations(Vms)

===============================================================================
