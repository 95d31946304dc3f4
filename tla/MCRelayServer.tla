---------------------------- MODULE MCRelayServer ----------------------------
(***************************************************************************)
(* The relay server for the runs that check safety only.  Places for       *)
(* connections are interchangeable: no definition of RelayServer names     *)
(* one or orders them, so their permutations are a sound symmetry.         *)
(***************************************************************************)
EXTENDS RelayServer, TLC

ConnSymmetry == Permutations(Conns)
=============================================================================
