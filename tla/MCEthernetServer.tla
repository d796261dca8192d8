-------------------------- MODULE MCEthernetServer --------------------------
(* Small instances of EthernetServer. *)
EXTENDS EthernetServer, TLC

Symmetry == Permutations(Pcbs) \cup Permutations(Handles)
=============================================================================
