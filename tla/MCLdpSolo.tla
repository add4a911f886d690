----------------------------- MODULE MCLdpSolo ------------------------------
(* LdpSolo on the instances of MCLdpServer. *)
EXTENDS MCLdpServer, LdpSolo, TLC

\* The parts of an upload differ in nothing but their names.
PartSymmetry == Permutations({p1, p2})
=============================================================================
