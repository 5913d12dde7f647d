------------------------------ MODULE MCSteTop ------------------------------
(* Two writers; addresses are interchangeable, see the README for the bounds. *)
EXTENDS SteTop, TLC

Symmetry == Permutations(Writer) \cup Permutations(Record) \cup Permutations(Node)
=============================================================================
