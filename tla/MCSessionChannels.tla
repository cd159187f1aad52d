------------------------- MODULE MCSessionChannels -------------------------
(* Two messages that may use one key; two session objects of one code. *)
EXTENDS SessionChannels, TLC

Symmetry == Permutations(Tasks) \cup Permutations(Objects)

=============================================================================
