------------------------------ MODULE MCNodes ------------------------------
(* Four nodes: every way to link, copy, change and free them.               *)
EXTENDS Nodes, TLC

CONSTANTS text, other, blob

MCWords == {text, other, Unset}
MCBlobs == {blob, <<>>}
Same == Permutations(Memory) \cup Permutations({text, other})
=============================================================================
