--------------------------- MODULE MCNpuAttention ---------------------------
(***************************************************************************)
(* Two layers of two kv heads over a context of five positions: extents of *)
(* two, four and six.  mcAlike has both layers of one head_dim, as every   *)
(* model but gemma-4 has; mcUnlike gives the second twice the first's.     *)
(***************************************************************************)
EXTENDS NpuAttention

mcUnits == {"f", "f2", "fv", "fv2"}
mcAlike == [l \in 0..(Layers - 1) |-> 1]
mcUnlike == [l \in 0..(Layers - 1) |-> l + 1]

(* Memory for every surface at any extent, and for a growth that fails at  *)
(* its second surface until there is more.                                 *)
mcMemories == {14, 26}
mcMemoryAmple == {26}
mcLens == {2, 5}
mcCopies == {TRUE, FALSE}
mcCopied == {TRUE}
==============================================================================
