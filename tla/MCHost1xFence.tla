----------------------------- MODULE MCHost1xFence -----------------------------
(***************************************************************************)
(* Host1xFence on a counter of eight values, so that it wraps, with        *)
(* thresholds from the value read last to two beyond it: the second fence  *)
(* goes before, behind or beside the first in the list.                    *)
(***************************************************************************)
EXTENDS Host1xFence

\* Fence objects are interchangeable.
FenceSymmetry == Permutations(Fences)
================================================================================
