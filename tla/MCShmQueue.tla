----------------------------- MODULE MCShmQueue -----------------------------
(***************************************************************************)
(* Instances of ShmQueue for TLC.  Sizes are scaled down: a slot of ten    *)
(* bytes, of which five are the header, so a payload of five bytes fits    *)
(* and one of nine is accepted by the size check and does not.             *)
(***************************************************************************)
EXTENDS ShmQueue, TLC

CONSTANTS a, b, over

\* a fills the buffer of a reader that copies, b a slot, over is larger than a slot
FittingSizes == (a :> 4) @@ (b :> 5) @@ (over :> 11)

\* b is accepted and longer than what a slot has left behind its header
FullSizes == (a :> 3) @@ (b :> 9)
=============================================================================
