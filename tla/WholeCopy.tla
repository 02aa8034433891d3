----------------------------- MODULE WholeCopy ------------------------------
(***************************************************************************)
(* What a move promises of the copy of a cell (docs/SPEC.md "Moving cells  *)
(* between runtimes"): it serves nothing, or one image whole, as the       *)
(* original held it when a mover took it, and none ever replaces another.  *)
(***************************************************************************)
CONSTANTS Images, Blank

VARIABLES
    taken, \* the images that movers took of the original
    held   \* the image the copy holds

WholeInit == taken = {} /\ held = Blank

Take == \E image \in Images : taken' = taken \union {image} /\ UNCHANGED held
Lands == held = Blank /\ held' \in taken /\ UNCHANGED taken
Retired == held' = Blank /\ UNCHANGED taken

WholeSpec == WholeInit /\ [][Take \/ Lands \/ Retired]_<<taken, held>>
=============================================================================
