--------------------------- MODULE MCKnowledgeBase ---------------------------
(***************************************************************************)
(* A base of three documents and a listing, for TLC.  The index stops at   *)
(* two documents, or at three bytes.                                       *)
(***************************************************************************)
EXTENDS KnowledgeBase

ThreeDocs == <<"a", "b", "c">>
DocSizes == [d \in {"a", "b", "c"} |-> IF d = "b" THEN 2 ELSE 1]

Reading(v, k, f) == [visits |-> v, keys |-> k, failures |-> f]
Sittings == {Reading(3, 0, 0), Reading(2, 0, 1), Reading(1, 2, 0)}
=============================================================================
