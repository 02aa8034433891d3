------------------------------- MODULE Totals -------------------------------
(***************************************************************************)
(* Sums of byte counts.  A sum is the number of (item, byte) pairs, so the *)
(* facts about it follow from those about finite sets.                     *)
(***************************************************************************)
EXTENDS Naturals, FiniteSets

\* Byte i of item x, for every item x and i from 1 to its count.
Units(f) == UNION {{x} \X (1..f[x]) : x \in DOMAIN f}

\* The sum of f[x] over the domain of f.
Total(f) == Cardinality(Units(f))
=============================================================================
