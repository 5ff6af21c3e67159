--------------------------- MODULE MCRdsBlockCode ---------------------------
(***************************************************************************)
(* Every error of one or two bits, and of three bits close together, in    *)
(* every kind of block.                                                    *)
(***************************************************************************)
EXTENDS RdsBlockCode

MCDatas == {{}, {0, 3, 4, 9, 15}}

MCErrors ==
    {{}} \cup {{j, k} : j, k \in Bits} \cup {{k, k + 1, k + 2} : k \in 0..23}

\* The bits that really are wrong come first, or others do.
MCWeakBits == {{1, 5, 8, 14, 20, 24}}
=============================================================================
