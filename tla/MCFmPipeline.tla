---------------------------- MODULE MCFmPipeline ----------------------------
(***************************************************************************)
(* Instances of FmPipeline for TLC.  A model's run ends after MaxBlocks    *)
(* blocks.  Blocks of six samples are longer than a window and no multiple *)
(* of it, so the ring and the window go round within a block.              *)
(***************************************************************************)
EXTENDS FmPipeline

CONSTANT MaxBlocks


MCSpec == Init /\ [][Next /\ block' <= MaxBlocks]_vars
=============================================================================
