----------------------------- MODULE MCM4afMux -----------------------------
(***************************************************************************)
(* M4afMux on up to five samples of one or thirteen cells, two to a chunk, *)
(* of which the last may be empty: the fifth is in a chunk of its own, and *)
(* if it is empty the offset of the second may be cut.                     *)
(***************************************************************************)
EXTENDS M4afMux
=============================================================================
