---------------------------- MODULE MCEncodeLoop ----------------------------
(***************************************************************************)
(* EncodeLoop with blocks of three frames, an encoder delay that is *)
(* no multiple of a block, and every source length from none to a few      *)
(* blocks; the widest value of padding needs far less than Wrap.           *)
(***************************************************************************)
EXTENDS EncodeLoop
=============================================================================
