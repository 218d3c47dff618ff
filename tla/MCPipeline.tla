----------------------------- MODULE MCPipeline -----------------------------
(***************************************************************************)
(* Pipeline on sources of up to MaxFrames frames, which with blocks of     *)
(* five and a predictor that needs three covers every kind of final block: *)
(* none, too short (with and without a block before it), long enough, full;*)
(* the encoder's delays are no multiple of a block.                        *)
(***************************************************************************)
EXTENDS Pipeline
=============================================================================
