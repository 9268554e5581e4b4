--------------------------- MODULE MCOrchestrator ---------------------------
(***************************************************************************)
(* Bounds for checking Orchestrator: the first two responses of a message  *)
(* have up to MaxFrames frames, so that one can ask for several searches.  *)
(* Those of later rounds, and behind the retry, which starts with          *)
(* everything fresh, have one.                                             *)
(***************************************************************************)
EXTENDS Orchestrator

ShortLater == run = 2 \/ round >= 2 => frames <= 1
=============================================================================
