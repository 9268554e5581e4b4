-------------------------- MODULE MCStreamSession --------------------------
(* Instance of StreamSession for TLC. *)
EXTENDS StreamSession
=============================================================================
