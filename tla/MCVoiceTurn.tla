----------------------------- MODULE MCVoiceTurn -----------------------------
(* Small instances of VoiceTurn for TLC. *)
EXTENDS VoiceTurnInv

CONSTANTS pi, mac

=============================================================================
