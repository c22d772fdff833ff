--------------------------- MODULE MCChatTranscript ---------------------------
(* Small instances of ChatTranscript for TLC.  Liveness is checked: no symmetry. *)
EXTENDS ChatTranscript
===============================================================================
