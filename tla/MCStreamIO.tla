----------------------------- MODULE MCStreamIO -----------------------------
(* Small instances of StreamIO for TLC; the .cfg files give all constants. *)
EXTENDS StreamIO
=============================================================================
