-------------------------------- MODULE MCScreen --------------------------------
(* One session, written to and drawn in a window that is reloaded. *)
EXTENDS Screen
================================================================================
