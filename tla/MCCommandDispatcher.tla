------------------------ MODULE MCCommandDispatcher -------------------------
(* CommandDispatcher on small instances. *)
EXTENDS CommandDispatcher
=============================================================================
