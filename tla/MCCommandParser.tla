-------------------------- MODULE MCCommandParser --------------------------
(* Instances of CommandParser for TLC. *)
EXTENDS CommandParser
=============================================================================
