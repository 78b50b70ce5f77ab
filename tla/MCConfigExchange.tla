-------------------------- MODULE MCConfigExchange --------------------------
(* Instances of ConfigExchange for TLC. *)
EXTENDS ConfigExchange
=============================================================================
