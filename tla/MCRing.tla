------------------------------- MODULE MCRing -------------------------------
(* Instances of Ring for TLC; all constants are given in the configuration. *)
EXTENDS Ring
=============================================================================
