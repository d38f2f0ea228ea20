------------------------------- MODULE MCRelay -------------------------------
(* Instances of Relay for TLC. *)
EXTENDS Relay

\* A byte from the client; the server only ends its stream.
OneUp == [d \in Dirs |-> IF d = "cToS" THEN 1 ELSE 0]
==============================================================================
