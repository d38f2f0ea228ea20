--------------------------- MODULE MCCertManager ---------------------------
(***************************************************************************)
(* CertManager for TLC: configurations that put names in cert_domains, in  *)
(* a script's charge, or in both.                                          *)
(***************************************************************************)
EXTENDS CertManager, TLC

\* "list": every name in cert_domains.  "open": every name is a script's.
\* "both": every name in cert_domains of one rule, but routed to another rule,
\* which has a script.  "none": no automatic certificates.
MCAutoDomains == [c \in Configs |-> IF c \in {"list", "both"} THEN Names ELSE {}]
MCScriptNames == [c \in Configs |-> IF c \in {"open", "both"} THEN Names ELSE {}]

Symmetry == Permutations(Goroutines) \cup Permutations(Names)
=============================================================================
