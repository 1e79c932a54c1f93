-------------------------- MODULE MCDeproxyServer ---------------------------
(* Model-checking instance of DeproxyServer. *)
EXTENDS DeproxyServer

=============================================================================
