-------------------------- MODULE MCDeproxyManager --------------------------
(* Model-checking instance of DeproxyManager. *)
EXTENDS DeproxyManager

=============================================================================
