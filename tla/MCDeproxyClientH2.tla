------------------------- MODULE MCDeproxyClientH2 -------------------------
(* Model-checking instance of DeproxyClientH2. *)
EXTENDS DeproxyClientH2

=============================================================================
