------------------------- MODULE MCDeproxyClientH1 -------------------------
(* The HTTP/1 client on small instances; the bounds are in the .cfg files. *)
EXTENDS DeproxyClientH1
=============================================================================
