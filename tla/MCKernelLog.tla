----------------------------- MODULE MCKernelLog -----------------------------
(***************************************************************************)
(* The kernel log with the requests of two entries of the access log.      *)
(***************************************************************************)
EXTENDS KernelLog

MCSent == {[method |-> "GET", uri |-> <<"a">>, status |-> 200],
           [method |-> "POST", uri |-> <<"a", "b">>, status |-> 403]}

=============================================================================
