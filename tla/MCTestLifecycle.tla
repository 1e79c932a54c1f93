-------------------------- MODULE MCTestLifecycle ---------------------------
(***************************************************************************)
(* A test with one docker server, one deproxy client, Tempesta and the     *)
(* manager.                                                                *)
(***************************************************************************)
EXTENDS TestLifecycle

CONSTANTS docker, deproxy

MCServers == {docker}
MCClients == {deproxy}

\* Tempesta stops the module, removes its files and drops the log table; the
\* container is stopped and its archive removed.
MCStopProcs == [s \in Services |-> CASE s = tempesta -> 3 [] s = docker -> 2 [] OTHER -> 1]

=============================================================================
