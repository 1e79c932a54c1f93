------------------------ MODULE MCServerConnection --------------------------
(***************************************************************************)
(* Sets of server options for TLC.                                         *)
(***************************************************************************)
EXTENDS ServerConnection

\* Pipelining and keep_alive in all combinations; a server that greets cuts its
\* responses in two.
BatchConfigs ==
    {[pipelined |-> p, keep_alive |-> k, hang_on_req_num |-> 0, drop |-> FALSE, greet |-> g,
      segments |-> IF g THEN 2 ELSE 1] : p \in {0, 2}, k \in 0..2, g \in BOOLEAN}

\* Requests that end the connection.
FatalConfigs ==
    [pipelined : {0, 2}, keep_alive : {0}, hang_on_req_num : {0, 2}, drop : BOOLEAN,
     greet : {FALSE}, segments : {1}]

AllConfigs == BatchConfigs \cup FatalConfigs

=============================================================================
