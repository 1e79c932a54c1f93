------------------------------ MODULE Stateful ------------------------------
(***************************************************************************)
(* The life-cycle states that every service of the framework shares        *)
(* (framework/services/stateful.py) and the guards of start() and stop().  *)
(* The modules that model a concrete service extend this one.              *)
(***************************************************************************)

STATE_BEGIN_START == "begin_start"
STATE_STARTED == "started"
STATE_STOPPED == "stopped"
STATE_ERROR == "error"

States == {STATE_BEGIN_START, STATE_STARTED, STATE_STOPPED, STATE_ERROR}

\* start() returns at once unless the service is stopped.
MayStart(state) == state = STATE_STOPPED

\* stop() returns at once unless the service is started or is being started.
\* In particular neither start() nor stop() does anything in STATE_ERROR.
MayStop(state) == state \in {STATE_STARTED, STATE_BEGIN_START}

=============================================================================
