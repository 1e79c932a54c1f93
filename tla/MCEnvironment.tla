---------------------------- MODULE MCEnvironment ----------------------------
(***************************************************************************)
(* The parts of the stand around the deproxy: a service, an external       *)
(* client and the settings of the nodes.  They have no variable in common, *)
(* so a behaviour of one of them with the others at rest is all there is   *)
(* to see: `part` is the one that moves.                                   *)
(***************************************************************************)
EXTENDS Services, ExternalClient, NodeSettings

VARIABLE part

TwoNodes == <<"tempesta", "client">>

allVars == <<part, vars, clientVars, settingsVars>>

InitAll ==
  /\ part \in {"settings", "service", "client"}
  /\ Init /\ ClientInit /\ SettingsInit
  /\ (part # "settings") => (fixed = {} /\ ~keep /\ node = Initial)
  /\ (part # "service") => (kind = "nginx" /\ ~stand.debug /\ stand.checked)

NextAll ==
  \/ part = "settings" /\ SettingsNext /\ UNCHANGED <<part, vars, clientVars>>
  \/ part = "service" /\ Next /\ UNCHANGED <<part, clientVars, settingsVars>>
  \/ part = "client" /\ ClientNext /\ UNCHANGED <<part, vars, settingsVars>>

SpecAll == InitAll /\ [][NextAll]_allVars

=============================================================================
