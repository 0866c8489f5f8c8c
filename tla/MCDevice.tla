------------------------------- MODULE MCDevice -------------------------------
(***************************************************************************)
(* The two parts of a device's replicator LocalReplicator leaves out, the  *)
(* spool with its drainer and the settings.  They share no state: each is  *)
(* explored with the other at rest.                                        *)
(***************************************************************************)
EXTENDS SpoolDrainer, DeviceSettings

CONSTANTS app, plug, data, old, new

MCBaselines ==
  {Empty, [Empty EXCEPT ![app] = old, ![plug] = old], [Empty EXCEPT ![app] = new]}

MCResidues == {Empty, [Empty EXCEPT ![plug] = new, ![data] = new]}

VARIABLE part

Init ==
  /\ SpoolInit /\ SettingsInit
  /\ part \in {"spool", "settings"} /\ (part = "spool" => clone = Empty /\ origin = Nowhere)

SpoolPart == part = "spool" /\ SpoolNext /\ UNCHANGED <<settingsVars, part>>
SettingsPart == part = "settings" /\ SettingsNext /\ UNCHANGED <<spoolVars, part>>

deviceVars == <<spoolVars, settingsVars, part>>

\* launchd starts drains and cycles for ever, and a drain is not stopped for
\* good; nothing says that a cycle may ever publish.
Drained(d) == part = "spool" /\ DrainStep(d) /\ UNCHANGED <<settingsVars, part>>
Cycled == part = "settings" /\ CycleStep /\ UNCHANGED <<spoolVars, part>>

Spec ==
  /\ Init /\ [][SpoolPart \/ SettingsPart]_deviceVars
  /\ \A d \in Drains : WF_deviceVars(Drained(d))
  /\ WF_deviceVars(Cycled)

\* Every variable of both parts holds a value of its type.
DeviceTypeOK == SpoolTypeOK /\ SettingsTypeOK

=============================================================================
