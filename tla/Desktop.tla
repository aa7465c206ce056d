------------------------------- MODULE Desktop -------------------------------
(***************************************************************************)
(* What the desktop program keeps beside its sessions, each part on its    *)
(* own: the preferences and their copies, the address a share listens on,  *)
(* the sound devices, and the main window with its history.  They meet in  *)
(* values only: what Settings saves is chosen in AdapterSelection and      *)
(* selector in AudioEndpoints.                                             *)
(***************************************************************************)
EXTENDS Preferences, AdapterSelection, AudioEndpoints, AppShell

VARIABLE part

deskVars == <<part, prefVars, adapterVars, deviceVars, shellVars>>

\* What a part that does not run chooses at its start is fixed.
DeskInit ==
  /\ part \in {"preferences", "address", "sound", "shell"}
  /\ PrefInit /\ ShellInit
  /\ AdapterInit /\ (part # "address" => nics = AnyMachine /\ chosen = "auto" /\ legacy)
  /\ DeviceInit /\ (part # "sound" => devices = <<>>)

DeskNext ==
  \/ part = "preferences" /\ PrefNext /\ UNCHANGED <<part, adapterVars, deviceVars, shellVars>>
  \/ part = "address" /\ AdapterNext /\ UNCHANGED <<part, prefVars, deviceVars, shellVars>>
  \/ part = "sound" /\ DeviceNext /\ UNCHANGED <<part, prefVars, adapterVars, shellVars>>
  \/ part = "shell" /\ ShellNext /\ UNCHANGED <<part, prefVars, adapterVars, deviceVars>>

-----------------------------------------------------------------------------
\* A share takes its address and its sound device from lists made earlier, and a viewer its
\* output: what is used is right all the same, by the adapters and devices of that moment.
EndpointsRight == [][AddressRight /\ RecordsLoopback']_<<adapterVars, deviceVars>>
=============================================================================
