---------------------------- MODULE AudioEndpoints ----------------------------
(***************************************************************************)
(* Which sound device a share or Experiment D records and a viewer plays   *)
(* on (src/src/snowlink/platform_win/audio_endpoints.py).  A device is     *)
(* named by its place in PortAudio's table, which every PyAudio() makes    *)
(* anew while devices come and go: Settings lists the places in one, a     *)
(* share records from another, and a viewer finds its output in one and    *)
(* opens it in the next.                                                   *)
(***************************************************************************)
EXTENDS Naturals, Sequences

CONSTANT MaxDevices   \* in the table, for TLC

ASSUME DeviceAssumption == MaxDevices \in Nat

VARIABLES
  devices,    \* the table a new PyAudio() would make
  usual,      \* the place of Windows' default output in it, or 0
  selector,   \* the place saved in Settings, or 0 for default
  recording,  \* the device that is recorded
  output,     \* the place of the output a viewer has found, or 0
  sounding    \* the device it has opened there

deviceVars == <<devices, usual, selector, recording, output, sounding>>

Kinds == {"loopback", "microphone", "speaker", "duplex", "unavailable"}
Device == [kind : Kinds, wasapi : BOOLEAN]
NoDevice == [kind |-> "none", wasapi |-> FALSE]

DeviceTypeOK ==
  /\ devices \in Seq(Device) /\ usual \in Nat /\ selector \in Nat
  /\ recording \in Device \cup {NoDevice}
  /\ output \in Nat /\ sounding \in Device \cup {NoDevice}

\* can_capture and can_playback of enumerate_audio_endpoints().
Loopbacks == {i \in DOMAIN devices : devices[i].kind = "loopback"}
Outputs == {i \in DOMAIN devices : devices[i].kind \in {"speaker", "duplex"}}

\* A device goes, or comes before the others: the places behind it shift.
DevicesChange ==
  /\ \/ devices # <<>> /\ devices' = Tail(devices)
     \/ \E d \in Device : Len(devices) < MaxDevices /\ devices' = <<d>> \o devices
  /\ usual' \in 0..Len(devices')
  /\ UNCHANGED <<selector, recording, output, sounding>>

\* Settings saves the place of a loopback it lists.
Select ==
  /\ selector' \in Loopbacks \cup {0}
  /\ UNCHANGED <<devices, usual, recording, output, sounding>>

\* resolve_loopback_device() and LoopbackCapture.open(), with one PyAudio: the loopback
\* PyAudioWPatch calls the default, or the place, if there is a loopback.
Recorded == IF selector = 0 THEN Loopbacks ELSE {selector} \cap Loopbacks
StartRecording ==
  /\ recording = NoDevice /\ \E i \in Recorded : recording' = devices[i]
  /\ UNCHANGED <<devices, usual, selector, output, sounding>>
RecordEnds ==
  /\ recording # NoDevice /\ recording' = NoDevice
  /\ UNCHANGED <<devices, usual, selector, output, sounding>>

\* resolve_playback_device("default"): the default output, or the first of WASAPI's.
FoundOutputs ==
  IF usual \in Outputs THEN {usual}
  ELSE {i \in Outputs : /\ devices[i].wasapi
                        /\ \A j \in 1..(i - 1) : j \in Outputs => ~devices[j].wasapi}
FindOutput ==
  /\ output = 0 /\ sounding = NoDevice /\ output' \in FoundOutputs
  /\ UNCHANGED <<devices, usual, selector, recording, sounding>>
\* AudioPlayer.open(), on the playback worker's thread with a PyAudio of its own, by the
\* place found.  PortAudio opens nothing that has no output.
OpenOutput ==
  /\ output # 0 /\ output' = 0
  /\ sounding' = (IF output \in Outputs THEN devices[output] ELSE NoDevice)
  /\ UNCHANGED <<devices, usual, selector, recording>>
OutputCloses ==
  /\ sounding # NoDevice /\ sounding' = NoDevice
  /\ UNCHANGED <<devices, usual, selector, recording, output>>

DeviceInit ==
  /\ devices \in UNION {[1..n -> Device] : n \in 0..1} /\ usual = 0 /\ selector = 0
  /\ recording = NoDevice /\ output = 0 /\ sounding = NoDevice
DeviceNext ==
  \/ DevicesChange \/ Select \/ StartRecording \/ RecordEnds
  \/ FindOutput \/ OpenOutput \/ OutputCloses
DeviceSpec == DeviceInit /\ [][DeviceNext]_deviceVars

-----------------------------------------------------------------------------
\* Never a microphone: what is recorded is a loopback, though the place saved may be that
\* of another device by now, and what is played on is an output.
RecordsLoopback ==
  /\ recording # NoDevice => recording.kind = "loopback"
  /\ sounding # NoDevice => sounding.kind \in {"speaker", "duplex"}
=============================================================================
