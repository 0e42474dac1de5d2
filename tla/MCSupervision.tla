---------------------------- MODULE MCSupervision ----------------------------
(***************************************************************************)
(* What the supervision of the agent promises, for TLC.  One unit of the   *)
(* healer's time stands for NETWORK_KICK_AFTER_S, one of the watchdog's    *)
(* for a third of CAPTURE_STALL_MIN_S.                                     *)
(***************************************************************************)
EXTENDS Supervision

\* While the thermal monitor says "paused" and the loop goes on, the camera
\* does not stream through the interval (main.py:180-184: skipping captures
\* alone left a core busy); a stop() that raised is all that can leave it open.
CoolCamera == main = "sleep" /\ running /\ state = "paused" => cam # "on"

\* The regime flag tells what the sensor delivers, across every rest and
\* restart of the camera, unless the switch itself failed: every frame is taken
\* right after the flag was made the one wanted, so this is the frame's regime
\* too (camera.py:306-309: no frame of the previous regime reaches the upload).
RegimeRight == cam = "on" /\ ~faulted => sensor = timeNight

\* A camera put to rest does not stay off when the heat is over, however often
\* its restart fails (main.py:243-255: retried next interval), unless the stop
\* that put it to rest had failed.
CameraWoken ==
  main \in Loop /\ cam = "off" ~> main \notin Loop \/ cam = "on" \/ state = "paused"

\* A loop that rests the camera, sleeps, waits for a heartbeat to time out or
\* finds nothing but errors is not taken for one that hangs (main.py:390-404),
\* however its ticks, the changing interval and the calls fall.
NoFalseAlarm == WatchdogDue => Hangs

\* And a call into the camera that never returns ends the process, for systemd
\* to start a new one: at start-up too (main.py:394-397), but not once a stop was
\* requested, nor in the camera-less mode.
HangEnds ==
  [](NoFalseAlarm /\ (Hangs /\ ~stop /\ ~cameraError => <>(~Alive \/ stop)))

\* A requested stop ends the process without anyone's kill, unless the camera
\* hangs: the loop's flag and the event go together (main.py:382-386).  Not one
\* requested before run() set its flag: then the loop spins.
StopEnds == stop ~> ~Alive \/ main \in {"hung", "startHung", "spinning"}

\* A reboot command comes a full window after the one before, whether that
\* worked or failed (net_heal.py:103-105: do not spin).
RebootsSpaced == [][Reboot \/ RebootFails => sinceReboot = RebootAfter]_vars

\* While the signer stays silent the healer reboots, again and again, for as
\* long as the process runs (net_heal.py:14-16: the last resort), whatever the
\* kicks do; unless one frame is retried for ever (the spill cache is off, or
\* its attempts keep getting HTTP errors).
SilenceHealed ==
  <>[](net # "up") => []<>(sinceReboot = 0 \/ ~Alive) \/ <>[](up = "busy")

\* A radio a kick left off, by a failed command or a process that died between
\* the two, is switched on again by a later kick, if need be of a later process;
\* unless frames that cannot be spilled keep the healer from its kicks.
RadioBack == []<>(radio \/ ~Alive) \/ []<>(up = "busy" /\ net = "stuck")
=============================================================================
