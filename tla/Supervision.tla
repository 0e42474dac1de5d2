----------------------------- MODULE Supervision -----------------------------
(***************************************************************************)
(* What keeps the agent going: the capture loop on the main thread with    *)
(* its thermal guard, which rests and wakes the camera, and the camera's   *)
(* exposure regimes (src/agent/main.py, capture.py, thermal.py,            *)
(* camera.py); the watchdog thread that ends a hung process for systemd to *)
(* restart; and the network healer on the uploader thread (net_heal.py),   *)
(* which bounces the radio and, at last, reboots.                          *)
(*                                                                         *)
(* A call into the camera stack returns, raises, or never returns.  What   *)
(* returns, and each heartbeat, takes up to CallTime.  The watchdog and    *)
(* the healer each count in a unit of their own.  Of the uploader there is *)
(* only whether it is between frames, in process() with one, or in the     *)
(* middle of a kick.                                                       *)
(***************************************************************************)
EXTENDS Integers

CONSTANTS ShutdownAfter,           \* TEMP_SHUTDOWN_CONSECUTIVE
          KickAfter, RebootAfter,  \* NetworkHealer._kick_after_s, _reboot_after_s
          StallMin, StallFactor,   \* CAPTURE_STALL_MIN_S, CAPTURE_STALL_FACTOR
          LongestInterval,         \* the largest _interval_s() can be
          CallTime                 \* the longest a call takes that returns at all

\* Between two ticks the loop makes a few calls: a reading, a stop or a restart of
\* the camera, a heartbeat or a capture.  That the stall limit leaves room for them
\* is an assumption (a heartbeat's SIGN_TIMEOUT_S is a sixth of CAPTURE_STALL_MIN_S).
ASSUME SupervisionAssumption ==
  /\ ShutdownAfter \in Nat \ {0}
  /\ KickAfter \in Nat \ {0} /\ RebootAfter \in Nat \ {0}
  /\ StallMin \in Nat /\ StallFactor \in Nat /\ LongestInterval \in Nat \ {0}
  /\ CallTime \in Nat /\ 3 * CallTime <= StallMin

\* A reading: none, below temp_resume_c, between it and temp_pause_c, and
\* from temp_pause_c and temp_shutdown_c on.
Temps == {"unreadable", "cool", "warm", "hot", "critical"}
Regimes == {"ae", "manual"}

VARIABLES
  main,            \* where the main thread is
  cameraError,     \* Agent.camera_error: the camera-less mode
  running, stop,   \* CaptureLoop._running, Agent._stop_event
  age,             \* time since CaptureLoop.last_tick, or since the start; 0 once no
                   \*   watchdog looks at it: after a stop, in the camera-less mode
  state,           \* Agent._thermal_status.state, "warn" taken for "ok"
  paused, streak,  \* ThermalMonitor._paused, ._shutdown_streak
  rested,          \* Agent._camera_rested
  cam,             \* the camera: "off", "on", or "stuck" open by a failed stop
  timeNight,       \* Picamera2Camera._time_night, as the regime it stands for
  sensor,          \* the exposure regime of the frames it delivers
  faulted,         \* the last switch of regime raised, or its drain missed
  up,              \* the uploader: "between" frames, "busy" with one, "kicking"
  net,             \* "up"; "down": a frame that fails is spilled; "stuck": it is retried,
                   \*   with the spill cache off, or for the HTTP errors it gets
  radio,           \* is the radio on
  silence,         \* since the healer's _last_success
  sinceKick,       \* since its _last_kick
  sinceReboot      \* since its last reboot command

flagVars == <<cameraError, running, stop>>
loopVars == <<flagVars, age>>
heatVars == <<state, paused, streak, rested>>
camVars == <<cam, timeNight, sensor, faulted>>
netVars == <<net, radio, silence>>
healVars == <<up, sinceKick, sinceReboot>>

vars == <<main, loopVars, heatVars, camVars, netVars, healVars>>

Loop == {"top", "gate", "rest", "wake", "capture", "sleep"}
Alive == main \notin {"boot", "ended"}
\* The uploader is started once the camera is, and ends with the main thread.
UploaderRuns == main \in Loop \cup {"enter", "spinning", "bare", "hung"}

Least(a, b) == IF a < b THEN a ELSE b
Greatest(a, b) == IF a < b THEN b ELSE a

\* stall_limit_s, at an interval.
StallLimit(interval) == Greatest(StallMin, StallFactor * interval)
AgeCap == StallLimit(LongestInterval) + 1

TypeOK ==
  /\ main \in Loop \cup {"boot", "starting", "startHung", "enter", "spinning", "bare", "hung", "ended"}
  /\ cameraError \in BOOLEAN /\ running \in BOOLEAN /\ stop \in BOOLEAN
  /\ age \in 0 .. AgeCap
  /\ paused \in BOOLEAN /\ rested \in BOOLEAN /\ faulted \in BOOLEAN /\ radio \in BOOLEAN
  /\ state \in {"ok", "paused"} /\ streak \in 0 .. ShutdownAfter
  /\ cam \in {"off", "on", "stuck"} /\ timeNight \in Regimes /\ sensor \in Regimes
  /\ net \in {"up", "down", "stuck"}
  /\ up \in {"between", "busy", "kicking"}
  /\ silence \in 0 .. RebootAfter /\ sinceReboot \in 0 .. RebootAfter
  /\ sinceKick \in 0 .. KickAfter

----------------------------------------------------------------------------
(* Start and stop                                                          *)

\* The process is gone, with whatever it had in memory; the camera is free.
Gone(where) ==
  /\ main' = where /\ cameraError' = FALSE
  /\ running' = FALSE /\ stop' = FALSE /\ age' = 0
  /\ state' = "ok" /\ paused' = FALSE /\ streak' = 0 /\ rested' = FALSE
  /\ cam' = "off" /\ timeNight' = "ae" /\ sensor' = "ae" /\ faulted' = FALSE
  /\ up' = "between" /\ silence' = 0 /\ sinceKick' = KickAfter

\* systemd (Restart=always), or the boot of the device.
Boot ==
  /\ ~Alive /\ main' = "starting"
  /\ UNCHANGED <<loopVars, heatVars, camVars, netVars, healVars>>

\* Killed: by systemd when a stop takes too long, or by whatever else.
Crash == Alive /\ Gone("boot") /\ UNCHANGED <<net, radio, sinceReboot>>

\* Calls that return take their time, counted as far as the watchdog compares it.
Takes(calls) ==
  \E time \in 0 .. calls * CallTime :
    age' = IF stop THEN 0 ELSE Least(age + time, AgeCap)

Answers == net = "up" /\ radio

\* An answer to a heartbeat, if the signer can be reached, ends the silence.
Heard(heard) ==
  /\ heard => Answers
  /\ silence' = IF heard THEN 0 ELSE silence
  /\ UNCHANGED <<net, radio>>

\* Mutant of RequestsStop: the event is set, the loop not told.
RequestsStopEvent == stop' = TRUE /\ running' = running

\* request_stop.
RequestsStop == stop' = TRUE /\ running' = FALSE

\* SIGTERM, whose handler runs between two steps of the main thread, or an
\* operator's shutdown heard by the uploader thread; its poweroff may fail.
RequestStop ==
  \E remote \in BOOLEAN :
    /\ Alive /\ ~stop
    /\ IF remote THEN UploaderRuns /\ Answers
                 ELSE main \notin {"hung", "startHung"}
    /\ RequestsStop /\ age' = 0
    /\ UNCHANGED <<main, cameraError, heatVars, camVars, netVars, healVars>>

\* camera.start() at the start, the watchdog already armed.
StartCamera ==
  /\ main = "starting"
  /\ \/ main' = "enter" /\ cam' = "on" /\ UNCHANGED cameraError /\ Takes(1)
     \/ main' = "bare" /\ cameraError' = TRUE /\ age' = 0 /\ UNCHANGED cam
     \/ main' = "startHung" /\ UNCHANGED <<cam, cameraError, age>>
  /\ UNCHANGED <<running, stop, heatVars, timeNight, sensor, faulted, netVars, healVars>>

\* CaptureLoop.run() sets its flag, whatever was requested before: after a stop
\* the loop spins, as its sleep is a wait for the event that is set.
Enter ==
  /\ main = "enter" /\ main' = IF stop THEN "spinning" ELSE "top"
  /\ running' = TRUE
  /\ UNCHANGED <<cameraError, stop, age, heatVars, camVars, netVars, healVars>>

\* The spinning loop does what it always does; only another request ends it.
SpinEnds ==
  /\ main = "spinning"
  /\ Gone("ended") /\ UNCHANGED <<net, radio, sinceReboot>>

\* _run_cameraless: a heartbeat, and a probe that fails or hangs.
Probe ==
  \E heard \in BOOLEAN :
    /\ main = "bare" /\ ~stop
    /\ Heard(heard)
    /\ main' \in {"bare", "hung"}
    /\ UNCHANGED <<loopVars, heatVars, camVars, healVars>>

\* The probe finds a camera: the process exits, to start into capture mode.
CameraFound ==
  /\ main = "bare" /\ ~stop
  /\ Gone("boot") /\ UNCHANGED <<net, radio, sinceReboot>>

\* The end of run(): camera.stop(), which may hang, then the drain; whether a
\* call raises or not the process ends.
Finish ==
  /\ IF main = "bare" THEN stop ELSE main = "top" /\ ~running
  /\ Gone("ended") /\ UNCHANGED <<net, radio, sinceReboot>>

FinishHangs ==
  /\ main = "top" /\ ~running /\ cam # "off"
  /\ main' = "hung"
  /\ UNCHANGED <<loopVars, heatVars, camVars, netVars, healVars>>

Hangs == main \in {"hung", "startHung"}

\* A call that never returns: time passes, as long as somebody looks at it.
Ages ==
  /\ Hangs /\ ~stop /\ ~cameraError /\ age < AgeCap
  /\ age' = age + 1
  /\ UNCHANGED <<main, flagVars, heatVars, camVars, netVars, healVars>>

\* capture_stalled, at what _interval_s() is now.
Stalled == ~cameraError /\ \E interval \in 1 .. LongestInterval : age > StallLimit(interval)

\* _watchdog, which the stop event ends.
WatchdogDue == Alive /\ ~stop /\ Stalled
Watchdog == WatchdogDue /\ Crash

----------------------------------------------------------------------------
(* The thermal gate                                                        *)

\* Mutant of Ticked: only a loop whose camera is up ticks.
TickedAwake == age' = IF rested THEN age ELSE 0

\* last_tick is set.
Ticked == age' = 0

Top ==
  /\ main = "top" /\ running /\ main' = "gate"
  /\ Ticked
  /\ UNCHANGED <<flagVars, heatVars, camVars, netVars, healVars>>

\* ThermalMonitor.check: an unreadable sensor is "ok", and keeps _paused.
Reads(temp) ==
  /\ streak' = IF temp = "critical" THEN streak + 1 ELSE 0
  /\ paused' = CASE temp = "unreadable" -> paused
                 [] temp = "cool" -> FALSE
                 [] temp = "warm" -> paused
                 [] OTHER -> TRUE
  /\ state' = IF temp # "unreadable" /\ paused' THEN "paused" ELSE "ok"

\* Mutant of ShutdownDue: one reading too many.
ShutdownDueLate == streak' > ShutdownAfter

\* should_shutdown, where temp_shutdown_enabled: where it is not, "critical"
\* is no more than "hot".
ShutdownDue == streak' >= ShutdownAfter

\* _thermal_gate up to what it does to the camera.
Gate ==
  \E temp \in Temps :
    /\ main = "gate"
    /\ Reads(temp) /\ ~ShutdownDue
    /\ main' = IF state' = "paused" THEN "rest" ELSE "wake"
    /\ UNCHANGED <<loopVars, rested, camVars, netVars, healVars>>

\* At a critical streak it reports, requests the stop and powers off, which
\* may fail.
GateShutsDown ==
  /\ main = "gate"
  /\ \/ /\ Reads("critical") /\ ShutdownDue
        /\ \E heard \in BOOLEAN : Heard(heard)
        /\ RequestsStop /\ age' = 0 /\ main' = "sleep"
        /\ UNCHANGED <<cameraError, rested, camVars, healVars>>
     \/ streak + 1 >= ShutdownAfter /\ Crash

\* Mutant of Closed: the regime flag survives the camera it described.
ClosedOnly == cam' = "off" /\ sensor' = "ae" /\ faulted' = FALSE /\ UNCHANGED timeNight

\* Picamera2Camera.stop, when it returns.  A camera opened again delivers AE.
Closed == cam' = "off" /\ sensor' = "ae" /\ faulted' = FALSE /\ timeNight' = "ae"

\* _rest_camera and a heartbeat.  A stop that raises leaves the handle open,
\* and the camera is taken for rested all the same.
Rest ==
  /\ main = "rest"
  /\ \/ /\ ~rested /\ main' = "hung"
        /\ UNCHANGED <<age, rested, camVars, netVars>>
     \/ /\ main' = "sleep" /\ rested' = TRUE /\ Takes(2)
        /\ \E heard \in BOOLEAN : Heard(heard)
        /\ \/ rested /\ UNCHANGED camVars
           \/ ~rested /\ cam' = "stuck" /\ UNCHANGED <<timeNight, sensor, faulted>>
           \/ ~rested /\ Closed
  /\ UNCHANGED <<flagVars, state, paused, streak, healVars>>

\* The window check: capture, or a heartbeat and sleep.
WindowDecides ==
  \/ main' = "capture" /\ UNCHANGED netVars
  \/ main' = "sleep" /\ \E heard \in BOOLEAN : Heard(heard)

Awake ==
  /\ main = "wake" /\ ~rested
  /\ WindowDecides /\ Takes(1)
  /\ UNCHANGED <<flagVars, heatVars, camVars, healVars>>

\* Mutant of StillRested: the flag goes down before the camera is up.
StillRestedNot == rested' = FALSE

\* The flag after a start that raised.
StillRested == rested' = TRUE

\* A restart that raises, as it always does while the handle of a failed stop
\* is open; retried at the next gate.
WakeFails ==
  /\ main = "wake" /\ rested
  /\ main' = "sleep" /\ StillRested /\ Takes(1)
  /\ UNCHANGED <<flagVars, state, paused, streak, camVars, netVars, healVars>>

\* Mutant of Woken: the camera streams but is still taken for rested.
WokenRested == cam' = "on" /\ rested' = rested

Woken == cam' = "on" /\ rested' = FALSE

Wake ==
  /\ main = "wake" /\ rested /\ cam = "off"
  /\ Woken
  /\ WindowDecides /\ Takes(2)
  /\ UNCHANGED <<flagVars, state, paused, streak, timeNight, sensor, faulted, healVars>>

WakeHangs ==
  /\ main = "wake" /\ rested /\ main' = "hung"
  /\ UNCHANGED <<loopVars, heatVars, camVars, netVars, healVars>>

----------------------------------------------------------------------------
(* The capture                                                             *)

\* _apply_time_night: the flag first, then the controls and the drain of the
\* frames still queued.  The controls may raise; the drain is bounded.
Switched(want, failing) ==
  /\ timeNight' = want
  /\ CASE want = timeNight -> ~failing /\ UNCHANGED <<sensor, faulted>>
       [] want # timeNight /\ failing -> UNCHANGED sensor /\ faulted' = TRUE
       [] OTHER -> \/ sensor' = want /\ faulted' = FALSE
                   \/ UNCHANGED sensor /\ faulted' = TRUE

\* capture_once or a preview's capture, the solar decision being want: the
\* frame is of the regime the sensor is in when the switch is done.
Capture ==
  \E want \in Regimes :
    /\ main = "capture" /\ cam = "on"
    /\ Switched(want, FALSE) /\ Takes(1)
    /\ main' = "sleep"
    /\ UNCHANGED <<flagVars, heatVars, cam, netVars, healVars>>

\* The switch or the capture raises, or there is no camera to capture with.
CaptureFails ==
  \E want \in Regimes, failing \in BOOLEAN :
    /\ main = "capture"
    /\ IF cam = "on" THEN Switched(want, failing) ELSE UNCHANGED <<timeNight, sensor, faulted>>
    /\ Takes(1)
    /\ main' = "sleep"
    /\ UNCHANGED <<flagVars, heatVars, cam, netVars, healVars>>

CaptureHangs ==
  /\ main = "capture" /\ cam = "on" /\ main' = "hung"
  /\ UNCHANGED <<loopVars, heatVars, camVars, netVars, healVars>>

\* _wait_with_preview: the rest of the interval in slices of a second, each of
\* which ticks; with a viewer connected, a slice is a gate and a capture of its own.
Sleep ==
  /\ main = "sleep"
  /\ IF running THEN main' \in {"top", "gate"} /\ Ticked
                ELSE main' = "top" /\ UNCHANGED age
  /\ UNCHANGED <<flagVars, heatVars, camVars, netVars, healVars>>

----------------------------------------------------------------------------
(* The uploader thread and the healer                                      *)

\* Mutant of KickDue: one kick is all there is.
KickDueOnce == silence >= KickAfter /\ sinceKick = KickAfter /\ sinceReboot = RebootAfter

KickDue == silence >= KickAfter /\ sinceKick >= KickAfter
RebootDue == silence >= RebootAfter
HealerDue == UploaderRuns /\ up = "between" /\ (RebootDue \/ KickDue)

\* The uploader has not served the healer yet, and will within the unit: it is
\* busy for longer only with a frame it cannot deliver and may not spill.
HealerAwaited ==
  \/ HealerDue
  \/ UploaderRuns /\ (up = "kicking" \/ (up = "busy" /\ net # "stuck"))

\* Time is counted as far as the healer compares it.
Tick ==
  /\ ~HealerAwaited
  /\ silence' = Least(silence + 1, RebootAfter)
  /\ sinceKick' = Least(sinceKick + 1, KickAfter)
  /\ sinceReboot' = Least(sinceReboot + 1, RebootAfter)
  /\ UNCHANGED <<main, loopVars, heatVars, camVars, up, net, radio>>

NetChanges ==
  /\ net' \in {"up", "down", "stuck"} \ {net}
  /\ UNCHANGED <<main, loopVars, heatVars, camVars, healVars, radio, silence>>

\* Every turn of the uploader's loop serves the healer before it takes a frame.
TakeFrame ==
  /\ UploaderRuns /\ up = "between" /\ ~HealerDue
  /\ up' = "busy"
  /\ UNCHANGED <<main, loopVars, heatVars, camVars, netVars, sinceKick, sinceReboot>>

\* process() returns: the signer answered, or the frame was spilled; otherwise
\* it tries until there is an answer.
FrameDone ==
  /\ UploaderRuns /\ up = "busy" /\ up' = "between"
  /\ net # "stuck" /\ Heard(Answers)
  /\ UNCHANGED <<main, loopVars, heatVars, camVars, sinceKick, sinceReboot>>

\* Mutant of Kicked: the kick counts as a sign of life.
KickedHeard == sinceKick' = 0 /\ silence' = 0

Kicked == sinceKick' = 0 /\ silence' = silence

\* _kick, its first command: the radio goes off, if the command works.
Kick ==
  /\ UploaderRuns /\ up = "between" /\ ~RebootDue /\ KickDue
  /\ Kicked
  /\ up' = "kicking" /\ radio' \in {FALSE, radio}
  /\ UNCHANGED <<main, loopVars, heatVars, camVars, net, sinceReboot>>

\* Its second, two seconds on.
KickEnds(works) ==
  /\ UploaderRuns /\ up = "kicking" /\ up' = "between"
  /\ radio' = (works \/ radio)
  /\ UNCHANGED <<main, loopVars, heatVars, camVars, net, silence, sinceKick, sinceReboot>>

\* Mutant of Rearmed: a reboot that failed is due again at once.
RearmedNot == silence' = silence

Rearmed == silence' = 0

\* _reboot, its command failing.
RebootFails ==
  /\ UploaderRuns /\ up = "between" /\ RebootDue
  /\ Rearmed /\ sinceReboot' = 0
  /\ UNCHANGED <<main, loopVars, heatVars, camVars, up, net, radio, sinceKick>>

Reboot ==
  /\ UploaderRuns /\ up = "between" /\ RebootDue
  /\ Gone("boot") /\ sinceReboot' = 0
  /\ UNCHANGED <<net, radio>>

----------------------------------------------------------------------------

Init ==
  /\ main = "boot" /\ cameraError = FALSE
  /\ running = FALSE /\ stop = FALSE /\ age = 0
  /\ state = "ok" /\ paused = FALSE /\ streak = 0 /\ rested = FALSE
  /\ cam = "off" /\ timeNight = "ae" /\ sensor = "ae" /\ faulted = FALSE
  /\ up = "between"
  /\ net \in {"up", "down"} /\ radio = TRUE
  /\ silence = 0 /\ sinceKick = KickAfter /\ sinceReboot = RebootAfter

MainThread ==
  \/ StartCamera \/ Enter \/ Probe \/ CameraFound \/ Finish \/ FinishHangs \/ Top
  \/ Gate \/ GateShutsDown \/ Rest \/ Awake
  \/ WakeFails \/ Wake \/ WakeHangs \/ Capture \/ CaptureFails \/ CaptureHangs \/ Sleep

UploaderThread == FrameDone \/ Kick \/ (\E works \in BOOLEAN : KickEnds(works))
                  \/ RebootFails \/ Reboot

Next ==
  \/ MainThread \/ UploaderThread \/ TakeFrame
  \/ Boot \/ RequestStop \/ SpinEnds \/ Crash \/ Watchdog \/ Ages \/ Tick \/ NetChanges

Spec == Init /\ [][Next]_vars

\* The threads run, systemd restarts the process, and kills the one that does
\* not heed its stop; time passes.  A camera that is started again and again
\* starts at last, and a radio switched on again and again comes on.
FairSpec ==
  /\ Spec
  /\ WF_vars(MainThread) /\ WF_vars(UploaderThread) /\ WF_vars(Watchdog) /\ WF_vars(Ages)
  /\ WF_vars(Boot) /\ WF_vars(main = "startHung" /\ stop /\ Crash)
  /\ SF_vars(Tick) /\ SF_vars(Wake) /\ SF_vars(KickEnds(TRUE))

=============================================================================
