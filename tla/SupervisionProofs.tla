-------------------------- MODULE SupervisionProofs --------------------------
(***************************************************************************)
(* Proofs about Supervision, for every streak and every pair of healer     *)
(* delays.  The inductive invariant is SupervisionInv; the safety halves   *)
(* of the liveness properties rest on LoopInv besides.                     *)
(***************************************************************************)
EXTENDS MCSupervision, TLAPS

Mains == Loop \cup {"boot", "starting", "startHung", "enter", "spinning", "bare", "hung", "ended"}

Unstarted == {"boot", "starting", "ended"}

\* TypeOK without age, whose bounds are AgeInv's.
Types ==
  /\ main \in Mains
  /\ cameraError \in BOOLEAN /\ running \in BOOLEAN /\ stop \in BOOLEAN
  /\ paused \in BOOLEAN /\ rested \in BOOLEAN /\ faulted \in BOOLEAN /\ radio \in BOOLEAN
  /\ state \in {"ok", "paused"} /\ streak \in 0 .. ShutdownAfter
  /\ cam \in {"off", "on", "stuck"} /\ timeNight \in Regimes /\ sensor \in Regimes
  /\ net \in {"up", "down", "stuck"}
  /\ up \in {"between", "busy", "kicking"}
  /\ silence \in 0 .. RebootAfter /\ sinceReboot \in 0 .. RebootAfter
  /\ sinceKick \in 0 .. KickAfter

\* A full streak is the last: the loop has been told to stop.
StreakInv ==
  streak = ShutdownAfter => ~running /\ main \in {"sleep", "top", "hung"}

\* Whatever is taken for rested does not stream; a paused loop has rested it
\* before it sleeps, and only an unpaused one goes on to wake and capture.
RestInv ==
  /\ rested => cam # "on"
  /\ main \in Unstarted => ~rested
  /\ main \in {"wake", "capture"} => state = "ok"
  /\ main = "sleep" /\ running /\ state = "paused" => rested

\* A closed camera will come up in AE, and the flag says so.
RegimeInv ==
  /\ cam = "off" => sensor = "ae" /\ timeNight = "ae" /\ ~faulted
  /\ cam = "on" /\ ~faulted => sensor = timeNight
  /\ main \in Unstarted => cam = "off"

\* Silence begins anew with every reboot command.
SpacingInv == silence <= sinceReboot

SupervisionInv == Types /\ StreakInv /\ RestInv /\ RegimeInv /\ SpacingInv

LEMMA InitInv == Init => SupervisionInv
  <1> SUFFICES ASSUME Init PROVE SupervisionInv
    OBVIOUS
  <1>1. Types
    <2>1. main \in Mains /\ cameraError \in BOOLEAN /\ running \in BOOLEAN /\ stop \in BOOLEAN
      BY DEF Init, Mains, Loop
    <2>2. state \in {"ok", "paused"} /\ paused \in BOOLEAN /\ rested \in BOOLEAN
      BY DEF Init
    <2>3. streak \in 0 .. ShutdownAfter
      BY SupervisionAssumption DEF Init
    <2>4. cam \in {"off", "on", "stuck"} /\ timeNight \in Regimes /\ sensor \in Regimes /\ faulted \in BOOLEAN
      BY DEF Init, Regimes
    <2>5. net \in {"up", "down", "stuck"} /\ up \in {"between", "busy", "kicking"} /\ radio \in BOOLEAN
      BY DEF Init
    <2>6. silence \in 0 .. RebootAfter /\ sinceReboot \in 0 .. RebootAfter /\ sinceKick \in 0 .. KickAfter
      BY SupervisionAssumption DEF Init
    <2> QED BY <2>1, <2>2, <2>3, <2>4, <2>5, <2>6 DEF Types, Mains
  <1>2. StreakInv
    <2>1. streak = 0
      BY DEF Init
    <2>2. streak # ShutdownAfter
      BY <2>1, SupervisionAssumption
    <2> QED BY <2>2 DEF StreakInv
  <1>3. SpacingInv
    BY SupervisionAssumption DEF Init, SpacingInv
  <1>4. RestInv
    BY DEF Init, RestInv, Unstarted
  <1>5. RegimeInv
    BY DEF Init, RegimeInv, Unstarted
  <1> QED BY <1>1, <1>2, <1>3, <1>4, <1>5 DEF SupervisionInv

\* A process that is gone leaves a state like the first one.
LEMMA GoneInv ==
  ASSUME SupervisionInv, NEW where \in {"boot", "ended"}, Gone(where),
         UNCHANGED net, radio' \in BOOLEAN,
         sinceReboot' = sinceReboot \/ sinceReboot' = 0
  PROVE  SupervisionInv'
  <1>1. Types'
    <2>1. main' \in Mains /\ cameraError' \in BOOLEAN /\ running' \in BOOLEAN /\ stop' \in BOOLEAN
      BY DEF Gone, Mains, Loop
    <2>2. state' \in {"ok", "paused"} /\ paused' \in BOOLEAN /\ rested' \in BOOLEAN
      BY DEF Gone
    <2>3. streak' \in 0 .. ShutdownAfter
      BY SupervisionAssumption DEF Gone
    <2>4. cam' \in {"off", "on", "stuck"} /\ timeNight' \in Regimes /\ sensor' \in Regimes /\ faulted' \in BOOLEAN
      BY DEF Gone, Regimes
    <2>5. net' \in {"up", "down", "stuck"} /\ up' \in {"between", "busy", "kicking"} /\ radio' \in BOOLEAN
      BY DEF SupervisionInv, Types, Mains, Gone
    <2>6. silence' \in 0 .. RebootAfter /\ sinceReboot' \in 0 .. RebootAfter /\ sinceKick' \in 0 .. KickAfter
      BY SupervisionAssumption DEF SupervisionInv, Types, Mains, Gone
    <2> QED BY <2>1, <2>2, <2>3, <2>4, <2>5, <2>6 DEF Types, Mains
  <1>2. StreakInv'
    <2>1. streak' = 0
      BY DEF Gone
    <2>2. streak' # ShutdownAfter
      BY <2>1, SupervisionAssumption
    <2> QED BY <2>2 DEF StreakInv
  <1>3. SpacingInv'
    BY SupervisionAssumption DEF SupervisionInv, Types, Mains, Gone, SpacingInv
  <1>4. RestInv'
    BY DEF Gone, RestInv
  <1>5. RegimeInv'
    BY DEF Gone, RegimeInv
  <1> QED BY <1>1, <1>2, <1>3, <1>4, <1>5 DEF SupervisionInv

----------------------------------------------------------------------------
(* The main thread *)

LEMMA StartCameraStep == ASSUME SupervisionInv, StartCamera PROVE SupervisionInv'
  <1>1. Types'
    <2>1. main' \in Mains /\ cameraError' \in BOOLEAN /\ running' \in BOOLEAN /\ stop' \in BOOLEAN
      BY SupervisionAssumption DEF SupervisionInv, Types, Mains, Loop, Regimes, Mains,
          StartCamera, vars, loopVars, flagVars, heatVars, camVars, netVars, healVars
    <2>2. state' \in {"ok", "paused"} /\ paused' \in BOOLEAN /\ rested' \in BOOLEAN
      BY SupervisionAssumption DEF SupervisionInv, Types, Mains, Loop, Regimes, StartCamera,
          vars, loopVars, flagVars, heatVars, camVars, netVars, healVars
    <2>3. streak' \in 0 .. ShutdownAfter
      BY SupervisionAssumption DEF SupervisionInv, Types, Mains, Loop, Regimes, StartCamera,
          vars, loopVars, flagVars, heatVars, camVars, netVars, healVars
    <2>4. cam' \in {"off", "on", "stuck"} /\ timeNight' \in Regimes /\ sensor' \in Regimes /\ faulted' \in BOOLEAN
      BY SupervisionAssumption DEF SupervisionInv, Types, Mains, Loop, Regimes, StartCamera,
          vars, loopVars, flagVars, heatVars, camVars, netVars, healVars
    <2>5. net' \in {"up", "down", "stuck"} /\ up' \in {"between", "busy", "kicking"} /\ radio' \in BOOLEAN
      BY SupervisionAssumption DEF SupervisionInv, Types, Mains, Loop, Regimes, StartCamera,
          vars, loopVars, flagVars, heatVars, camVars, netVars, healVars
    <2>6. silence' \in 0 .. RebootAfter /\ sinceReboot' \in 0 .. RebootAfter /\ sinceKick' \in 0 .. KickAfter
      BY SupervisionAssumption DEF SupervisionInv, Types, Mains, Loop, Regimes, StartCamera,
          vars, loopVars, flagVars, heatVars, camVars, netVars, healVars
    <2> QED BY <2>1, <2>2, <2>3, <2>4, <2>5, <2>6 DEF Types, Mains
  <1>2. StreakInv' /\ RestInv' /\ RegimeInv' /\ SpacingInv'
    BY SupervisionAssumption DEF SupervisionInv, Types, Mains, StreakInv, RestInv, RegimeInv,
        SpacingInv, Unstarted, Regimes, StartCamera, vars, loopVars, flagVars, heatVars, camVars, netVars, healVars
  <1> QED BY <1>1, <1>2 DEF SupervisionInv

LEMMA EnterStep == ASSUME SupervisionInv, Enter PROVE SupervisionInv'
  <1>1. Types'
    BY SupervisionAssumption DEF SupervisionInv, Types, Mains, Loop, Regimes, Enter, vars, loopVars, flagVars, heatVars, camVars, netVars, healVars
  <1>2. StreakInv' /\ RestInv' /\ RegimeInv' /\ SpacingInv'
    BY SupervisionAssumption DEF SupervisionInv, Types, Mains, StreakInv, RestInv, RegimeInv,
        SpacingInv, Unstarted, Regimes, Enter, vars, loopVars, flagVars, heatVars, camVars, netVars, healVars
  <1> QED BY <1>1, <1>2 DEF SupervisionInv

LEMMA ProbeStep == ASSUME SupervisionInv, Probe PROVE SupervisionInv'
  <1>1. Types'
    BY SupervisionAssumption DEF SupervisionInv, Types, Mains, Loop, Regimes, Probe, Heard,
        vars, loopVars, flagVars, heatVars, camVars, netVars, healVars
  <1>2. StreakInv' /\ RestInv' /\ RegimeInv' /\ SpacingInv'
    BY SupervisionAssumption DEF SupervisionInv, Types, Mains, StreakInv, RestInv, RegimeInv,
        SpacingInv, Unstarted, Regimes, Probe, Heard, vars, loopVars, flagVars, heatVars, camVars, netVars, healVars
  <1> QED BY <1>1, <1>2 DEF SupervisionInv

LEMMA FinishHangsStep == ASSUME SupervisionInv, FinishHangs PROVE SupervisionInv'
  <1>1. Types'
    BY SupervisionAssumption DEF SupervisionInv, Types, Mains, Loop, Regimes, FinishHangs,
        vars, loopVars, flagVars, heatVars, camVars, netVars, healVars
  <1>2. StreakInv' /\ RestInv' /\ RegimeInv' /\ SpacingInv'
    BY SupervisionAssumption DEF SupervisionInv, Types, Mains, StreakInv, RestInv, RegimeInv,
        SpacingInv, Unstarted, Regimes, FinishHangs, vars, loopVars, flagVars, heatVars, camVars, netVars, healVars
  <1> QED BY <1>1, <1>2 DEF SupervisionInv

LEMMA TopStep == ASSUME SupervisionInv, Top PROVE SupervisionInv'
  <1>1. Types'
    BY SupervisionAssumption DEF SupervisionInv, Types, Mains, Loop, Regimes, Top, vars, loopVars, flagVars, heatVars, camVars, netVars, healVars
  <1>2. StreakInv' /\ RestInv' /\ RegimeInv' /\ SpacingInv'
    BY SupervisionAssumption DEF SupervisionInv, Types, Mains, StreakInv, RestInv, RegimeInv,
        SpacingInv, Unstarted, Regimes, Top, vars, loopVars, flagVars, heatVars, camVars, netVars, healVars
  <1> QED BY <1>1, <1>2 DEF SupervisionInv

LEMMA GateStep == ASSUME SupervisionInv, Gate PROVE SupervisionInv'
  <1>1. Types'
    <2>1. main' \in Mains /\ cameraError' \in BOOLEAN /\ running' \in BOOLEAN /\ stop' \in BOOLEAN
      BY SupervisionAssumption DEF SupervisionInv, Types, Mains, Loop, Regimes, Mains, Gate,
          Reads, ShutdownDue, vars, loopVars, flagVars, heatVars, camVars, netVars, healVars
    <2>2. state' \in {"ok", "paused"} /\ paused' \in BOOLEAN /\ rested' \in BOOLEAN
      BY SupervisionAssumption DEF SupervisionInv, Types, Mains, Loop, Regimes, Gate, Reads,
          ShutdownDue, vars, loopVars, flagVars, heatVars, camVars, netVars, healVars
    <2>3. streak' \in 0 .. ShutdownAfter
      BY SupervisionAssumption DEF SupervisionInv, Types, Mains, Loop, Regimes, Gate, Reads,
          ShutdownDue, vars, loopVars, flagVars, heatVars, camVars, netVars, healVars
    <2>4. cam' \in {"off", "on", "stuck"} /\ timeNight' \in Regimes /\ sensor' \in Regimes /\ faulted' \in BOOLEAN
      BY SupervisionAssumption DEF SupervisionInv, Types, Mains, Loop, Regimes, Gate, Reads,
          ShutdownDue, vars, loopVars, flagVars, heatVars, camVars, netVars, healVars
    <2>5. net' \in {"up", "down", "stuck"} /\ up' \in {"between", "busy", "kicking"} /\ radio' \in BOOLEAN
      BY SupervisionAssumption DEF SupervisionInv, Types, Mains, Loop, Regimes, Gate, Reads,
          ShutdownDue, vars, loopVars, flagVars, heatVars, camVars, netVars, healVars
    <2>6. silence' \in 0 .. RebootAfter /\ sinceReboot' \in 0 .. RebootAfter /\ sinceKick' \in 0 .. KickAfter
      BY SupervisionAssumption DEF SupervisionInv, Types, Mains, Loop, Regimes, Gate, Reads,
          ShutdownDue, vars, loopVars, flagVars, heatVars, camVars, netVars, healVars
    <2> QED BY <2>1, <2>2, <2>3, <2>4, <2>5, <2>6 DEF Types, Mains
  <1>2. StreakInv' /\ RestInv' /\ RegimeInv' /\ SpacingInv'
    BY SupervisionAssumption DEF SupervisionInv, Types, Mains, StreakInv, RestInv, RegimeInv,
        SpacingInv, Unstarted, Regimes, Gate, Reads, ShutdownDue, vars, loopVars, flagVars, heatVars, camVars, netVars, healVars
  <1> QED BY <1>1, <1>2 DEF SupervisionInv

LEMMA RestStep == ASSUME SupervisionInv, Rest PROVE SupervisionInv'
  <1>1. Types'
    <2>1. main' \in Mains /\ cameraError' \in BOOLEAN /\ running' \in BOOLEAN /\ stop' \in BOOLEAN
      BY SupervisionAssumption DEF SupervisionInv, Types, Mains, Loop, Regimes, Mains, Rest,
          Heard, Closed, vars, loopVars, flagVars, heatVars, camVars, netVars, healVars
    <2>2. state' \in {"ok", "paused"} /\ paused' \in BOOLEAN /\ rested' \in BOOLEAN
      BY SupervisionAssumption DEF SupervisionInv, Types, Mains, Loop, Regimes, Rest, Heard,
          Closed, vars, loopVars, flagVars, heatVars, camVars, netVars, healVars
    <2>3. streak' \in 0 .. ShutdownAfter
      BY SupervisionAssumption DEF SupervisionInv, Types, Mains, Loop, Regimes, Rest, Heard,
          Closed, vars, loopVars, flagVars, heatVars, camVars, netVars, healVars
    <2>4. cam' \in {"off", "on", "stuck"} /\ timeNight' \in Regimes /\ sensor' \in Regimes /\ faulted' \in BOOLEAN
      BY SupervisionAssumption DEF SupervisionInv, Types, Mains, Loop, Regimes, Rest, Heard,
          Closed, vars, loopVars, flagVars, heatVars, camVars, netVars, healVars
    <2>5. net' \in {"up", "down", "stuck"} /\ up' \in {"between", "busy", "kicking"} /\ radio' \in BOOLEAN
      BY SupervisionAssumption DEF SupervisionInv, Types, Mains, Loop, Regimes, Rest, Heard,
          Closed, vars, loopVars, flagVars, heatVars, camVars, netVars, healVars
    <2>6. silence' \in 0 .. RebootAfter /\ sinceReboot' \in 0 .. RebootAfter /\ sinceKick' \in 0 .. KickAfter
      BY SupervisionAssumption DEF SupervisionInv, Types, Mains, Loop, Regimes, Rest, Heard,
          Closed, vars, loopVars, flagVars, heatVars, camVars, netVars, healVars
    <2> QED BY <2>1, <2>2, <2>3, <2>4, <2>5, <2>6 DEF Types, Mains
  <1>2. StreakInv' /\ RestInv' /\ RegimeInv' /\ SpacingInv'
    BY SupervisionAssumption DEF SupervisionInv, Types, Mains, StreakInv, RestInv, RegimeInv,
        SpacingInv, Unstarted, Regimes, Rest, Heard, Closed, vars, loopVars, flagVars, heatVars, camVars, netVars, healVars
  <1> QED BY <1>1, <1>2 DEF SupervisionInv

LEMMA AwakeStep == ASSUME SupervisionInv, Awake PROVE SupervisionInv'
  <1>1. Types'
    BY SupervisionAssumption DEF SupervisionInv, Types, Mains, Loop, Regimes, Awake,
        WindowDecides, Heard, vars, loopVars, flagVars, heatVars, camVars, netVars, healVars
  <1>2. StreakInv' /\ RestInv' /\ RegimeInv' /\ SpacingInv'
    BY SupervisionAssumption DEF SupervisionInv, Types, Mains, StreakInv, RestInv, RegimeInv,
        SpacingInv, Unstarted, Regimes, Awake, WindowDecides, Heard, vars, loopVars, flagVars, heatVars, camVars, netVars, healVars
  <1> QED BY <1>1, <1>2 DEF SupervisionInv

LEMMA WakeFailsStep == ASSUME SupervisionInv, WakeFails PROVE SupervisionInv'
  <1>1. Types'
    BY SupervisionAssumption DEF SupervisionInv, Types, Mains, Loop, Regimes, WakeFails,
        StillRested, vars, loopVars, flagVars, heatVars, camVars, netVars, healVars
  <1>2. StreakInv' /\ RestInv' /\ RegimeInv' /\ SpacingInv'
    BY SupervisionAssumption DEF SupervisionInv, Types, Mains, StreakInv, RestInv, RegimeInv,
        SpacingInv, Unstarted, Regimes, WakeFails, StillRested, vars, loopVars, flagVars, heatVars, camVars, netVars, healVars
  <1> QED BY <1>1, <1>2 DEF SupervisionInv

LEMMA WakeStep == ASSUME SupervisionInv, Wake PROVE SupervisionInv'
  <1>1. Types'
    <2>1. main' \in Mains /\ cameraError' \in BOOLEAN /\ running' \in BOOLEAN /\ stop' \in BOOLEAN
      BY SupervisionAssumption DEF SupervisionInv, Types, Mains, Loop, Regimes, Mains, Wake,
          Woken, WindowDecides, Heard, vars, loopVars, flagVars, heatVars, camVars, netVars, healVars
    <2>2. state' \in {"ok", "paused"} /\ paused' \in BOOLEAN /\ rested' \in BOOLEAN
      BY SupervisionAssumption DEF SupervisionInv, Types, Mains, Loop, Regimes, Wake, Woken,
          WindowDecides, Heard, vars, loopVars, flagVars, heatVars, camVars, netVars, healVars
    <2>3. streak' \in 0 .. ShutdownAfter
      BY SupervisionAssumption DEF SupervisionInv, Types, Mains, Loop, Regimes, Wake, Woken,
          WindowDecides, Heard, vars, loopVars, flagVars, heatVars, camVars, netVars, healVars
    <2>4. cam' \in {"off", "on", "stuck"} /\ timeNight' \in Regimes /\ sensor' \in Regimes /\ faulted' \in BOOLEAN
      BY SupervisionAssumption DEF SupervisionInv, Types, Mains, Loop, Regimes, Wake, Woken,
          WindowDecides, Heard, vars, loopVars, flagVars, heatVars, camVars, netVars, healVars
    <2>5. net' \in {"up", "down", "stuck"} /\ up' \in {"between", "busy", "kicking"} /\ radio' \in BOOLEAN
      BY SupervisionAssumption DEF SupervisionInv, Types, Mains, Loop, Regimes, Wake, Woken,
          WindowDecides, Heard, vars, loopVars, flagVars, heatVars, camVars, netVars, healVars
    <2>6. silence' \in 0 .. RebootAfter /\ sinceReboot' \in 0 .. RebootAfter /\ sinceKick' \in 0 .. KickAfter
      BY SupervisionAssumption DEF SupervisionInv, Types, Mains, Loop, Regimes, Wake, Woken,
          WindowDecides, Heard, vars, loopVars, flagVars, heatVars, camVars, netVars, healVars
    <2> QED BY <2>1, <2>2, <2>3, <2>4, <2>5, <2>6 DEF Types, Mains
  <1>2. StreakInv' /\ RestInv' /\ RegimeInv' /\ SpacingInv'
    BY SupervisionAssumption DEF SupervisionInv, Types, Mains, StreakInv, RestInv, RegimeInv,
        SpacingInv, Unstarted, Regimes, Wake, Woken, WindowDecides, Heard, vars, loopVars, flagVars, heatVars, camVars, netVars, healVars
  <1> QED BY <1>1, <1>2 DEF SupervisionInv

LEMMA WakeHangsStep == ASSUME SupervisionInv, WakeHangs PROVE SupervisionInv'
  <1>1. Types'
    BY SupervisionAssumption DEF SupervisionInv, Types, Mains, Loop, Regimes, WakeHangs, vars, loopVars, flagVars, heatVars, camVars, netVars, healVars
  <1>2. StreakInv' /\ RestInv' /\ RegimeInv' /\ SpacingInv'
    BY SupervisionAssumption DEF SupervisionInv, Types, Mains, StreakInv, RestInv, RegimeInv,
        SpacingInv, Unstarted, Regimes, WakeHangs, vars, loopVars, flagVars, heatVars, camVars, netVars, healVars
  <1> QED BY <1>1, <1>2 DEF SupervisionInv

LEMMA CaptureStep == ASSUME SupervisionInv, Capture PROVE SupervisionInv'
  <1>1. Types'
    <2>1. main' \in Mains /\ cameraError' \in BOOLEAN /\ running' \in BOOLEAN /\ stop' \in BOOLEAN
      BY SupervisionAssumption DEF SupervisionInv, Types, Mains, Loop, Regimes, Mains,
          Capture, Switched, vars, loopVars, flagVars, heatVars, camVars, netVars, healVars
    <2>2. state' \in {"ok", "paused"} /\ paused' \in BOOLEAN /\ rested' \in BOOLEAN
      BY SupervisionAssumption DEF SupervisionInv, Types, Mains, Loop, Regimes, Capture,
          Switched, vars, loopVars, flagVars, heatVars, camVars, netVars, healVars
    <2>3. streak' \in 0 .. ShutdownAfter
      BY SupervisionAssumption DEF SupervisionInv, Types, Mains, Loop, Regimes, Capture,
          Switched, vars, loopVars, flagVars, heatVars, camVars, netVars, healVars
    <2>4. cam' \in {"off", "on", "stuck"} /\ timeNight' \in Regimes /\ sensor' \in Regimes /\ faulted' \in BOOLEAN
      BY SupervisionAssumption DEF SupervisionInv, Types, Mains, Loop, Regimes, Capture,
          Switched, vars, loopVars, flagVars, heatVars, camVars, netVars, healVars
    <2>5. net' \in {"up", "down", "stuck"} /\ up' \in {"between", "busy", "kicking"} /\ radio' \in BOOLEAN
      BY SupervisionAssumption DEF SupervisionInv, Types, Mains, Loop, Regimes, Capture,
          Switched, vars, loopVars, flagVars, heatVars, camVars, netVars, healVars
    <2>6. silence' \in 0 .. RebootAfter /\ sinceReboot' \in 0 .. RebootAfter /\ sinceKick' \in 0 .. KickAfter
      BY SupervisionAssumption DEF SupervisionInv, Types, Mains, Loop, Regimes, Capture,
          Switched, vars, loopVars, flagVars, heatVars, camVars, netVars, healVars
    <2> QED BY <2>1, <2>2, <2>3, <2>4, <2>5, <2>6 DEF Types, Mains
  <1>2. StreakInv' /\ RestInv' /\ RegimeInv' /\ SpacingInv'
    BY SupervisionAssumption DEF SupervisionInv, Types, Mains, StreakInv, RestInv, RegimeInv,
        SpacingInv, Unstarted, Regimes, Capture, Switched, vars, loopVars, flagVars, heatVars, camVars, netVars, healVars
  <1> QED BY <1>1, <1>2 DEF SupervisionInv

LEMMA CaptureFailsStep == ASSUME SupervisionInv, CaptureFails PROVE SupervisionInv'
  <1>1. Types'
    <2>1. main' \in Mains /\ cameraError' \in BOOLEAN /\ running' \in BOOLEAN /\ stop' \in BOOLEAN
      BY SupervisionAssumption DEF SupervisionInv, Types, Mains, Loop, Regimes, Mains,
          CaptureFails, Switched, vars, loopVars, flagVars, heatVars, camVars, netVars, healVars
    <2>2. state' \in {"ok", "paused"} /\ paused' \in BOOLEAN /\ rested' \in BOOLEAN
      BY SupervisionAssumption DEF SupervisionInv, Types, Mains, Loop, Regimes, CaptureFails,
          Switched, vars, loopVars, flagVars, heatVars, camVars, netVars, healVars
    <2>3. streak' \in 0 .. ShutdownAfter
      BY SupervisionAssumption DEF SupervisionInv, Types, Mains, Loop, Regimes, CaptureFails,
          Switched, vars, loopVars, flagVars, heatVars, camVars, netVars, healVars
    <2>4. cam' \in {"off", "on", "stuck"} /\ timeNight' \in Regimes /\ sensor' \in Regimes /\ faulted' \in BOOLEAN
      BY SupervisionAssumption DEF SupervisionInv, Types, Mains, Loop, Regimes, CaptureFails,
          Switched, vars, loopVars, flagVars, heatVars, camVars, netVars, healVars
    <2>5. net' \in {"up", "down", "stuck"} /\ up' \in {"between", "busy", "kicking"} /\ radio' \in BOOLEAN
      BY SupervisionAssumption DEF SupervisionInv, Types, Mains, Loop, Regimes, CaptureFails,
          Switched, vars, loopVars, flagVars, heatVars, camVars, netVars, healVars
    <2>6. silence' \in 0 .. RebootAfter /\ sinceReboot' \in 0 .. RebootAfter /\ sinceKick' \in 0 .. KickAfter
      BY SupervisionAssumption DEF SupervisionInv, Types, Mains, Loop, Regimes, CaptureFails,
          Switched, vars, loopVars, flagVars, heatVars, camVars, netVars, healVars
    <2> QED BY <2>1, <2>2, <2>3, <2>4, <2>5, <2>6 DEF Types, Mains
  <1>2. StreakInv' /\ RestInv' /\ RegimeInv' /\ SpacingInv'
    BY SupervisionAssumption DEF SupervisionInv, Types, Mains, StreakInv, RestInv, RegimeInv,
        SpacingInv, Unstarted, Regimes, CaptureFails, Switched, vars, loopVars, flagVars, heatVars, camVars, netVars, healVars
  <1> QED BY <1>1, <1>2 DEF SupervisionInv

LEMMA CaptureHangsStep == ASSUME SupervisionInv, CaptureHangs PROVE SupervisionInv'
  <1>1. Types'
    BY SupervisionAssumption DEF SupervisionInv, Types, Mains, Loop, Regimes, CaptureHangs,
        vars, loopVars, flagVars, heatVars, camVars, netVars, healVars
  <1>2. StreakInv' /\ RestInv' /\ RegimeInv' /\ SpacingInv'
    BY SupervisionAssumption DEF SupervisionInv, Types, Mains, StreakInv, RestInv, RegimeInv,
        SpacingInv, Unstarted, Regimes, CaptureHangs, vars, loopVars, flagVars, heatVars, camVars, netVars, healVars
  <1> QED BY <1>1, <1>2 DEF SupervisionInv

LEMMA SleepStep == ASSUME SupervisionInv, Sleep PROVE SupervisionInv'
  <1>1. Types'
    BY SupervisionAssumption DEF SupervisionInv, Types, Mains, Loop, Regimes, Sleep, vars, loopVars, flagVars, heatVars, camVars, netVars, healVars
  <1>2. StreakInv' /\ RestInv' /\ RegimeInv' /\ SpacingInv'
    BY SupervisionAssumption DEF SupervisionInv, Types, Mains, StreakInv, RestInv, RegimeInv,
        SpacingInv, Unstarted, Regimes, Sleep, vars, loopVars, flagVars, heatVars, camVars, netVars, healVars
  <1> QED BY <1>1, <1>2 DEF SupervisionInv

----------------------------------------------------------------------------
(* The uploader, and everything else *)

LEMMA TakeFrameStep == ASSUME SupervisionInv, TakeFrame PROVE SupervisionInv'
  <1>1. Types'
    BY SupervisionAssumption DEF SupervisionInv, Types, Mains, Loop, Regimes, TakeFrame, vars, loopVars, flagVars, heatVars, camVars, netVars, healVars
  <1>2. StreakInv' /\ RestInv' /\ RegimeInv' /\ SpacingInv'
    BY SupervisionAssumption DEF SupervisionInv, Types, Mains, StreakInv, RestInv, RegimeInv,
        SpacingInv, Unstarted, Regimes, TakeFrame, vars, loopVars, flagVars, heatVars, camVars, netVars, healVars
  <1> QED BY <1>1, <1>2 DEF SupervisionInv

LEMMA FrameDoneStep == ASSUME SupervisionInv, FrameDone PROVE SupervisionInv'
  <1>1. Types'
    BY SupervisionAssumption DEF SupervisionInv, Types, Mains, Loop, Regimes, FrameDone,
        Heard, Answers, vars, loopVars, flagVars, heatVars, camVars, netVars, healVars
  <1>2. StreakInv' /\ RestInv' /\ RegimeInv' /\ SpacingInv'
    BY SupervisionAssumption DEF SupervisionInv, Types, Mains, StreakInv, RestInv, RegimeInv,
        SpacingInv, Unstarted, Regimes, FrameDone, Heard, Answers, vars, loopVars, flagVars, heatVars, camVars, netVars, healVars
  <1> QED BY <1>1, <1>2 DEF SupervisionInv

LEMMA KickStep == ASSUME SupervisionInv, Kick PROVE SupervisionInv'
  <1>1. Types'
    <2>1. main' \in Mains /\ cameraError' \in BOOLEAN /\ running' \in BOOLEAN /\ stop' \in BOOLEAN
      BY SupervisionAssumption DEF SupervisionInv, Types, Mains, Loop, Regimes, Mains, Kick,
          Kicked, vars, loopVars, flagVars, heatVars, camVars, netVars, healVars
    <2>2. state' \in {"ok", "paused"} /\ paused' \in BOOLEAN /\ rested' \in BOOLEAN
      BY SupervisionAssumption DEF SupervisionInv, Types, Mains, Loop, Regimes, Kick, Kicked,
          vars, loopVars, flagVars, heatVars, camVars, netVars, healVars
    <2>3. streak' \in 0 .. ShutdownAfter
      BY SupervisionAssumption DEF SupervisionInv, Types, Mains, Loop, Regimes, Kick, Kicked,
          vars, loopVars, flagVars, heatVars, camVars, netVars, healVars
    <2>4. cam' \in {"off", "on", "stuck"} /\ timeNight' \in Regimes /\ sensor' \in Regimes /\ faulted' \in BOOLEAN
      BY SupervisionAssumption DEF SupervisionInv, Types, Mains, Loop, Regimes, Kick, Kicked,
          vars, loopVars, flagVars, heatVars, camVars, netVars, healVars
    <2>5. net' \in {"up", "down", "stuck"} /\ up' \in {"between", "busy", "kicking"} /\ radio' \in BOOLEAN
      BY SupervisionAssumption DEF SupervisionInv, Types, Mains, Loop, Regimes, Kick, Kicked,
          vars, loopVars, flagVars, heatVars, camVars, netVars, healVars
    <2>6. silence' \in 0 .. RebootAfter /\ sinceReboot' \in 0 .. RebootAfter /\ sinceKick' \in 0 .. KickAfter
      BY SupervisionAssumption DEF SupervisionInv, Types, Mains, Loop, Regimes, Kick, Kicked,
          vars, loopVars, flagVars, heatVars, camVars, netVars, healVars
    <2> QED BY <2>1, <2>2, <2>3, <2>4, <2>5, <2>6 DEF Types, Mains
  <1>2. StreakInv' /\ RestInv' /\ RegimeInv' /\ SpacingInv'
    BY SupervisionAssumption DEF SupervisionInv, Types, Mains, StreakInv, RestInv, RegimeInv,
        SpacingInv, Unstarted, Regimes, Kick, Kicked, vars, loopVars, flagVars, heatVars, camVars, netVars, healVars
  <1> QED BY <1>1, <1>2 DEF SupervisionInv

LEMMA RebootFailsStep == ASSUME SupervisionInv, RebootFails PROVE SupervisionInv'
  <1>1. Types'
    BY SupervisionAssumption DEF SupervisionInv, Types, Mains, Loop, Regimes, RebootFails,
        Rearmed, RebootDue, vars, loopVars, flagVars, heatVars, camVars, netVars, healVars
  <1>2. StreakInv' /\ RestInv' /\ RegimeInv' /\ SpacingInv'
    BY SupervisionAssumption DEF SupervisionInv, Types, Mains, StreakInv, RestInv, RegimeInv,
        SpacingInv, Unstarted, Regimes, RebootFails, Rearmed, RebootDue, vars, loopVars, flagVars, heatVars, camVars, netVars, healVars
  <1> QED BY <1>1, <1>2 DEF SupervisionInv

LEMMA BootStep == ASSUME SupervisionInv, Boot PROVE SupervisionInv'
  <1>1. Types'
    BY SupervisionAssumption DEF SupervisionInv, Types, Mains, Loop, Regimes, Boot, Alive,
        vars, loopVars, flagVars, heatVars, camVars, netVars, healVars
  <1>2. StreakInv' /\ RestInv' /\ RegimeInv' /\ SpacingInv'
    BY SupervisionAssumption DEF SupervisionInv, Types, Mains, StreakInv, RestInv, RegimeInv,
        SpacingInv, Unstarted, Regimes, Boot, Alive, vars, loopVars, flagVars, heatVars, camVars, netVars, healVars
  <1> QED BY <1>1, <1>2 DEF SupervisionInv

LEMMA RequestStopStep == ASSUME SupervisionInv, RequestStop PROVE SupervisionInv'
  <1>1. Types'
    <2>1. main' \in Mains /\ cameraError' \in BOOLEAN /\ running' \in BOOLEAN /\ stop' \in BOOLEAN
      BY SupervisionAssumption DEF SupervisionInv, Types, Mains, Loop, Regimes, Mains,
          RequestStop, RequestsStop, vars, loopVars, flagVars, heatVars, camVars, netVars, healVars
    <2>2. state' \in {"ok", "paused"} /\ paused' \in BOOLEAN /\ rested' \in BOOLEAN
      BY SupervisionAssumption DEF SupervisionInv, Types, Mains, Loop, Regimes, RequestStop,
          RequestsStop, vars, loopVars, flagVars, heatVars, camVars, netVars, healVars
    <2>3. streak' \in 0 .. ShutdownAfter
      BY SupervisionAssumption DEF SupervisionInv, Types, Mains, Loop, Regimes, RequestStop,
          RequestsStop, vars, loopVars, flagVars, heatVars, camVars, netVars, healVars
    <2>4. cam' \in {"off", "on", "stuck"} /\ timeNight' \in Regimes /\ sensor' \in Regimes /\ faulted' \in BOOLEAN
      BY SupervisionAssumption DEF SupervisionInv, Types, Mains, Loop, Regimes, RequestStop,
          RequestsStop, vars, loopVars, flagVars, heatVars, camVars, netVars, healVars
    <2>5. net' \in {"up", "down", "stuck"} /\ up' \in {"between", "busy", "kicking"} /\ radio' \in BOOLEAN
      BY SupervisionAssumption DEF SupervisionInv, Types, Mains, Loop, Regimes, RequestStop,
          RequestsStop, vars, loopVars, flagVars, heatVars, camVars, netVars, healVars
    <2>6. silence' \in 0 .. RebootAfter /\ sinceReboot' \in 0 .. RebootAfter /\ sinceKick' \in 0 .. KickAfter
      BY SupervisionAssumption DEF SupervisionInv, Types, Mains, Loop, Regimes, RequestStop,
          RequestsStop, vars, loopVars, flagVars, heatVars, camVars, netVars, healVars
    <2> QED BY <2>1, <2>2, <2>3, <2>4, <2>5, <2>6 DEF Types, Mains
  <1>2. StreakInv' /\ RestInv' /\ RegimeInv' /\ SpacingInv'
    BY SupervisionAssumption DEF SupervisionInv, Types, Mains, StreakInv, RestInv, RegimeInv,
        SpacingInv, Unstarted, Regimes, RequestStop, RequestsStop, vars, loopVars, flagVars, heatVars, camVars, netVars, healVars
  <1> QED BY <1>1, <1>2 DEF SupervisionInv

LEMMA TickStep == ASSUME SupervisionInv, Tick PROVE SupervisionInv'
  <1>1. Types'
    BY SupervisionAssumption DEF SupervisionInv, Types, Mains, Loop, Regimes, Tick, Least,
        vars, loopVars, flagVars, heatVars, camVars, netVars, healVars
  <1>2. StreakInv' /\ RestInv' /\ RegimeInv' /\ SpacingInv'
    BY SupervisionAssumption DEF SupervisionInv, Types, Mains, StreakInv, RestInv, RegimeInv,
        SpacingInv, Unstarted, Regimes, Tick, Least, vars, loopVars, flagVars, heatVars, camVars, netVars, healVars
  <1> QED BY <1>1, <1>2 DEF SupervisionInv

LEMMA AgesStep == ASSUME SupervisionInv, Ages PROVE SupervisionInv'
  BY DEF SupervisionInv, Types, StreakInv, RestInv, RegimeInv, SpacingInv, Ages, flagVars,
     heatVars, camVars, netVars, healVars

LEMMA NetChangesStep == ASSUME SupervisionInv, NetChanges PROVE SupervisionInv'
  <1>1. Types'
    BY SupervisionAssumption DEF SupervisionInv, Types, Mains, Loop, Regimes, NetChanges, vars, loopVars, flagVars, heatVars, camVars, netVars, healVars
  <1>2. StreakInv' /\ RestInv' /\ RegimeInv' /\ SpacingInv'
    BY SupervisionAssumption DEF SupervisionInv, Types, Mains, StreakInv, RestInv, RegimeInv,
        SpacingInv, Unstarted, Regimes, NetChanges, vars, loopVars, flagVars, heatVars, camVars, netVars, healVars
  <1> QED BY <1>1, <1>2 DEF SupervisionInv

LEMMA KickEndsStep == ASSUME SupervisionInv, NEW works \in BOOLEAN, KickEnds(works) PROVE SupervisionInv'
  <1>1. Types'
    BY SupervisionAssumption DEF SupervisionInv, Types, Mains, Loop, Regimes, KickEnds, vars, loopVars, flagVars, heatVars, camVars, netVars, healVars
  <1>2. StreakInv' /\ RestInv' /\ RegimeInv' /\ SpacingInv'
    BY SupervisionAssumption DEF SupervisionInv, Types, Mains, StreakInv, RestInv, RegimeInv,
        SpacingInv, Unstarted, Regimes, KickEnds, vars, loopVars, flagVars, heatVars, camVars, netVars, healVars
  <1> QED BY <1>1, <1>2 DEF SupervisionInv

\* The thermal power-off, or the power that goes.
LEMMA GateShutsDownStep ==
  ASSUME SupervisionInv, GateShutsDown, ~Crash PROVE SupervisionInv'
  <1>1. Types'
    <2>1. main' \in Mains /\ cameraError' \in BOOLEAN /\ running' \in BOOLEAN /\ stop' \in BOOLEAN
      BY DEF SupervisionInv, Types, Mains, Loop, GateShutsDown, RequestsStop
    <2>2. state' \in {"ok", "paused"} /\ paused' \in BOOLEAN /\ rested' \in BOOLEAN
      BY DEF SupervisionInv, Types, Mains, GateShutsDown, Reads
    <2>3. streak' \in 0 .. ShutdownAfter
      <3>1. streak' = streak + 1
        BY DEF GateShutsDown, Reads
      <3>2. streak \in 0 .. ShutdownAfter /\ streak # ShutdownAfter
        BY DEF SupervisionInv, Types, Mains, StreakInv, GateShutsDown
      <3> QED BY <3>1, <3>2, SupervisionAssumption
    <2>4. cam' \in {"off", "on", "stuck"} /\ timeNight' \in Regimes /\ sensor' \in Regimes /\ faulted' \in BOOLEAN
      BY DEF SupervisionInv, Types, Mains, GateShutsDown, camVars
    <2>5. net' \in {"up", "down", "stuck"} /\ up' \in {"between", "busy", "kicking"} /\ radio' \in BOOLEAN
      BY DEF SupervisionInv, Types, Mains, GateShutsDown, Heard, healVars
    <2>6. silence' \in 0 .. RebootAfter /\ sinceReboot' \in 0 .. RebootAfter /\ sinceKick' \in 0 .. KickAfter
      BY SupervisionAssumption DEF SupervisionInv, Types, Mains, GateShutsDown, Heard, healVars
    <2> QED BY <2>1, <2>2, <2>3, <2>4, <2>5, <2>6 DEF Types, Mains
  <1>2. StreakInv' /\ RestInv' /\ RegimeInv' /\ SpacingInv'
    <2>1. main' = "sleep" /\ running' = FALSE
      BY DEF GateShutsDown, RequestsStop
    <2>2. UNCHANGED <<rested, camVars>> /\ UNCHANGED sinceReboot /\ silence' \in {silence, 0}
      BY DEF GateShutsDown, Heard, healVars
    <2> QED
      BY <2>1, <2>2, SupervisionAssumption
      DEF SupervisionInv, Types, Mains, StreakInv, RestInv, RegimeInv, SpacingInv, Unstarted, camVars
  <1> QED BY <1>1, <1>2 DEF SupervisionInv

\* The process dies, by itself or by another's hand.
LEMMA CrashStep == ASSUME SupervisionInv, Crash PROVE SupervisionInv'
  <1>1. Gone("boot") /\ UNCHANGED <<net, radio, sinceReboot>>
    BY DEF Crash
  <1>2. radio' \in BOOLEAN
    BY <1>1 DEF SupervisionInv, Types
  <1> QED BY <1>1, <1>2, GoneInv

LEMMA EndStep ==
  ASSUME SupervisionInv, CameraFound \/ Finish \/ SpinEnds PROVE SupervisionInv'
  <1>1. PICK where \in {"boot", "ended"} : Gone(where) /\ UNCHANGED <<net, radio, sinceReboot>>
    BY DEF CameraFound, Finish, SpinEnds
  <1>2. radio' \in BOOLEAN
    BY <1>1 DEF SupervisionInv, Types
  <1> QED BY <1>1, <1>2, GoneInv

LEMMA RebootStep == ASSUME SupervisionInv, Reboot PROVE SupervisionInv'
  <1>1. Gone("boot") /\ UNCHANGED <<net, radio>> /\ sinceReboot' = 0
    BY DEF Reboot
  <1>2. radio' \in BOOLEAN
    BY <1>1 DEF SupervisionInv, Types
  <1> QED BY <1>1, <1>2, GoneInv

LEMMA MainThreadStep == ASSUME SupervisionInv, MainThread PROVE SupervisionInv'
  <1>1. CASE GateShutsDown
    BY <1>1, GateShutsDownStep, CrashStep
  <1>2. CASE CameraFound \/ Finish
    BY <1>2, EndStep
  <1>3. CASE StartCamera \/ Enter \/ Probe \/ FinishHangs \/ Top \/ Gate \/ Rest \/ Awake
    BY <1>3, StartCameraStep, EnterStep, ProbeStep, FinishHangsStep, TopStep, GateStep,
       RestStep, AwakeStep
  <1>4. CASE \/ WakeFails \/ Wake \/ WakeHangs \/ Capture \/ CaptureFails \/ CaptureHangs
             \/ Sleep
    BY <1>4, WakeFailsStep, WakeStep, WakeHangsStep, CaptureStep, CaptureFailsStep,
       CaptureHangsStep, SleepStep
  <1> QED BY <1>1, <1>2, <1>3, <1>4 DEF MainThread

LEMMA NextStep == ASSUME SupervisionInv, [Next]_vars PROVE SupervisionInv'
  <1>1. CASE MainThread
    BY <1>1, MainThreadStep
  <1>2. CASE UploaderThread
    BY <1>2, FrameDoneStep, KickStep, KickEndsStep, RebootFailsStep, RebootStep
    DEF UploaderThread
  <1>3. CASE TakeFrame \/ Boot \/ RequestStop \/ SpinEnds \/ Ages \/ Tick \/ NetChanges
    BY <1>3, TakeFrameStep, BootStep, RequestStopStep, EndStep, AgesStep, TickStep, NetChangesStep
  <1>4. CASE Crash \/ Watchdog
    BY <1>4, CrashStep DEF Watchdog
  <1>5. CASE UNCHANGED vars
    BY <1>5 DEF SupervisionInv, Types, Mains, StreakInv, RestInv, RegimeInv, SpacingInv, vars,
       loopVars, flagVars, heatVars, camVars, netVars, healVars
  <1> QED BY <1>1, <1>2, <1>3, <1>4, <1>5 DEF Next

----------------------------------------------------------------------------
(* The watchdog's clock *)

\* Time since the last tick at each point of the loop: a call more at each step,
\* and nothing at the gate, which follows a tick.
AgeInv ==
  /\ age \in 0 .. AgeCap
  /\ main \in Unstarted \cup {"gate", "rest", "wake"} => age = 0
  /\ main = "enter" => age <= CallTime
  /\ main = "capture" => age <= 2 * CallTime
  /\ ~Hangs => age <= 3 * CallTime

\* The stall limit is one, and never less than its least.
LEMMA LimitType ==
  ASSUME NEW interval \in 1 .. LongestInterval
  PROVE  StallLimit(interval) \in Nat /\ StallMin <= StallLimit(interval)
  <1>1. StallFactor * interval \in Nat
    BY SupervisionAssumption
  <1> DEFINE product == StallFactor * interval
  <1>2. product \in Nat
    BY <1>1
  <1> HIDE DEF product
  <1>3. StallLimit(interval) = IF StallMin < product THEN product ELSE StallMin
    BY DEF StallLimit, Greatest, product
  <1> QED BY <1>2, <1>3, SupervisionAssumption

LEMMA CapType == AgeCap \in Nat /\ StallMin < AgeCap
  <1>1. LongestInterval \in 1 .. LongestInterval
    BY SupervisionAssumption
  <1>2. StallLimit(LongestInterval) \in Nat /\ StallMin <= StallLimit(LongestInterval)
    BY <1>1, LimitType
  <1> QED BY <1>2, SupervisionAssumption DEF AgeCap

LEMMA TakesTime ==
  ASSUME age \in 0 .. AgeCap, NEW calls \in 1 .. 2, Takes(calls)
  PROVE  age' \in 0 .. AgeCap /\ age' <= age + calls * CallTime
  <1>1. PICK time \in 0 .. calls * CallTime :
          age' = IF stop THEN 0 ELSE Least(age + time, AgeCap)
    BY DEF Takes
  <1>2. time \in Nat /\ time <= calls * CallTime /\ calls * CallTime \in Nat
    BY SupervisionAssumption
  <1> DEFINE most == calls * CallTime
  <1>3. time \in Nat /\ time <= most /\ most \in Nat
    BY <1>2
  <1> HIDE DEF most
  <1>4. age' \in 0 .. AgeCap /\ age' <= age + most
    BY <1>1, <1>3, CapType DEF Least
  <1> QED BY <1>4 DEF most

LEMMA AgeStep == ASSUME SupervisionInv, AgeInv, Next PROVE AgeInv'
  <1>0. CallTime \in Nat /\ 3 * CallTime \in Nat /\ 2 * CallTime \in Nat /\ AgeCap \in Nat
    BY SupervisionAssumption, CapType
  <1>1. CASE age' = 0
    BY <1>0, <1>1 DEF AgeInv
  <1>2. CASE UNCHANGED <<main, age>>
    BY <1>2 DEF AgeInv, Hangs
  <1>3. CASE StartCamera
    <2>1. CASE main' = "enter" /\ Takes(1)
      BY <1>0, <1>3, <2>1, TakesTime DEF StartCamera, AgeInv, Unstarted, Hangs
    <2>2. CASE main' = "startHung" /\ UNCHANGED age
      BY <1>3, <2>2 DEF StartCamera, AgeInv, Unstarted, Hangs
    <2> QED BY <1>1, <1>3, <2>1, <2>2 DEF StartCamera
  <1>4. CASE Enter \/ Probe \/ FinishHangs \/ Gate \/ WakeHangs \/ CaptureHangs
    <2>1. UNCHANGED age
      BY <1>4 DEF Enter, Probe, FinishHangs, Gate, WakeHangs, CaptureHangs, loopVars
    <2>2. main' \in {"top", "spinning", "bare", "hung"} \/ (main = "gate" /\ main' \in {"rest", "wake"})
      BY <1>4 DEF Enter, Probe, FinishHangs, Gate, WakeHangs, CaptureHangs
    <2>3. main # "startHung" /\ (main = "hung" => main' = "hung")
      BY <1>4 DEF Enter, Probe, FinishHangs, Gate, WakeHangs, CaptureHangs
    <2> QED BY <2>1, <2>2, <2>3 DEF AgeInv, Unstarted, Hangs
  <1>5. CASE Rest
    <2>1. age' = age \/ (Takes(2) /\ main' = "sleep")
      BY <1>5 DEF Rest
    <2> QED BY <1>0, <1>5, <2>1, TakesTime DEF Rest, AgeInv, Unstarted, Hangs
  <1>6. CASE Awake \/ WakeFails \/ Wake
    <2>1. PICK calls \in 1 .. 2 : Takes(calls)
      BY <1>6 DEF Awake, WakeFails, Wake
    <2>2. main = "wake" /\ main' \in {"capture", "sleep"}
      BY <1>6 DEF Awake, WakeFails, Wake, WindowDecides
    <2>3. age' \in 0 .. AgeCap /\ age' <= 2 * CallTime
      BY <1>0, <2>1, <2>2, TakesTime DEF AgeInv
    <2> QED BY <1>0, <2>2, <2>3 DEF AgeInv, Unstarted, Hangs
  <1>7. CASE Capture \/ CaptureFails
    <2>1. Takes(1) /\ main = "capture" /\ main' = "sleep"
      BY <1>7 DEF Capture, CaptureFails
    <2> QED BY <1>0, <2>1, TakesTime DEF AgeInv, Unstarted, Hangs
  <1>8. CASE Top \/ GateShutsDown \/ RequestStop
    BY <1>1, <1>8 DEF Top, Ticked, GateShutsDown, RequestStop, Crash, Gone
  <1>9. CASE Sleep
    BY <1>1, <1>9 DEF Sleep, Ticked, AgeInv, Unstarted, Hangs
  <1>10. CASE CameraFound \/ Finish \/ SpinEnds \/ Crash \/ Watchdog \/ Reboot
    BY <1>1, <1>10 DEF CameraFound, Finish, SpinEnds, Crash, Watchdog, Reboot, Gone
  <1>11. CASE Boot
    BY <1>11 DEF Boot, Alive, loopVars, AgeInv, Unstarted, Hangs
  <1>12. CASE Ages
    BY <1>0, <1>12 DEF Ages, AgeInv, Unstarted, Hangs
  <1>13. CASE TakeFrame \/ FrameDone \/ Kick \/ (\E works \in BOOLEAN : KickEnds(works))
              \/ RebootFails \/ Tick \/ NetChanges
    BY <1>2, <1>13 DEF TakeFrame, FrameDone, Kick, KickEnds, RebootFails, Tick, NetChanges, loopVars
  <1> QED BY <1>3, <1>4, <1>5, <1>6, <1>7, <1>8, <1>9, <1>10, <1>11, <1>12, <1>13
          DEF Next, MainThread, UploaderThread

----------------------------------------------------------------------------
(* Theorems *)

\* The inductive invariant: types, and what streak, rest, exposure regime and
\* silence have to do with where the main thread is.
THEOREM SupervisionInvariant == Spec => []SupervisionInv
  BY InitInv, NextStep, PTL DEF Spec

\* The watchdog's clock at each point of the loop.
THEOREM AgeInvariant == Spec => []AgeInv
  <1>1. Init => AgeInv
    BY SupervisionAssumption, CapType DEF Init, AgeInv, Hangs
  <1>2. SupervisionInv /\ AgeInv /\ [Next]_vars => AgeInv'
    <2>1. AgeInv /\ UNCHANGED vars => AgeInv'
      BY DEF AgeInv, Hangs, vars, loopVars
    <2> QED BY <2>1, AgeStep
  <1> QED BY <1>1, <1>2, SupervisionInvariant, PTL DEF Spec

\* The types hold, and the shutdown streak never passes its limit: the reading
\* that completes it stops the loop (thermal.py:93-100, main.py:219-224).
THEOREM SupervisionTypeCorrect == Spec => []TypeOK
  <1>1. SupervisionInv /\ AgeInv => TypeOK
    BY DEF SupervisionInv, Types, Mains, AgeInv, TypeOK
  <1> QED BY <1>1, SupervisionInvariant, AgeInvariant, PTL

\* The watchdog never takes a loop for hung that is not: not one that rests its
\* camera, sleeps, or waits for calls that fail or time out, whatever the
\* interval is when it looks (main.py:390-404); the safety half of HangEnds.  It
\* rests on SupervisionAssumption: three calls fit into CAPTURE_STALL_MIN_S.
THEOREM NoHangIsMistaken == Spec => []NoFalseAlarm
  <1>1. AgeInv => NoFalseAlarm
    <2> SUFFICES ASSUME AgeInv, ~Hangs, NEW interval \in 1 .. LongestInterval,
                        age > StallLimit(interval)
                 PROVE  FALSE
      BY DEF NoFalseAlarm, WatchdogDue, Stalled
    <2> QED BY LimitType, SupervisionAssumption DEF AgeInv
  <1> QED BY <1>1, AgeInvariant, PTL

\* Through a paused interval the camera does not stream (main.py:180-184).
THEOREM PausedCameraRests == Spec => []CoolCamera
  <1>1. SupervisionInv => CoolCamera
    BY DEF SupervisionInv, RestInv, CoolCamera
  <1> QED BY <1>1, SupervisionInvariant, PTL

\* The regime flag and the sensor agree unless a switch failed, through every
\* rest and restart of camera and process (camera.py:306-328, 421-428).
THEOREM RegimeFlagRight == Spec => []RegimeRight
  <1>1. SupervisionInv => RegimeRight
    BY DEF SupervisionInv, RegimeInv, RegimeRight
  <1> QED BY <1>1, SupervisionInvariant, PTL

\* Reboot commands are a full reboot window apart, whatever they do
\* (net_heal.py:64-67 and 103-105).
THEOREM RebootsKeepDistance == Spec => RebootsSpaced
  <1>1. SupervisionInv /\ [Next]_vars
          => [Reboot \/ RebootFails => sinceReboot = RebootAfter]_vars
    <2>1. ASSUME SupervisionInv, Reboot \/ RebootFails PROVE sinceReboot = RebootAfter
      BY <2>1, SupervisionAssumption
      DEF SupervisionInv, Types, Mains, SpacingInv, Reboot, RebootFails, RebootDue
    <2> QED BY <2>1
  <1> QED BY <1>1, SupervisionInvariant, PTL DEF Spec, RebootsSpaced

----------------------------------------------------------------------------
(* The safety halves of StopEnds, CameraWoken and HangEnds                  *)

\* The loop is told of every stop requested once it runs: run() may set its
\* flag over an earlier one only (main.py:382-386).
StopHeeded == stop /\ main \in Loop => ~running

\* The camera is taken for rested exactly when it was stopped, or its stop raised
\* ("stuck"): no gate takes one for awake that is off, and none restarts one that
\* was not stopped (main.py:232-255).
RestKnown == main \in Loop \cup {"enter", "spinning"} => (rested <=> cam # "on")

\* The watchdog is called off for the camera-less mode, which the capture loop
\* is never in, so its hangs are all watched (main.py:399-400).
LoopWatched == main \in Loop \cup {"startHung", "enter", "spinning"} => ~cameraError

LoopInv ==
  /\ StopHeeded /\ RestKnown /\ LoopWatched
  /\ main \in Unstarted => ~cameraError
  /\ main \in Unstarted \cup {"startHung", "enter", "bare"} => ~running

LEMMA LoopInit == ASSUME Init PROVE LoopInv
  BY DEF Init, LoopInv, StopHeeded, RestKnown, LoopWatched, Loop, Unstarted

LEMMA LoopGone == ASSUME NEW where \in {"boot", "ended"}, Gone(where) PROVE LoopInv'
  BY DEF Gone, LoopInv, StopHeeded, RestKnown, LoopWatched, Loop, Unstarted

LEMMA LoopStep == ASSUME SupervisionInv, LoopInv, Next PROVE LoopInv'
  <1> USE DEF SupervisionInv, Types, Mains, RestInv, LoopInv, StopHeeded, RestKnown, LoopWatched, Loop,
              Unstarted, loopVars, flagVars, heatVars, camVars
  <1>1. CASE StartCamera \/ Enter
    BY <1>1 DEF StartCamera, Enter, RegimeInv
  <1>2. CASE Probe \/ FinishHangs \/ Top \/ Sleep
    BY <1>2 DEF Probe, FinishHangs, Top, Sleep
  <1>3. CASE Gate
    BY <1>3 DEF Gate
  <1>4. CASE GateShutsDown
    <2>1. CASE Crash
      BY <2>1, LoopGone DEF Crash
    <2>2. CASE main = "gate" /\ main' = "sleep" /\ RequestsStop
               /\ UNCHANGED <<cameraError, rested, camVars>>
      BY <2>2 DEF RequestsStop
    <2> QED BY <1>4, <2>1, <2>2 DEF GateShutsDown
  <1>5. CASE Rest
    BY <1>5 DEF Rest, Closed
  <1>6. CASE Awake \/ WakeFails \/ Wake \/ WakeHangs
    BY <1>6 DEF Awake, WakeFails, StillRested, Wake, Woken, WakeHangs, WindowDecides
  <1>7. CASE Capture \/ CaptureFails \/ CaptureHangs
    <2>1. UNCHANGED <<flagVars, rested, cam>> /\ main = "capture" /\ main' \in {"sleep", "hung"}
      BY <1>7 DEF Capture, CaptureFails, CaptureHangs, loopVars
    <2> QED BY <2>1
  <1>8. CASE CameraFound \/ Finish \/ SpinEnds \/ Crash \/ Watchdog \/ Reboot
    BY <1>8, LoopGone DEF CameraFound, Finish, SpinEnds, Crash, Watchdog, Reboot
  <1>9. CASE Boot \/ RequestStop
    BY <1>9 DEF Boot, Alive, RequestStop, RequestsStop, RegimeInv
  <1>10. CASE TakeFrame \/ FrameDone \/ Kick \/ (\E works \in BOOLEAN : KickEnds(works))
              \/ RebootFails \/ Ages \/ Tick \/ NetChanges
    <2>1. UNCHANGED <<main, flagVars, heatVars, camVars>>
      BY <1>10 DEF TakeFrame, FrameDone, Kick, KickEnds, RebootFails, Ages, Tick, NetChanges, loopVars
    <2> QED BY <2>1
  <1> QED BY <1>1, <1>2, <1>3, <1>4, <1>5, <1>6, <1>7, <1>8, <1>9, <1>10
          DEF Next, MainThread, UploaderThread

\* Through every rest, failed restart, hang and restart of the process a stop
\* reaches the loop, the camera's rest is known, and the loop is
\* watched: what StopEnds, CameraWoken and HangEnds need besides fairness.
THEOREM LoopUnderControl == Spec => [](StopHeeded /\ RestKnown /\ LoopWatched)
  <1>1. SupervisionInv /\ LoopInv /\ [Next]_vars => LoopInv'
    <2>1. LoopInv /\ UNCHANGED vars => LoopInv'
      BY DEF LoopInv, StopHeeded, RestKnown, LoopWatched, vars, loopVars, flagVars, heatVars, camVars
    <2> QED BY <2>1, LoopStep
  <1>2. LoopInv => StopHeeded /\ RestKnown /\ LoopWatched
    BY DEF LoopInv
  <1> QED BY LoopInit, <1>1, <1>2, SupervisionInvariant, PTL DEF Spec

=============================================================================
