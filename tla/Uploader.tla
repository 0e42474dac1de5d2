------------------------------ MODULE Uploader ------------------------------
(***************************************************************************)
(* The upload pipeline of the camera agent (src/agent/uploader.py): the    *)
(* main thread captures frames into a bounded drop-oldest queue, or rests  *)
(* and sends heartbeats; the uploader thread takes the queue's head and    *)
(* presigns and PUTs it, spills it to the on-disk store while the network  *)
(* is OFFLINE or the clock has no anchor, probes while OFFLINE, and        *)
(* replays the store oldest-first while ONLINE.                            *)
(*                                                                         *)
(* Both threads talk to the signer, so the network state, the failure      *)
(* counter and the clock are shared: each HTTP round trip is a step that   *)
(* starts and a step that ends, with the other thread free in between.     *)
(* A frame is its number in capture order, which is also the order of the  *)
(* ULIDs the store sorts by.  Durations (backoff, probe interval, replay   *)
(* gap, heartbeat floor) are not counted: a gate that may not be due yet   *)
(* is a nondeterministic choice.                                           *)
(***************************************************************************)
EXTENDS Integers, Sequences, FiniteSets

CONSTANTS MaxFrames,        \* bound: frames 1..MaxFrames are ever captured
          OldFrames,        \* frames 1..OldFrames were cached by earlier boots
          QueueMax,         \* Settings.queue_max
          MaxStore,         \* Settings.cache_max_frames
          OfflineAfter,     \* Settings.offline_after_failures
          ReplayEvery,      \* REPLAY_INTERLEAVE_EVERY
          KeepProvisional,  \* Settings.cache_keep_provisional
          CacheSettings,    \* values of cache_enabled the operator may send
          Settled,          \* the conditions the network may settle in for good
          MaxRestarts       \* bound: process restarts

ASSUME UploaderAssumption ==
  /\ MaxFrames \in Nat \ {0} /\ OldFrames \in 0..MaxFrames
  /\ QueueMax \in Nat \ {0} /\ MaxStore \in Nat \ {0}
  /\ OldFrames <= MaxStore
  /\ OfflineAfter \in Nat \ {0} /\ ReplayEvery \in Nat \ {0}
  /\ KeepProvisional \in BOOLEAN
  /\ CacheSettings \subseteq BOOLEAN
  /\ Settled \subseteq {"up", "asym", "down", "resting"}
  /\ MaxRestarts \in Nat

Frames == 1..MaxFrames
NoFrame == 0
Qualities == {"trusted", "provisional"}

\* What became of a frame: the counters of the code as the sets of frames
\* they count; "uncounted" collects the frames no counter of the code sees.
Tallies == {"uploaded", "replayed", "skipped", "dropped",
            "evicted", "discarded", "uncounted"}

VARIABLES
  main,          \* main thread: what it is doing
  taken,         \* number of the last frame captured
  queue,         \* Uploader._queue
  upc,           \* uploader thread: where in tick() it is
  hand,          \* frame being processed or replayed, NoFrame if none
  late,          \* the frame in hand is a copy of a cached one
  handq,         \* quality of the stamp the frame in hand is uploaded under
  liveSince,     \* Uploader._live_since_replay
  net_state,     \* Uploader.net_state
  failures,      \* Uploader._consecutive_transport_failures, capped
  cache_enabled, \* Uploader.cache_enabled
  anchored,      \* AgentClock._anchor is set
  bootStart,     \* frames above it were captured in this boot
  quality,       \* quality of each frame's stamp, in the queue or on disk
  store,         \* frames in the SpillStore
  tally,         \* what became of the frames that left
  network,       \* "unsettled": anything may happen; else what it settled in
  delivered,     \* <<frame, stamp quality>> pairs S3 holds
  stopping,      \* Uploader._stop is set
  restarts       \* process restarts so far

mainVars == <<main, taken>>
itemVars == <<hand, late, handq>>
handVars == <<upc, itemVars, liveSince>>
netVars == <<net_state, failures, cache_enabled>>
clockVars == <<anchored, quality>>
diskVars == <<store, tally>>
lifeVars == <<stopping, restarts, bootStart>>
envVars == <<network, delivered>>

vars == <<mainVars, queue, handVars, netVars, clockVars, diskVars, lifeVars, envVars>>

----------------------------------------------------------------------------
(* What a signer round trip and a PUT can return: the URL is granted, no    *)
(* frame is wanted, an HTTP error, or no answer.  A PUT whose response is   *)
(* lost has stored the frame all the same.                                  *)

SignAnswers ==
  CASE network \in {"up", "asym"} -> {"granted"}
    [] network = "resting" -> {"skip"}
    [] network = "down" -> {"transport"}
    [] OTHER -> {"granted", "skip", "error", "transport"}

PutAnswers ==
  CASE network \in {"up", "resting"} -> {"stored"}
    [] network \in {"asym", "down"} -> {"transport", "lost"}
    [] OTHER -> {"stored", "error", "transport", "lost"}

----------------------------------------------------------------------------
(* State changes the handlers share                                        *)

\* The uploader goes on with what it has in hand.
Goto(pc) == upc' = pc /\ UNCHANGED <<itemVars, liveSince>>

\* Frames tallied under `where`, added to what is there.
Tally(where, frames) == [tally EXCEPT ![where] = @ \cup frames]

\* A trusted time reading: the first one anchors the clock and restamps the
\* provisional frames of this boot that are in the store.
Corrected ==
  [f \in Frames |-> IF f \in store /\ f > bootStart THEN "trusted" ELSE quality[f]]

Observe ==
  IF anchored THEN UNCHANGED clockVars
  ELSE anchored' = TRUE /\ quality' = Corrected

\* cache_enabled is echoed, or absent, in every answer with a body: a 2xx or
\* a 409, which is one of the HTTP errors.  The operator's last change comes
\* before the network settles.
Adopt ==
  cache_enabled' \in
    {cache_enabled} \cup (IF network = "unsettled" THEN CacheSettings ELSE {})

\* One more transport failure.  It tips an ONLINE agent with its cache on.
Tips ==
  /\ cache_enabled
  /\ net_state = "online"
  /\ failures + 1 >= OfflineAfter

NoteFailure ==
  /\ failures' = IF failures < OfflineAfter THEN failures + 1 ELSE failures
  /\ net_state' = IF Tips THEN "offline" ELSE net_state
  /\ UNCHANGED cache_enabled

\* An HTTP error: the network works.
NoteHttpError == failures' = 0 /\ UNCHANGED net_state

\* Mutant of Oldest: gives up the newest.
NewestInstead(cut) == {f \in store : cut # NoFrame /\ f >= cut}

\* Frames the store gives up to age or to make room: always its oldest.
Oldest(cut) == {f \in store : f <= cut}

\* A PUT or a probe got through.  Coming back ONLINE discards what has
\* outlived CACHE_MAX_AGE_DAYS.
MarkOnline ==
  /\ failures' = 0
  /\ net_state' = "online"
  /\ \/ UNCHANGED diskVars
     \/ /\ net_state = "offline"
        /\ \E cut \in store :
             /\ store' = store \ Oldest(cut)
             /\ tally' = Tally("discarded", Oldest(cut))

\* Spill frame f: evict while the store is full or the disk is under its
\* free-space floor, then write; a failed write drops the frame.
Spill(f) ==
  \E cut \in store \cup {NoFrame} :
    /\ Cardinality(store \ Oldest(cut)) < MaxStore
    /\ \/ /\ store' = (store \ Oldest(cut)) \cup {f}
          /\ tally' = Tally("evicted", Oldest(cut))
       \/ /\ store' = store \ Oldest(cut)
          /\ tally' = [Tally("evicted", Oldest(cut)) EXCEPT !["dropped"] = @ \cup {f}]

\* The uploader is done with a live frame: every ReplayEvery of them it
\* tries one replay even if the queue is not empty.
AfterLive ==
  LET n == liveSince + 1 IN
  /\ liveSince' = IF n >= ReplayEvery THEN 0 ELSE n
  /\ upc' = IF n >= ReplayEvery THEN "replay" ELSE "tick"

PutDown == hand' = NoFrame /\ late' = FALSE /\ handq' = "trusted"

\* The uploader is done with the frame in hand, live or replayed.
Release ==
  /\ PutDown
  /\ IF late THEN upc' = "tick" /\ UNCHANGED liveSince ELSE AfterLive

\* The effect of a heartbeat's answer on the state the threads share.
HeartbeatAnswer ==
  \E a \in SignAnswers :
    \/ a = "transport" /\ NoteFailure /\ UNCHANGED clockVars
    \/ a = "error" /\ NoteHttpError /\ Adopt /\ Observe
    \/ a \in {"granted", "skip"} /\ Adopt /\ UNCHANGED <<net_state, failures>> /\ Observe

----------------------------------------------------------------------------
(* The main thread                                                         *)

\* CaptureLoop.capture_once up to the sink: the frame gets its stamp.
Capture ==
  /\ main = "idle" /\ taken < MaxFrames
  /\ main' = "submit"
  /\ taken' = taken + 1
  /\ quality' = [quality EXCEPT ![taken + 1] =
                    IF anchored THEN "trusted" ELSE "provisional"]
  /\ UNCHANGED <<queue, handVars, netVars, anchored, diskVars, lifeVars, envVars>>

\* Mutant of Submit: an unbounded queue.
SubmitUnbounded ==
  /\ main = "submit"
  /\ queue' = Append(queue, taken)
  /\ main' = "idle"
  /\ UNCHANGED <<taken, handVars, netVars, clockVars, diskVars, lifeVars, envVars>>

\* submit(): put_nowait, or queue.Full.
Submit ==
  /\ main = "submit" /\ Len(queue) < QueueMax
  /\ queue' = Append(queue, taken)
  /\ main' = "idle"
  /\ UNCHANGED <<taken, handVars, netVars, clockVars, diskVars, lifeVars, envVars>>

SubmitFull ==
  /\ main = "submit" /\ Len(queue) = QueueMax
  /\ main' = "full"
  /\ UNCHANGED <<taken, queue, handVars, netVars, clockVars, diskVars, lifeVars, envVars>>

\* get_nowait after queue.Full: the uploader may have emptied it meanwhile.
DropOldest ==
  /\ main = "full"
  /\ main' = "submit"
  /\ \/ queue = <<>> /\ UNCHANGED <<queue, diskVars>>
     \/ /\ queue # <<>>
        /\ queue' = Tail(queue)
        /\ tally' = Tally("dropped", {Head(queue)})
        /\ UNCHANGED store
  /\ UNCHANGED <<taken, handVars, netVars, clockVars, lifeVars, envVars>>

\* A heartbeat from the main thread while the camera rests.
StartHeartbeat ==
  /\ main = "idle"
  /\ main' = "beat"
  /\ UNCHANGED <<taken, queue, handVars, netVars, clockVars, diskVars, lifeVars, envVars>>

HeartbeatAnswered ==
  /\ main = "beat"
  /\ main' = "idle"
  /\ HeartbeatAnswer
  /\ UNCHANGED <<taken, queue, handVars, diskVars, lifeVars, envVars>>

\* SIGTERM, or a "shutdown" answer: the loop ends and, once stop() has given
\* the queue a bounded time to drain, the stop event is set.
Stop ==
  /\ main = "idle"
  /\ main' = "stopped"
  /\ stopping' = TRUE
  /\ UNCHANGED <<taken, queue, handVars, netVars, clockVars, diskVars,
                 restarts, bootStart, envVars>>

----------------------------------------------------------------------------
(* The uploader thread                                                     *)

\* tick() while OFFLINE and the probe is due.
StartProbe ==
  /\ upc = "tick" /\ ~stopping /\ net_state = "offline"
  /\ Goto("probe")
  /\ UNCHANGED <<mainVars, queue, netVars, clockVars, diskVars, lifeVars, envVars>>

\* Mutant of Proofs: a paused or unassigned answer proves nothing.
GrantOnly == {"granted"}

\* Probe answers that flip the agent ONLINE: an HTTP error is not one.
Proofs == {"granted", "skip"}

ProbeAnswered ==
  /\ upc = "probe"
  /\ Goto("poll")
  /\ \E a \in SignAnswers :
       \/ a = "transport" /\ UNCHANGED <<netVars, clockVars, diskVars>>
       \/ /\ a \notin Proofs \cup {"transport"}
          /\ Observe /\ Adopt
          /\ UNCHANGED <<failures, net_state, diskVars>>
       \/ a \in Proofs /\ Observe /\ Adopt /\ MarkOnline
  /\ UNCHANGED <<mainVars, queue, lifeVars, envVars>>

\* Where tick() polls the queue: with no probe before, or after one.
Polls == upc = "poll" \/ (upc = "tick" /\ ~stopping)

\* _handle_wifi_request: a Wi-Fi switch the operator asked for is done, and
\* reported with a heartbeat before the queue is polled.  (The operator's last
\* request comes before the network settles.)
StartReport ==
  /\ Polls /\ network = "unsettled"
  /\ Goto("report")
  /\ UNCHANGED <<mainVars, queue, netVars, clockVars, diskVars, lifeVars, envVars>>

ReportAnswered ==
  /\ upc = "report"
  /\ Goto("poll")
  /\ HeartbeatAnswer
  /\ UNCHANGED <<mainVars, queue, diskVars, lifeVars, envVars>>

\* queue.get() and the head of process(): what decides the fate of item f.
Get(f) ==
  /\ Polls
  /\ queue # <<>> /\ f = Head(queue)
  /\ queue' = Tail(queue)

\* A provisional stamp is never uploaded: spill it (or, with no cache, skip
\* it), then heartbeat for the signer's Date unless one was sent just now.
TakeProvisional ==
  \E f \in Frames :
  /\ Get(f) /\ quality[f] = "provisional"
  /\ \/ cache_enabled /\ Spill(f)
     \/ ~cache_enabled /\ tally' = Tally("skipped", {f}) /\ UNCHANGED store
  /\ \/ net_state = "online" /\ upc' = "beat" /\ UNCHANGED liveSince
     \/ AfterLive
  /\ UNCHANGED <<mainVars, itemVars, netVars, clockVars, lifeVars, envVars>>

TakeOffline ==
  \E f \in Frames :
  /\ Get(f) /\ quality[f] = "trusted"
  /\ cache_enabled /\ net_state = "offline"
  /\ Spill(f)
  /\ AfterLive
  /\ UNCHANGED <<mainVars, itemVars, netVars, clockVars, lifeVars, envVars>>

\* Mutant of LiveQuality: with the cache off nobody looks at the stamp.
AnyQualityUncached == IF cache_enabled THEN {"trusted"} ELSE Qualities

\* Stamps the live path uploads under.
LiveQuality == {"trusted"}

TakeLive ==
  \E f \in Frames :
  /\ Get(f) /\ quality[f] \in LiveQuality
  /\ ~(cache_enabled /\ net_state = "offline")
  /\ hand' = f /\ late' = FALSE /\ handq' = quality[f]
  /\ upc' = "try"
  /\ UNCHANGED <<mainVars, liveSince, netVars, clockVars, diskVars, lifeVars, envVars>>

\* The heartbeat process() sends after a provisional frame.
BeatAnswered ==
  /\ upc = "beat"
  /\ HeartbeatAnswer
  /\ AfterLive
  /\ UNCHANGED <<mainVars, queue, itemVars, diskVars, lifeVars, envVars>>

\* The head of process()'s retry loop; backoff sleeps come before it.
Try ==
  /\ upc = "try" /\ ~stopping
  /\ Goto("sign")
  /\ UNCHANGED <<mainVars, queue, netVars, clockVars, diskVars, lifeVars, envVars>>

GiveUp ==
  /\ upc = "try" /\ stopping
  /\ Release
  /\ tally' = Tally("uncounted", {hand})
  /\ UNCHANGED <<mainVars, queue, netVars, clockVars, store, lifeVars, envVars>>

\* Mutant of ReplayTurn: replays are only interleaved with live frames.
ReplayTurnInterleaved == upc = "replay" /\ net_state = "online" /\ store # {}

\* tick() calls _replay_one: the queue is empty, or enough live frames went by.
ReplayTurn ==
  /\ upc = "replay" \/ (Polls /\ queue = <<>>)
  /\ net_state = "online"
  /\ store # {}

\* Nothing to replay, or REPLAY_MIN_GAP_S has not passed.
SkipReplay ==
  /\ upc = "replay" \/ (upc = "poll" /\ queue = <<>>)
  /\ Goto("tick")
  /\ UNCHANGED <<mainVars, queue, netVars, clockVars, diskVars, lifeVars, envVars>>

\* _replay_one: every REPLAY_DISCARD_CHECK_EVERY replays, the age check.
DiscardOld ==
  /\ ReplayTurn
  /\ \E cut \in store :
       /\ store' = store \ Oldest(cut)
       /\ tally' = Tally("discarded", Oldest(cut))
  /\ Goto("pick")
  /\ UNCHANGED <<mainVars, queue, netVars, clockVars, lifeVars, envVars>>

PickEmpty ==
  /\ upc = "pick" /\ store = {}
  /\ Goto("tick")
  /\ UNCHANGED <<mainVars, queue, netVars, clockVars, diskVars, lifeVars, envVars>>

\* Mutant of Replayable: frames in the order the directory lists them.
AnyReplayable(f) == f \in store /\ (ReplayTurn \/ upc = "pick")

\* The frame replayed next.
Replayable(f) ==
  /\ f \in store
  /\ \A g \in store : f <= g
  /\ ReplayTurn \/ upc = "pick"

\* A frame still provisional counts as uncorrectable.
Uncorrectable(f) == quality[f] = "provisional" /\ ~KeepProvisional

StartReplay ==
  \E f \in store :
  /\ Replayable(f) /\ ~Uncorrectable(f)
  /\ hand' = f /\ late' = TRUE /\ handq' = quality[f]
  /\ upc' = "sign"
  /\ UNCHANGED <<mainVars, queue, liveSince, netVars, clockVars, diskVars, lifeVars, envVars>>

\* _frame_to_item deletes a frame it will not or cannot turn into an item.
ReplayDeletes ==
  \E f \in store :
  /\ Replayable(f)
  /\ store' = store \ {f}
  /\ \/ Uncorrectable(f) /\ tally' = Tally("skipped", {f})
     \/ ~Uncorrectable(f) /\ tally' = Tally("uncounted", {f})  \* unreadable
  /\ Goto("tick")
  /\ UNCHANGED <<mainVars, queue, netVars, clockVars, lifeVars, envVars>>

\* Mutant of TransportFailed: spills the frame and retries it as well.
TransportFailedKeepsTrying ==
  /\ NoteFailure
  /\ IF late THEN Release /\ UNCHANGED diskVars
     ELSE /\ IF Tips THEN Spill(hand) ELSE UNCHANGED diskVars
          /\ Goto("try")

\* An upload attempt failed at the transport: the head item goes to the store
\* if that tipped the agent OFFLINE, else it is retried; a cached frame stays.
TransportFailed ==
  /\ NoteFailure
  /\ IF late THEN Release /\ UNCHANGED diskVars
     ELSE IF Tips THEN Release /\ Spill(hand)
     ELSE Goto("try") /\ UNCHANGED diskVars

HttpFailed ==
  /\ NoteHttpError
  /\ UNCHANGED diskVars
  /\ IF late THEN Release ELSE Goto("try")

\* The signer wants no frames: paused, unassigned or shut down.
Skipped ==
  /\ Adopt /\ UNCHANGED <<net_state, failures>>
  /\ Release
  /\ tally' = Tally("skipped", {hand})
  /\ store' = store \ {hand}

\* Mutant of SignGranted: any answer of the signer proves the uplink.
SignGrantedMarksOnline ==
  /\ Observe /\ Adopt
  /\ Goto("put")
  /\ failures' = 0 /\ net_state' = "online"
  /\ UNCHANGED diskVars

\* A granted URL does not prove the uplink: counter and state stay.
SignGranted ==
  /\ Observe /\ Adopt
  /\ Goto("put")
  /\ UNCHANGED <<net_state, failures, diskVars>>

SignAnswered ==
  /\ upc = "sign"
  /\ \E a \in SignAnswers :
       \/ a = "transport" /\ TransportFailed /\ UNCHANGED clockVars
       \/ a = "error" /\ HttpFailed /\ Adopt /\ Observe
       \/ a = "skip" /\ Skipped /\ Observe
       \/ a = "granted" /\ SignGranted
  /\ UNCHANGED <<mainVars, queue, lifeVars, envVars>>

\* Mutant of PutVerified: a PUT without an answer counts.
PutSent == {"stored", "transport", "lost"}

\* Answers after which the frame counts as uploaded.
PutVerified == {"stored"}

PutAnswered ==
  /\ upc = "put"
  /\ \E a \in PutAnswers :
       /\ delivered' = IF a \in {"stored", "lost"}
                       THEN delivered \cup {<<hand, handq>>} ELSE delivered
       /\ \/ a \in {"transport", "lost"} \ PutVerified /\ TransportFailed
          \/ a = "error" /\ HttpFailed /\ UNCHANGED cache_enabled
          \/ /\ a \in PutVerified
             /\ MarkOnline
             /\ Goto("verified")
             /\ UNCHANGED cache_enabled
  /\ UNCHANGED <<mainVars, queue, clockVars, lifeVars, network>>

\* After the sidecar (best effort): count the frame, delete it if cached.
FinishUpload ==
  /\ upc = "verified"
  /\ Release
  /\ store' = store \ {hand}
  /\ tally' = IF late THEN [Tally("uploaded", {hand}) EXCEPT !["replayed"] = @ \cup {hand}]
              ELSE Tally("uploaded", {hand})
  /\ UNCHANGED <<mainVars, queue, netVars, clockVars, lifeVars, envVars>>

\* _run leaves its loop.
Exit ==
  /\ upc = "tick" /\ stopping
  /\ Goto("exited")
  /\ UNCHANGED <<mainVars, queue, netVars, clockVars, diskVars, lifeVars, envVars>>

----------------------------------------------------------------------------
(* The rest of the world                                                   *)

\* Any thread that builds a status (a /sign body, GET /healthz) may find the
\* system clock NTP-synchronized.
NtpReading ==
  /\ ~anchored
  /\ network # "down"
  /\ Observe
  /\ UNCHANGED <<mainVars, queue, handVars, netVars, diskVars, lifeVars, envVars>>

\* The network settles: what it does from here on it does for good.
Settle ==
  /\ network = "unsettled"
  /\ network' \in Settled
  /\ UNCHANGED <<mainVars, queue, handVars, netVars, clockVars, diskVars, lifeVars, delivered>>

\* Frames that live in memory only: captured and not yet submitted, queued,
\* or being processed.
Pending == IF main \in {"submit", "full"} THEN {taken} ELSE {}
Queued == {queue[i] : i \in 1..Len(queue)}
Live == IF hand # NoFrame /\ ~late THEN {hand} ELSE {}

InMemory == Pending \cup Queued \cup Live

\* The process ends (watchdog exit, crash, reboot, stop) and systemd starts it
\* again, in the same boot or a new one.  (What a power cut takes from the
\* files is SpillStore's.)
Restart ==
  /\ restarts < MaxRestarts
  /\ restarts' = restarts + 1
  /\ tally' = Tally("uncounted", InMemory)
  /\ main' = "idle" /\ queue' = <<>> /\ upc' = "tick" /\ liveSince' = 0
  /\ PutDown
  /\ net_state' = "online" /\ failures' = 0 /\ cache_enabled' = TRUE
  /\ stopping' = FALSE
  /\ \/ UNCHANGED <<anchored, bootStart>>           \* same boot, anchor restored
     \/ anchored' = FALSE /\ UNCHANGED bootStart     \* same boot, anchor not saved
     \/ anchored' = FALSE /\ bootStart' = taken     \* new boot
  /\ UNCHANGED <<taken, quality, store, envVars>>

----------------------------------------------------------------------------

Init ==
  /\ main = "idle" /\ taken = OldFrames
  /\ queue = <<>>
  /\ upc = "tick" /\ hand = NoFrame /\ late = FALSE /\ handq = "trusted"
  /\ liveSince = 0
  /\ net_state = "online" /\ failures = 0 /\ cache_enabled = TRUE
  /\ anchored = FALSE /\ bootStart = OldFrames
  /\ \E q \in [1..OldFrames -> Qualities] :
       quality = [f \in Frames |-> IF f <= OldFrames THEN q[f] ELSE "trusted"]
  /\ store = 1..OldFrames
  /\ tally = [t \in Tallies |-> {}]
  /\ network = "unsettled" /\ delivered = {}
  /\ stopping = FALSE /\ restarts = 0

MainStep ==
  \/ Capture \/ Submit \/ SubmitFull \/ DropOldest
  \/ StartHeartbeat \/ HeartbeatAnswered \/ Stop

UploaderStep ==
  \/ StartProbe \/ ProbeAnswered \/ StartReport \/ ReportAnswered
  \/ TakeProvisional \/ TakeOffline \/ TakeLive \/ BeatAnswered
  \/ Try \/ GiveUp
  \/ SkipReplay \/ DiscardOld \/ PickEmpty \/ StartReplay \/ ReplayDeletes
  \/ SignAnswered \/ PutAnswered \/ FinishUpload \/ Exit

Next == MainStep \/ UploaderStep \/ NtpReading \/ Settle \/ Restart

Spec == Init /\ [][Next]_vars

\* Every call has a timeout, so a started round trip ends and both threads
\* keep running; the probe and the replay wait for the monotonic clock, which
\* makes them due.  Captures, heartbeats, the stop, restarts and the network
\* owe nothing.
Fairness ==
  /\ WF_vars(Submit \/ SubmitFull \/ DropOldest \/ HeartbeatAnswered)
  /\ WF_vars(UploaderStep)

FairSpec == Spec /\ Fairness

----------------------------------------------------------------------------
(* Properties                                                              *)

\* The types, with the bounds the code keeps: queue_max, cache_max_frames,
\* and a failure count that trips at offline_after_failures.
TypeOK ==
  /\ main \in {"idle", "submit", "full", "beat", "stopped"}
  /\ taken \in 0..MaxFrames
  /\ queue \in Seq(Frames) /\ Len(queue) <= QueueMax
  /\ upc \in {"tick", "probe", "report", "poll", "beat", "try", "sign", "put", "verified",
              "replay", "pick", "exited"}
  /\ hand \in Frames \cup {NoFrame}
  /\ late \in BOOLEAN
  /\ handq \in Qualities
  /\ liveSince \in 0..(ReplayEvery - 1)
  /\ net_state \in {"online", "offline"}
  /\ failures \in 0..OfflineAfter
  /\ cache_enabled \in BOOLEAN
  /\ anchored \in BOOLEAN
  /\ bootStart \in 0..MaxFrames
  /\ quality \in [Frames -> Qualities]
  /\ store \subseteq Frames /\ Cardinality(store) <= MaxStore
  /\ tally \in [Tallies -> SUBSET Frames]
  /\ network \in {"unsettled"} \cup Settled
  /\ delivered \subseteq Frames \X Qualities
  /\ stopping \in BOOLEAN
  /\ restarts \in 0..MaxRestarts

Gone == UNION {tally[t] : t \in Tallies}

\* No frame is lost without a trace, kept twice, or worked on after it was
\* settled: each captured frame is in memory, in the store, or counted (as
\* uploaded, skipped, dropped, evicted, discarded, or lost with the process).
FramesAccounted ==
  /\ 1..taken = InMemory \cup store \cup Gone
  /\ InMemory \cap store = {}
  /\ (InMemory \cup store) \cap Gone = {}

\* "Deleted after a verified PUT": what counts as uploaded is in S3.
UploadedIsDelivered ==
  \A f \in tally["uploaded"] : \E q \in Qualities : <<f, q>> \in delivered

\* Whatever leaves the cache by replay, eviction or age leaves it oldest
\* first, and the queue gives up its oldest frames first, however live
\* uploads, spills, overflows and outages interleave.
OldestFirst ==
  /\ \A f \in tally["replayed"] \cup tally["evicted"] \cup tally["discarded"] :
       \A g \in store : f < g
  /\ \A f \in tally["dropped"] : \A i \in 1..Len(queue) : f < queue[i]

\* Capture order is never lost on the way: cached frames are older than the
\* frame being processed, which is older than those queued, which are older
\* than the one just captured; and a replayed frame is the oldest cached.
\* So the store's ULID order, the queue's arrival order and the capture
\* order agree, whoever spills or drops what.
CaptureOrder ==
  /\ \A i, j \in 1..Len(queue) : i < j => queue[i] < queue[j]
  /\ \A f \in store, g \in InMemory : f < g
  /\ \A f \in Live, g \in Queued : f < g
  /\ \A f \in Live \cup Queued, g \in Pending : f < g
  /\ late => \A g \in store : hand <= g

\* With CACHE_KEEP_PROVISIONAL off no frame reaches S3 under an unanchored
\* stamp, on the live path or by replay.
ProvisionalKeptBack ==
  ~KeepProvisional => \A f \in Frames : <<f, "provisional">> \notin delivered

\* Frames that are gone and that S3 never got.
Lost == {f \in Gone : \A q \in Qualities : <<f, q>> \notin delivered}

FD == INSTANCE FrameDelivery
        WITH memory <- InMemory, cached <- store, sent <- delivered,
             claimed <- tally["uploaded"], lost <- Lost

\* The pipeline keeps the promise FrameDelivery makes for it: with two threads,
\* lost answers, outages and restarts, each step does to memory, cache, S3 and
\* the frames lost what one step of FrameDelivery may do, or nothing.
ImplementsFrameDelivery == FD!FDSpec

\* Once the network is back for good, memory and cache drain again and again.
BacklogDrains ==
  (network = "up") ~> (stopping \/ (InMemory = {} /\ store = {}))

\* On a link that passes /sign but kills every PUT the failure counter must
\* trip: no live frame is retried for good while the agent believes itself
\* ONLINE (the incident _observe_response's comment tells of).
AsymmetricLinkTrips ==
  (network = "asym" /\ hand # NoFrame /\ cache_enabled)
    ~> (hand = NoFrame \/ net_state = "offline" \/ stopping)

\* An agent whose signer answers does not stay OFFLINE.
OfflineEnds ==
  (network \in {"up", "resting"}) ~> (stopping \/ net_state = "online")
=============================================================================
