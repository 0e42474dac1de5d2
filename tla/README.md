# Verification of the camera agent

TLA+ models, TLC runs and TLAPS proofs of the program in `src/agent`: the agent
that runs on a Raspberry Pi, captures a frame every few seconds and uploads it
through presigned URLs, and that must lose as few frames as it can through
outages, restarts and power cuts.

## 1. The system

Threads: the **main** thread (capture loop, gates, heartbeats while the camera
rests), the **uploader** thread (`Uploader._run`), the **watchdog** daemon, and
the **viewer**'s HTTP threads. They share the upload queue, the network state
and failure counter (`net_state`, `_consecutive_transport_failures`), the clock
and, through `apply_resync`, the spill cache.

| component | source | state | operations | hard behaviour | what makes it correct |
|---|---|---|---|---|---|
| upload pipeline | `uploader.py` | queue, frame in hand, ONLINE/OFFLINE, failure counter, interleave counter, `cache_enabled` | `submit`, `tick`, `process`, `_replay_one`, `_maybe_probe`, `_sign`, `_upload_once`, `send_heartbeat`, `apply_resync`, `stop` | two threads between the start and the end of every HTTP call; lost answers; asymmetric links; crashes | no frame lost untold or kept twice; oldest goes first; provisional stamps never uploaded; backlog drains; OFFLINE trips and ends |
| spill cache | `cache.py` | `.jpg`, `.json`, `.tmp` files, index | `put`, `evict_to_bounds`, `delete`, `restamp`, `_scan`, `discard_older_than` | crash or power cut at any file operation, read-only card, `restamp` from another thread | atomic, bounded, oldest first, index equals disk |
| clock | `clock.py` | anchor, provisional seed, online flag, `anchor.json` | `observe_trusted`, `maybe_poll_ntp`, `now`, `persist_now` | read by all threads without a lock; crash between anchor and restamp | anchored time right; stamps corrected rightly, and once |
| capture loop | `capture.py` | running flag, `last_tick` | `run`, `capture_once`, window arithmetic | window over midnight, dynamic interval | captures only inside the window |
| lifecycle, watchdog | `main.py` | camera rested, window idle, stop event | gates, `_watchdog`, `_run_cameraless`, shutdowns | hang against rest; stop during a capture | a hang is restarted, a rest is not |
| self-healing | `net_heal.py` | last success, last kick, counts | `check`, `note_success` | spacing of kicks and reboots; death between radio off and on | silence is healed, at a bounded pace |
| thermal guard | `thermal.py` | paused, shutdown streak | `check` | hysteresis with unreadable sensor | pauses and resumes at its thresholds |
| desired Wi-Fi | `wifi.py` | last request id per kind, outcomes, `wifi-ack.json` | `handle`, `scan`, `apply` | requests repeated, out of order, crash during a switch | each request applied once and answered, roll-back |
| enrollment | `enroll.py` | pending secret, credential file | `resolve_identity`, `enroll` | lost answers, crash | never without a credential the server knows |
| camera, night mode | `camera.py` | night controller, exposure | `capture_jpeg`, `_probe_ae` | hysteresis, draining of frames | no flapping |
| solar day | `solar_day.py`, `dam_shared/solar.py` | coordinates | `resolve`, `in_golden`, `night_active` | polar days, floating point | |
| viewer | `viewer.py` | latest frame, client count | `publish`, `wait_newer_than`, stream | client that leaves mid-frame | count returns to zero |
| configuration, installation | `config.py`, `constants.py`, `scripts/`, `systemd/` | none after start | | | |

Interaction: the capture loop calls the gates (which send heartbeats) and then
`capture_once`, whose sink is `Uploader.submit`. The uploader takes frames from
the queue, presigns with `/sign` (which carries the status, and whose answer
carries the time, `cache_enabled` and the relayed requests) and PUTs to S3.
Every answer feeds the clock; the first reading makes `apply_resync` restamp
the cache on whichever thread received it.

`PROJECT.json` lists, per component, what is modelled, and every hazard with
the line where it bites and the properties that would catch it.

## 2. Modules

**`Uploader`** is the pipeline: the main thread's and the uploader thread's
program counters (`main`, `upc`) and the state they share. An HTTP round trip
is two steps, so the other thread, the network and a crash can come between.
A frame is its number in capture order. What the code only counts
(`_uploaded`, `_dropped`, `_skipped`, `evicted`, `discarded`) is kept as the set
of frames counted (`tally`); `"uncounted"` holds the frames no counter sees: a
frame given up because the agent stops, an unreadable cached frame, and what was
in memory when the process ended.

| code | model |
|---|---|
| `submit` | `Submit`, `SubmitFull`, `DropOldest`: three steps, as the uploader may take the head between `queue.Full` and `get_nowait` |
| `tick` | `StartProbe`, `StartReport`, `Get` (the `Take*` actions), `AfterLive`, `ReplayTurn`, `SkipReplay` |
| `process` | `TakeProvisional`, `TakeOffline`, `TakeLive`, then `Try`, `SignAnswered`, `PutAnswered`, `FinishUpload`, or `GiveUp` |
| `_replay_one`, `_frame_to_item` | `DiscardOld`, `PickEmpty`, `StartReplay`, `ReplayDeletes`, and the same sign and PUT steps with `late` set |
| `_sign`, `_upload_once` | `SignAnswers`, `PutAnswers`: granted, skip (paused, unassigned, shutdown), HTTP error, transport failure; a PUT may also be stored with its answer lost |
| `_note_failure`, `_go_offline`, `_mark_online` | `NoteFailure`, `NoteHttpError`, `MarkOnline` (with the age discard it makes) |
| `_observe_response`, `observe_trusted`, `apply_resync` | `Observe`: the first reading anchors and restamps what the store holds of this boot |
| `send_heartbeat` | `StartHeartbeat`/`HeartbeatAnswered` on the main thread, `BeatAnswered` and `ReportAnswered` on the uploader |
| `SpillStore` | the set `store`, with `Spill` and `Oldest`; its files are `SpillStore`'s business |

What is abstracted: durations. A gate that compares `monotonic()` with a
deadline (probe interval, replay gap, heartbeat floor, age of a frame, free
space) may be due or not at any visit. Qualities `synced` and `holdover` are one
(`"trusted"`): nothing in the pipeline tells them apart except holdover drift,
which is `AgentClock`'s business. Capturing a frame is one step: that its time
and its quality are read at two moments is in that module too. A signer
answer always carries a readable `Date`. The network is `"unsettled"` (any answer at
any time) until it may settle for good in one of the conditions of `Settled`,
which is what the liveness properties start from.

**`FrameDelivery`** is what the pipeline promises for its frames, with threads,
answers and network states left out: frames enter memory in capture order, S3 is
sent the oldest in memory or cache, a frame moves to the cache as the newest there,
leaves uploaded once S3 has it, and is lost only from an old end (but for the one
in hand, when the queue overflows) or with the process, and only if S3 never got
it. `Uploader` implements it under `memory <- InMemory` (queue, frame in hand, new
frame), `cached <- store`, `sent <- delivered`, `claimed <- tally["uploaded"]` and
`lost <- Lost`, the frames in a tally that S3 does not have
(`ImplementsFrameDelivery`). Most steps of either thread are stutters under it; one
answer may be two things at once, as when the lost answer to a PUT tips the agent
OFFLINE and its frame moves to a cache that has to evict: `MoveToCache` allows just
that much.

**`SpillStore`** is the cache, file by file. `put` is `Put`, then `Evict` and
`NoRoom`/`RoomMade`, the `.tmp` and rename of the stamp and then of the frame
(`WriteTmp`, `NameStamp`, `WriteTmp`, `NameFrame`), and `Indexed`, or
`WriteFails` and `Undo`. `delete` is `UnlinkFrame`, `UnlinkStamp`, `Pop`.
`restamp` runs on another thread (`Restamp`, `RestampTmp`, `RestampName`). Between any
two of these the process may die (`Crash`), the power may go (`PowerCut`: each
file is found as it was last written back or as it was last written, an
unsynced stamp possibly torn), and the card may turn read-only (`Remount`,
after which writes fail and unlinks are silently lost). `Start` is `_scan`.
The caller's part is a guard of `Put` (a new frame is newer than all before)
and of `Delete` (only the oldest goes). `Uploader` is where these are established:
the theorem `UploaderKeepsToStore` says so of the frames in the cache and of those
replayed, evicted or discarded from it.

**`FrameStore`** is what `cache.py` promises under "Guarantees", as a
specification: frames enter whole and in order, leave oldest first, survive the
process, and a power cut takes back or brings back only what had not settled on
the card. `SpillStore` implements it under `held <- frames`,
`settled <- onCard` (`ImplementsFrameStore`).

**`AgentClock`** is the clock with those who read and feed it, with nothing
locked. A capture is `Shoot` (`utc_at` reads the anchor), `ShotStamped` or
`ShotAsserts` (it goes on to the seed, which may be gone), and `Taken` (the
quality is asked for, the frame queued). A trusted reading is `Observe` (with
the rate limits, `Heeded`), `Set` (the new anchor and the `Resync`), `Save`
(`persist_now`, then the listing of `apply_resync`) and one `Restamp` per frame,
on any thread, each of which may fail to be written; the uploader spills, settles, goes OFFLINE and back in between
(`Spill`, `Settle`, `GoOffline`, `GoOnline`); a `Restart` of the process or the
device comes at any point. Times are whole numbers; the crystal may `Slip`; the
system clock of a start is right or far behind. A stamp is kept as how far it is
off, so "corrected rightly" is a number to compare with the slips. How much of a
holdover drift a frame gets is left out, only whether it gets any.

**`RelayedRequests`** is what answers of the signer ask of the device.
Answers are stashed by the main thread (`MainSigns`, `MainStashes`) or the
uploader (`UploaderSigns`); `TakeWifi`/`ClearWifi` and
`TakeReenroll`/`ClearReenroll` are the two halves of the unlocked swap, taken when
the uploader is between frames: `TakeFrame` and `FrameDone` are the start and the
end of `process()`, which may also try one frame for ever (`up = "frame"`). A switch
is `BeginApply` (with the acknowledgement), `Delete`, `Add`, `Connect`, `Retreat`,
`CleanUp`, `Record`; `Scan` is one step. `_nmcli` never raises, so each command may be
refused, missing or timed out, with its work done, half done or not done: a deletion,
whose result nobody looks at, leaves any part of the profiles of that name (`Drop`; NetworkManager
keeps several of one name), an addition may have worked though it failed, after
which `apply()` returns without deleting it (`Add`), and `Connect` and `Retreat` may leave
the old network or not. `lost.nets` notes whom a bad profile is to be blamed on. An
enrollment is `Pend`, `PostAnswered`/`PostFails`/`PostRefused`,
`WriteCredential`, `Adopt`, at the start (`Boot`, without end) or relayed
(`REENROLL_ATTEMPTS` times). The signer (relays until reported, used or expired;
accepts a used token again with the same secret only; drops the old secret at
acceptance) and NetworkManager (connects by itself to a network in range with a
good profile) are external assumptions, from `docs/protocol.md` and the
comments in `wifi.py`.

**`Supervision`** is what keeps the agent going: the main thread through
start-up, camera-less mode, gate, rest, wake, capture, preview slices and stop
(`main`), the watchdog, `ThermalMonitor`, the camera's exposure regime, and the
healer on the uploader thread. Every call into the camera returns, raises or
never returns. Two clocks run in units of their own: the healer's (`Tick`), and the
watchdog's, `age`, the time since `last_tick` or, before the first, since the start.
`Ticked` resets it, where `run()` and `_wait_with_preview` set `last_tick`; a call that
returns adds up to `CallTime` (`Takes`), one that does not lets it grow (`Ages`).
`Stalled` compares it with `StallLimit` at any value `_interval_s()` may have when
the watchdog looks, so a false alarm is something the model can do.

**`MCUploader`**, **`MCSpillStore`**, **`MCAgentClock`**, **`MCRelayedRequests`**
and **`MCSupervision`** with their `.cfg` files are the TLC instances; they also
hold what comments of the code claim and its behaviours refute, and
`MCSupervision` the promises of the supervision. **`UploaderProofs`**,
**`UploaderRefinement`**, **`FrameDeliveryProofs`**, **`SpillStoreProofs`**,
**`AgentClockProofs`**, **`RelayedRequestsProofs`** and **`SupervisionProofs`** hold
the theorems.

Composition. `Uploader` establishes what `SpillStore` and `AgentClock` take from
their caller (order of puts, who is spilled when); `Supervision` and
`RelayedRequests` see of the uploader only whether it is between frames, which is
when `tick` serves the healer and the requests. The modules are not composed into
one: each shares with the others an interface of one or two variables, and the
product would be far out of TLC's reach.

## 3. Runs

| run | question | bounds |
|---|---|---|
| `uploader_order` | Are types and bounds kept, and does any interleaving of overflow, spill, eviction, discard and replay break the order? (`TypeOK`, `CaptureOrder`, `OldestFirst`) | 3 frames, queue 2, cache 2, OFFLINE after 1 failure, a replay turn after every live frame, no restart |
| `uploader_restart` | Is each frame accounted for, through a restart at any point, and does the pipeline implement `FrameDelivery`? (`FramesAccounted`, `UploadedIsDelivered`, `ProvisionalKeptBack`, `ImplementsFrameDelivery`) | 2 frames, queue 1, cache 2, OFFLINE after 2 failures, a replay turn after 2 live frames, 1 restart |
| `uploader_live` | Once the network settles, does the agent recover? (`BacklogDrains`, `AsymmetricLinkTrips`, `OfflineEnds`) | 1 cached frame of an earlier boot and 1 new one, OFFLINE after 2, `CACHE_KEEP_PROVISIONAL` on, the cache never switched off (the operator's switch is in the two safety runs) |
| `spill_store` | Is the cache atomic, bounded, oldest-first, and consistent after crashes, and does it implement `FrameStore`? | 3 frames, cache of 1, 1 crash or power cut |
| `agent_clock` | Is the anchored time right, are corrections right and made once, and what escapes them? (`AnchoredTimeRight`, `RestampedRight`, `CorrectedOnce`, `AnchoringCostsOneFrame`, `StrandedExplained`) | 1 frame (a settled one makes room for another), both threads, times 0 to 3, refresh after 1, 1 slip, 2 starts |
| `relayed_requests` | Are relayed requests applied once, answered, and never at the price of the network or the credential? (nine properties) | 2 networks, 2 attempts, 2 of: Wi-Fi request, token, crash; any nmcli command or write may fail, any frame may be tried for ever |
| `supervision` | Does a hot camera rest and wake, does the watchdog exit on every hang and on nothing else, do stops end the process, is a silent network healed at a bounded pace? (nine properties) | shutdown after 2 readings; kick after 1, reboot after 2 units; stall limit 3 or 4 units (at least 3, twice an interval of 1 or 2), a call up to 1 |
| `resync`, `final_stamp`, `offline_spill`, `clock_seed`, `lost_answer` | Five statements of the code's comments that its behaviours refute (section 5) | as small as shows the behaviour |

Why these bounds are enough to be interesting. Three frames fill a queue of two
and overflow it, and fill a cache of two and evict; with two in the cache
oldest and newest differ. A failure threshold of two separates one failure from
a consecutive pair, which is what the counter's resets are about; the order run
uses one, since there only the fact of going OFFLINE matters. One restart
suffices to find a frame uploaded but not deleted, and an anchor saved or not.
A cache of one with three frames makes `put` evict every time, so every file
operation of an eviction nests in one of a put, and a power cut can revive a
deleted frame and take the store over its bound, from where the next put must
bring it back, oldest first (with two crashes the same run also passes, in
more time). The proofs then cover
every value of the constants for all invariants and action properties of the
runs.

In `agent_clock` one frame slot is refilled after every upload, so a frame meets
two refreshes, both threads inside `observe_trusted`, and a restart or reboot
between any two steps; a time bound of three lets an anchor be fresh, due for a
refresh and stale (`2 * RefreshS`), and leaves a drift window on either side of a
frame. In `relayed_requests` two incidents allow a request and a crash in it, a
request after another of either kind, a switch during an enrollment; two networks
tell the one asked for from the one left. In `supervision` two readings separate
one critical reading from a streak, and two units a kick from a reboot; three calls
of a unit just fit into the least stall limit, so one tick too few is a false alarm,
and a loop may be stalled at one interval and not at the other; nothing else there
is bounded, so the process restarts and the device reboots any number
of times.

`CHECK_DEADLOCK FALSE` in all but `supervision`: the system really stops (`Stop`,
`Exit`), and the number of frames, restarts, instants and incidents is bounded.
`Supervision` never stops (systemd restarts the process, the device boots again)
and is checked for deadlock.

**Fairness** (`FairSpec`). In `Uploader`: weak fairness of the uploader thread as a whole and
of the main thread's continuations of what it began: every `urlopen` has a
timeout and every `sleep` is finite, so both threads keep taking steps. Gates
that compare the monotonic clock with a deadline come due because that clock
advances: an uploader with nothing else to do sits at the head of `tick` until
the probe (`StartProbe`, while OFFLINE) or the replay (`StartReport` aside, the
only steps left with an empty queue) is due, so an idle poll that changes
nothing is not a step of the model. A poll that finds a frame may come before
the probe, any number of times while frames last.
No fairness is assumed of captures, heartbeats, the operator's stop, restarts
or the network settling.

In `RelayedRequests`: weak fairness of the handlers' steps (each `nmcli` call and
HTTP call has a timeout), of the main thread's stash and of autoconnect; strong
fairness of taking a request, as `tick` looks for one first whenever the uploader is
between frames. That it is there time and again is not assumed, because
`process()` may try one frame without end (`uploader.py:345`: no cache, or an HTTP
error at each attempt): there is no fairness of `FrameDone`, and `RequestAnswered` and
`TokenTraded` have `[]<>(up # "frame")` as a hypothesis, as `SilenceHealed` and
`RadioBack` have their exception. Strong fairness of `/sign` by one thread or the
other, as the uploader signs for every frame and the main thread sends heartbeats
while the camera rests, when there are none (a camera whose every capture raises
sends neither; the requests then wait); and strong fairness
of the first write, the answered POST and the last write of an enrollment, whose
retry makes sense only if one of them works in the end. None of requests,
tokens, expiry, crashes or the end of a frame.

In `Supervision`: weak fairness of the main thread, the uploader thread, the
watchdog, its clock during a hang (`Ages`) and systemd's start; of systemd's kill only where a stop meets a start
that never returns (`TimeoutStopSec`); strong fairness of time, of a wake that is
tried again at every gate, and of the radio's "on" that is tried again at every
kick. None of what may go wrong: hangs, failures, heat, crashes, the network,
stops. Nor of captures, which a hot camera or a closed window keep away.

## 4. Proofs

`UploaderProofs` proves, for all values of the constants that satisfy
`UploaderAssumption` (positive bounds, old frames fit in the cache):

* `TypeCorrect`: `Spec => []TypeOK`, which includes that the queue never
  exceeds `queue_max`, the cache never `cache_max_frames`, and the failure
  counter never passes the threshold (it is capped there in the model).
* `PlacesInvariant`: `Spec => []PlacesInv`, the inductive invariant.
* `EveryFrameAccounted`, `CaptureOrderKept`, `LeaveOldestFirst`,
  `ProvisionalStaysBack`, `UploadsAreDelivered`.
* `UploadedClass`: a live frame, or with `CACHE_KEEP_PROVISIONAL` off a replayed one
  too, is in S3 under the quality class (trusted or provisional) that is still its
  own when the PUT is verified. That is the part about the class of what
  `uploader.py:591` says of replayed frames. It is not that the stamp does not change:
  a refresh in the `/sign` of a replayed holdover frame may put a drift share into
  its file after its item was built (`clock.py:242-253`, `uploader.py:536-542`), and
  drift is not in this module.
* `AsymmetryCounts`: on a link that passes `/sign` and kills PUTs an ONLINE agent's
  failure count never goes back and every lost PUT raises it.

The argument. None of these is inductive by itself. `PlacesInv` adds to
`TypeOK` what the uploader has in hand at each program point (`HandOK`: a frame
being tried, signed, PUT or finished is in hand; no provisional frame is in
hand with `CACHE_KEEP_PROVISIONAL` off; a frame past a verified PUT is in S3) and `Places`: `FramesAccounted` and `CaptureOrder`
together with the order of what is already gone against what is still here
(`PastOrder`). The three parts need each other: the queue's head can be spilled
as the newest cached frame only because every cached frame is older than every
frame in memory; a frame taken out of a place is disjoint from the others only
because accounting is exact. Each step of `Next` gets one lemma; steps that
share a handler (a failed attempt, a heartbeat's answer, a spill) share a lemma
about it. The temporal theorems combine these by PTL.

`UploaderRefinement` proves that `Uploader` implements `FrameDelivery`
(`UploaderDelivers`), again for all values of the constants. The initial states map
to initial states; every step maps to a step or a stutter, one lemma per handler,
with `PlacesInv` and two more facts (`DeliveryInv`): a frame being replayed is in
the cache until its PUT is verified (`LateKept`: a discard by age may take it only
afterwards), and S3 has only frames that were taken (`SentTaken`), so a new frame is
never one it has. `FrameDeliveryProofs` proves what `FrameDelivery` comes to, for any
set of integers as frames: `DeliveryDelivers` (cached frames are older than those in
memory; uploaded, lost and still here exclude each other; lost means nowhere),
`DeliveryKeeps` (no frame vanishes) and `DeliveryOrders` (the cache is a queue). The
refinement carries them to the pipeline: `PipelineDelivers`, `PipelineKeeps`, and
`UploaderKeepsToStore`, which is what `SpillStore` takes from its caller.

`SpillStoreProofs` proves the same of the cache, for any set of ULIDs, any
`max_frames` and any number of crashes and power cuts, from
`SpillStoreAssumption`: all five invariants of the run `spill_store`
(`StoreTypeCorrect`, `FramesStayStamped`, `IndexStaysDisk`, `PutsRestoreBound`,
`NoStampsLeftBehind`) and, as `SpillStoreImplements`, that `SpillStore`
implements `FrameStore`. Its inductive invariant `StoreInv` relates index and
files at every program point (`frames = (index \ Unlinked) \cup Named` while the
card takes writes), says that the frame being put is newer than every file
(`Ordered`), that its stamp is whole before it has a name (`StampInv`), and
which stamps may lack a frame at which point (`LeftoverInv`). In the refinement
only four actions are more than stutters: naming a frame is `Accept`, unlinking
the victim `RemoveOldest`, a writeback `SettleFrame`, a power cut `PowerLoss`.

`AgentClockProofs` proves all six properties of the run `agent_clock` for any set
of frames, one or both threads, and any number of instants, slips and starts. The
inductive invariant `ClockInv` says, besides the types:

* `AnchorInv`: an anchor of this boot, in memory or on disk, is behind by slips
  only. `BusyInv`: while a thread works off a resync the anchor is the one just
  taken, and no capture is under way on that thread. These give
  `AnchoredTimeRight`.
* `SpoiltInv`: a capture that read no anchor, or the seed, is the first that can
  be spoilt (`AnchoringCostsOneFrame`).
* `SoloInv`, `TodoInv`, `OffInv`: as long as no two threads crossed inside
  `observe_trusted`, at most one has something to correct, its listing is what the
  cache still holds, and a provisional frame is off by exactly what the pending
  correction measures (`RestampedRight`).
* `FixInv`: a corrected frame lies before the anchor in memory and the one on
  disk, so the next drift window, which begins there, does not reach it
  (`CorrectedOnce`). An anchor that could not be saved breaks exactly this.
* `AgeInv` and `StrandInv`: what is not corrected yet is in somebody's listing, or
  will be, or was queued (`StrandedExplained`).

`RelayedRequestsProofs` proves the type invariant and the four safety properties
of `relayed_requests`, for any networks, attempts and number of incidents.
`RelayedInv` relates the acknowledgement in memory and on disk to the last switch
begun (`AckInv`), the profiles to the step of the switch and to the crashes and
failed commands to blame for a bad one (`ProfileInv`, which also says that a bad
profile met by a switch with the right password is such a leftover), and the
three places of a secret, file, memory and signer (`SecretInv`): a pending secret
has been given to nobody, or has been accepted and is then the live one. That a
secret is drawn fresh is modelled by a finite pool, and `FreshSecret` proves by
counting that the pool always holds one that nobody has. `AppliedOnce` and
`SecretOnDisk` are action properties, proved from the invariant.

Four more theorems are the safety halves of the module's liveness properties: what
they need of the code besides its scheduling. `DismissalsReported`: a request that
`handle()` dismisses as handled is no longer asked for, or has an outcome that every
later status carries, or one that went with a crash (`OutcomeInv`). `RelayedTokenFresh`: the
token the signer relays is never the one the device is done with (`TokenInv`: a
relayed token is unused and in time, and the device is done only with tokens used or
expired). `FirstEnrollmentGood`: until there is a credential on disk the env file's
token is unused or was used with the pending secret (`FirstInv`), so it is never
refused. `HomeProfileSurvives`: as long as nobody asks to replace the network the
device was set up with, no request in the device is for it (`HomeInv`) and its
profile stays.

`SupervisionProofs` proves the type invariant, `CoolCamera`, `RegimeRight` and
`RebootsSpaced`, for any streak and healing windows. `SupervisionInv` adds to the
types that a full streak has stopped the loop (`StreakInv`), that whatever is taken
for rested does not stream, and where the main thread may be while it is
(`RestInv`), that a closed camera comes up in AE and the flag says so
(`RegimeInv`), and that silence never exceeds the time since the last reboot
command (`SpacingInv`). `NoHangIsMistaken` is the safety half of `HangEnds`: `AgeInv`
bounds the watchdog's clock at each point of the loop (no more than three calls lie
between two ticks), so nothing but a call that never returns exceeds the stall
limit, at any interval. It rests on `SupervisionAssumption`: three calls that return
fit into `CAPTURE_STALL_MIN_S`. That is an assumption about the camera and the network:
a heartbeat's `SIGN_TIMEOUT_S` is a sixth of it, but `urlopen` applies it to each
socket operation, so a server that drips its answer is outside of it.
`LoopUnderControl` is what `StopEnds`,
`CameraWoken` and `HangEnds` need besides scheduling: a stop has reached the loop wherever that runs, the
camera is taken for rested exactly when it was stopped or its stop raised, and the
loop is never exempt from the watchdog.

Each module assumes only the named assumption of its specification; the external
parties (signer, NetworkManager, camera, file system) are part of the
specifications, and the theorems are about them as modelled.

Only model-checked: the liveness itself (`BacklogDrains`, `AsymmetricLinkTrips` and
`OfflineEnds` of the pipeline; `BackOnNetwork`, `RequestAnswered`, `TokenTraded` and
`FirstEnrollmentEnds` of `relayed_requests`; `CameraWoken`, `HangEnds`, `StopEnds`,
`SilenceHealed` and `RadioBack` of `supervision`), as fairness and `ENABLED` are
outside what the prover handles; every other property of a passing run is a theorem.

## 5. What the code does not keep

Each is a run whose counterexample is the behaviour; `PROJECT.json` quotes the
lines.

* `resync`: a provisional frame that is still in the queue when the clock
  anchors is spilled later and never restamped, so replay discards it.
* `final_stamp`: a cached provisional frame of this boot can be replayed by the
  very `/sign` that anchors the clock; it is uploaded under the old stamp.
* `offline_spill`: when a main-thread heartbeat is the failure that tips the
  agent OFFLINE, the uploader's retry loop does not notice; no frame is spilled
  and no probe is sent for the rest of the outage.
* `clock_seed`: a provisional frame that an earlier process of the same boot
  stamped is corrected by the offset of the present process's seed, which is
  another one; it is uploaded as corrected and is not.
* `lost_answer`: a re-enrollment that the signer accepted, but whose answers were
  lost until the attempts ran out (or whose last write failed, or whose process
  died), leaves the device with the old, dead secret. Its `/sign` calls are
  refused, so the token is not relayed again, and a restart loads the old secret
  although the accepted one is in the same file, as pending.

Smaller departures, which the models contain but no run is spent on:

* Cache: a failed write leaves its `.tmp`, outside the bound, until the next start
  (`cache.py:174-187`). A failing `statvfs` reads as no space and empties the
  store (`cache.py:209`).
* Wi-Fi: only the last id of a kind is kept, so an answer that the main thread
  stashes late re-applies an older request (`AppliedOnce` excepts it). A request
  for the network in use deletes its profile first; if the new one cannot be
  added or brought up, none is left (`wifi.py:234`; `BackOnNetwork` excepts
  requests to replace the only good network). A crash during a switch leaves its
  outcome unreported and perhaps a bad profile (`RequestAnswered` and
  `BadProfileGone` except it). Without any crash the profile of a wrong password
  stays, with autoconnect and endless retries, where its deletion fails or times out
  (`wifi.py:234`, `275`) or where `connection add` timed out after it had worked
  (`wifi.py:251-256`), contrary to `wifi.py:12-14`; `BadProfileGone` excepts these three
  and nothing else.
* Starvation: a frame that is tried without end (`uploader.py:345`) keeps Wi-Fi
  requests, tokens and the healer waiting while `/sign` may well be answered.
* Enrollment: the refusal of one token drops a pending secret that another token
  was accepted for (`enroll.py:141`; `SecretOnDisk` excepts it).
* Supervision: a stop requested while `camera.start()` is running, before `run()`
  sets its flag, leaves the loop spinning until a second request or a kill
  (`main.py:382-386`, `capture.py:156`). A stop disarms the watchdog, so a camera
  that hangs in the last `stop()` stays, if the power-off fails. A `stop()` that
  raises leaves the camera open and marked as rested: it never wakes, while the
  loop ticks and the watchdog is content. An unreadable temperature counts as "ok"
  and wakes a paused camera (`thermal.py:89`). An exception in, or a missed drain
  of, an exposure switch leaves the regime wrong until the next switch, as
  `_time_night` is set first (`camera.py:312`). The healer is served between
  frames only, and each start of the process resets its silence, so a process that
  crashes more often than `NETWORK_REBOOT_AFTER_S` never reboots. In camera-less
  mode there is no thermal guard and a probe that hangs is not watched
  (`main.py:399`, `437-440`).

## 6. Limits and plan

Left out of the modules:

* `AgentClock`: the size of a drift share; ULIDs drawn from the system clock, so
  that a backward step reorders the cache; the assertion of `utc_at` where it is
  called by `now()` for the quality and inside `observe_trusted` itself (both cost
  the call in hand, as in `ShotAsserts`).
* `RelayedRequests`: power cuts (`_write_state` does not fsync); `device_id` and
  `device_token` set one after the other; connection names that are not SSIDs;
  networks that move out of range; the interactive enrollment command; a credential
  file that is there but cannot be read, which `_read_state` takes for an empty one.
* `Uploader`: the drift of holdover stamps (see `UploadedClass`). `BacklogDrains` has
  finitely many frames, so it says nothing of a link that stays busy for ever,
  which is what the interleaved replay turn is for.
* `Supervision`: what the loop that spins after an early stop does until somebody ends
  it (`SpinEnds` has only the end); that a stop cuts the sleeps short; lux-driven night mode (`NightController`,
  `_probe_ae`), which `Agent` bypasses by always passing `night_fn`; the capture
  window's arithmetic (a choice at every gate); temperature thresholds equal or in
  an odd order; a thermal shutdown that is switched off (the default) is the case
  of readings below "critical".

Not modelled, and why: the picamera2 and HTTP server calls (hardware and library
I/O); the ephemeris (floating point, outside TLC's numbers); `SolarDay`'s
unlocked recompute, whose data are that ephemeris's (its decision is a free choice
in `Supervision`); environment parsing, run once before any thread starts;
provisioning scripts.

Planned: power cuts in `RelayedRequests`; the capture window's arithmetic over
midnight as an operator checked against a reference definition.
