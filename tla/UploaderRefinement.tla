------------------------- MODULE UploaderRefinement -------------------------
(***************************************************************************)
(* Uploader implements FrameDelivery, for every value of its constants.    *)
(* The mapping takes memory, cache, S3 and the frames lost from Uploader's *)
(* state; every step of either thread, of a restart or of the network is   *)
(* one step of FrameDelivery or none.                                      *)
(***************************************************************************)
EXTENDS UploaderProofs

\* What the mapping needs beyond PlacesInv: a frame being replayed is in the
\* cache until its PUT is verified, and S3 has no frame that was not taken.
LateKept == late /\ upc \in {"sign", "put"} => hand \in store
SentTaken == \A f \in Frames, q \in Qualities : <<f, q>> \in delivered => f <= taken

DeliveryInv == PlacesInv /\ LateKept /\ SentTaken

LEMMA LateKeptStep ==
  ASSUME TypeOK, HandOK, LateKept, [Next]_vars
  PROVE  LateKept'
  <1> USE DEF LateKept, HandOK
  <1>1. CASE UNCHANGED <<store, hand, late, upc>>
    BY <1>1
  <1>2. CASE upc' \notin {"sign", "put"} \/ ~late'
    BY <1>2
  <1>3. CASE MainStep
    BY <1>1, <1>3 DEF MainStep, Capture, Submit, SubmitFull, DropOldest, StartHeartbeat,
       HeartbeatAnswered, Stop, handVars, itemVars, diskVars
  <1>4. CASE StartReplay
    BY <1>4 DEF StartReplay, diskVars
  <1>5. CASE SignAnswered
    <2>1. CASE SignGranted
      BY <1>5, <2>1 DEF SignAnswered, SignGranted, Goto, itemVars, diskVars
    <2>2. CASE Release
      BY <1>2, <2>2 DEF Release, PutDown
    <2>3. CASE Goto("try")
      BY <1>2, <2>3 DEF Goto
    <2> QED BY <1>5, <2>1, <2>2, <2>3 DEF SignAnswered, TransportFailed, HttpFailed, Skipped
  <1>6. CASE PutAnswered
    <2>1. CASE Release
      BY <1>2, <2>1 DEF Release, PutDown
    <2>2. CASE Goto("try") \/ Goto("verified")
      BY <1>2, <2>2 DEF Goto
    <2> QED BY <1>6, <2>1, <2>2 DEF PutAnswered, TransportFailed, HttpFailed
  <1>7. CASE Try
    BY <1>7 DEF Try, Goto, itemVars
  <1>8. CASE \/ StartProbe \/ ProbeAnswered \/ StartReport \/ ReportAnswered
             \/ TakeProvisional \/ TakeOffline \/ TakeLive \/ BeatAnswered \/ GiveUp
             \/ SkipReplay \/ DiscardOld \/ PickEmpty \/ ReplayDeletes \/ FinishUpload \/ Exit
    BY <1>2, <1>8 DEF StartProbe, ProbeAnswered, StartReport, ReportAnswered, TakeProvisional,
       TakeOffline, TakeLive, BeatAnswered, GiveUp, SkipReplay, DiscardOld, PickEmpty,
       ReplayDeletes, FinishUpload, Exit, Goto, Release, PutDown, AfterLive
  <1>9. CASE NtpReading \/ Settle \/ Restart \/ UNCHANGED vars
    BY <1>1, <1>2, <1>9 DEF NtpReading, Settle, Restart, PutDown, vars, handVars, itemVars, diskVars
  <1> QED BY <1>3, <1>4, <1>5, <1>6, <1>7, <1>8, <1>9 DEF Next, UploaderStep

LEMMA SentTakenStep ==
  ASSUME PlacesInv, SentTaken, [Next]_vars
  PROVE  SentTaken'
  <1>1. taken' \in {taken, taken + 1}
    <2> USE DEF mainVars
    <2>1. CASE MainStep
      BY <2>1 DEF MainStep, Capture, Submit, SubmitFull, DropOldest, StartHeartbeat,
         HeartbeatAnswered, Stop
    <2>2. CASE UploaderStep
      BY <2>2 DEF UploaderStep, StartProbe, ProbeAnswered, StartReport, ReportAnswered,
         TakeProvisional, TakeOffline, TakeLive, BeatAnswered, Try, GiveUp, SkipReplay,
         DiscardOld, PickEmpty, StartReplay, ReplayDeletes, SignAnswered, PutAnswered,
         FinishUpload, Exit
    <2>3. CASE NtpReading \/ Settle \/ Restart \/ UNCHANGED vars
      BY <2>3 DEF NtpReading, Settle, Restart, vars
    <2> QED BY <2>1, <2>2, <2>3 DEF Next
  <1>2. hand <= taken
    BY DEF PlacesInv, Places, PastOrder
  <1>3. \A f \in Frames, q \in Qualities : <<f, q>> \in delivered' => <<f, q>> \in delivered \/ f = hand
    BY DeliveredGrows
  <1>4. taken \in Int /\ \A f \in Frames : f \in Int
    BY PlacesType DEF PlacesInv
  <1> QED BY <1>1, <1>2, <1>3, <1>4 DEF SentTaken

\* The inductive invariant the refinement rests on.
THEOREM DeliveryInvariant == Spec => []DeliveryInv
  <1>1. Init => LateKept /\ SentTaken
    BY DEF Init, LateKept, SentTaken
  <1>2. PlacesInv /\ LateKept /\ SentTaken /\ [Next]_vars => LateKept' /\ SentTaken'
    BY LateKeptStep, SentTakenStep DEF PlacesInv
  <1> QED BY <1>1, <1>2, PlacesInvariant, PTL DEF Spec, DeliveryInv

----------------------------------------------------------------------------
(* What a step does to memory, cache, S3 and the frames lost               *)

\* S3 has of the frames that are gone what it had of them.
SameSentGone ==
  \A f \in Gone, q \in Qualities : <<f, q>> \in delivered' <=> <<f, q>> \in delivered

LEMMA Still ==
  ASSUME UNCHANGED <<store, delivered, tally>>, InMemory' = InMemory
  PROVE  UNCHANGED FD!fdVars
  BY DEF FD!fdVars, Lost, Gone

LEMMA GivesUp ==
  ASSUME NEW E, Gone' = Gone \cup E, SameSentGone
  PROVE  FD!GiveUpAll(E)
  <1>1. \A f : f \in Lost' <=> f \in Lost \/ (f \in E /\ \A q \in Qualities : <<f, q>> \notin delivered')
    BY DEF Lost, SameSentGone
  <1> QED BY <1>1 DEF FD!GiveUpAll, FD!Has

\* The frame in hand is the oldest there is where it is kept.
LEMMA HandFront ==
  ASSUME PlacesInv, hand # NoFrame
  PROVE  /\ hand \in Frames
         /\ hand \in InMemory => FD!OldestIn(InMemory, hand)
         /\ hand \in store => FD!OldestIn(store, hand)
         /\ ~late => hand \in InMemory /\ hand \notin store
         /\ late => hand \notin InMemory
  <1> USE PlacesType DEF PlacesInv
  <1>1. hand \in Frames
    BY DEF TypeOK
  <1>2. CASE late
    <2>1. (\A g \in InMemory : hand < g) /\ (\A g \in store : hand <= g)
      BY <1>2 DEF Places, PastOrder, CaptureOrder
    <2> QED BY <1>1, <1>2, <2>1 DEF FD!OldestIn
  <1>3. CASE ~late
    <2>1. Live = {hand}
      BY <1>3 DEF Live
    <2>2. \A g \in Queued \cup Pending : hand < g
      BY <2>1 DEF Places, CaptureOrder
    <2>3. \A g \in InMemory : hand <= g
      BY <1>1, <2>1, <2>2 DEF InMemory
    <2>4. hand \in InMemory /\ \A g \in store : g < hand
      BY <2>1 DEF InMemory, Places, CaptureOrder
    <2> QED BY <1>1, <1>3, <2>3, <2>4 DEF FD!OldestIn
  <1> QED BY <1>1, <1>2, <1>3

LEMMA HeadFront ==
  ASSUME PlacesInv, NEW f \in Frames, Get(f), UNCHANGED mainVars
  PROVE  /\ FD!OldestIn(InMemory, f) /\ f \notin store
         /\ Live = {} /\ Live' = {} => InMemory' = InMemory \ {f}
         /\ Live' = {f} => InMemory' = InMemory
  <1> USE PlacesType DEF PlacesInv
  <1>1. Pending' = Pending
    BY DEF Pending, mainVars
  <1>2. /\ Live = {} /\ f \in Queued /\ Queued = {f} \cup Queued' /\ f \notin Queued'
        /\ \A g \in Queued' \cup Pending : f < g
    BY TakesHead
  <1>3. f \in InMemory /\ \A g \in store : g < f
    BY <1>2 DEF InMemory, Places, CaptureOrder
  <1> QED BY <1>1, <1>2, <1>3 DEF InMemory, FD!OldestIn

\* A PUT sends the frame in hand, or does not.
LEMMA SendsFront ==
  ASSUME DeliveryInv, upc = "put",
         \/ delivered' = delivered
         \/ delivered' = delivered \cup {<<hand, handq>>}
  PROVE  FD!MaySend /\ SameSentGone
  <1>1. hand # NoFrame
    BY DEF DeliveryInv, PlacesInv, HandOK
  <1>2. hand \in Frames /\ (FD!OldestIn(InMemory, hand) \/ FD!OldestIn(store, hand))
    BY <1>1, HandFront DEF DeliveryInv, LateKept
  <1>3. handq \in Qualities
    BY DEF DeliveryInv, PlacesInv, TypeOK
  <1>4. hand \notin Gone
    BY <1>2 DEF DeliveryInv, PlacesInv, Places, FramesAccounted, FD!OldestIn
  <1> QED BY <1>2, <1>3, <1>4 DEF FD!MaySend, SameSentGone

LEMMA NothingSent ==
  ASSUME delivered' = delivered
  PROVE  FD!MaySend /\ SameSentGone
  BY DEF FD!MaySend, SameSentGone

\* The frame in hand is put down.
LEMMA ReleaseMemory ==
  ASSUME PlacesInv, hand # NoFrame, Release, UNCHANGED <<mainVars, queue>>
  PROVE  InMemory' = InMemory \ {hand}
  <1> USE PlacesType DEF PlacesInv
  <1>1. Pending' = Pending /\ Queued' = Queued /\ Live' = {}
    BY DEF Pending, Queued, Live, mainVars, Release, PutDown
  <1>2. Live = IF late THEN {} ELSE {hand}
    BY DEF Live
  <1>3. \A g \in Queued \cup Pending : hand < g
    BY <1>2 DEF Places, CaptureOrder, PastOrder, InMemory
  <1>4. hand \notin Queued \cup Pending
    BY <1>3
  <1> QED BY <1>1, <1>2, <1>4 DEF InMemory

LEMMA MemoryKept ==
  ASSUME UNCHANGED <<mainVars, queue, hand, late>>
  PROVE  InMemory' = InMemory
  BY DEF mainVars, InMemory, Pending, Queued, Live

----------------------------------------------------------------------------
(* The shared state changes as steps of FrameDelivery                      *)

LEMMA SendRefines ==
  ASSUME UNCHANGED <<store, tally>>, InMemory' = InMemory, FD!MaySend, SameSentGone
  PROVE  FD!SendOrAge
  <1>1. FD!GiveUpAll({})
    BY GivesUp DEF Gone
  <1>2. FD!OldPart({}) /\ {} \in SUBSET store
    BY DEF FD!OldPart
  <1> QED BY <1>1, <1>2 DEF FD!SendOrAge

\* What the store gives up is an old part of it.
LEMMA OldestPart ==
  ASSUME PlacesInv, NEW cut \in store \cup {NoFrame}
  PROVE  FD!OldPart(Oldest(cut)) /\ Oldest(cut) \in SUBSET store
  <1> USE PlacesType DEF PlacesInv
  <1> QED BY DEF FD!OldPart, Oldest, NoFrame

LEMMA AgeRefines ==
  ASSUME PlacesInv, NEW cut \in store,
         store' = store \ Oldest(cut), tally' = Tally("discarded", Oldest(cut)),
         InMemory' = InMemory, FD!MaySend, SameSentGone
  PROVE  FD!SendOrAge
  <1>1. FD!OldPart(Oldest(cut)) /\ Oldest(cut) \in SUBSET store
    BY OldestPart
  <1>2. Gone' = Gone \cup Oldest(cut)
    BY <1>1, TallyOnce DEF PlacesInv, TypeOK, Tallies
  <1>3. FD!GiveUpAll(Oldest(cut))
    BY <1>2, GivesUp
  <1>4. tally'["uploaded"] = tally["uploaded"]
    BY OtherTally DEF PlacesInv, SameUploaded, Tallies
  <1> QED BY <1>1, <1>3, <1>4 DEF FD!SendOrAge

LEMMA MarkOnlineRefines ==
  ASSUME PlacesInv, MarkOnline, InMemory' = InMemory, FD!MaySend, SameSentGone
  PROVE  FD!SendOrAge
  BY SendRefines, AgeRefines DEF MarkOnline, diskVars

LEMMA SpillRefines ==
  ASSUME PlacesInv, NEW f \in Frames, Spill(f),
         FD!OldestIn(InMemory, f), InMemory' = InMemory \ {f}, FD!MaySend, SameSentGone
  PROVE  FD!MoveToCache
  <1>1. PICK cut \in store \cup {NoFrame} :
          \/ /\ store' = (store \ Oldest(cut)) \cup {f}
             /\ tally' = Tally("evicted", Oldest(cut))
          \/ /\ store' = store \ Oldest(cut)
             /\ tally' = [Tally("evicted", Oldest(cut)) EXCEPT !["dropped"] = @ \cup {f}]
    BY DEF Spill
  <1> DEFINE E == Oldest(cut)
  <1>2. FD!OldPart(E) /\ E \in SUBSET store /\ E \in SUBSET Frames
    BY OldestPart DEF PlacesInv, TypeOK
  <1>3. \A g \in store : g < f
    BY DEF FD!OldestIn, PlacesInv, Places, CaptureOrder
  <1>4. \/ store' = (store \ E) \cup {f} /\ FD!GiveUpAll(E)
        \/ store' = store \ E /\ FD!GiveUpAll(E \cup {f})
    <2>1. CASE tally' = Tally("evicted", E) /\ store' = (store \ E) \cup {f}
      <3>1. Gone' = Gone \cup E
        BY <1>2, <2>1, TallyOnce DEF PlacesInv, Tallies
      <3> QED BY <2>1, <3>1, GivesUp
    <2>2. CASE tally' = [Tally("evicted", E) EXCEPT !["dropped"] = @ \cup {f}] /\ store' = store \ E
      <3>1. Gone' = Gone \cup E \cup {f}
        BY <1>2, <2>2, TallyFailedSpill DEF PlacesInv
      <3>2. Gone' = Gone \cup (E \cup {f})
        BY <3>1
      <3> QED BY <2>2, <3>2, GivesUp
    <2> QED BY <1>1, <2>1, <2>2
  <1>5. tally'["uploaded"] = tally["uploaded"]
    BY SpillUploads DEF PlacesInv, SameUploaded
  <1> HIDE DEF E
  <1> QED BY <1>2, <1>3, <1>4, <1>5 DEF FD!MoveToCache

\* A frame that leaves without being uploaded.
LEMMA GiveUpRefines ==
  ASSUME PlacesInv, NEW f \in Frames, NEW w \in Tallies \ {"uploaded"},
         FD!OldestIn(InMemory, f) \/ FD!OldestIn(store, f),
         InMemory' = InMemory \ {f}, store' = store \ {f},
         tally' = Tally(w, {f}), delivered' = delivered
  PROVE  FD!GiveUpOldest
  <1>1. {f} \in SUBSET Frames
    OBVIOUS
  <1>2. Gone' = Gone \cup {f}
    BY <1>1, TallyOnce DEF PlacesInv
  <1>3. FD!GiveUpAll({f})
    BY <1>2, GivesUp, NothingSent
  <1>4. tally'["uploaded"] = tally["uploaded"]
    BY OtherTally DEF PlacesInv, SameUploaded
  <1> QED BY <1>3, <1>4 DEF FD!GiveUpOldest

\* An attempt that failed at the transport, whether or not S3 stored the frame.
LEMMA TransportFailedRefines ==
  ASSUME PlacesInv, hand # NoFrame, TransportFailed, UNCHANGED <<mainVars, queue>>,
         FD!MaySend, SameSentGone
  PROVE  FD!SendOrAge \/ FD!MoveToCache
  <1>1. CASE late
    <2>1. InMemory' = InMemory \ {hand} /\ hand \notin InMemory
      BY <1>1, ReleaseMemory, HandFront DEF TransportFailed
    <2> QED BY <1>1, <2>1, SendRefines DEF TransportFailed, diskVars
  <1>2. CASE ~late /\ Release /\ Spill(hand)
    BY <1>2, ReleaseMemory, HandFront, SpillRefines
  <1>3. CASE Goto("try") /\ UNCHANGED diskVars
    BY <1>3, MemoryKept, SendRefines DEF Goto, itemVars, diskVars
  <1> QED BY <1>1, <1>2, <1>3 DEF TransportFailed

LEMMA HttpFailedRefines ==
  ASSUME PlacesInv, hand # NoFrame, HttpFailed, UNCHANGED <<mainVars, queue>>,
         FD!MaySend, SameSentGone
  PROVE  FD!SendOrAge
  <1>1. CASE late
    <2>1. InMemory' = InMemory \ {hand} /\ hand \notin InMemory
      BY <1>1, ReleaseMemory, HandFront DEF HttpFailed
    <2> QED BY <2>1, SendRefines DEF HttpFailed, diskVars
  <1>2. CASE ~late
    BY <1>2, MemoryKept, SendRefines DEF HttpFailed, Goto, itemVars, diskVars
  <1> QED BY <1>1, <1>2

----------------------------------------------------------------------------
(* Each step is one of FrameDelivery, or none                              *)

FDStep == FD!FDNext \/ UNCHANGED FD!fdVars

LEMMA MainRefines ==
  ASSUME DeliveryInv, MainStep
  PROVE  FDStep
  <1> USE PlacesType DEF DeliveryInv, PlacesInv, FDStep, FD!FDNext
  <1>1. UNCHANGED <<store, delivered, hand, late>>
    BY DEF MainStep, Capture, Submit, SubmitFull, DropOldest, StartHeartbeat, HeartbeatAnswered,
       Stop, handVars, itemVars, diskVars, envVars
  <1>2. Live' = Live /\ (queue' = queue => Queued' = Queued)
    BY <1>1 DEF Live, Queued
  <1>3. queue \in Seq(Frames) /\ Sorted
    BY DEF TypeOK, Places, CaptureOrder, Sorted
  <1>4. CASE Capture
    <2> DEFINE f == taken + 1
    <2>1. f \in Frames
      BY <1>4, UploaderAssumption DEF Capture, TypeOK, Frames
    <2>2. InMemory' = InMemory \cup {f} /\ UNCHANGED tally
      BY <1>2, <1>4 DEF Capture, Pending, InMemory, diskVars
    <2>3. \A g \in InMemory \cup store \cup Gone : g < f
      BY DEF Places, FramesAccounted
    <2>4. tally["uploaded"] \subseteq Gone /\ Lost \subseteq Gone
      BY DEF Gone, Lost, Tallies
    <2>5. ~FD!Has(delivered, f)
      <3>1. \A q \in Qualities : <<f, q>> \notin delivered
        BY <2>1 DEF SentTaken
      <3> HIDE DEF f
      <3> QED BY <3>1 DEF FD!Has
    <2>6. Lost' = Lost
      BY <1>1, <2>2 DEF Lost, Gone
    <2> HIDE DEF f
    <2> QED BY <1>1, <2>1, <2>2, <2>3, <2>4, <2>5, <2>6 DEF FD!CaptureNew
  <1>5. CASE Submit
    <2>1. Pending = {taken} /\ Pending' = {} /\ queue' = Append(queue, taken) /\ UNCHANGED tally
      BY <1>5 DEF Submit, Pending, diskVars
    <2>2. taken \in Frames /\ \A g \in Queued : g < taken
      BY <2>1 DEF Places, CaptureOrder
    <2>3. Queued' = Queued \cup {taken}
      BY <1>3, <2>1, <2>2, LastYoungest
    <2>4. InMemory' = InMemory
      BY <1>2, <2>1, <2>3 DEF InMemory
    <2> QED BY <1>1, <2>1, <2>4, Still
  <1>6. CASE DropOldest /\ queue # <<>>
    <2> DEFINE f == Head(queue)
    <2>1. queue' = Tail(queue) /\ tally' = Tally("dropped", {f}) /\ Pending' = Pending
      BY <1>6 DEF DropOldest, Pending
    <2>2. f \in Frames /\ Queued = {f} \cup Queued' /\ \A g \in Queued' : f < g
      BY <1>3, <1>6, <2>1, HeadOldest
    <2>3. Gone' = Gone \cup {f} /\ tally'["uploaded"] = tally["uploaded"]
      BY <2>1, <2>2, TallyOnce, OtherTally DEF Tallies, SameUploaded
    <2>4. FD!GiveUpAll({f})
      BY <1>1, <2>3, GivesUp, NothingSent
    <2> HIDE DEF f
    <2>5. (\A g \in Live : g < f) /\ (\A g \in Pending : f < g)
      BY <2>2 DEF Places, CaptureOrder
    <2>6. InMemory' = InMemory \ {f} /\ f \in InMemory
      BY <1>2, <2>1, <2>2, <2>5 DEF InMemory
    <2>7. \A g \in InMemory : g < f => g \in Live
      BY <2>2, <2>5 DEF InMemory
    <2>8. \A g, h \in InMemory : g < f /\ h < f => g = h
      BY <2>7 DEF Live
    <2> QED BY <1>1, <2>3, <2>4, <2>6, <2>8 DEF FD!Overflow
  <1>7. CASE \/ SubmitFull \/ StartHeartbeat \/ HeartbeatAnswered \/ Stop
             \/ DropOldest /\ queue = <<>>
    <2>1. UNCHANGED <<queue, tally>> /\ Pending' = Pending
      BY <1>7 DEF SubmitFull, StartHeartbeat, HeartbeatAnswered, Stop, DropOldest, Pending, diskVars
    <2>2. InMemory' = InMemory
      BY <1>2, <2>1 DEF InMemory
    <2> QED BY <1>1, <2>1, <2>2, Still
  <1> QED BY <1>4, <1>5, <1>6, <1>7 DEF MainStep

LEMMA ReplayRefines ==
  ASSUME DeliveryInv, StartReplay \/ ReplayDeletes
  PROVE  FDStep
  <1> USE PlacesType DEF DeliveryInv, PlacesInv, FDStep, FD!FDNext
  <1>1. CASE StartReplay
    <2>1. UNCHANGED <<mainVars, queue, store, delivered, tally>> /\ late'
      BY <1>1 DEF StartReplay, diskVars, envVars
    <2>2. hand = NoFrame
      BY <1>1 DEF StartReplay, Replayable, ReplayTurn, Polls, HandOK
    <2>3. InMemory' = InMemory
      BY <2>1, <2>2 DEF InMemory, Pending, Queued, Live, mainVars
    <2> QED BY <2>1, <2>3, Still
  <1>2. CASE ReplayDeletes
    <2>1. PICK f \in store : /\ Replayable(f) /\ store' = store \ {f}
                            /\ \/ tally' = Tally("skipped", {f})
                               \/ tally' = Tally("uncounted", {f})
      BY <1>2 DEF ReplayDeletes
    <2>2. UNCHANGED <<mainVars, queue, hand, late, delivered>>
      BY <1>2 DEF ReplayDeletes, Goto, itemVars, envVars
    <2>3. FD!OldestIn(store, f)
      BY <2>1 DEF Replayable, FD!OldestIn
    <2>4. InMemory' = InMemory \ {f}
      BY <2>2, MemoryKept DEF Places, FramesAccounted
    <2> QED BY <2>1, <2>2, <2>3, <2>4, GiveUpRefines DEF Tallies
  <1> QED BY <1>1, <1>2

LEMMA TakeRefines ==
  ASSUME DeliveryInv, TakeProvisional \/ TakeOffline \/ TakeLive
  PROVE  FDStep
  <1> USE PlacesType DEF DeliveryInv, PlacesInv, FDStep, FD!FDNext
  <1>1. UNCHANGED <<mainVars, delivered>>
    BY DEF TakeProvisional, TakeOffline, TakeLive, envVars
  <1>2. CASE TakeLive
    <2>1. PICK f \in Frames : Get(f) /\ hand' = f /\ ~late'
      BY <1>2 DEF TakeLive
    <2>2. Live' = {f}
      BY <2>1 DEF Live, NoFrame
    <2>3. InMemory' = InMemory
      BY <1>1, <2>1, <2>2, HeadFront
    <2> QED BY <1>1, <1>2, <2>3, Still DEF TakeLive, diskVars
  <1>3. CASE TakeProvisional \/ TakeOffline
    <2>1. PICK f \in Frames :
            /\ Get(f)
            /\ Spill(f) \/ (tally' = Tally("skipped", {f}) /\ UNCHANGED store)
      BY <1>3 DEF TakeProvisional, TakeOffline
    <2>2. UNCHANGED <<hand, late>>
      BY <1>3 DEF TakeProvisional, TakeOffline, itemVars
    <2>3. Live = {} /\ Live' = {}
      BY <2>1, <2>2, TakesHead DEF Live
    <2>4. /\ FD!OldestIn(InMemory, f) /\ f \notin store
          /\ InMemory' = InMemory \ {f}
      BY <1>1, <2>1, <2>3, HeadFront
    <2>5. CASE Spill(f)
      BY <1>1, <2>4, <2>5, NothingSent, SpillRefines
    <2>6. CASE tally' = Tally("skipped", {f}) /\ UNCHANGED store
      <3>1. store' = store \ {f}
        BY <2>4, <2>6
      <3> QED BY <1>1, <2>4, <2>6, <3>1, GiveUpRefines DEF Tallies
    <2> QED BY <2>1, <2>5, <2>6
  <1> QED BY <1>2, <1>3

LEMMA AnswerRefines ==
  ASSUME DeliveryInv, ProbeAnswered \/ SignAnswered \/ PutAnswered
  PROVE  FDStep
  <1> USE PlacesType DEF DeliveryInv, PlacesInv, FDStep, FD!FDNext
  <1>1. UNCHANGED <<mainVars, queue>>
    BY DEF ProbeAnswered, SignAnswered, PutAnswered
  <1>2. CASE ProbeAnswered
    <2>1. InMemory' = InMemory /\ UNCHANGED delivered
      BY <1>1, <1>2, MemoryKept DEF ProbeAnswered, Goto, itemVars, envVars
    <2>2. MarkOnline \/ UNCHANGED diskVars
      BY <1>2 DEF ProbeAnswered
    <2> QED BY <2>1, <2>2, MarkOnlineRefines, NothingSent, Still DEF diskVars
  <1>3. CASE SignAnswered
    <2>1. hand # NoFrame /\ UNCHANGED delivered
      BY <1>3 DEF SignAnswered, HandOK, envVars
    <2>2. CASE TransportFailed \/ HttpFailed
      BY <1>1, <2>1, <2>2, NothingSent, TransportFailedRefines, HttpFailedRefines
    <2>3. CASE Skipped
      <3>1. FD!OldestIn(InMemory, hand) \/ FD!OldestIn(store, hand)
        BY <1>3, <2>1, HandFront DEF SignAnswered, LateKept
      <3>2. /\ InMemory' = InMemory \ {hand} /\ store' = store \ {hand}
            /\ tally' = Tally("skipped", {hand}) /\ hand \in Frames
        BY <1>1, <2>1, <2>3, ReleaseMemory, HandFront DEF Skipped
      <3> QED BY <2>1, <3>1, <3>2, GiveUpRefines DEF Tallies
    <2>4. CASE SignGranted
      BY <1>1, <2>1, <2>4, MemoryKept, Still DEF SignGranted, Goto, itemVars, diskVars
    <2> QED BY <1>3, <2>2, <2>3, <2>4 DEF SignAnswered
  <1>4. CASE PutAnswered
    <2>1. hand # NoFrame
      BY <1>4 DEF PutAnswered, HandOK
    <2>2. FD!MaySend /\ SameSentGone
      BY <1>4, SendsFront DEF PutAnswered
    <2>3. CASE MarkOnline /\ Goto("verified")
      BY <1>1, <2>2, <2>3, MemoryKept, MarkOnlineRefines DEF Goto, itemVars
    <2>4. CASE TransportFailed \/ HttpFailed
      BY <1>1, <2>1, <2>2, <2>4, TransportFailedRefines, HttpFailedRefines
    <2> QED BY <1>4, <2>3, <2>4 DEF PutAnswered
  <1> QED BY <1>2, <1>3, <1>4

LEMMA EndsRefine ==
  ASSUME DeliveryInv, GiveUp \/ FinishUpload \/ DiscardOld \/ Restart
  PROVE  FDStep
  <1> USE PlacesType DEF DeliveryInv, PlacesInv, FDStep, FD!FDNext
  <1>1. UNCHANGED delivered
    BY DEF GiveUp, FinishUpload, DiscardOld, Restart, envVars
  <1>2. CASE GiveUp
    <2>1. hand # NoFrame /\ ~late
      BY <1>2 DEF GiveUp, HandOK
    <2>2. /\ FD!OldestIn(InMemory, hand) /\ store' = store \ {hand}
          /\ InMemory' = InMemory \ {hand} /\ hand \in Frames
      BY <1>2, <2>1, HandFront, ReleaseMemory DEF GiveUp
    <2> QED BY <1>1, <1>2, <2>2, GiveUpRefines DEF GiveUp, Tallies
  <1>3. CASE FinishUpload
    <2>1. hand # NoFrame /\ <<hand, handq>> \in delivered
      BY <1>3 DEF FinishUpload, HandOK
    <2>2. /\ hand \in Frames /\ handq \in Qualities
          /\ hand \in InMemory => FD!OldestIn(InMemory, hand)
          /\ hand \in store => FD!OldestIn(store, hand)
          /\ InMemory' = InMemory \ {hand} /\ store' = store \ {hand}
      BY <1>3, <2>1, HandFront, ReleaseMemory DEF FinishUpload, TypeOK
    <2>3. Gone' = Gone \cup {hand} /\ tally'["uploaded"] = tally["uploaded"] \cup {hand}
      <3>1. tally \in [Tallies -> SUBSET Frames] /\ {hand} \in SUBSET Frames
        BY <2>2 DEF TypeOK
      <3>2. CASE late
        BY <1>3, <2>2, <3>1, <3>2, TallyReplayed DEF FinishUpload, Tally, Tallies
      <3>3. CASE ~late
        BY <1>3, <3>1, <3>3, TallyOnce DEF FinishUpload, Tally, Tallies
      <3> QED BY <3>2, <3>3
    <2>4. Lost' = Lost
      BY <1>1, <2>1, <2>2, <2>3 DEF Lost
    <2>5. FD!Has(delivered, hand)
      BY <2>1, <2>2 DEF FD!Has
    <2> QED BY <1>1, <2>2, <2>3, <2>4, <2>5 DEF FD!Claim
  <1>4. CASE DiscardOld
    BY <1>1, <1>4, MemoryKept, NothingSent, AgeRefines DEF DiscardOld, Goto, itemVars
  <1>5. CASE Restart
    <2>1. InMemory' = {} /\ UNCHANGED store
      BY <1>5 DEF Restart, InMemory, Pending, Queued, Live, PutDown
    <2>2. InMemory \in SUBSET Frames /\ tally' = Tally("uncounted", InMemory)
      BY <1>5, InMemoryType DEF Restart
    <2>3. ASSUME NEW F \in SUBSET Frames, tally' = Tally("uncounted", F)
          PROVE  Gone' = Gone \cup F /\ tally'["uploaded"] = tally["uploaded"]
      BY <2>3, TallyOnce, OtherTally DEF Tallies, SameUploaded
    <2>4. Gone' = Gone \cup InMemory /\ tally'["uploaded"] = tally["uploaded"]
      BY <2>2, <2>3
    <2>5. FD!GiveUpAll(InMemory)
      BY <1>1, <2>4, GivesUp, NothingSent
    <2> QED BY <1>1, <2>1, <2>4, <2>5 DEF FD!ProcessEnds
  <1> QED BY <1>2, <1>3, <1>4, <1>5

\* Steps that move no frame.
LEMMA OthersStutter ==
  ASSUME \/ StartProbe \/ StartReport \/ ReportAnswered \/ BeatAnswered \/ Try
         \/ SkipReplay \/ PickEmpty \/ Exit \/ NtpReading \/ Settle \/ UNCHANGED vars
  PROVE  FDStep
  <1>1. UNCHANGED <<mainVars, queue, hand, late, store, delivered, tally>>
    BY DEF StartProbe, StartReport, ReportAnswered, BeatAnswered, Try, SkipReplay, PickEmpty,
       Exit, NtpReading, Settle, Goto, vars, handVars, itemVars, diskVars, envVars
  <1> QED BY <1>1, MemoryKept, Still DEF FDStep

LEMMA InitRefines ==
  ASSUME Init
  PROVE  FD!FDInit
  <1>1. InMemory = {} /\ Gone = {}
    BY DEF Init, InMemory, Pending, Queued, Live, Gone, Tallies
  <1>2. store \subseteq Frames /\ tally["uploaded"] = {} /\ delivered = {}
    BY UploaderAssumption DEF Init, Frames, Tallies
  <1> QED BY <1>1, <1>2 DEF FD!FDInit, Lost

\* However its two threads, lost answers, outages, the card and restarts
\* interleave, the pipeline does to memory, cache, S3 and the frames lost what
\* FrameDelivery promises, one step at a time.
THEOREM UploaderDelivers == Spec => ImplementsFrameDelivery
  <1>1. DeliveryInv /\ [Next]_vars => [FD!FDNext]_FD!fdVars
    <2>1. DeliveryInv /\ [Next]_vars => FDStep
      BY MainRefines, ReplayRefines, TakeRefines, AnswerRefines, EndsRefine, OthersStutter
         DEF Next, UploaderStep
    <2> QED BY <2>1 DEF FDStep
  <1> QED BY <1>1, InitRefines, DeliveryInvariant, PTL DEF Spec, ImplementsFrameDelivery, FD!FDSpec

FDP == INSTANCE FrameDeliveryProofs
         WITH memory <- InMemory, cached <- store, sent <- delivered,
              claimed <- tally["uploaded"], lost <- Lost

LEMMA SameSpec == FD!FDSpec <=> FDP!FDSpec
  <1>1. FD!FDInit <=> FDP!FDInit
    BY DEF FD!FDInit, FDP!FDInit
  <1>2. [FD!FDNext]_FD!fdVars <=> [FDP!FDNext]_FDP!fdVars
    <2>1. FD!CaptureNew <=> FDP!CaptureNew
      BY DEF FD!CaptureNew, FDP!CaptureNew, FD!Has, FDP!Has
    <2>2. FD!SendOrAge <=> FDP!SendOrAge
      BY DEF FD!SendOrAge, FDP!SendOrAge, FD!OldPart, FDP!OldPart, FD!MaySend, FDP!MaySend, FD!OldestIn, FDP!OldestIn, FD!GiveUpAll, FDP!GiveUpAll, FD!Has, FDP!Has
    <2>3. FD!MoveToCache <=> FDP!MoveToCache
      BY DEF FD!MoveToCache, FDP!MoveToCache, FD!OldestIn, FDP!OldestIn, FD!OldPart, FDP!OldPart, FD!MaySend, FDP!MaySend, FD!GiveUpAll, FDP!GiveUpAll, FD!Has, FDP!Has
    <2>4. FD!Claim <=> FDP!Claim
      BY DEF FD!Claim, FDP!Claim, FD!Has, FDP!Has, FD!OldestIn, FDP!OldestIn
    <2>5. FD!GiveUpOldest <=> FDP!GiveUpOldest
      BY DEF FD!GiveUpOldest, FDP!GiveUpOldest, FD!OldestIn, FDP!OldestIn, FD!GiveUpAll, FDP!GiveUpAll, FD!Has, FDP!Has
    <2>6. FD!Overflow <=> FDP!Overflow
      BY DEF FD!Overflow, FDP!Overflow, FD!GiveUpAll, FDP!GiveUpAll, FD!Has, FDP!Has
    <2>7. FD!ProcessEnds <=> FDP!ProcessEnds
      BY DEF FD!ProcessEnds, FDP!ProcessEnds, FD!GiveUpAll, FDP!GiveUpAll, FD!Has, FDP!Has
    <2> QED BY <2>1, <2>2, <2>3, <2>4, <2>5, <2>6, <2>7 DEF FD!FDNext, FDP!FDNext, FD!fdVars, FDP!fdVars
  <1> QED BY <1>1, <1>2, PTL DEF FD!FDSpec, FDP!FDSpec

\* So what FrameDelivery's steps come to holds of the pipeline: cached frames
\* are older than those in memory, uploaded ones are in S3, lost ones nowhere.
THEOREM PipelineDelivers == Spec => []FD!Delivers
  <1>1. Frames \subseteq Int
    BY DEF Frames
  <1>2. FDP!FDSpec => []FDP!Delivers
    BY <1>1, FDP!DeliveryDelivers
  <1>3. FD!Delivers <=> FDP!Delivers
    BY DEF FD!Delivers, FDP!Delivers, FD!Has, FDP!Has
  <1> QED BY <1>2, <1>3, SameSpec, UploaderDelivers, PTL DEF ImplementsFrameDelivery

\* And no frame leaves memory and cache but into S3 or, counted, for good.
THEOREM PipelineKeeps == Spec => FD!NoneVanishes
  <1>1. FDP!FDSpec => FDP!NoneVanishes
    BY FDP!DeliveryKeeps
  <1>2. FD!NoneVanishes <=> FDP!NoneVanishes
    BY PTL DEF FD!NoneVanishes, FDP!NoneVanishes, FD!Has, FDP!Has, FD!fdVars, FDP!fdVars
  <1> QED BY <1>1, <1>2, SameSpec, UploaderDelivers, PTL DEF ImplementsFrameDelivery

\* What SpillStore's Put and Delete take from their caller: a frame put is newer
\* than all that are in the cache or that were replayed, evicted or discarded
\* from it, and those that leave are older than those that stay (cache.py:5-6:
\* ULID names sort in capture order).
StoreUsedInOrder ==
  [][/\ \A f \in store' \ store, g \in store \cup Left : g < f
     /\ \A f \in store \ store', g \in store \cap store' : f < g]_FD!fdVars

\* The pipeline keeps to that, whichever of its steps spills, uploads, evicts or
\* discards.
THEOREM UploaderKeepsToStore == Spec => StoreUsedInOrder
  <1> DEFINE Moved == /\ store' \subseteq store \cup InMemory
                      /\ \A f \in store' \ store, g \in store : g < f
                      /\ \A f \in store \ store', g \in store \cap store' : f < g
             InOrder == /\ \A f \in store' \ store, g \in store \cup Left : g < f
                        /\ \A f \in store \ store', g \in store \cap store' : f < g
  <1>1. Frames \subseteq Int
    BY DEF Frames
  <1>2. FDP!FDSpec => FDP!CachedInOrder
    BY <1>1, FDP!DeliveryOrders
  <1>3. FDP!CachedInOrder => [][Moved]_FD!fdVars
    BY PTL DEF FDP!CachedInOrder, FDP!fdVars, FD!fdVars
  <1>4. PlacesInv /\ [Moved]_FD!fdVars => [InOrder]_FD!fdVars
    BY DEF PlacesInv, Places, PastOrder
  <1> HIDE DEF Moved, InOrder
  <1>5. Spec => [][InOrder]_FD!fdVars
    BY <1>2, <1>3, <1>4, SameSpec, UploaderDelivers, PlacesInvariant, PTL DEF ImplementsFrameDelivery
  <1> QED BY <1>5 DEF StoreUsedInOrder, InOrder
=============================================================================
