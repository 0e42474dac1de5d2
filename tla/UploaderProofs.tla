--------------------------- MODULE UploaderProofs ---------------------------
(***************************************************************************)
(* Proofs about Uploader, for every value of its constants: its types and  *)
(* bounds, that every frame is accounted for, that capture order is kept,  *)
(* that what counts as uploaded is delivered, that frames with no trusted  *)
(* time stay back, which stamps are final, and that a one-way link counts. *)
(***************************************************************************)
EXTENDS Uploader, FiniteSetTheorems, TLAPS

\* What the uploader has in hand where it is, and that a frame to submit is
\* one that was taken.
HandOK ==
  /\ main \in {"submit", "full"} => taken # 0
  /\ (upc \in {"try", "sign", "put", "verified"}) <=> (hand # NoFrame)
  /\ late => upc \in {"sign", "put", "verified"}
  /\ upc = "verified" => <<hand, handq>> \in delivered
  /\ (hand # NoFrame /\ ~KeepProvisional) => handq = "trusted"

\* Frames that left the cache, oldest first.
Left == tally["replayed"] \cup tally["evicted"] \cup tally["discarded"]

\* What CaptureOrder needs to be inductive: frames that left the store are
\* older than every frame still to come into it, dropped frames older than
\* those still to be dropped, a replayed frame older than those in memory;
\* and no frame is younger than the last one taken.
PastOrder ==
  /\ \A f \in Left : \A g \in store \cup InMemory : f < g
  /\ \A f \in tally["dropped"] : \A g \in Queued \cup Pending : f < g
  /\ late => \A g \in InMemory : hand < g
  /\ hand <= taken

Places == FramesAccounted /\ CaptureOrder /\ PastOrder

----------------------------------------------------------------------------
(* The store and the tallies stay within their types                       *)

DiskOK ==
  /\ store \subseteq Frames /\ Cardinality(store) <= MaxStore
  /\ tally \in [Tallies -> SUBSET Frames]

LEMMA StoreFinite ==
  ASSUME NEW S \in SUBSET Frames
  PROVE  /\ IsFiniteSet(S) /\ Cardinality(S) \in Nat
         /\ \A T \in SUBSET S : Cardinality(T) <= Cardinality(S)
         /\ \A f \in Frames : Cardinality(S \cup {f}) <= Cardinality(S) + 1
<1>1. IsFiniteSet(1..MaxFrames)
  BY FS_Interval, UploaderAssumption
<1>2. IsFiniteSet(S)
  BY <1>1, FS_Subset DEF Frames
<1>3. Cardinality(S) \in Nat
  BY <1>2, FS_CardinalityType
<1>4. \A T \in SUBSET S : Cardinality(T) <= Cardinality(S)
  BY <1>2, FS_Subset
<1>5. \A f \in Frames : Cardinality(S \cup {f}) <= Cardinality(S) + 1
  <2> TAKE f \in Frames
  <2>1. Cardinality(S \cup {f}) = IF f \in S THEN Cardinality(S) ELSE Cardinality(S) + 1
    BY <1>2, FS_AddElement
  <2> QED
    BY <1>3, <2>1
<1> QED
  BY <1>2, <1>3, <1>4, <1>5

\* Frames leave the store: its bound is kept.
LEMMA StoreShrinks ==
  ASSUME DiskOK, NEW S \in SUBSET store
  PROVE  S \subseteq Frames /\ Cardinality(S) <= MaxStore
<1>1. Cardinality(S) <= Cardinality(store)
  BY StoreFinite DEF DiskOK
<1>2. Cardinality(S) \in Nat /\ Cardinality(store) \in Nat
  BY StoreFinite DEF DiskOK
<1> QED
  BY <1>1, <1>2, UploaderAssumption DEF DiskOK

LEMMA TallyType ==
  ASSUME tally \in [Tallies -> SUBSET Frames],
         NEW w \in Tallies, NEW S \in SUBSET Frames
  PROVE  Tally(w, S) \in [Tallies -> SUBSET Frames]
BY DEF Tally

LEMMA SpillDisk ==
  ASSUME DiskOK, NEW f \in Frames, Spill(f)
  PROVE  DiskOK'
<1>1. PICK cut \in store \cup {NoFrame} :
        /\ Cardinality(store \ Oldest(cut)) < MaxStore
        /\ \/ /\ store' = (store \ Oldest(cut)) \cup {f}
              /\ tally' = Tally("evicted", Oldest(cut))
           \/ /\ store' = store \ Oldest(cut)
              /\ tally' = [Tally("evicted", Oldest(cut)) EXCEPT !["dropped"] = @ \cup {f}]
  BY DEF Spill
<1> DEFINE S == store \ Oldest(cut)
<1>2. S \in SUBSET Frames /\ Oldest(cut) \in SUBSET Frames
  BY DEF DiskOK, Oldest
<1>3. Tally("evicted", Oldest(cut)) \in [Tallies -> SUBSET Frames]
  BY <1>2, TallyType DEF DiskOK, Tallies
<1>4. tally' \in [Tallies -> SUBSET Frames]
  BY <1>1, <1>3
<1>5. store' \subseteq Frames /\ Cardinality(store') <= MaxStore
  <2>1. /\ Cardinality(S) \in Nat
        /\ Cardinality(S \cup {f}) <= Cardinality(S) + 1
        /\ Cardinality(S \cup {f}) \in Nat
    BY <1>2, StoreFinite
  <2> QED
    BY <1>1, <1>2, <2>1, UploaderAssumption
<1> QED
  BY <1>4, <1>5 DEF DiskOK

LEMMA MarkOnlineDisk ==
  ASSUME DiskOK, MarkOnline
  PROVE  DiskOK'
<1>1. CASE UNCHANGED diskVars
  BY <1>1 DEF diskVars, DiskOK
<1>2. CASE \E cut \in store : /\ store' = store \ Oldest(cut)
                             /\ tally' = Tally("discarded", Oldest(cut))
  <2>1. PICK cut \in store : /\ store' = store \ Oldest(cut)
                             /\ tally' = Tally("discarded", Oldest(cut))
    BY <1>2
  <2>2. Oldest(cut) \in SUBSET Frames
    BY DEF DiskOK, Oldest
  <2> QED
    BY <2>1, <2>2, StoreShrinks, TallyType DEF DiskOK, Tallies
<1> QED
  BY <1>1, <1>2 DEF MarkOnline

----------------------------------------------------------------------------
(* Type correctness                                                        *)

\* Groups of variables and what types say of them.
ClockOK == anchored \in BOOLEAN /\ quality \in [Frames -> Qualities]
NetOK ==
  /\ net_state \in {"online", "offline"} /\ failures \in 0..OfflineAfter
  /\ cache_enabled \in BOOLEAN
ItemOK == hand \in Frames \cup {NoFrame} /\ late \in BOOLEAN /\ handq \in Qualities

LEMMA ObserveType ==
  ASSUME ClockOK, Observe
  PROVE  ClockOK'
BY DEF ClockOK, Observe, Corrected, clockVars, Qualities

LEMMA AdoptType ==
  ASSUME cache_enabled \in BOOLEAN, Adopt
  PROVE  cache_enabled' \in BOOLEAN
BY UploaderAssumption DEF Adopt

LEMMA NoteFailureType ==
  ASSUME NetOK, NoteFailure
  PROVE  NetOK'
BY UploaderAssumption DEF NetOK, NoteFailure

LEMMA HeartbeatAnswerType ==
  ASSUME NetOK, ClockOK, HeartbeatAnswer
  PROVE  NetOK' /\ ClockOK'
<1>1. CASE NoteFailure /\ UNCHANGED clockVars
  BY <1>1, NoteFailureType DEF ClockOK, clockVars
<1>2. CASE NoteHttpError /\ Adopt /\ Observe
  BY <1>2, AdoptType, ObserveType, UploaderAssumption DEF NetOK, NoteHttpError
<1>3. CASE Adopt /\ UNCHANGED <<net_state, failures>> /\ Observe
  BY <1>3, AdoptType, ObserveType DEF NetOK
<1> QED
  BY <1>1, <1>2, <1>3 DEF HeartbeatAnswer

LEMMA AfterLiveType ==
  ASSUME liveSince \in 0..(ReplayEvery - 1), AfterLive
  PROVE  /\ liveSince' \in 0..(ReplayEvery - 1)
         /\ upc' \in {"replay", "tick"}
BY UploaderAssumption DEF AfterLive

LEMMA ReleaseType ==
  ASSUME liveSince \in 0..(ReplayEvery - 1), Release
  PROVE  /\ liveSince' \in 0..(ReplayEvery - 1)
         /\ upc' \in {"replay", "tick"}
         /\ hand' = NoFrame /\ late' = FALSE /\ handq' = "trusted"
BY AfterLiveType DEF Release, PutDown

RestOK ==
  /\ main \in {"idle", "submit", "full", "beat", "stopped"}
  /\ taken \in 0..MaxFrames
  /\ queue \in Seq(Frames) /\ Len(queue) <= QueueMax
  /\ upc \in {"tick", "probe", "report", "poll", "beat", "try", "sign", "put", "verified",
              "replay", "pick", "exited"}
  /\ liveSince \in 0..(ReplayEvery - 1)
  /\ bootStart \in 0..MaxFrames
  /\ network \in {"unsettled"} \cup Settled
  /\ delivered \subseteq Frames \X Qualities
  /\ stopping \in BOOLEAN
  /\ restarts \in 0..MaxRestarts

LEMMA TypeParts ==
  /\ TypeOK <=> (RestOK /\ ItemOK /\ NetOK /\ ClockOK /\ DiskOK)
  /\ TypeOK' <=> (RestOK /\ ItemOK /\ NetOK /\ ClockOK /\ DiskOK)'
BY DEF TypeOK, RestOK, ItemOK, NetOK, ClockOK, DiskOK

\* What can happen to the frame in hand when a transport or HTTP failure ends
\* the attempt, or the signer wants no frame.
LEMMA FailureType ==
  ASSUME TypeOK, HandOK, hand # NoFrame,
         \/ TransportFailed
         \/ HttpFailed /\ cache_enabled' \in BOOLEAN
         \/ Skipped
  PROVE  /\ NetOK' /\ DiskOK' /\ ItemOK'
         /\ liveSince' \in 0..(ReplayEvery - 1)
         /\ \/ upc' \in {"replay", "tick"} /\ hand' = NoFrame /\ ~late'
            \/ upc' = "try" /\ hand' = hand /\ ~late' /\ handq' = handq /\ ~late
<1> USE TypeParts
<1>1. CASE TransportFailed
  <2>1. NetOK'
    BY <1>1, NoteFailureType DEF TransportFailed
  <2>2. DiskOK'
    <3>1. CASE UNCHANGED diskVars
      BY <3>1 DEF diskVars, DiskOK
    <3>2. CASE Spill(hand)
      BY <3>2, SpillDisk DEF ItemOK
    <3> QED
      BY <1>1, <3>1, <3>2 DEF TransportFailed
  <2>3. CASE Release
    BY <2>1, <2>2, <2>3, ReleaseType DEF RestOK, ItemOK, Qualities
  <2>4. CASE ~late /\ Goto("try")
    BY <2>1, <2>2, <2>4 DEF Goto, itemVars, RestOK, ItemOK
  <2> QED
    BY <1>1, <2>3, <2>4 DEF TransportFailed, ItemOK
<1>2. CASE HttpFailed /\ cache_enabled' \in BOOLEAN
  <2>1. NetOK' /\ DiskOK'
    BY <1>2, UploaderAssumption DEF HttpFailed, NoteHttpError, NetOK, DiskOK, diskVars
  <2>2. CASE Release
    BY <2>1, <2>2, ReleaseType DEF RestOK, ItemOK, Qualities
  <2>3. CASE ~late /\ Goto("try")
    BY <2>1, <2>3 DEF Goto, itemVars, RestOK, ItemOK
  <2> QED
    BY <1>2, <2>2, <2>3 DEF HttpFailed, ItemOK
<1>3. CASE Skipped
  <2>1. NetOK'
    BY <1>3, AdoptType DEF Skipped, NetOK
  <2>2. DiskOK'
    BY <1>3, StoreShrinks, TallyType DEF Skipped, DiskOK, ItemOK, Tallies
  <2> QED
    BY <1>3, <2>1, <2>2, ReleaseType DEF Skipped, RestOK, ItemOK, Qualities
<1> QED
  BY <1>1, <1>2, <1>3

LEMMA QueueAppends ==
  ASSUME queue \in Seq(Frames), NEW f \in Frames
  PROVE  Append(queue, f) \in Seq(Frames) /\ Len(Append(queue, f)) = Len(queue) + 1
OBVIOUS

LEMMA QueueShrinks ==
  ASSUME queue \in Seq(Frames), queue # <<>>
  PROVE  /\ Head(queue) \in Frames
         /\ Tail(queue) \in Seq(Frames)
         /\ Len(Tail(queue)) = Len(queue) - 1 /\ Len(queue) \in Nat \ {0}
OBVIOUS

LEMMA InitType ==
  ASSUME Init
  PROVE  TypeOK /\ HandOK
<1>1. store \in SUBSET Frames /\ Cardinality(store) <= MaxStore
  BY FS_Interval, UploaderAssumption DEF Init, Frames
<1>2. DiskOK
  BY <1>1 DEF Init, DiskOK, Tallies
<1>3. RestOK
  <2>1. /\ main = "idle" /\ taken = OldFrames /\ queue = <<>> /\ upc = "tick"
        /\ liveSince = 0 /\ bootStart = OldFrames
        /\ network = "unsettled" /\ delivered = {} /\ stopping = FALSE /\ restarts = 0
    BY DEF Init
  <2>2. queue \in Seq(Frames) /\ Len(queue) = 0
    BY <2>1
  <2>3. /\ OldFrames \in 0..MaxFrames /\ 0 \in 0..(ReplayEvery - 1)
        /\ 0 \in 0..MaxRestarts /\ 0 <= QueueMax
    BY UploaderAssumption
  <2>4. stopping \in BOOLEAN
    BY <2>1
  <2>5. delivered \subseteq Frames \X Qualities
    BY <2>1
  <2> QED
    BY <2>1, <2>2, <2>3, <2>4, <2>5 DEF RestOK
<1>4. ItemOK
  BY DEF Init, ItemOK, Qualities
<1>5. NetOK
  <2>1. 0 \in 0..OfflineAfter
    BY UploaderAssumption
  <2> QED
    BY <2>1 DEF Init, NetOK
<1>6. ClockOK
  <2>1. PICK q \in [1..OldFrames -> Qualities] :
           quality = [f \in Frames |-> IF f <= OldFrames THEN q[f] ELSE "trusted"]
    BY DEF Init
  <2>2. \A f \in Frames : f <= OldFrames => q[f] \in Qualities
    <3> TAKE f \in Frames
    <3> HAVE f <= OldFrames
    <3>1. f \in 1..OldFrames
      BY UploaderAssumption DEF Frames
    <3> QED
      BY <2>1, <3>1
  <2>3. quality \in [Frames -> Qualities]
    BY <2>1, <2>2 DEF Qualities
  <2> QED
    BY <2>3 DEF Init, ClockOK
<1>7. HandOK
  BY DEF Init, HandOK
<1> QED
  BY <1>2, <1>3, <1>4, <1>5, <1>6, <1>7, TypeParts

\* Steps of the main thread leave the frame in hand alone.
LEMMA MainType ==
  ASSUME TypeOK, HandOK, MainStep
  PROVE  TypeOK' /\ HandOK'
<1> USE TypeParts DEF mainVars, itemVars, handVars, netVars, clockVars, diskVars, lifeVars, envVars
<1>1. UNCHANGED <<handVars, delivered>> /\ (main' \in {"submit", "full"} => taken' # 0) => HandOK'
  BY DEF HandOK
<1>2. CASE Capture
  <2>1. taken' \in 0..MaxFrames /\ taken' # 0
    BY <1>2, UploaderAssumption DEF Capture, RestOK
  <2>2. ClockOK'
    BY <1>2 DEF Capture, ClockOK, Qualities
  <2> QED
    BY <1>1, <1>2, <2>1, <2>2 DEF Capture, RestOK, ItemOK, NetOK, DiskOK
<1>3. CASE Submit
  <2>1. taken \in Frames
    BY <1>3, UploaderAssumption DEF Submit, RestOK, HandOK, Frames
  <2>2. queue' \in Seq(Frames) /\ Len(queue') <= QueueMax
    BY <1>3, <2>1, QueueAppends, UploaderAssumption DEF Submit, RestOK
  <2> QED
    BY <1>1, <1>3, <2>2 DEF Submit, RestOK, ItemOK, NetOK, ClockOK, DiskOK, HandOK
<1>4. CASE SubmitFull
  BY <1>1, <1>4 DEF SubmitFull, RestOK, ItemOK, NetOK, ClockOK, DiskOK, HandOK
<1>5. CASE DropOldest
  <2>1. DiskOK'
    <3>1. CASE queue # <<>>
      BY <1>5, <3>1, TallyType, QueueShrinks DEF DropOldest, DiskOK, RestOK, Tallies
    <3>2. CASE queue = <<>>
      BY <1>5, <3>2 DEF DropOldest, DiskOK
    <3> QED
      BY <3>1, <3>2
  <2>2. queue' \in Seq(Frames) /\ Len(queue') <= QueueMax
    <3> queue \in Seq(Frames) /\ Len(queue) <= QueueMax
      BY DEF RestOK
    <3>1. CASE queue # <<>> /\ queue' = Tail(queue)
      BY <3>1, QueueShrinks, UploaderAssumption
    <3>2. CASE queue' = queue
      BY <3>2
    <3> QED
      BY <1>5, <3>1, <3>2 DEF DropOldest
  <2> QED
    BY <1>1, <1>5, <2>1, <2>2 DEF DropOldest, RestOK, ItemOK, NetOK, ClockOK, DiskOK, HandOK
<1>6. CASE StartHeartbeat
  BY <1>1, <1>6 DEF StartHeartbeat, RestOK, ItemOK, NetOK, ClockOK, DiskOK, HandOK
<1>7. CASE HeartbeatAnswered
  BY <1>1, <1>7, HeartbeatAnswerType DEF HeartbeatAnswered, RestOK, ItemOK, NetOK, ClockOK, DiskOK, HandOK
<1>8. CASE Stop
  BY <1>1, <1>8 DEF Stop, RestOK, ItemOK, NetOK, ClockOK, DiskOK, HandOK
<1> QED
  BY <1>2, <1>3, <1>4, <1>5, <1>6, <1>7, <1>8 DEF MainStep

\* Taking the head off the queue.
GotItem ==
  /\ queue' \in Seq(Frames) /\ Len(queue') <= QueueMax
  /\ upc \in {"tick", "poll"}

LEMMA GetType ==
  ASSUME TypeOK, NEW f \in Frames, Get(f)
  PROVE  GotItem
<1>1. queue \in Seq(Frames) /\ Len(queue) <= QueueMax
  BY DEF TypeOK
<1>2. queue' \in Seq(Frames) /\ Len(queue') <= QueueMax
  BY <1>1, QueueShrinks, UploaderAssumption DEF Get
<1> QED
  BY <1>2 DEF GotItem, Get, Polls

LEMMA UploaderType ==
  ASSUME TypeOK, HandOK, UploaderStep
  PROVE  TypeOK' /\ HandOK'
<1> USE TypeParts DEF mainVars, itemVars, handVars, netVars, clockVars, diskVars, lifeVars, envVars
<1>1. CASE StartProbe
  BY <1>1 DEF StartProbe, Goto, RestOK, ItemOK, NetOK, ClockOK, DiskOK, HandOK
<1>2. CASE ProbeAnswered
  <2>1. CASE UNCHANGED <<netVars, clockVars, diskVars>>
    BY <1>2, <2>1 DEF ProbeAnswered, Goto, RestOK, ItemOK, NetOK, ClockOK, DiskOK, HandOK
  <2>2. CASE Observe /\ Adopt /\ UNCHANGED <<failures, net_state, diskVars>>
    BY <1>2, <2>2, ObserveType, AdoptType DEF ProbeAnswered, Goto, RestOK, ItemOK, NetOK, ClockOK, DiskOK, HandOK
  <2>3. CASE Observe /\ Adopt /\ MarkOnline
    <3>1. failures' = 0 /\ net_state' = "online" /\ DiskOK'
      BY <2>3, MarkOnlineDisk DEF MarkOnline
    <3>2. NetOK' /\ ClockOK'
      BY <2>3, <3>1, ObserveType, AdoptType, UploaderAssumption DEF NetOK
    <3> QED
      BY <1>2, <3>1, <3>2 DEF ProbeAnswered, Goto, RestOK, ItemOK, NetOK, ClockOK, DiskOK, HandOK
  <2> QED
    BY <1>2, <2>1, <2>2, <2>3 DEF ProbeAnswered
<1>3. CASE TakeProvisional
  <2>1. PICK f \in Frames : Get(f) /\ (Spill(f) \/ (tally' = Tally("skipped", {f}) /\ UNCHANGED store))
    BY <1>3 DEF TakeProvisional
  <2>2. DiskOK'
    <3>1. CASE Spill(f)
      BY <3>1, SpillDisk
    <3>2. CASE tally' = Tally("skipped", {f}) /\ UNCHANGED store
      BY <3>2, TallyType DEF DiskOK, Tallies
    <3> QED
      BY <2>1, <3>1, <3>2
  <2>3. GotItem
    BY <2>1, GetType
  <2>4. liveSince' \in 0..(ReplayEvery - 1) /\ upc' \in {"beat", "replay", "tick"}
    BY <1>3, AfterLiveType DEF TakeProvisional, RestOK
  <2> QED
    BY <1>3, <2>2, <2>3, <2>4 DEF TakeProvisional, RestOK, ItemOK, NetOK, ClockOK, DiskOK, HandOK, GotItem
<1>4. CASE TakeOffline
  <2>1. PICK f \in Frames : Get(f) /\ Spill(f)
    BY <1>4 DEF TakeOffline
  <2>2. DiskOK'
    BY <2>1, SpillDisk
  <2>3. GotItem
    BY <2>1, GetType
  <2>4. liveSince' \in 0..(ReplayEvery - 1) /\ upc' \in {"replay", "tick"}
    BY <1>4, AfterLiveType DEF TakeOffline, RestOK
  <2> QED
    BY <1>4, <2>2, <2>3, <2>4 DEF TakeOffline, RestOK, ItemOK, NetOK, ClockOK, DiskOK, HandOK, GotItem
<1>5. CASE TakeLive
  <2>1. PICK f \in Frames :
          /\ Get(f) /\ quality[f] = "trusted"
          /\ hand' = f /\ late' = FALSE /\ handq' = quality[f]
    BY <1>5 DEF TakeLive, LiveQuality
  <2>2. GotItem
    BY <2>1, GetType
  <2>3. f # NoFrame
    BY DEF Frames, NoFrame
  <2> QED
    BY <1>5, <2>1, <2>2, <2>3 DEF TakeLive, RestOK, ItemOK, NetOK, ClockOK, DiskOK, HandOK, GotItem, Qualities
<1>6. CASE BeatAnswered
  <2>1. liveSince' \in 0..(ReplayEvery - 1) /\ upc' \in {"replay", "tick"}
    BY <1>6, AfterLiveType DEF BeatAnswered, RestOK
  <2> QED
    BY <1>6, <2>1, HeartbeatAnswerType DEF BeatAnswered, RestOK, ItemOK, NetOK, ClockOK, DiskOK, HandOK
<1>7. CASE Try
  BY <1>7 DEF Try, Goto, RestOK, ItemOK, NetOK, ClockOK, DiskOK, HandOK
<1>8. CASE GiveUp
  <2>1. DiskOK'
    BY <1>8, TallyType DEF GiveUp, DiskOK, HandOK, ItemOK, Tallies
  <2> QED
    BY <1>8, <2>1, ReleaseType DEF GiveUp, RestOK, ItemOK, NetOK, ClockOK, DiskOK, HandOK, Qualities
<1>9. CASE SkipReplay
  BY <1>9 DEF SkipReplay, Goto, RestOK, ItemOK, NetOK, ClockOK, DiskOK, HandOK
<1>10. CASE DiscardOld
  <2>1. PICK cut \in store : /\ store' = store \ Oldest(cut)
                             /\ tally' = Tally("discarded", Oldest(cut))
    BY <1>10 DEF DiscardOld
  <2>2. Oldest(cut) \in SUBSET Frames
    BY DEF DiskOK, Oldest
  <2>3. DiskOK'
    BY <2>1, <2>2, StoreShrinks, TallyType DEF DiskOK, Tallies
  <2>4. upc \notin {"try", "sign", "put", "verified"}
    BY <1>10 DEF DiscardOld, ReplayTurn, Polls
  <2> QED
    BY <1>10, <2>3, <2>4 DEF DiscardOld, Goto, RestOK, ItemOK, NetOK, ClockOK, DiskOK, HandOK
<1>11. CASE PickEmpty
  BY <1>11 DEF PickEmpty, Goto, RestOK, ItemOK, NetOK, ClockOK, DiskOK, HandOK
<1>12. CASE StartReplay
  <2>1. PICK f \in store : Replayable(f) /\ ~Uncorrectable(f)
                          /\ hand' = f /\ late' = TRUE /\ handq' = quality[f]
    BY <1>12 DEF StartReplay
  <2>2. f \in Frames /\ f # NoFrame /\ quality[f] \in Qualities
    BY DEF DiskOK, ClockOK, Frames, NoFrame
  <2>3. ~KeepProvisional => quality[f] = "trusted"
    BY <2>1, <2>2 DEF Uncorrectable, Qualities
  <2> QED
    BY <1>12, <2>1, <2>2, <2>3 DEF StartReplay, RestOK, ItemOK, NetOK, ClockOK, DiskOK, HandOK
<1>13. CASE ReplayDeletes
  <2>1. PICK f \in store : /\ Replayable(f)
                          /\ store' = store \ {f}
                          /\ tally' \in {Tally("skipped", {f}), Tally("uncounted", {f})}
    BY <1>13 DEF ReplayDeletes
  <2>2. DiskOK'
    BY <2>1, StoreShrinks, TallyType DEF DiskOK, Tallies
  <2>3. upc \notin {"try", "sign", "put", "verified"}
    BY <2>1 DEF Replayable, ReplayTurn, Polls
  <2> QED
    BY <1>13, <2>2, <2>3 DEF ReplayDeletes, Goto, RestOK, ItemOK, NetOK, ClockOK, DiskOK, HandOK
<1>14. CASE SignAnswered
  <2>1. hand # NoFrame
    BY <1>14 DEF SignAnswered, HandOK
  <2>2. UNCHANGED <<mainVars, queue, lifeVars, envVars>>
    BY <1>14 DEF SignAnswered
  <2>3. CASE /\ \/ TransportFailed
                \/ HttpFailed /\ Adopt
                \/ Skipped
             /\ \/ UNCHANGED clockVars
                \/ Observe
    <3>1. cache_enabled' \in BOOLEAN \/ ~(HttpFailed /\ Adopt)
      BY AdoptType DEF NetOK
    <3>2. ClockOK'
      BY <2>3, ObserveType DEF ClockOK
    <3>3. TypeOK'
      BY <2>1, <2>2, <2>3, <3>1, <3>2, FailureType DEF RestOK
    <3>4. HandOK'
      BY <2>1, <2>2, <2>3, <3>1, FailureType DEF HandOK
    <3> QED
      BY <3>3, <3>4
  <2>4. CASE SignGranted
    <3>1. NetOK' /\ ClockOK'
      BY <2>4, ObserveType, AdoptType DEF SignGranted, NetOK
    <3> QED
      BY <1>14, <2>1, <2>2, <2>4, <3>1 DEF SignAnswered, SignGranted, Goto, RestOK, ItemOK, NetOK, ClockOK, DiskOK, HandOK
  <2> QED
    BY <1>14, <2>3, <2>4 DEF SignAnswered
<1>15. CASE PutAnswered
  <2>1. hand \in Frames /\ handq \in Qualities /\ hand # NoFrame
    BY <1>15 DEF PutAnswered, HandOK, ItemOK
  <2>2. PICK a \in PutAnswers :
          /\ delivered' = IF a \in {"stored", "lost"}
                          THEN delivered \cup {<<hand, handq>>} ELSE delivered
          /\ \/ TransportFailed
             \/ HttpFailed /\ UNCHANGED cache_enabled
             \/ a = "stored" /\ MarkOnline /\ Goto("verified") /\ UNCHANGED cache_enabled
    BY <1>15 DEF PutAnswered, PutVerified
  <2>3. UNCHANGED <<mainVars, queue, clockVars, lifeVars, network>>
    BY <1>15 DEF PutAnswered
  <2>4. delivered' \subseteq Frames \X Qualities
    BY <2>1, <2>2 DEF RestOK
  <2>5. CASE TransportFailed \/ (HttpFailed /\ UNCHANGED cache_enabled)
    <3>1. cache_enabled' \in BOOLEAN \/ ~(HttpFailed /\ UNCHANGED cache_enabled)
      BY DEF NetOK
    <3>2. TypeOK'
      BY <2>1, <2>3, <2>4, <2>5, <3>1, FailureType DEF RestOK, ClockOK
    <3>3. HandOK'
      BY <2>1, <2>3, <2>5, <3>1, FailureType DEF HandOK
    <3> QED
      BY <3>2, <3>3
  <2>6. CASE a = "stored" /\ MarkOnline /\ Goto("verified") /\ UNCHANGED cache_enabled
    <3>1. NetOK' /\ DiskOK'
      BY <2>6, MarkOnlineDisk, UploaderAssumption DEF MarkOnline, NetOK
    <3>2. <<hand', handq'>> \in delivered'
      BY <2>2, <2>6 DEF Goto
    <3>3. TypeOK'
      BY <2>3, <2>4, <2>6, <3>1 DEF Goto, RestOK, ItemOK, NetOK, ClockOK, DiskOK, HandOK
    <3>4. HandOK'
      BY <2>1, <2>3, <2>6, <3>2 DEF Goto, HandOK
    <3> QED
      BY <3>3, <3>4
  <2> QED
    BY <2>2, <2>5, <2>6
<1>16. CASE FinishUpload
  <2>1. hand \in Frames
    BY <1>16 DEF FinishUpload, HandOK, ItemOK
  <2>2. DiskOK'
    BY <1>16, <2>1, StoreShrinks, TallyType DEF FinishUpload, DiskOK, Tallies
  <2> QED
    BY <1>16, <2>2, ReleaseType DEF FinishUpload, RestOK, ItemOK, NetOK, ClockOK, DiskOK, HandOK, Qualities
<1>17. CASE Exit
  BY <1>17 DEF Exit, Goto, RestOK, ItemOK, NetOK, ClockOK, DiskOK, HandOK
<1>18. CASE StartReport
  BY <1>18 DEF StartReport, Polls, Goto, RestOK, ItemOK, NetOK, ClockOK, DiskOK, HandOK
<1>19. CASE ReportAnswered
  BY <1>19, HeartbeatAnswerType DEF ReportAnswered, Goto, RestOK, ItemOK, DiskOK, HandOK
<1> QED
  BY <1>1, <1>2, <1>3, <1>4, <1>5, <1>6, <1>7, <1>8, <1>9, <1>10, <1>11, <1>12,
     <1>13, <1>14, <1>15, <1>16, <1>17, <1>18, <1>19 DEF UploaderStep

LEMMA InMemoryType ==
  ASSUME TypeOK, HandOK
  PROVE  InMemory \in SUBSET Frames
<1>1. Queued \in SUBSET Frames
  BY DEF TypeOK, Queued
<1>2. Pending \in SUBSET Frames
  BY UploaderAssumption DEF TypeOK, HandOK, Pending, Frames
<1>3. Live \in SUBSET Frames
  BY DEF TypeOK, Live
<1> QED
  BY <1>1, <1>2, <1>3 DEF InMemory

LEMMA WorldType ==
  ASSUME TypeOK, HandOK, NtpReading \/ Settle \/ Restart \/ UNCHANGED vars
  PROVE  TypeOK' /\ HandOK'
<1> USE TypeParts DEF mainVars, itemVars, handVars, netVars, clockVars, diskVars, lifeVars, envVars
<1>1. CASE NtpReading
  BY <1>1, ObserveType DEF NtpReading, RestOK, ItemOK, NetOK, DiskOK, HandOK
<1>2. CASE Settle
  BY <1>2 DEF Settle, RestOK, ItemOK, NetOK, ClockOK, DiskOK, HandOK
<1>3. CASE Restart
  <2>1. DiskOK'
    BY <1>3, InMemoryType, TallyType DEF Restart, DiskOK, Tallies
  <2>2. NetOK' /\ ClockOK'
    <3>1. 0 \in 0..OfflineAfter
      BY UploaderAssumption
    <3>2. NetOK'
      BY <1>3, <3>1 DEF Restart, NetOK
    <3>3. ClockOK'
      BY <1>3 DEF Restart, ClockOK
    <3> QED
      BY <3>2, <3>3
  <2>3. restarts' \in 0..MaxRestarts
    BY <1>3, UploaderAssumption DEF Restart, RestOK
  <2>4. queue' \in Seq(Frames) /\ Len(queue') <= QueueMax
    <3>1. queue' = <<>>
      BY <1>3 DEF Restart
    <3>2. <<>> \in Seq(Frames) /\ Len(<<>>) = 0
      OBVIOUS
    <3> QED
      BY <3>1, <3>2, UploaderAssumption
  <2>5. liveSince' \in 0..(ReplayEvery - 1) /\ bootStart' \in 0..MaxFrames
    BY <1>3, UploaderAssumption DEF Restart, RestOK
  <2>6. ItemOK'
    BY <1>3 DEF Restart, PutDown, ItemOK, Qualities
  <2>7. RestOK'
    BY <1>3, <2>3, <2>4, <2>5 DEF Restart, RestOK
  <2>8. HandOK'
    BY <1>3 DEF Restart, PutDown, HandOK
  <2> QED
    BY <2>1, <2>2, <2>6, <2>7, <2>8
<1>4. CASE UNCHANGED vars
  BY <1>4 DEF vars, RestOK, ItemOK, NetOK, ClockOK, DiskOK, HandOK
<1> QED
  BY <1>1, <1>2, <1>3, <1>4

LEMMA TypeStep ==
  ASSUME TypeOK, HandOK, [Next]_vars
  PROVE  TypeOK' /\ HandOK'
BY MainType, UploaderType, WorldType DEF Next

\* The types and the bounds of queue, store and failure count hold in every
\* state, whatever their configured limits.
THEOREM TypeCorrect == Spec => []TypeOK
<1>1. Init => TypeOK /\ HandOK
  BY InitType
<1>2. TypeOK /\ HandOK /\ [Next]_vars => TypeOK' /\ HandOK'
  BY TypeStep
<1> QED
  BY <1>1, <1>2, PTL DEF Spec

----------------------------------------------------------------------------
(* Where the frames are: accounting and order                              *)

Sorted == \A i, j \in 1..Len(queue) : i < j => queue[i] < queue[j]

LEMMA TallyOnce ==
  ASSUME TypeOK, NEW w \in Tallies, NEW F \in SUBSET Frames, tally' = Tally(w, F)
  PROVE  /\ Gone' = Gone \cup F
         /\ Left' = Left \cup (IF w \in {"replayed", "evicted", "discarded"} THEN F ELSE {})
         /\ tally'["dropped"] = tally["dropped"] \cup (IF w = "dropped" THEN F ELSE {})
<1>1. tally \in [Tallies -> SUBSET Frames]
  BY DEF TypeOK
<1>2. \A t \in Tallies : tally'[t] = tally[t] \cup (IF w = t THEN F ELSE {})
  BY <1>1 DEF Tally
<1>3. Gone' = Gone \cup F
  BY <1>2 DEF Gone
<1>4. Left' = Left \cup (IF w \in {"replayed", "evicted", "discarded"} THEN F ELSE {})
  BY <1>2 DEF Left, Tallies
<1> QED
  BY <1>2, <1>3, <1>4 DEF Tallies

\* The two tallies of a failed spill.
LEMMA TallyFailedSpill ==
  ASSUME TypeOK, NEW F \in SUBSET Frames, NEW f \in Frames,
         tally' = [Tally("evicted", F) EXCEPT !["dropped"] = @ \cup {f}]
  PROVE  /\ Gone' = Gone \cup F \cup {f}
         /\ Left' = Left \cup F
         /\ tally'["dropped"] = tally["dropped"] \cup {f}
<1>1. tally \in [Tallies -> SUBSET Frames]
  BY DEF TypeOK
<1>2. /\ tally'["evicted"] = tally["evicted"] \cup F
      /\ tally'["dropped"] = tally["dropped"] \cup {f}
      /\ \A t \in Tallies \ {"evicted", "dropped"} : tally'[t] = tally[t]
  BY <1>1 DEF Tally, Tallies
<1> QED
  BY <1>2 DEF Gone, Left, Tallies

\* The two tallies of a replayed upload.
LEMMA TallyReplayed ==
  ASSUME TypeOK, NEW f \in Frames,
         tally' = [Tally("uploaded", {f}) EXCEPT !["replayed"] = @ \cup {f}]
  PROVE  /\ Gone' = Gone \cup {f}
         /\ Left' = Left \cup {f}
         /\ tally'["dropped"] = tally["dropped"]
<1>1. tally \in [Tallies -> SUBSET Frames]
  BY DEF TypeOK
<1>2. /\ tally'["uploaded"] = tally["uploaded"] \cup {f}
      /\ tally'["replayed"] = tally["replayed"] \cup {f}
      /\ \A t \in Tallies \ {"uploaded", "replayed"} : tally'[t] = tally[t]
  BY <1>1 DEF Tally, Tallies
<1> QED
  BY <1>2 DEF Gone, Left, Tallies

\* The queue's head is the oldest queued frame.
LEMMA HeadOldest ==
  ASSUME queue \in Seq(Frames), queue # <<>>, Sorted, queue' = Tail(queue)
  PROVE  /\ Head(queue) \in Frames
         /\ Queued = {Head(queue)} \cup Queued'
         /\ \A g \in Queued' : Head(queue) < g
         /\ Sorted'
<1>1. /\ Head(queue) = queue[1] /\ Head(queue) \in Frames
      /\ Len(queue) \in Nat \ {0} /\ Len(queue') = Len(queue) - 1
      /\ \A i \in 1..Len(queue') : queue'[i] = queue[i + 1]
  OBVIOUS
<1>2. \A i \in 2..Len(queue) : i - 1 \in 1..Len(queue') /\ queue'[i - 1] = queue[i]
  BY <1>1
<1>3. Queued = {Head(queue)} \cup Queued'
  BY <1>1, <1>2 DEF Queued
<1>4. \A g \in Queued' : Head(queue) < g
  BY <1>1 DEF Queued, Sorted
<1>5. Sorted'
  BY <1>1 DEF Sorted
<1> QED
  BY <1>1, <1>3, <1>4, <1>5

LEMMA LastYoungest ==
  ASSUME queue \in Seq(Frames), Sorted, NEW f \in Frames,
         \A g \in Queued : g < f, queue' = Append(queue, f)
  PROVE  /\ Queued' = Queued \cup {f}
         /\ Sorted'
<1>1. /\ Len(queue) \in Nat /\ Len(queue') = Len(queue) + 1
      /\ \A i \in 1..Len(queue) : queue'[i] = queue[i]
      /\ queue'[Len(queue) + 1] = f
  OBVIOUS
<1>2. Queued' = Queued \cup {f}
  BY <1>1 DEF Queued
<1>3. \A i \in 1..Len(queue) : queue[i] < f
  BY DEF Queued
<1>4. Sorted'
  BY <1>1, <1>3 DEF Sorted
<1> QED
  BY <1>2, <1>4

LEMMA PlacesType ==
  ASSUME TypeOK, HandOK
  PROVE  /\ \A f \in Frames : f \in Int /\ 0 < f
         /\ taken \in Int /\ hand \in Int
         /\ store \in SUBSET Frames /\ Pending \in SUBSET Frames /\ Queued \in SUBSET Frames
         /\ Live \in SUBSET Frames /\ Gone \in SUBSET Frames /\ Left \in SUBSET Frames
         /\ tally["dropped"] \in SUBSET Frames
<1>1. Pending \in SUBSET Frames /\ Queued \in SUBSET Frames /\ Live \in SUBSET Frames
  BY InMemoryType DEF InMemory
<1>2. Gone \in SUBSET Frames
  BY DEF TypeOK, Gone
<1>3. Left \in SUBSET Frames /\ tally["dropped"] \in SUBSET Frames
  BY DEF TypeOK, Left, Tallies
<1>4. taken \in Int /\ hand \in Int
  BY UploaderAssumption DEF TypeOK, Frames, NoFrame
<1>5. \A f \in Frames : f \in Int /\ 0 < f
  BY UploaderAssumption DEF Frames
<1> QED
  BY <1>1, <1>2, <1>3, <1>4, <1>5 DEF TypeOK

\* A step that moves no frame.
LEMMA NothingMoves ==
  ASSUME Places, UNCHANGED <<taken, queue, hand, late, store, tally>>, Pending' = Pending
  PROVE  Places'
<1>1. Queued' = Queued /\ Live' = Live
  BY DEF Queued, Live
<1>2. InMemory' = InMemory
  BY <1>1 DEF InMemory
<1>3. Gone' = Gone /\ Left' = Left
  BY DEF Gone, Left
<1>4. FramesAccounted'
  BY <1>2, <1>3 DEF Places, FramesAccounted
<1>5. CaptureOrder'
  BY <1>1, <1>2 DEF Places, CaptureOrder
<1>6. PastOrder'
  BY <1>1, <1>2, <1>3 DEF Places, PastOrder
<1> QED
  BY <1>4, <1>5, <1>6 DEF Places

\* A frame in memory becomes one of those that are gone.
LEMMA FrameGoes ==
  ASSUME TypeOK, HandOK, Places, NEW f \in Frames,
         UNCHANGED <<taken, store>>, Pending' = Pending,
         f \in Queued \cup Live, f \notin Queued' \cup Live',
         Queued \cup Live = Queued' \cup Live' \cup {f},
         Queued' \subseteq Queued, Live' \subseteq Live, Sorted',
         late' => late /\ hand' = hand, hand' <= taken,
         Gone' = Gone \cup {f}, Left' = Left,
         \/ tally'["dropped"] = tally["dropped"]
         \/ /\ tally'["dropped"] = tally["dropped"] \cup {f}
            /\ \A g \in Queued' \cup Pending : f < g
  PROVE  Places'
<1> USE PlacesType
<1>1. InMemory = InMemory' \cup {f} /\ f \notin InMemory'
  BY DEF InMemory, Places, CaptureOrder
<1>2. FramesAccounted'
  BY <1>1 DEF Places, FramesAccounted
<1>3. CaptureOrder'
  BY <1>1 DEF Places, CaptureOrder, Sorted
<1>4. PastOrder'
  BY <1>1 DEF Places, PastOrder
<1> QED
  BY <1>2, <1>3, <1>4 DEF Places

\* Frames older than all others leave the store.
LEMMA OldestGo ==
  ASSUME TypeOK, HandOK, Places, NEW E \in SUBSET Frames,
         UNCHANGED <<taken, queue>>, Pending' = Pending, Live' = Live,
         store' = store \ E, \A e \in E : e <= taken /\ \A g \in store' \cup InMemory : e < g,
         late' => late /\ hand' = hand, hand' <= taken,
         Gone' = Gone \cup E, Left' \subseteq Left \cup E,
         tally'["dropped"] = tally["dropped"]
  PROVE  Places'
<1> USE PlacesType
<1>1. Queued' = Queued /\ InMemory' = InMemory
  BY DEF InMemory, Queued
<1>2. InMemory \cap E = {} /\ E \subseteq 1..taken
  BY <1>1 DEF InMemory
<1>3. FramesAccounted'
  BY <1>1, <1>2 DEF Places, FramesAccounted
<1>4. CaptureOrder'
  BY <1>1 DEF Places, CaptureOrder
<1>5. PastOrder'
  BY <1>1 DEF Places, PastOrder
<1> QED
  BY <1>3, <1>4, <1>5 DEF Places

\* The oldest frame in memory is spilled, others evicted to make room for it.
LEMMA FrameSpilled ==
  ASSUME TypeOK, HandOK, Places, NEW f \in Frames, Spill(f),
         UNCHANGED taken, Pending' = Pending,
         f \in Queued \cup Live, f \notin Queued' \cup Live',
         Queued \cup Live = Queued' \cup Live' \cup {f}, Queued' \subseteq Queued, Live' = {},
         \A g \in Queued' \cup Pending : f < g, Sorted',
         ~late', hand' <= taken
  PROVE  Places'
<1> USE PlacesType
<1>1. PICK cut \in store \cup {NoFrame} :
        \/ /\ store' = (store \ Oldest(cut)) \cup {f}
           /\ tally' = Tally("evicted", Oldest(cut))
        \/ /\ store' = store \ Oldest(cut)
           /\ tally' = [Tally("evicted", Oldest(cut)) EXCEPT !["dropped"] = @ \cup {f}]
  BY DEF Spill
<1> DEFINE E == Oldest(cut)
<1> DEFINE S == store \ E
<1>2. E \in SUBSET store /\ E \in SUBSET Frames
  BY DEF Oldest
<1>3. \A e \in E : \A g \in S : e < g
  BY DEF Oldest, NoFrame
<1>4. InMemory = InMemory' \cup {f} /\ f \notin InMemory' /\ \A g \in InMemory' : f < g
  BY DEF InMemory, Places, CaptureOrder
<1>5. /\ Left' = Left \cup E
      /\ \/ /\ store' = S \cup {f} /\ Gone' = Gone \cup E
            /\ tally'["dropped"] = tally["dropped"]
         \/ /\ store' = S /\ Gone' = Gone \cup E \cup {f}
            /\ tally'["dropped"] = tally["dropped"] \cup {f}
  <2>1. CASE tally' = Tally("evicted", E) /\ store' = S \cup {f}
    BY <1>2, <2>1, TallyOnce DEF Tallies
  <2>2. CASE tally' = [Tally("evicted", E) EXCEPT !["dropped"] = @ \cup {f}] /\ store' = S
    BY <1>2, <2>2, TallyFailedSpill
  <2> QED
    BY <1>1, <2>1, <2>2
<1> HIDE DEF E
<1>6. \A g \in store : g < f
  BY DEF Places, CaptureOrder, InMemory
<1>7. FramesAccounted'
  BY <1>2, <1>4, <1>5, <1>6 DEF Places, FramesAccounted
<1>8. CaptureOrder'
  BY <1>2, <1>4, <1>5, <1>6 DEF Places, CaptureOrder, Sorted
<1>9. PastOrder'
  <2>1. \A g \in Left' : \A h \in store' \cup InMemory' : g < h
    BY <1>2, <1>3, <1>4, <1>5, <1>6 DEF Places, PastOrder, CaptureOrder
  <2>2. \A g \in tally'["dropped"] : \A h \in Queued' \cup Pending' : g < h
    BY <1>4, <1>5 DEF Places, PastOrder
  <2> QED
    BY <2>1, <2>2 DEF PastOrder
<1> QED
  BY <1>7, <1>8, <1>9 DEF Places

LEMMA InitPlaces ==
  ASSUME Init
  PROVE  Places
<1>1. Queued = {} /\ Live = {} /\ Pending = {} /\ InMemory = {}
  BY DEF Init, Queued, Live, Pending, InMemory
<1>2. Gone = {} /\ Left = {} /\ tally["dropped"] = {}
  BY DEF Init, Gone, Left, Tallies
<1>3. store = 1..taken /\ taken \in Nat /\ hand = 0 /\ ~late /\ Len(queue) = 0
  BY UploaderAssumption DEF Init, NoFrame
<1>4. FramesAccounted
  BY <1>1, <1>2, <1>3 DEF FramesAccounted
<1>5. CaptureOrder
  BY <1>1, <1>3 DEF CaptureOrder
<1>6. PastOrder
  BY <1>1, <1>2, <1>3 DEF PastOrder
<1> QED
  BY <1>4, <1>5, <1>6 DEF Places

LEMMA MainPlaces ==
  ASSUME TypeOK, HandOK, Places, MainStep
  PROVE  Places'
<1> USE PlacesType
<1>1. queue \in Seq(Frames) /\ Sorted
  BY DEF TypeOK, Places, CaptureOrder, Sorted
<1>2. CASE Capture
  <2>1. /\ Pending = {} /\ Pending' = {taken + 1} /\ taken' = taken + 1
        /\ UNCHANGED <<queue, hand, late, store, tally>>
    BY <1>2 DEF Capture, Pending, handVars, itemVars, diskVars
  <2>2. Queued' = Queued /\ Live' = Live /\ Gone' = Gone /\ Left' = Left
    BY <2>1 DEF Queued, Live, Gone, Left
  <2>3. InMemory' = InMemory \cup {taken + 1} /\ InMemory = Queued \cup Live
    BY <2>1, <2>2 DEF InMemory
  <2>4. \A f \in InMemory \cup store \cup Gone : f <= taken
    BY DEF Places, FramesAccounted
  <2>5. Left \subseteq Gone /\ tally["dropped"] \subseteq Gone
    BY DEF Left, Gone, Tallies
  <2>6. FramesAccounted'
    <3>1. 1..taken' = 1..taken \cup {taken + 1}
      BY <2>1 DEF TypeOK
    <3> QED
      BY <2>1, <2>2, <2>3, <2>4, <3>1 DEF Places, FramesAccounted
  <2>7. CaptureOrder'
    BY <2>1, <2>2, <2>3, <2>4 DEF Places, CaptureOrder
  <2>8. PastOrder'
    BY <2>1, <2>2, <2>3, <2>4, <2>5 DEF Places, PastOrder
  <2> QED
    BY <2>6, <2>7, <2>8 DEF Places
<1>3. CASE Submit
  <2>1. /\ Pending = {taken} /\ Pending' = {} /\ queue' = Append(queue, taken)
        /\ UNCHANGED <<taken, hand, late, store, tally>>
    BY <1>3 DEF Submit, Pending, handVars, itemVars, diskVars
  <2>2. taken \in Frames /\ \A g \in Queued \cup Live : g < taken
    BY <2>1 DEF Places, CaptureOrder
  <2>3. Queued' = Queued \cup {taken} /\ Sorted'
    BY <1>1, <2>1, <2>2, LastYoungest
  <2>4. Live' = Live /\ Gone' = Gone /\ Left' = Left
    BY <2>1 DEF Live, Gone, Left
  <2>5. InMemory' = InMemory
    BY <2>1, <2>3, <2>4 DEF InMemory
  <2>6. FramesAccounted'
    BY <2>1, <2>4, <2>5 DEF Places, FramesAccounted
  <2>7. CaptureOrder'
    BY <2>1, <2>2, <2>3, <2>4, <2>5 DEF Places, CaptureOrder, Sorted
  <2>8. PastOrder'
    BY <2>1, <2>3, <2>4, <2>5 DEF Places, PastOrder
  <2> QED
    BY <2>6, <2>7, <2>8 DEF Places
<1>4. CASE SubmitFull
  BY <1>4, NothingMoves DEF SubmitFull, Pending, handVars, itemVars, diskVars
<1>5. CASE DropOldest
  <2>1. UNCHANGED <<taken, store, hand, late>> /\ Pending' = Pending /\ Live' = Live
    BY <1>5 DEF DropOldest, Pending, Live, handVars, itemVars, diskVars
  <2>2. CASE queue = <<>>
    BY <1>5, <2>1, <2>2, NothingMoves DEF DropOldest, diskVars
  <2>3. CASE queue # <<>>
    <3> DEFINE f == Head(queue)
    <3>1. queue' = Tail(queue) /\ tally' = Tally("dropped", {f})
      BY <1>5, <2>3 DEF DropOldest
    <3>2. /\ f \in Frames /\ Queued = {f} \cup Queued'
          /\ (\A g \in Queued' : f < g) /\ Sorted'
      BY <1>1, <2>3, <3>1, HeadOldest
    <3>3. /\ Gone' = Gone \cup {f} /\ Left' = Left
          /\ tally'["dropped"] = tally["dropped"] \cup {f}
      BY <3>1, <3>2, TallyOnce DEF Tallies
    <3> HIDE DEF f
    <3>4. \A g \in Live : g < f
      BY <3>2 DEF Places, CaptureOrder
    <3>5. \A g \in Pending : f < g
      BY <3>2 DEF Places, CaptureOrder
    <3>6. hand' <= taken
      BY <2>1 DEF Places, PastOrder
    <3> QED
      BY <2>1, <3>2, <3>3, <3>4, <3>5, <3>6, FrameGoes
  <2> QED
    BY <2>2, <2>3
<1>6. CASE StartHeartbeat \/ HeartbeatAnswered \/ Stop
  BY <1>6, NothingMoves DEF StartHeartbeat, HeartbeatAnswered, Stop,
     Pending, handVars, itemVars, diskVars
<1> QED
  BY <1>2, <1>3, <1>4, <1>5, <1>6 DEF MainStep

\* The uploader takes the queue's head with nothing in hand.
LEMMA TakesHead ==
  ASSUME TypeOK, HandOK, Places, NEW f \in Frames, Get(f)
  PROVE  /\ Live = {} /\ ~late /\ hand = 0
         /\ f \in Queued /\ Queued = {f} \cup Queued' /\ f \notin Queued'
         /\ \A g \in Queued' \cup Pending : f < g
         /\ Sorted'
<1> USE PlacesType
<1>1. Live = {} /\ ~late /\ hand = 0
  BY DEF Get, Polls, HandOK, Live, NoFrame
<1>2. /\ f = Head(queue) /\ Queued = {f} \cup Queued'
      /\ (\A g \in Queued' : f < g) /\ Sorted'
  BY HeadOldest DEF Get, TypeOK, Places, CaptureOrder, Sorted
<1>3. \A g \in Pending : f < g
  BY <1>2 DEF Places, CaptureOrder
<1> QED
  BY <1>1, <1>2, <1>3

\* Discarding by age moves frames out of the store, oldest first.
LEMMA Discards ==
  ASSUME TypeOK, HandOK, Places, NEW cut \in store,
         store' = store \ Oldest(cut), tally' = Tally("discarded", Oldest(cut)),
         UNCHANGED <<taken, queue, hand, late>>, Pending' = Pending
  PROVE  Places'
<1> USE PlacesType
<1>1. Oldest(cut) \in SUBSET Frames /\ Oldest(cut) \subseteq store
  BY DEF Oldest
<1>2. /\ Gone' = Gone \cup Oldest(cut) /\ Left' = Left \cup Oldest(cut)
      /\ tally'["dropped"] = tally["dropped"]
  BY <1>1, TallyOnce DEF Tallies
<1>3. \A e \in Oldest(cut) : e <= taken /\ \A g \in store' \cup InMemory : e < g
  BY DEF Oldest, Places, FramesAccounted, CaptureOrder
<1>4. Live' = Live
  BY DEF Live
<1>5. hand' <= taken
  BY DEF Places, PastOrder
<1> QED
  BY <1>1, <1>2, <1>3, <1>4, <1>5, OldestGo

LEMMA MarkOnlinePlaces ==
  ASSUME TypeOK, HandOK, Places, MarkOnline,
         UNCHANGED <<taken, queue, hand, late>>, Pending' = Pending
  PROVE  Places'
BY NothingMoves, Discards DEF MarkOnline, diskVars

\* A live frame whose processing ends without a spill.
LEMMA LiveGoes ==
  ASSUME TypeOK, HandOK, Places, hand # NoFrame, ~late, Release,
         store' = store \ {hand}, UNCHANGED <<taken, queue>>, Pending' = Pending,
         NEW w \in {"skipped", "uncounted", "uploaded"}, tally' = Tally(w, {hand})
  PROVE  Places'
<1> USE PlacesType
<1>1. hand \in Frames /\ Live = {hand}
  BY DEF TypeOK, Live
<1>2. hand' = 0 /\ ~late' /\ Live' = {} /\ Queued' = Queued
  BY DEF Release, PutDown, Live, Queued, NoFrame
<1>3. Gone' = Gone \cup {hand} /\ Left' = Left /\ tally'["dropped"] = tally["dropped"]
  <2>1. w \in Tallies /\ w \notin {"replayed", "evicted", "discarded"} /\ w # "dropped"
    BY DEF Tallies
  <2>2. {hand} \in SUBSET Frames
    BY <1>1
  <2>3. /\ Gone' = Gone \cup {hand}
        /\ Left' = Left \cup (IF w \in {"replayed", "evicted", "discarded"} THEN {hand} ELSE {})
        /\ tally'["dropped"] = tally["dropped"] \cup (IF w = "dropped" THEN {hand} ELSE {})
    BY <2>1, <2>2, TallyOnce
  <2> QED
    BY <2>1, <2>3
<1>4. hand \notin store /\ hand \notin Queued
  <2>1. (\A f \in store : f < hand) /\ (\A g \in Queued : hand < g)
    BY <1>1 DEF Places, CaptureOrder, InMemory
  <2> QED
    BY <2>1
<1>5. Sorted'
  BY DEF Places, CaptureOrder, Sorted
<1>6. hand' <= taken
  BY <1>2 DEF TypeOK
<1> QED
  BY <1>1, <1>2, <1>3, <1>4, <1>5, <1>6, FrameGoes

\* A replayed frame whose replay ends for good.
LEMMA ReplayedGoes ==
  ASSUME TypeOK, HandOK, Places, hand # NoFrame, late, Release,
         store' = store \ {hand}, UNCHANGED <<taken, queue>>, Pending' = Pending,
         Gone' = Gone \cup {hand}, Left' \subseteq Left \cup {hand},
         tally'["dropped"] = tally["dropped"]
  PROVE  Places'
<1> USE PlacesType
<1>1. hand \in Frames /\ Live = {}
  BY DEF TypeOK, Live
<1>2. hand' = 0 /\ ~late' /\ Live' = {}
  BY DEF Release, PutDown, Live, NoFrame
<1>3. hand <= taken /\ \A g \in store' \cup InMemory : hand < g
  BY <1>1 DEF Places, CaptureOrder, PastOrder
<1>4. hand' <= taken
  BY <1>2 DEF TypeOK
<1>5. {hand} \in SUBSET Frames
  BY <1>1
<1>6. \A e \in {hand} : e <= taken /\ \A g \in store' \cup InMemory : e < g
  BY <1>3
<1> QED
  BY <1>1, <1>2, <1>4, <1>5, <1>6, OldestGo

\* A replay that failed: the frame stays in the store.
LEMMA ReplayPutDown ==
  ASSUME TypeOK, HandOK, Places, hand # NoFrame, late, Release,
         UNCHANGED <<taken, queue, store, tally>>, Pending' = Pending
  PROVE  Places'
<1> USE PlacesType
<1>1. Live = {} /\ Gone' = Gone /\ Left' = Left
  BY DEF TypeOK, Live, Gone, Left
<1>2. hand' = 0 /\ ~late' /\ Live' = {}
  BY DEF Release, PutDown, Live, NoFrame
<1>3. hand' <= taken
  BY <1>2 DEF TypeOK
<1>4. \A e \in {} : e <= taken /\ \A g \in store' \cup InMemory : e < g
  OBVIOUS
<1>5. store' = store \ {} /\ Gone' = Gone \cup {} /\ Left' \subseteq Left \cup {}
  BY <1>1
<1> QED
  BY <1>1, <1>2, <1>3, <1>4, <1>5, OldestGo

\* An attempt, live or replayed, that failed at the transport.
LEMMA TransportFailedPlaces ==
  ASSUME TypeOK, HandOK, Places, hand # NoFrame, TransportFailed, UNCHANGED <<mainVars, queue>>
  PROVE  Places'
<1> USE PlacesType
<1>1. UNCHANGED <<taken, queue>> /\ Pending' = Pending /\ Queued' = Queued
  BY DEF mainVars, Pending, Queued
<1>2. CASE late
  BY <1>1, <1>2, ReplayPutDown DEF TransportFailed, diskVars
<1>3. CASE ~late /\ Release /\ Spill(hand)
  <2>1. hand \in Frames /\ Live = {hand}
    BY <1>3 DEF TypeOK, Live
  <2>2. hand' = 0 /\ ~late' /\ Live' = {}
    BY <1>3 DEF Release, PutDown, Live, NoFrame
  <2>3. \A g \in Queued \cup Pending : hand < g
    BY <2>1 DEF Places, CaptureOrder
  <2>4. hand \notin Queued
    BY <2>1, <2>3
  <2>5. Sorted' /\ hand' <= taken
    BY <1>1, <2>2 DEF TypeOK, Places, CaptureOrder, Sorted
  <2> QED
    BY <1>1, <1>3, <2>1, <2>2, <2>3, <2>4, <2>5, FrameSpilled
<1>4. CASE ~late /\ Goto("try") /\ UNCHANGED diskVars
  BY <1>1, <1>4, NothingMoves DEF Goto, itemVars, diskVars
<1> QED
  BY <1>2, <1>3, <1>4 DEF TransportFailed

LEMMA HttpFailedPlaces ==
  ASSUME TypeOK, HandOK, Places, hand # NoFrame, HttpFailed, UNCHANGED <<mainVars, queue>>
  PROVE  Places'
<1>1. UNCHANGED <<taken, queue, store, tally>> /\ Pending' = Pending
  BY DEF mainVars, Pending, HttpFailed, diskVars
<1>2. CASE late
  BY <1>1, <1>2, ReplayPutDown DEF HttpFailed
<1>3. CASE ~late
  BY <1>1, <1>3, NothingMoves DEF HttpFailed, Goto, itemVars
<1> QED
  BY <1>2, <1>3

LEMMA UploaderPlaces ==
  ASSUME TypeOK, HandOK, Places, UploaderStep
  PROVE  Places'
<1> USE PlacesType
<1>1. UNCHANGED mainVars => taken' = taken /\ Pending' = Pending
  BY DEF mainVars, Pending
<1>2. UNCHANGED diskVars => store' = store /\ tally' = tally
  BY DEF diskVars
<1>3. CASE StartProbe \/ StartReport \/ ReportAnswered \/ BeatAnswered \/ Try
           \/ SkipReplay \/ PickEmpty \/ Exit
  BY <1>1, <1>2, <1>3, NothingMoves
     DEF StartProbe, StartReport, ReportAnswered, BeatAnswered, Try, SkipReplay, PickEmpty, Exit,
         Goto, itemVars
<1>4. CASE ProbeAnswered
  <2>1. UNCHANGED <<taken, queue, hand, late>> /\ Pending' = Pending
    BY <1>1, <1>4 DEF ProbeAnswered, Goto, itemVars
  <2> QED
    BY <1>2, <1>4, <2>1, NothingMoves, MarkOnlinePlaces DEF ProbeAnswered
<1>5. CASE TakeProvisional
  <2>1. PICK f \in Frames : Get(f) /\ (Spill(f) \/ (tally' = Tally("skipped", {f}) /\ store' = store))
    BY <1>5 DEF TakeProvisional
  <2>2. UNCHANGED <<taken, hand, late>> /\ Pending' = Pending
    BY <1>1, <1>5 DEF TakeProvisional, itemVars
  <2>3. Live' = Live
    BY <2>2 DEF Live
  <2>4. hand' <= taken
    BY <2>2 DEF Places, PastOrder
  <2>5. CASE Spill(f)
    BY <2>1, <2>2, <2>3, <2>4, <2>5, TakesHead, FrameSpilled
  <2>6. CASE tally' = Tally("skipped", {f}) /\ store' = store
    <3>1. Gone' = Gone \cup {f} /\ Left' = Left /\ tally'["dropped"] = tally["dropped"]
      BY <2>6, TallyOnce DEF Tallies
    <3> QED
      BY <2>1, <2>2, <2>3, <2>4, <2>6, <3>1, TakesHead, FrameGoes
  <2> QED
    BY <2>1, <2>5, <2>6
<1>6. CASE TakeOffline
  <2>1. PICK f \in Frames : Get(f) /\ Spill(f)
    BY <1>6 DEF TakeOffline
  <2>2. UNCHANGED <<taken, hand, late>> /\ Pending' = Pending
    BY <1>1, <1>6 DEF TakeOffline, itemVars
  <2>3. Live' = Live
    BY <2>2 DEF Live
  <2>4. hand' <= taken
    BY <2>2 DEF Places, PastOrder
  <2> QED
    BY <2>1, <2>2, <2>3, <2>4, TakesHead, FrameSpilled
<1>7. CASE TakeLive
  <2>1. PICK f \in Frames : Get(f) /\ hand' = f /\ late' = FALSE
    BY <1>7 DEF TakeLive
  <2>2. UNCHANGED <<taken, store, tally>> /\ Pending' = Pending
    BY <1>1, <1>2, <1>7 DEF TakeLive
  <2>3. Live' = {f} /\ Gone' = Gone /\ Left' = Left
    BY <2>1, <2>2 DEF Live, Gone, Left, NoFrame
  <2>4. InMemory' = InMemory
    BY <2>1, <2>2, <2>3, TakesHead DEF InMemory
  <2>5. FramesAccounted'
    BY <2>2, <2>3, <2>4 DEF Places, FramesAccounted
  <2>6. CaptureOrder'
    BY <2>1, <2>2, <2>3, <2>4, TakesHead DEF Places, CaptureOrder, Sorted
  <2>7. PastOrder'
    <3>1. f <= taken
      BY <2>1, TakesHead DEF Places, FramesAccounted, InMemory
    <3> QED
      BY <2>1, <2>2, <2>3, <2>4, <3>1, TakesHead DEF Places, PastOrder
  <2> QED
    BY <2>5, <2>6, <2>7 DEF Places
<1>8. CASE GiveUp
  <2>1. ~late /\ hand # NoFrame
    BY <1>8 DEF GiveUp, HandOK
  <2>2. hand \notin store
    BY <2>1 DEF Places, FramesAccounted, InMemory, Live
  <2> QED
    BY <1>1, <1>8, <2>1, <2>2, LiveGoes DEF GiveUp
<1>9. CASE DiscardOld
  BY <1>1, <1>9, Discards DEF DiscardOld, Goto, itemVars
<1>10. CASE StartReplay
  <2>1. PICK f \in store : Replayable(f) /\ hand' = f /\ late' = TRUE
    BY <1>10 DEF StartReplay
  <2>2. UNCHANGED <<taken, queue, store, tally>> /\ Pending' = Pending
    BY <1>1, <1>2, <1>10 DEF StartReplay
  <2>3. Live = {} /\ Live' = {}
    BY <2>1 DEF Live, Replayable, ReplayTurn, Polls, HandOK
  <2>4. InMemory' = InMemory /\ Queued' = Queued /\ Gone' = Gone /\ Left' = Left
    BY <2>2, <2>3 DEF InMemory, Queued, Gone, Left
  <2>5. f <= taken /\ (\A g \in store : f <= g) /\ (\A g \in InMemory : f < g)
    BY <2>1 DEF Replayable, Places, FramesAccounted, CaptureOrder
  <2>6. FramesAccounted'
    BY <2>2, <2>4 DEF Places, FramesAccounted
  <2>7. CaptureOrder'
    BY <2>1, <2>2, <2>3, <2>4, <2>5 DEF Places, CaptureOrder
  <2>8. PastOrder'
    BY <2>1, <2>2, <2>4, <2>5 DEF Places, PastOrder
  <2> QED
    BY <2>6, <2>7, <2>8 DEF Places
<1>11. CASE ReplayDeletes
  <2>1. PICK f \in store : /\ Replayable(f)
                          /\ store' = store \ {f}
                          /\ \/ tally' = Tally("skipped", {f})
                             \/ tally' = Tally("uncounted", {f})
    BY <1>11 DEF ReplayDeletes
  <2>2. UNCHANGED <<taken, queue, hand, late>> /\ Pending' = Pending
    BY <1>1, <1>11 DEF ReplayDeletes, Goto, itemVars
  <2>3. Live' = Live
    BY <2>2 DEF Live
  <2>4. {f} \in SUBSET Frames
    OBVIOUS
  <2>5. Gone' = Gone \cup {f} /\ Left' = Left /\ tally'["dropped"] = tally["dropped"]
    BY <2>1, <2>4, TallyOnce DEF Tallies
  <2>6. \A e \in {f} : e <= taken /\ \A g \in store' \cup InMemory : e < g
    BY <2>1 DEF Replayable, Places, FramesAccounted, CaptureOrder
  <2>7. hand' <= taken
    BY <2>2 DEF Places, PastOrder
  <2> QED
    BY <2>1, <2>2, <2>3, <2>4, <2>5, <2>6, <2>7, OldestGo
<1>12. CASE SignAnswered
  <2>1. hand # NoFrame /\ UNCHANGED <<mainVars, queue>>
    BY <1>12 DEF SignAnswered, HandOK
  <2>2. CASE Skipped
    <3>1. Release /\ tally' = Tally("skipped", {hand}) /\ store' = store \ {hand}
      BY <2>2 DEF Skipped
    <3>2. CASE ~late
      BY <1>1, <2>1, <3>1, <3>2, LiveGoes
    <3>3. CASE late
      <4>1. {hand} \in SUBSET Frames
        BY <2>1 DEF TypeOK
      <4>2. Gone' = Gone \cup {hand} /\ Left' = Left /\ tally'["dropped"] = tally["dropped"]
        BY <3>1, <4>1, TallyOnce DEF Tallies
      <4> QED
        BY <1>1, <2>1, <3>1, <3>3, <4>2, ReplayedGoes
    <3> QED
      BY <3>2, <3>3
  <2>3. CASE SignGranted
    BY <1>1, <1>2, <2>1, <2>3, NothingMoves DEF SignGranted, Goto, itemVars
  <2>4. TransportFailed \/ HttpFailed \/ Skipped \/ SignGranted
    BY <1>12 DEF SignAnswered
  <2> QED
    BY <2>1, <2>2, <2>3, <2>4, TransportFailedPlaces, HttpFailedPlaces
<1>13. CASE PutAnswered
  <2>1. hand # NoFrame /\ UNCHANGED <<mainVars, queue>>
    BY <1>13 DEF PutAnswered, HandOK
  <2>2. CASE MarkOnline /\ Goto("verified")
    BY <1>1, <2>1, <2>2, MarkOnlinePlaces DEF Goto, itemVars
  <2>3. TransportFailed \/ HttpFailed \/ (MarkOnline /\ Goto("verified"))
    BY <1>13 DEF PutAnswered
  <2> QED
    BY <2>1, <2>2, <2>3, TransportFailedPlaces, HttpFailedPlaces
<1>14. CASE FinishUpload
  <2>1. hand # NoFrame /\ hand \in Frames
    BY <1>14 DEF FinishUpload, HandOK, TypeOK
  <2>2. CASE ~late
    BY <1>1, <1>14, <2>1, <2>2, LiveGoes DEF FinishUpload
  <2>3. CASE late
    <3>1. tally' = [Tally("uploaded", {hand}) EXCEPT !["replayed"] = @ \cup {hand}]
      BY <1>14, <2>3 DEF FinishUpload
    <3>2. Gone' = Gone \cup {hand} /\ Left' = Left \cup {hand} /\ tally'["dropped"] = tally["dropped"]
      BY <2>1, <3>1, TallyReplayed
    <3> QED
      BY <1>1, <1>14, <2>1, <2>3, <3>2, ReplayedGoes DEF FinishUpload
  <2> QED
    BY <2>2, <2>3
<1> QED
  BY <1>3, <1>4, <1>5, <1>6, <1>7, <1>8, <1>9, <1>10, <1>11, <1>12, <1>13, <1>14 DEF UploaderStep

LEMMA WorldPlaces ==
  ASSUME TypeOK, HandOK, Places, NtpReading \/ Settle \/ Restart \/ UNCHANGED vars
  PROVE  Places'
<1> USE PlacesType
<1>1. CASE NtpReading \/ Settle \/ UNCHANGED vars
  BY <1>1, NothingMoves DEF NtpReading, Settle, vars, Pending, mainVars, handVars, itemVars, diskVars
<1>2. CASE Restart
  <2>1. UNCHANGED <<taken, store>> /\ hand' = 0 /\ ~late' /\ queue' = <<>>
    BY <1>2 DEF Restart, PutDown, NoFrame
  <2>2. Pending' = {} /\ Queued' = {} /\ Live' = {} /\ Len(queue') = 0
    BY <1>2, <2>1 DEF Restart, Pending, Queued, Live, NoFrame
  <2>3. InMemory \in SUBSET Frames /\ InMemory' = {}
    BY <2>2, InMemoryType DEF InMemory
  <2>4. Gone' = Gone \cup InMemory /\ Left' = Left /\ tally'["dropped"] = tally["dropped"]
    <3>1. tally' = Tally("uncounted", InMemory)
      BY <1>2 DEF Restart
    <3>2. ASSUME NEW F \in SUBSET Frames, tally' = Tally("uncounted", F)
          PROVE  Gone' = Gone \cup F /\ Left' = Left /\ tally'["dropped"] = tally["dropped"]
      BY <3>2, TallyOnce DEF Tallies
    <3> QED
      BY <2>3, <3>1, <3>2
  <2>5. FramesAccounted'
    BY <2>1, <2>3, <2>4 DEF Places, FramesAccounted
  <2>6. CaptureOrder'
    BY <2>1, <2>2, <2>3 DEF CaptureOrder
  <2>7. PastOrder'
    BY <2>1, <2>2, <2>3, <2>4 DEF Places, PastOrder, TypeOK
  <2> QED
    BY <2>5, <2>6, <2>7 DEF Places
<1> QED
  BY <1>1, <1>2

PlacesInv == TypeOK /\ HandOK /\ Places

\* The inductive invariant: where every frame is, in which order, and what is
\* in hand at each step of the two threads.
THEOREM PlacesInvariant == Spec => []PlacesInv
<1>1. Init => PlacesInv
  BY InitType, InitPlaces DEF PlacesInv
<1>2. PlacesInv /\ [Next]_vars => PlacesInv'
  BY TypeStep, MainPlaces, UploaderPlaces, WorldPlaces DEF PlacesInv, Next
<1> QED
  BY <1>1, <1>2, PTL DEF Spec

\* Every frame captured is in memory, in the store, or counted: none is lost
\* without a trace, kept twice or worked on again, whatever the two threads,
\* the network, the card and restarts do.
THEOREM EveryFrameAccounted == Spec => []FramesAccounted
<1>1. PlacesInv => FramesAccounted
  BY DEF PlacesInv, Places
<1> QED
  BY <1>1, PlacesInvariant, PTL

\* Store, frame in hand, queue and new frame stay in capture order.
THEOREM CaptureOrderKept == Spec => []CaptureOrder
<1>1. PlacesInv => CaptureOrder
  BY DEF PlacesInv, Places
<1> QED
  BY <1>1, PlacesInvariant, PTL

\* Frames leave the cache, and are dropped from the queue, oldest first.
THEOREM LeaveOldestFirst == Spec => []OldestFirst
<1>1. PlacesInv => OldestFirst
  <2> SUFFICES ASSUME PlacesInv
               PROVE  OldestFirst
    OBVIOUS
  <2>1. \A i \in 1..Len(queue) : queue[i] \in Queued
    BY DEF Queued
  <2> QED
    BY <2>1 DEF PlacesInv, Places, PastOrder, OldestFirst, Left
<1> QED
  BY <1>1, PlacesInvariant, PTL

----------------------------------------------------------------------------
(* What reaches S3                                                         *)

\* What is delivered only grows, by the frame in hand.
LEMMA DeliveredGrows ==
  ASSUME [Next]_vars
  PROVE  \/ delivered' = delivered
         \/ upc = "put" /\ delivered' = delivered \cup {<<hand, handq>>}
<1> USE DEF envVars
<1>1. CASE MainStep
  BY <1>1 DEF MainStep, Capture, Submit, SubmitFull, DropOldest, StartHeartbeat,
     HeartbeatAnswered, Stop
<1>2. CASE UploaderStep
  BY <1>2 DEF UploaderStep, StartProbe, ProbeAnswered, StartReport, ReportAnswered, TakeProvisional, TakeOffline, TakeLive,
     BeatAnswered, Try, GiveUp, SkipReplay, DiscardOld, PickEmpty, StartReplay, ReplayDeletes,
     SignAnswered, PutAnswered, FinishUpload, Exit
<1>3. CASE NtpReading \/ Settle \/ Restart \/ UNCHANGED vars
  BY <1>3 DEF NtpReading, Settle, Restart, vars
<1> QED
  BY <1>1, <1>2, <1>3 DEF Next

\* With CACHE_KEEP_PROVISIONAL off no frame is stored under the stamp of an
\* unanchored clock.
THEOREM ProvisionalStaysBack == Spec => []ProvisionalKeptBack
<1>1. Init => ProvisionalKeptBack
  BY DEF Init, ProvisionalKeptBack
<1>2. HandOK /\ ProvisionalKeptBack /\ [Next]_vars => ProvisionalKeptBack'
  <2> SUFFICES ASSUME HandOK, ProvisionalKeptBack, [Next]_vars, ~KeepProvisional
               PROVE  \A f \in Frames : <<f, "provisional">> \notin delivered'
    BY DEF ProvisionalKeptBack
  <2>1. upc = "put" => handq = "trusted"
    BY DEF HandOK
  <2>2. CASE delivered' = delivered
    BY <2>2 DEF ProvisionalKeptBack
  <2>3. CASE upc = "put" /\ delivered' = delivered \cup {<<hand, handq>>}
    <3>1. \A f \in Frames : <<f, "provisional">> # <<hand, handq>>
      BY <2>1, <2>3
    <3> QED
      BY <2>3, <3>1 DEF ProvisionalKeptBack
  <2> QED
    BY <2>2, <2>3, DeliveredGrows
<1>3. PlacesInv => HandOK
  BY DEF PlacesInv
<1> QED
  BY <1>1, <1>2, <1>3, PlacesInvariant, PTL DEF Spec

\* Only a verified upload adds to what counts as uploaded.
SameUploaded == tally'["uploaded"] = tally["uploaded"]

LEMMA OtherTally ==
  ASSUME TypeOK, NEW w \in Tallies \ {"uploaded"}, NEW F, tally' = Tally(w, F)
  PROVE  SameUploaded
BY DEF TypeOK, Tally, Tallies, SameUploaded

LEMMA SpillUploads ==
  ASSUME TypeOK, NEW f, Spill(f)
  PROVE  SameUploaded
<1>1. tally \in [Tallies -> SUBSET Frames]
  BY DEF TypeOK
<1>2. PICK cut \in store \cup {NoFrame} :
        \/ tally' = Tally("evicted", Oldest(cut))
        \/ tally' = [Tally("evicted", Oldest(cut)) EXCEPT !["dropped"] = @ \cup {f}]
  BY DEF Spill
<1> QED
  BY <1>1, <1>2 DEF Tally, Tallies, SameUploaded

LEMMA UploadedGrows ==
  ASSUME TypeOK, [Next]_vars
  PROVE  \/ SameUploaded
         \/ upc = "verified" /\ tally'["uploaded"] = tally["uploaded"] \cup {hand}
<1>1. ASSUME MarkOnline PROVE SameUploaded
  BY <1>1, OtherTally DEF MarkOnline, diskVars, Tallies, SameUploaded
<1>2. ASSUME TransportFailed PROVE SameUploaded
  BY <1>2, SpillUploads DEF TransportFailed, diskVars, SameUploaded
<1>3. CASE MainStep
  BY <1>3, OtherTally DEF MainStep, Capture, Submit, SubmitFull, DropOldest, StartHeartbeat,
     HeartbeatAnswered, Stop, diskVars, Tallies, SameUploaded
<1>4. CASE StartProbe \/ StartReport \/ ReportAnswered \/ BeatAnswered \/ TakeLive \/ Try \/ SkipReplay \/ PickEmpty
           \/ StartReplay \/ Exit
  BY <1>4 DEF StartProbe, StartReport, ReportAnswered, BeatAnswered, TakeLive, Try, SkipReplay, PickEmpty, StartReplay, Exit,
     diskVars, SameUploaded
<1>5. CASE ProbeAnswered \/ TakeProvisional \/ TakeOffline
  BY <1>1, <1>5, OtherTally, SpillUploads
     DEF ProbeAnswered, TakeProvisional, TakeOffline, diskVars, Tallies, SameUploaded
<1>6. CASE GiveUp \/ DiscardOld \/ ReplayDeletes
  BY <1>6, OtherTally DEF GiveUp, DiscardOld, ReplayDeletes, Tallies
<1>7. CASE SignAnswered
  BY <1>2, <1>7, OtherTally
     DEF SignAnswered, HttpFailed, Skipped, SignGranted, diskVars, Tallies, SameUploaded
<1>8. CASE PutAnswered
  BY <1>1, <1>2, <1>8 DEF PutAnswered, HttpFailed, diskVars, SameUploaded
<1>9. CASE FinishUpload
  BY <1>9 DEF FinishUpload, TypeOK, Tally, Tallies
<1>10. CASE NtpReading \/ Settle \/ Restart \/ UNCHANGED vars
  BY <1>10, OtherTally DEF NtpReading, Settle, Restart, vars, diskVars, Tallies, SameUploaded
<1> QED
  BY <1>3, <1>4, <1>5, <1>6, <1>7, <1>8, <1>9, <1>10 DEF Next, UploaderStep

\* What counts as uploaded, and is deleted from the cache for it, is in S3.
THEOREM UploadsAreDelivered == Spec => []UploadedIsDelivered
<1>1. Init => UploadedIsDelivered
  BY DEF Init, UploadedIsDelivered, Tallies
<1>2. PlacesInv /\ UploadedIsDelivered /\ [Next]_vars => UploadedIsDelivered'
  <2> SUFFICES ASSUME PlacesInv, UploadedIsDelivered, [Next]_vars,
                      NEW f \in tally'["uploaded"]
               PROVE  \E q \in Qualities : <<f, q>> \in delivered'
    BY DEF UploadedIsDelivered
  <2>1. delivered \subseteq delivered'
    BY DeliveredGrows
  <2>2. CASE f \in tally["uploaded"]
    BY <2>1, <2>2 DEF UploadedIsDelivered
  <2>3. CASE upc = "verified" /\ f = hand
    BY <2>1, <2>3 DEF PlacesInv, HandOK, TypeOK
  <2> QED
    BY <2>2, <2>3, UploadedGrows DEF PlacesInv, SameUploaded
<1> QED
  BY <1>1, <1>2, PlacesInvariant, PTL DEF Spec

----------------------------------------------------------------------------
(* The stamp a frame is stored under                                       *)

\* Restamping never takes trust from a stamp, and capture stamps a new frame.
LEMMA QualityKept ==
  ASSUME PlacesInv, [Next]_vars, NEW f \in Frames, f <= taken, quality[f] = "trusted"
  PROVE  quality'[f] = "trusted"
<1>1. ASSUME UNCHANGED quality PROVE quality'[f] = "trusted"
  BY <1>1
<1>2. ASSUME Observe PROVE quality'[f] = "trusted"
  BY <1>2 DEF Observe, Corrected, clockVars
<1>3. ASSUME HeartbeatAnswer PROVE quality'[f] = "trusted"
  BY <1>2, <1>3 DEF HeartbeatAnswer, clockVars
<1>4. CASE MainStep
  <2>1. CASE Capture
    <3>1. f # taken + 1
      BY PlacesType DEF PlacesInv
    <3>2. quality \in [Frames -> Qualities]
      BY DEF PlacesInv, TypeOK
    <3> QED
      BY <2>1, <3>1, <3>2 DEF Capture
  <2>2. CASE HeartbeatAnswered
    BY <1>3, <2>2 DEF HeartbeatAnswered
  <2>3. CASE Submit \/ SubmitFull \/ DropOldest \/ StartHeartbeat \/ Stop
    BY <2>3 DEF Submit, SubmitFull, DropOldest, StartHeartbeat, Stop, clockVars
  <2> QED
    BY <1>4, <2>1, <2>2, <2>3 DEF MainStep
<1>5. CASE UploaderStep
  <2>1. UNCHANGED clockVars \/ Observe \/ HeartbeatAnswer
    BY <1>5 DEF UploaderStep, StartProbe, ProbeAnswered, StartReport, ReportAnswered,
       TakeProvisional, TakeOffline, TakeLive, BeatAnswered, Try, GiveUp, SkipReplay, DiscardOld,
       PickEmpty, StartReplay, ReplayDeletes, SignAnswered, SignGranted, PutAnswered,
       FinishUpload, Exit
  <2> QED
    BY <1>2, <1>3, <2>1 DEF clockVars
<1>6. CASE NtpReading \/ Settle \/ Restart \/ UNCHANGED vars
  BY <1>2, <1>6 DEF NtpReading, Settle, Restart, vars, clockVars
<1> QED
  BY <1>4, <1>5, <1>6 DEF Next

\* The frame in hand goes out under the quality it has, unless it was taken from
\* the cache still provisional.
HandStamped ==
  hand # NoFrame =>
    /\ handq = "trusted" => quality[hand] = "trusted"
    /\ ~late => handq = "trusted"

LEMMA HandStampedStep ==
  ASSUME PlacesInv, HandStamped, [Next]_vars
  PROVE  HandStamped'
<1>1. CASE hand' = NoFrame
  BY <1>1 DEF HandStamped
<1>2. CASE UNCHANGED itemVars
  <2>1. hand # NoFrame => hand \in Frames /\ hand <= taken
    BY DEF PlacesInv, TypeOK, Places, PastOrder
  <2> QED
    BY <1>2, <2>1, QualityKept DEF HandStamped, itemVars
<1>3. CASE TakeLive \/ StartReplay
  <2>1. UNCHANGED quality
    BY <1>3 DEF TakeLive, StartReplay, clockVars
  <2>2. handq' = quality[hand'] /\ (~late' => handq' = "trusted")
    BY <1>3 DEF TakeLive, LiveQuality, StartReplay
  <2> QED
    BY <2>1, <2>2 DEF HandStamped
<1>4. CASE MainStep
  BY <1>2, <1>4 DEF MainStep, Capture, Submit, SubmitFull, DropOldest, StartHeartbeat,
     HeartbeatAnswered, Stop, handVars
<1>5. CASE UploaderStep
  <2>1. CASE SignAnswered \/ PutAnswered
    BY <1>1, <1>2, <2>1 DEF SignAnswered, PutAnswered, TransportFailed, HttpFailed, Skipped,
       SignGranted, Release, PutDown, Goto
  <2>2. CASE \/ StartProbe \/ ProbeAnswered \/ StartReport \/ ReportAnswered \/ TakeProvisional
             \/ TakeOffline \/ BeatAnswered \/ Try \/ GiveUp \/ SkipReplay \/ DiscardOld
             \/ PickEmpty \/ ReplayDeletes \/ FinishUpload \/ Exit
    BY <1>1, <1>2, <2>2 DEF StartProbe, ProbeAnswered, StartReport, ReportAnswered,
       TakeProvisional, TakeOffline, BeatAnswered, Try, GiveUp, SkipReplay, DiscardOld,
       PickEmpty, ReplayDeletes, FinishUpload, Exit, Goto, Release, PutDown
  <2> QED
    BY <1>3, <1>5, <2>1, <2>2 DEF UploaderStep
<1>6. CASE NtpReading \/ Settle \/ Restart \/ UNCHANGED vars
  BY <1>1, <1>2, <1>6 DEF NtpReading, Settle, Restart, PutDown, vars, handVars
<1> QED
  BY <1>4, <1>5, <1>6 DEF Next

\* A verified PUT stored the frame under the quality class, trusted or provisional,
\* that the pipeline has it in, whatever answer anchored the clock between its
\* /sign and the end of its PUT; all but a frame replayed while
\* CACHE_KEEP_PROVISIONAL is on.
ClassUnlessKept ==
  (upc = "verified" /\ (~late \/ ~KeepProvisional)) => handq = quality[hand]

\* Of what uploader.py:591 says of replayed frames this is the part about the
\* class.  It says nothing of corrections within it: the drift share that a replayed
\* holdover frame's own /sign may put into its file (clock.py:242-253,
\* uploader.py:536-542), after its item was built, is not in the model.
THEOREM UploadedClass == Spec => []ClassUnlessKept
<1>1. Init => HandStamped
  BY DEF Init, HandStamped
<1>2. PlacesInv /\ HandStamped => ClassUnlessKept
  BY DEF PlacesInv, HandOK, HandStamped, ClassUnlessKept
<1> QED
  BY <1>1, <1>2, HandStampedStep, PlacesInvariant, PTL DEF Spec

----------------------------------------------------------------------------
(* The asymmetric link                                                     *)

ProbesOffline == upc = "probe" => net_state = "offline"

LEMMA ProbesOfflineStep ==
  ASSUME PlacesInv, ProbesOffline, [Next]_vars
  PROVE  ProbesOffline'
<1>1. CASE upc' # "probe"
  BY <1>1 DEF ProbesOffline
<1>2. CASE upc' = "probe" /\ upc = "probe"
  <2>1. MainStep \/ NtpReading \/ Settle \/ UNCHANGED vars
    BY <1>2 DEF Next, UploaderStep, StartProbe, ProbeAnswered, StartReport, ReportAnswered,
       TakeProvisional, TakeOffline, TakeLive, BeatAnswered, Try, GiveUp, SkipReplay, DiscardOld,
       PickEmpty, StartReplay, ReplayDeletes, SignAnswered, PutAnswered, FinishUpload, Exit,
       Polls, Get, Replayable, ReplayTurn, Goto, Restart
  <2>2. net_state' = net_state \/ net_state' = "offline"
    BY <2>1 DEF MainStep, Capture, Submit, SubmitFull, DropOldest, StartHeartbeat,
       HeartbeatAnswered, HeartbeatAnswer, NoteFailure, NoteHttpError, Stop, NtpReading, Settle, vars, netVars
  <2> QED
    BY <1>2, <2>2 DEF ProbesOffline
<1>3. CASE upc' = "probe" /\ upc # "probe"
  <2>1. StartProbe
    BY <1>3 DEF Next, MainStep, Capture, Submit, SubmitFull, DropOldest, StartHeartbeat,
       HeartbeatAnswered, Stop, UploaderStep, ProbeAnswered, StartReport, ReportAnswered,
       TakeProvisional, TakeOffline, TakeLive, BeatAnswered, Try, GiveUp, SkipReplay, DiscardOld,
       PickEmpty, StartReplay, ReplayDeletes, SignAnswered, TransportFailed, HttpFailed, Skipped,
       SignGranted, PutAnswered, FinishUpload, Exit, Goto, Release, AfterLive, NtpReading, Settle,
       Restart, vars, handVars
  <2> QED
    BY <2>1 DEF StartProbe, netVars, ProbesOffline
<1> QED
  BY <1>1, <1>2, <1>3

\* While each /sign is granted and each PUT dies (network = "asym") the counter
\* of an agent that believes itself ONLINE is never reset, whichever thread
\* hears what; and with the cache on each attempt that sends a live frame round
\* once more raises it.  As it stays within its limit, a frame is tried at most
\* OfflineAfter times: the safety half of AsymmetricLinkTrips.
AsymFailuresCount ==
  [][network = "asym" /\ net_state = "online" /\ restarts' = restarts =>
       /\ failures' >= failures
       /\ upc = "put" /\ upc' = "try" /\ cache_enabled => failures' > failures]_vars

LEMMA AsymStep ==
  ASSUME PlacesInv, ProbesOffline, Next,
         network = "asym", net_state = "online", restarts' = restarts
  PROVE  /\ failures' >= failures
         /\ upc = "put" /\ upc' = "try" /\ cache_enabled => failures' > failures
<1>1. failures \in 0..OfflineAfter /\ OfflineAfter \in Nat
  BY UploaderAssumption DEF PlacesInv, TypeOK
<1>2. SignAnswers = {"granted"} /\ PutAnswers \subseteq {"transport", "lost"}
  BY DEF SignAnswers, PutAnswers
<1>3. ASSUME NoteFailure PROVE failures' >= failures
  BY <1>1, <1>3 DEF NoteFailure
<1>4. ASSUME HeartbeatAnswer PROVE failures' = failures
  BY <1>2, <1>4 DEF HeartbeatAnswer
<1>5. CASE PutAnswered
  <2>1. TransportFailed
    BY <1>2, <1>5 DEF PutAnswered, PutVerified
  <2>2. ASSUME upc' = "try", cache_enabled PROVE failures' > failures
    <3>1. ~Tips
      BY <2>1, <2>2 DEF TransportFailed, Release, AfterLive
    <3>2. failures + 1 < OfflineAfter
      BY <1>1, <2>2, <3>1 DEF Tips
    <3> QED
      BY <1>1, <2>1, <3>2 DEF TransportFailed, NoteFailure
  <2> QED
    BY <1>3, <2>1, <2>2 DEF TransportFailed
<1>6. CASE UploaderStep /\ ~PutAnswered
  <2>1. upc' = "try" => upc # "put"
    BY <1>6 DEF UploaderStep, StartProbe, ProbeAnswered, StartReport, ReportAnswered,
       TakeProvisional, TakeOffline, TakeLive, BeatAnswered, Try, GiveUp, SkipReplay, DiscardOld,
       PickEmpty, StartReplay, ReplayDeletes, SignAnswered, FinishUpload, Exit, Polls, Get,
       Replayable, ReplayTurn
  <2>2. CASE ProbeAnswered
    BY <2>2 DEF ProbeAnswered, ProbesOffline
  <2>3. CASE SignAnswered
    <3>1. TransportFailed \/ SignGranted
      BY <1>2, <2>3 DEF SignAnswered
    <3>2. failures' >= failures
      BY <1>1, <1>3, <3>1 DEF TransportFailed, SignGranted
    <3> QED
      BY <2>3, <3>2 DEF SignAnswered
  <2>4. CASE ReportAnswered \/ BeatAnswered
    BY <1>1, <1>4, <2>4 DEF ReportAnswered, BeatAnswered
  <2>5. CASE \/ StartProbe \/ StartReport \/ TakeProvisional \/ TakeOffline \/ TakeLive \/ Try
             \/ GiveUp \/ SkipReplay \/ DiscardOld \/ PickEmpty \/ StartReplay
             \/ ReplayDeletes \/ FinishUpload \/ Exit
    <3>1. UNCHANGED failures
      BY <2>5 DEF StartProbe, StartReport, TakeProvisional, TakeOffline, TakeLive, Try, GiveUp,
         SkipReplay, DiscardOld, PickEmpty, StartReplay, ReplayDeletes, FinishUpload, Exit, netVars
    <3> QED
      BY <1>1, <2>1, <3>1
  <2> QED
    BY <1>1, <1>4, <1>6, <2>1, <2>2, <2>3, <2>4, <2>5 DEF UploaderStep, ReportAnswered, BeatAnswered
<1>7. CASE MainStep \/ NtpReading \/ Settle
  <2>1. UNCHANGED upc
    BY <1>7 DEF MainStep, Capture, Submit, SubmitFull, DropOldest, StartHeartbeat,
       HeartbeatAnswered, Stop, NtpReading, Settle, handVars
  <2>2. UNCHANGED failures
    BY <1>4, <1>7 DEF MainStep, Capture, Submit, SubmitFull, DropOldest, StartHeartbeat,
       HeartbeatAnswered, Stop, NtpReading, Settle, netVars
  <2> QED
    BY <1>1, <2>1, <2>2
<1>8. ~Restart
  BY DEF Restart, PlacesInv, TypeOK
<1> QED
  BY <1>5, <1>6, <1>7, <1>8 DEF Next

\* So on such a link every lost PUT answer counts towards the trip: the safety
\* half of AsymmetricLinkTrips.
THEOREM AsymmetryCounts == Spec => AsymFailuresCount
<1>1. Init => ProbesOffline
  BY DEF Init, ProbesOffline
<1>2. PlacesInv /\ ProbesOffline /\ [Next]_vars =>
        [network = "asym" /\ net_state = "online" /\ restarts' = restarts =>
           /\ failures' >= failures
           /\ upc = "put" /\ upc' = "try" /\ cache_enabled => failures' > failures]_vars
  BY AsymStep
<1> QED
  BY <1>1, <1>2, ProbesOfflineStep, PlacesInvariant, PTL DEF Spec, AsymFailuresCount
=============================================================================
