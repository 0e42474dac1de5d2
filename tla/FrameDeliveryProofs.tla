------------------------- MODULE FrameDeliveryProofs -------------------------
(***************************************************************************)
(* What FrameDelivery comes to, for any frames: capture order between cache*)
(* and memory, and that lost, uploaded and still here exclude each other.  *)
(***************************************************************************)
EXTENDS FrameDelivery, TLAPS

FDTypes ==
  /\ memory \subseteq Frames /\ cached \subseteq Frames
  /\ claimed \subseteq Frames /\ lost \subseteq Frames

FDInv == FDTypes /\ Delivers

LEMMA SentGrows ==
  ASSUME MaySend \/ sent' = sent
  PROVE  \A f : Has(sent, f) => Has(sent', f)
  BY DEF MaySend, Has

LEMMA SentHeld ==
  ASSUME MaySend \/ sent' = sent
  PROVE  \A f : Has(sent', f) => Has(sent, f) \/ f \in memory \cup cached
  BY DEF MaySend, Has, OldestIn

LEMMA FDInit_Inv == FDInit => FDInv
  BY DEF FDInit, FDInv, FDTypes, Delivers

\* Frames leave, given up or claimed, and perhaps something is sent.
LEMMA FramesLeave ==
  ASSUME FDInv, NEW E \in SUBSET Frames,
         MaySend \/ sent' = sent,
         memory' \subseteq memory \ E, cached' \subseteq cached \ E,
         GiveUpAll(E), claimed' = claimed
  PROVE  FDInv'
  <1>1. FDTypes'
    BY DEF FDInv, FDTypes, GiveUpAll
  <1>2. \A f \in cached', g \in memory' : f < g
    BY DEF FDInv, Delivers
  <1>3. \A f \in lost' : f \notin memory' \cup cached' /\ ~Has(sent', f)
    BY SentHeld DEF FDInv, Delivers, GiveUpAll
  <1>4. \A f \in claimed' : Has(sent', f) /\ f \notin memory' \cup cached'
    BY SentGrows DEF FDInv, Delivers
  <1> QED BY <1>1, <1>2, <1>3, <1>4 DEF FDInv, Delivers

LEMMA FDStep ==
  ASSUME Frames \subseteq Int, FDInv, FDNext
  PROVE  FDInv'
  <1>0. memory \cap cached = {}
    BY DEF FDInv, FDTypes, Delivers
  <1>1. CASE CaptureNew
    <2>1. PICK f \in Frames : /\ \A g \in memory \cup cached \cup claimed \cup lost : g < f
                              /\ ~Has(sent, f) /\ memory' = memory \cup {f}
      BY <1>1 DEF CaptureNew
    <2>2. UNCHANGED <<cached, sent, claimed, lost>>
      BY <1>1 DEF CaptureNew
    <2>3. f \notin claimed \cup lost
      BY <2>1
    <2> QED BY <2>1, <2>2, <2>3 DEF FDInv, FDTypes, Delivers
  <1>2. CASE SendOrAge
    <2>1. PICK E \in SUBSET cached : /\ MaySend /\ cached' = cached \ E /\ GiveUpAll(E)
                                     /\ UNCHANGED <<memory, claimed>>
      BY <1>2 DEF SendOrAge
    <2>2. E \in SUBSET Frames /\ memory' \subseteq memory \ E
      BY <2>1, <1>0 DEF FDInv, FDTypes
    <2> QED BY <2>1, <2>2, FramesLeave
  <1>3. CASE MoveToCache
    <2>1. PICK f \in Frames, E \in SUBSET cached :
             /\ OldestIn(memory, f) /\ (\A g \in cached : g < f)
             /\ MaySend /\ memory' = memory \ {f} /\ claimed' = claimed
             /\ \/ cached' = (cached \ E) \cup {f} /\ GiveUpAll(E)
                \/ cached' = cached \ E /\ GiveUpAll(E \cup {f})
      BY <1>3 DEF MoveToCache
    <2>2. E \in SUBSET Frames /\ E \cap memory = {} /\ f \in memory /\ f \notin cached
      BY <2>1, <1>0 DEF FDInv, FDTypes, OldestIn
    <2>3. CASE cached' = (cached \ E) \cup {f} /\ GiveUpAll(E)
      <3>1. FDTypes'
        BY <2>1, <2>2, <2>3 DEF FDInv, FDTypes, GiveUpAll
      <3>2. \A g \in cached', h \in memory' : g < h
        <4>1. \A h \in memory' : f < h
          BY <2>1, <2>2 DEF FDInv, FDTypes, OldestIn
        <4> QED BY <4>1, <2>1, <2>3 DEF FDInv, Delivers
      <3>3. \A g \in lost' : g \notin memory' \cup cached' /\ ~Has(sent', g)
        <4>1. \A g \in lost : g \notin memory \cup cached /\ ~Has(sent', g)
          BY <2>1, SentHeld DEF FDInv, Delivers
        <4>2. \A g \in E : g \notin memory' \cup cached'
          BY <2>1, <2>2, <2>3
        <4> QED BY <4>1, <4>2, <2>1, <2>2, <2>3 DEF GiveUpAll
      <3>4. \A g \in claimed' : Has(sent', g) /\ g \notin memory' \cup cached'
        BY <2>1, <2>2, <2>3, SentGrows DEF FDInv, Delivers
      <3> QED BY <3>1, <3>2, <3>3, <3>4 DEF FDInv, Delivers
    <2>4. CASE cached' = cached \ E /\ GiveUpAll(E \cup {f})
      <3>1. E \cup {f} \in SUBSET Frames
        BY <2>1, <2>2
      <3>2. memory' \subseteq memory \ (E \cup {f}) /\ cached' \subseteq cached \ (E \cup {f})
        BY <2>1, <2>2, <2>4
      <3> QED BY <3>1, <3>2, <2>1, <2>4, FramesLeave
    <2> QED BY <2>1, <2>3, <2>4
  <1>4. CASE Claim
    BY <1>4 DEF Claim, FDInv, FDTypes, Delivers
  <1>5. CASE GiveUpOldest
    <2>1. PICK f \in Frames : /\ memory' = memory \ {f} /\ cached' = cached \ {f}
                              /\ GiveUpAll({f}) /\ UNCHANGED <<sent, claimed>>
      BY <1>5 DEF GiveUpOldest
    <2> QED BY <2>1, FramesLeave
  <1>6. CASE Overflow
    <2>1. PICK f \in memory : /\ memory' = memory \ {f} /\ GiveUpAll({f})
                              /\ UNCHANGED <<cached, sent, claimed>>
      BY <1>6 DEF Overflow
    <2>2. {f} \in SUBSET Frames /\ cached' \subseteq cached \ {f}
      BY <2>1, <1>0 DEF FDInv, FDTypes
    <2> QED BY <2>1, <2>2, FramesLeave
  <1>7. CASE ProcessEnds
    <2>1. memory \in SUBSET Frames /\ cached' \subseteq cached \ memory
      BY <1>7, <1>0 DEF FDInv, FDTypes, ProcessEnds
    <2> QED BY <1>7, <2>1, FramesLeave DEF ProcessEnds
  <1> QED BY <1>1, <1>2, <1>3, <1>4, <1>5, <1>6, <1>7 DEF FDNext

\* What the pipeline promises comes to this: cached frames are older than those
\* in memory, a frame counted as uploaded is in S3 and not kept, and a frame is
\* lost only if S3 never got it (uploader.py's and cache.py's module comments).
THEOREM DeliveryDelivers == ASSUME Frames \subseteq Int PROVE FDSpec => []Delivers
  <1>1. FDInv /\ [FDNext]_fdVars => FDInv'
    <2>1. FDInv /\ UNCHANGED fdVars => FDInv'
      BY DEF FDInv, FDTypes, Delivers, fdVars
    <2> QED BY <2>1, FDStep
  <1>2. FDInv => Delivers
    BY DEF FDInv
  <1> QED BY FDInit_Inv, <1>1, <1>2, PTL DEF FDSpec

\* A frame that is no longer in memory or cache is in S3 or counted as lost
\* (uploader.py:20-22: deleted after a verified PUT; cache.py:14-16: evicted
\* oldest first and counted).
THEOREM DeliveryKeeps == FDSpec => NoneVanishes
  <1> DEFINE Kept == \A f \in memory \cup cached :
                       f \in memory' \cup cached' \cup lost' \/ Has(sent', f)
  <1>1. ASSUME FDNext PROVE Kept
    <2>1. CASE CaptureNew
      BY <2>1 DEF CaptureNew
    <2>2. CASE SendOrAge
      BY <2>2 DEF SendOrAge, GiveUpAll
    <2>3. CASE MoveToCache
      BY <2>3 DEF MoveToCache, GiveUpAll
    <2>4. CASE Claim
      BY <2>4 DEF Claim, Has
    <2>5. CASE GiveUpOldest
      BY <2>5 DEF GiveUpOldest, GiveUpAll
    <2>6. CASE Overflow
      BY <2>6 DEF Overflow, GiveUpAll
    <2>7. CASE ProcessEnds
      BY <2>7 DEF ProcessEnds, GiveUpAll
    <2> QED BY <1>1, <2>1, <2>2, <2>3, <2>4, <2>5, <2>6, <2>7 DEF FDNext
  <1>2. [FDNext]_fdVars => [Kept]_fdVars
    BY <1>1
  <1> QED BY <1>2, PTL DEF FDSpec, NoneVanishes

LEMMA OrderStep ==
  ASSUME Frames \subseteq Int, FDInv, FDNext
  PROVE  /\ cached' \subseteq cached \cup memory
         /\ \A f \in cached' \ cached, g \in cached : g < f
         /\ \A f \in cached \ cached', g \in cached \cap cached' : f < g
  <1>0. cached \subseteq Int /\ memory \cap cached = {}
    BY DEF FDInv, FDTypes, Delivers
  <1>1. CASE UNCHANGED cached
    BY <1>1
  <1>2. CASE CaptureNew \/ Overflow \/ ProcessEnds
    BY <1>1, <1>2 DEF CaptureNew, Overflow, ProcessEnds
  <1>3. CASE SendOrAge
    BY <1>3 DEF SendOrAge, OldPart
  <1>4. CASE MoveToCache
    BY <1>4 DEF MoveToCache, OldPart, OldestIn
  <1>5. CASE Claim \/ GiveUpOldest
    <2>1. PICK f \in Frames : (f \in cached => OldestIn(cached, f)) /\ cached' = cached \ {f}
      <3>1. CASE Claim
        BY <3>1 DEF Claim
      <3>2. CASE GiveUpOldest
        BY <3>2, <1>0 DEF GiveUpOldest, OldestIn
      <3> QED BY <1>5, <3>1, <3>2
    <2> QED BY <1>0, <2>1 DEF OldestIn
  <1> QED BY <1>2, <1>3, <1>4, <1>5 DEF FDNext

\* Frames enter the cache newest and leave it oldest first, also those that
\* leave uploaded (cache.py:5-6 and 14-16, uploader.py:20-22).
THEOREM DeliveryOrders == ASSUME Frames \subseteq Int PROVE FDSpec => CachedInOrder
  <1> DEFINE InOrder == /\ cached' \subseteq cached \cup memory
                        /\ \A f \in cached' \ cached, g \in cached : g < f
                        /\ \A f \in cached \ cached', g \in cached \cap cached' : f < g
  <1>1. FDInv /\ [FDNext]_fdVars => FDInv'
    <2>1. FDInv /\ UNCHANGED fdVars => FDInv'
      BY DEF FDInv, FDTypes, Delivers, fdVars
    <2> QED BY <2>1, FDStep
  <1>2. FDInv /\ [FDNext]_fdVars => [InOrder]_fdVars
    BY OrderStep
  <1> QED BY FDInit_Inv, <1>1, <1>2, PTL DEF FDSpec, CachedInOrder
=============================================================================
