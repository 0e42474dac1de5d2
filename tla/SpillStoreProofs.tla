-------------------------- MODULE SpillStoreProofs --------------------------
(***************************************************************************)
(* Proofs about SpillStore, for any set of ULIDs, any bound and any number *)
(* of crashes and power cuts: its types, that index, stamps and bound are  *)
(* kept, and that the files implement the abstract FrameStore.             *)
(***************************************************************************)
EXTENDS SpillStore, FiniteSetTheorems, TLAPS

\* put() is past Put and has not given the frame its name yet.
Naming == at \in Writing \cup {"room", "undo"} \/ (victim # None /\ incoming # None)

\* Frames come in order: the one being put is newer than every file.
Ordered ==
  /\ \A u \in frames \cup onCard : u <= last
  /\ Naming => \A u \in frames : u < incoming
  /\ incoming <= last /\ bootFrom <= last

\* While the card takes writes the index is the frames, but for the one put()
\* has named and the one delete() has unlinked.
Unlinked == IF at \in {"unlinkStamp", "pop"} THEN {victim} ELSE {}
Named == IF at = "indexed" THEN {incoming} ELSE {}

IndexInv ==
  /\ (card = "ok" /\ at # "down") => frames = (index \ Unlinked) \cup Named
  /\ at = "unlinkFrame" => Victim(victim)

\* The stamp is whole before its frame has a name.
StampInv ==
  /\ StampedWhileThere
  /\ at \in {"frameTmp", "frameName"} => stamp[incoming] \in Whole
  /\ rat # "idle" => restamping > bootFrom

\* Where a stamp has no frame yet, or no more.
Excused(u) ==
  \/ u = incoming /\ at \in {"frameTmp", "frameName", "undo"}
  \/ u = victim /\ at = "unlinkStamp"

LeftoverInv ==
  (at # "down" /\ card = "ok") =>
    \A u \in Ulids \ frames :
      Excused(u) \/ stamp[u] = "none" \/ (stamp[u] = "corrected" /\ u > bootFrom)

\* Room is made before anything is written.
BoundInv ==
  /\ IsFiniteSet(frames) /\ IsFiniteSet(index) /\ IsFiniteSet(onCard)
  /\ at \in Writing => Cardinality(index) < MaxStore
  /\ BoundedAgain

StoreInv ==
  TypeOK /\ Ordered /\ IndexInv /\ StampInv /\ LeftoverInv /\ BoundInv

----------------------------------------------------------------------------
(* Types                                                                   *)

\* Ulids are naturals other than None.
LEMMA UlidsAreNaturals ==
  /\ \A u \in Ulids : u \in Nat /\ u # None /\ u > 0
  /\ None \notin Ulids
BY SpillStoreAssumption DEF None

LEMMA TypeStep ==
  ASSUME TypeOK, Next
  PROVE  TypeOK'
<1> USE UlidsAreNaturals DEF TypeOK, Stamps, Whole, Kinds, Writing, fileVars, opVars,
        restampVars, cardVars, lifeVars
<1>1. CASE Put
  BY <1>1 DEF Put
<1>2. CASE Evict \/ NoRoom \/ RoomMade
  BY <1>2 DEF Evict, Victim, OldestOf, NoRoom, RoomMade
<1>3. CASE WriteTmp
  BY <1>3 DEF WriteTmp
<1>4. CASE NameStamp \/ NameFrame \/ Indexed
  BY <1>4 DEF NameStamp, NameFrame, Indexed
<1>5. CASE WriteFails
  BY <1>5 DEF WriteFails
<1>6. CASE Undo
  BY <1>6 DEF Undo, UnlinkStampOf
<1>7. CASE Delete \/ UnlinkFrame
  BY <1>7 DEF Delete, Victim, OldestOf, UnlinkFrame
<1>8. CASE UnlinkStamp \/ Pop
  BY <1>8 DEF UnlinkStamp, UnlinkStampOf, Pop
<1>9. CASE Restamp \/ RestampTmp \/ RestampName \/ RestampFails
  BY <1>9 DEF Restamp, RestampTmp, StillHeld, RestampName, RestampFails
<1>10. CASE Writeback
  BY <1>10 DEF Writeback
<1>11. GoDown => downs' \in 0..MaxDowns
  BY SpillStoreAssumption DEF GoDown
<1>12. CASE Remount
  BY <1>12 DEF Remount
<1>13. CASE Crash
  BY <1>11, <1>13 DEF Crash, GoDown
<1>14. CASE PowerCut
  <2>1. frames' \subseteq Ulids /\ onCard' \subseteq Ulids
    BY <1>14 DEF PowerCut
  <2>2. stamp' \in [Ulids -> Stamps] /\ stampOnCard' \in [Ulids -> Stamps]
    BY <1>14 DEF PowerCut
  <2> QED
    BY <1>11, <1>14, <2>1, <2>2 DEF PowerCut, GoDown
<1>15. CASE Start
  <2>1. stamp' \in [Ulids -> Stamps] /\ tmps' \subseteq Ulids \X Kinds
    BY <1>15 DEF Start, Sweep
  <2> QED
    BY <1>15, <2>1 DEF Start
<1> QED
  BY <1>1, <1>2, <1>3, <1>4, <1>5, <1>6, <1>7, <1>8, <1>9, <1>10, <1>12, <1>13, <1>14,
     <1>15 DEF Next

----------------------------------------------------------------------------
(* Order                                                                   *)

LEMMA OrderedStep ==
  ASSUME TypeOK, Ordered, Next
  PROVE  Ordered'
<1> /\ last \in Nat /\ incoming \in Nat /\ bootFrom \in Nat
    /\ frames \subseteq Nat /\ onCard \subseteq Nat
  BY UlidsAreNaturals DEF TypeOK, None
<1> USE DEF Ordered, Naming, Writing, None, fileVars, opVars, restampVars, cardVars, lifeVars
<1>1. CASE Put
  BY <1>1, UlidsAreNaturals DEF Put
<1>2. CASE Evict \/ RoomMade
  BY <1>2 DEF Evict, RoomMade
<1>3. CASE NoRoom
  BY <1>3 DEF NoRoom
<1>4. CASE WriteTmp \/ NameStamp \/ WriteFails
  BY <1>4 DEF WriteTmp, NameStamp, WriteFails
<1>5. CASE NameFrame
  BY <1>5 DEF NameFrame, TypeOK
<1>6. CASE Indexed
  BY <1>6 DEF Indexed
<1>7. CASE Undo
  BY <1>7 DEF Undo
<1>8. CASE Delete
  BY <1>8 DEF Delete, TypeOK
<1>9. CASE UnlinkFrame \/ UnlinkStamp \/ Pop
  BY <1>9 DEF UnlinkFrame, UnlinkStamp, Pop, TypeOK
<1>10. CASE Restamp \/ RestampTmp \/ RestampName \/ RestampFails
  BY <1>10 DEF Restamp, RestampTmp, RestampName, RestampFails
<1>11. CASE Writeback
  BY <1>11 DEF Writeback
<1>12. CASE Remount
  BY <1>12 DEF Remount
<1>13. CASE Crash
  BY <1>13 DEF Crash, GoDown
<1>14. CASE PowerCut
  BY <1>14 DEF PowerCut, GoDown
<1>15. CASE Start
  BY <1>15 DEF Start, TypeOK
<1> QED
  BY <1>1, <1>2, <1>3, <1>4, <1>5, <1>6, <1>7, <1>8, <1>9, <1>10, <1>11, <1>12, <1>13,
     <1>14, <1>15 DEF Next

----------------------------------------------------------------------------
(* Index and files                                                         *)

LEMMA IndexStep ==
  ASSUME TypeOK, Ordered, IndexInv, Next
  PROVE  IndexInv'
<1> USE DEF IndexInv, Unlinked, Named, Victim, OldestOf, fileVars, opVars, restampVars,
        cardVars, lifeVars
<1>1. CASE Put \/ Evict \/ NoRoom \/ RoomMade
  BY <1>1 DEF Put, Evict, NoRoom, RoomMade
<1>2. CASE WriteTmp \/ NameStamp \/ WriteFails \/ Undo
  BY <1>2 DEF WriteTmp, NameStamp, WriteFails, Undo, Writing
<1>3. CASE NameFrame \/ Indexed
  BY <1>3 DEF NameFrame, Indexed
<1>4. CASE Delete
  BY <1>4 DEF Delete
<1>5. CASE UnlinkFrame
  BY <1>5 DEF UnlinkFrame
<1>6. CASE UnlinkStamp \/ Pop
  BY <1>6 DEF UnlinkStamp, Pop
<1>7. CASE Restamp \/ RestampTmp \/ RestampName \/ RestampFails
  BY <1>7 DEF Restamp, RestampTmp, RestampName, RestampFails
<1>8. CASE Writeback \/ Remount
  BY <1>8 DEF Writeback, Remount
<1>9. CASE Crash \/ PowerCut
  BY <1>9 DEF Crash, PowerCut, GoDown
<1>10. CASE Start
  BY <1>10 DEF Start
<1> QED
  BY <1>1, <1>2, <1>3, <1>4, <1>5, <1>6, <1>7, <1>8, <1>9, <1>10 DEF Next

----------------------------------------------------------------------------
(* Stamps                                                                  *)

LEMMA StampStep ==
  ASSUME TypeOK, Ordered, IndexInv, StampInv, Next
  PROVE  StampInv'
<1> /\ last \in Nat /\ incoming \in Nat /\ bootFrom \in Nat
    /\ frames \subseteq Nat /\ frames \subseteq Ulids /\ stamp \in [Ulids -> Stamps]
  BY UlidsAreNaturals DEF TypeOK, None
<1> USE DEF StampInv, StampedWhileThere, Whole, fileVars, opVars, restampVars, cardVars, lifeVars
<1>1. CASE Put \/ Evict \/ NoRoom \/ RoomMade \/ Indexed \/ Delete
  BY <1>1 DEF Put, Evict, NoRoom, RoomMade, Indexed, Delete
<1>2. CASE WriteTmp \/ WriteFails
  BY <1>2 DEF WriteTmp, WriteFails
<1>3. CASE NameStamp
  BY <1>3 DEF NameStamp, TypeOK, Writing, None
<1>4. CASE NameFrame
  BY <1>4 DEF NameFrame
<1>5. CASE Undo
  <2>1. incoming \notin frames
    BY <1>5 DEF Undo, Ordered, Naming
  <2> QED
    BY <1>5, <2>1 DEF Undo, UnlinkStampOf
<1>6. CASE UnlinkFrame \/ Pop
  BY <1>6 DEF UnlinkFrame, Pop
<1>7. CASE UnlinkStamp
  <2>1. card = "ok" => victim \notin frames
    BY <1>7 DEF UnlinkStamp, IndexInv, Unlinked, Named
  <2> QED
    BY <1>7, <2>1 DEF UnlinkStamp, UnlinkStampOf
<1>8. CASE Restamp \/ RestampTmp \/ RestampFails
  BY <1>8 DEF Restamp, RestampTmp, RestampFails
<1>9. CASE RestampName
  BY <1>9 DEF RestampName, TypeOK
<1>10. CASE Writeback \/ Remount
  BY <1>10 DEF Writeback, Remount
<1>11. CASE Crash
  BY <1>11 DEF Crash, GoDown
<1>12. CASE PowerCut
  <2>1. \A u \in frames' : u <= bootFrom'
    BY <1>12 DEF PowerCut, GoDown, Ordered
  <2>2. at' = "down" /\ rat' = "idle" /\ bootFrom' = last
    BY <1>12 DEF PowerCut, GoDown
  <2>3. frames' \subseteq Nat
    BY <1>12, UlidsAreNaturals DEF PowerCut, TypeOK
  <2> QED
    BY <2>1, <2>2, <2>3
<1>13. CASE Start
  BY <1>13 DEF Start, Sweep, TypeOK
<1> QED
  BY <1>1, <1>2, <1>3, <1>4, <1>5, <1>6, <1>7, <1>8, <1>9, <1>10, <1>11, <1>12, <1>13
     DEF Next

----------------------------------------------------------------------------
(* Stamps without a frame                                                  *)

LEMMA LeftoverStep ==
  ASSUME TypeOK, IndexInv, StampInv, LeftoverInv, Next
  PROVE  LeftoverInv'
<1> stamp \in [Ulids -> Stamps]
  BY DEF TypeOK
<1> USE DEF LeftoverInv, Excused, fileVars, opVars, restampVars, cardVars, lifeVars
<1>1. CASE Put \/ Evict \/ RoomMade \/ Delete
  BY <1>1 DEF Put, Evict, RoomMade, Delete
<1>2. CASE NoRoom
  BY <1>2 DEF NoRoom
<1>3. CASE WriteTmp \/ WriteFails
  BY <1>3 DEF WriteTmp, WriteFails, Writing
<1>4. CASE NameStamp
  BY <1>4 DEF NameStamp
<1>5. CASE NameFrame
  BY <1>5 DEF NameFrame
<1>6. CASE Indexed
  BY <1>6 DEF Indexed
<1>7. CASE Undo
  BY <1>7 DEF Undo, UnlinkStampOf
<1>8. CASE UnlinkFrame
  BY <1>8 DEF UnlinkFrame
<1>9. CASE UnlinkStamp
  BY <1>9 DEF UnlinkStamp, UnlinkStampOf
<1>10. CASE Pop
  BY <1>10 DEF Pop
<1>11. CASE Restamp \/ RestampTmp \/ RestampFails
  BY <1>11 DEF Restamp, RestampTmp, RestampFails
<1>12. CASE RestampName
  BY <1>12 DEF RestampName, StampInv
<1>13. CASE Writeback \/ Remount
  BY <1>13 DEF Writeback, Remount
<1>14. CASE Crash \/ PowerCut
  BY <1>14 DEF Crash, PowerCut, GoDown
<1>15. CASE Start
  BY <1>15 DEF Start, Sweep
<1> QED
  BY <1>1, <1>2, <1>3, <1>4, <1>5, <1>6, <1>7, <1>8, <1>9, <1>10, <1>11, <1>12, <1>13,
     <1>14, <1>15 DEF Next

----------------------------------------------------------------------------
(* The bound                                                               *)

LEMMA FiniteStep ==
  ASSUME IsFiniteSet(frames), IsFiniteSet(index), IsFiniteSet(onCard), Next
  PROVE  IsFiniteSet(frames') /\ IsFiniteSet(index') /\ IsFiniteSet(onCard')
<1> USE DEF fileVars, opVars, restampVars, cardVars, lifeVars
<1>1. /\ \A u : IsFiniteSet(frames \cup {u}) /\ IsFiniteSet(index \cup {u})
                                            /\ IsFiniteSet(onCard \cup {u})
      /\ \A T : T \subseteq frames \/ T \subseteq index \/ T \subseteq onCard => IsFiniteSet(T)
      /\ \A T : T \subseteq frames \cup onCard => IsFiniteSet(T)
      /\ IsFiniteSet({})
  BY FS_AddElement, FS_Subset, FS_Union, FS_EmptySet
<1>2. CASE Put \/ Evict \/ NoRoom \/ RoomMade \/ WriteTmp \/ NameStamp \/ WriteFails \/ Undo
           \/ Delete \/ UnlinkStamp
  BY <1>2 DEF Put, Evict, NoRoom, RoomMade, WriteTmp, NameStamp, WriteFails, Undo, Delete,
              UnlinkStamp
<1>3. CASE NameFrame \/ Indexed
  BY <1>1, <1>3 DEF NameFrame, Indexed
<1>4. CASE UnlinkFrame \/ Pop
  <2>1. frames' \subseteq frames /\ index' \subseteq index /\ onCard' = onCard
    BY <1>4 DEF UnlinkFrame, Pop
  <2> QED
    BY <1>1, <2>1
<1>5. CASE Restamp \/ RestampTmp \/ RestampName \/ RestampFails \/ Remount
  BY <1>5 DEF Restamp, RestampTmp, RestampName, RestampFails, Remount
<1>6. CASE Writeback
  <2>1. frames' = frames /\ index' = index /\ onCard' \subseteq frames \cup onCard
    BY <1>6 DEF Writeback
  <2> QED
    BY <1>1, <2>1
<1>7. CASE Crash \/ PowerCut
  <2>1. index' = {} /\ frames' \subseteq frames \cup onCard /\ onCard' \subseteq frames \cup onCard
    BY <1>7 DEF Crash, PowerCut, GoDown
  <2> QED
    BY <1>1, <2>1
<1>8. CASE Start
  BY <1>8 DEF Start
<1> QED
  BY <1>2, <1>3, <1>4, <1>5, <1>6, <1>7, <1>8 DEF Next

LEMMA BoundStep ==
  ASSUME TypeOK, IndexInv, BoundInv, Next
  PROVE  BoundInv'
<1>1. IsFiniteSet(frames') /\ IsFiniteSet(index') /\ IsFiniteSet(onCard')
  BY FiniteStep DEF BoundInv
<1> USE DEF BoundInv, BoundedAgain, Writing, fileVars, opVars, restampVars, cardVars, lifeVars
<1>2. at' \in Writing => Cardinality(index') < MaxStore
  BY DEF Next, Put, Evict, NoRoom, RoomMade, HasRoom, WriteTmp, NameStamp, NameFrame, Indexed,
         WriteFails, Undo, Delete, UnlinkFrame, UnlinkStamp, Pop, Restamp, RestampTmp,
         RestampName, RestampFails, Writeback, Remount, Crash, PowerCut, GoDown, Start
<1>3. CASE NameFrame
  <2>1. frames' = index \cup {incoming} /\ at = "frameName"
    BY <1>3 DEF NameFrame, IndexInv, Unlinked, Named
  <2>2. Cardinality(index) < MaxStore
    BY <2>1
  <2>3. /\ Cardinality(index) \in Nat
        /\ Cardinality(index \cup {incoming}) \in {Cardinality(index), Cardinality(index) + 1}
    BY FS_CardinalityType, FS_AddElement
  <2>4. Cardinality(frames') = Cardinality(index \cup {incoming})
    BY <2>1
  <2>5. Cardinality(frames') <= MaxStore
    BY <2>2, <2>3, <2>4, SpillStoreAssumption
  <2> QED
    BY <1>1, <1>2, <2>5
<1>4. ASSUME ~NameFrame, at' = "indexed"
      PROVE  at = "indexed" /\ frames' = frames
  BY <1>4 DEF Next, Put, Evict, NoRoom, RoomMade, WriteTmp, NameStamp, Indexed, WriteFails, Undo,
         Delete, UnlinkFrame, UnlinkStamp, Pop, Restamp, RestampTmp, RestampName, RestampFails,
         Writeback, Remount, Crash, PowerCut, GoDown, Start
<1> QED
  BY <1>1, <1>2, <1>3, <1>4

----------------------------------------------------------------------------
(* The theorems                                                            *)

LEMMA InvInit == Init => StoreInv
<1> SUFFICES ASSUME Init PROVE StoreInv
  OBVIOUS
<1> USE UlidsAreNaturals, SpillStoreAssumption DEF Init
<1>1. TypeOK
  BY DEF TypeOK, Writing, Stamps, Whole, Kinds, None
<1>2. Ordered
  BY DEF Ordered, Naming, Writing, None
<1>3. IndexInv /\ StampInv
  BY DEF IndexInv, Unlinked, Named, StampInv, StampedWhileThere
<1>4. LeftoverInv
  BY DEF LeftoverInv
<1>5. BoundInv
  BY FS_EmptySet DEF BoundInv, BoundedAgain, Writing
<1> QED
  BY <1>1, <1>2, <1>3, <1>4, <1>5 DEF StoreInv

LEMMA InvStep == StoreInv /\ [Next]_vars => StoreInv'
<1> SUFFICES ASSUME StoreInv, [Next]_vars PROVE StoreInv'
  OBVIOUS
<1>1. CASE Next
  BY <1>1, TypeStep, OrderedStep, IndexStep, StampStep, LeftoverStep, BoundStep DEF StoreInv
<1>2. CASE UNCHANGED vars
  <2> USE <1>2 DEF StoreInv, vars, fileVars, opVars, restampVars, cardVars, lifeVars
  <2>1. TypeOK'
    BY DEF TypeOK
  <2>2. Ordered'
    BY DEF Ordered, Naming
  <2>3. IndexInv'
    BY DEF IndexInv, Unlinked, Named, Victim, OldestOf
  <2>4. StampInv'
    BY DEF StampInv, StampedWhileThere
  <2>5. LeftoverInv'
    BY DEF LeftoverInv, Excused
  <2>6. BoundInv'
    BY DEF BoundInv, BoundedAgain
  <2> QED
    BY <2>1, <2>2, <2>3, <2>4, <2>5, <2>6
<1> QED
  BY <1>1, <1>2

\* The inductive invariant of the cache: types, order of the frames, index
\* and disk, stamps, leftovers and the bound (put, delete, restamp, _scan).
THEOREM StoreInvariant == Spec => []StoreInv
<1> QED
  BY InvInit, InvStep, PTL DEF Spec

\* The types of the cache's state, and which frame is in work at each point
\* of put() and delete().
THEOREM StoreTypeCorrect == Spec => []TypeOK
<1>1. StoreInv => TypeOK
  BY DEF StoreInv
<1> QED
  BY <1>1, StoreInvariant, PTL

\* cache.py's "a frame that exists always has a complete sidecar unless the
\* card lost the write": a frame put since the last power-up has its stamp.
THEOREM FramesStayStamped == Spec => []StampedWhileThere
<1>1. StoreInv => StampedWhileThere
  BY DEF StoreInv, StampInv
<1> QED
  BY <1>1, StoreInvariant, PTL

\* Between calls the index (_sizes) is the frames on disk, as long as the card
\* takes writes.
THEOREM IndexStaysDisk == Spec => []IndexIsDisk
<1>1. StoreInv => IndexIsDisk
  BY DEF StoreInv, IndexInv, Unlinked, Named, IndexIsDisk
<1> QED
  BY <1>1, StoreInvariant, PTL

\* A successful put leaves at most max_frames frames on the card, whatever a
\* power cut had brought back (evict_to_bounds).
THEOREM PutsRestoreBound == Spec => []BoundedAgain
<1>1. StoreInv => BoundedAgain
  BY DEF StoreInv, BoundInv
<1> QED
  BY <1>1, StoreInvariant, PTL

\* No stamp outlives its frame, but for the call under way and the race of
\* restamp() with delete().
THEOREM NoStampsLeftBehind == Spec => []NoStaleStamps
<1>1. StoreInv => NoStaleStamps
  BY DEF StoreInv, LeftoverInv, Excused, NoStaleStamps
<1> QED
  BY <1>1, StoreInvariant, PTL

----------------------------------------------------------------------------
(* Refinement                                                              *)

\* Every step of the files is a step of the abstract store, or none.
LEMMA StoreStepRefines ==
  ASSUME StoreInv, Next
  PROVE  FS!FSNext \/ UNCHANGED FS!fsVars
<1> USE DEF FS!fsVars, fileVars, opVars, restampVars, cardVars, lifeVars
<1>1. CASE NameFrame
  <2>1. incoming \in Ulids \ frames /\ \A u \in frames : u < incoming
    <3>1. incoming \in Ulids
      BY <1>1 DEF StoreInv, TypeOK, NameFrame, Writing
    <3>2. \A u \in frames : u < incoming
      BY <1>1 DEF StoreInv, Ordered, Naming, NameFrame, Writing
    <3>3. \A u \in frames : u \in Nat
      BY UlidsAreNaturals DEF StoreInv, TypeOK
    <3> QED
      BY <3>1, <3>2, <3>3
  <2>2. FS!Accept
    BY <1>1, <2>1 DEF NameFrame, FS!Accept
  <2> QED
    BY <2>2 DEF FS!FSNext
<1>2. CASE UnlinkFrame
  <2>1. CASE card = "ok" /\ victim \in frames
    <3>1. \A u \in frames : victim <= u
      BY <1>2, <2>1 DEF UnlinkFrame, StoreInv, IndexInv, Unlinked, Named, Victim, OldestOf
    <3>2. FS!RemoveOldest
      BY <1>2, <2>1, <3>1 DEF UnlinkFrame, FS!RemoveOldest
    <3> QED
      BY <3>2 DEF FS!FSNext
  <2>2. CASE ~(card = "ok" /\ victim \in frames)
    BY <1>2, <2>2 DEF UnlinkFrame
  <2> QED
    BY <2>1, <2>2
<1>3. CASE Writeback
  <2>1. FS!SettleFrame \/ UNCHANGED FS!fsVars
    BY <1>3 DEF Writeback, FS!SettleFrame
  <2> QED
    BY <2>1 DEF FS!FSNext
<1>4. CASE PowerCut
  <2>1. PICK f \in SUBSET (frames \cup onCard) :
          frames \cap onCard \subseteq f /\ frames' = f /\ onCard' = f
    BY <1>4 DEF PowerCut
  <2>2. f \in SUBSET Ulids
    BY <2>1 DEF StoreInv, TypeOK
  <2>3. FS!PowerLoss
    BY <2>1, <2>2 DEF FS!PowerLoss
  <2> QED
    BY <2>3 DEF FS!FSNext
<1>5. CASE Put \/ Evict \/ NoRoom \/ RoomMade \/ WriteTmp \/ NameStamp \/ Indexed \/ WriteFails
           \/ Undo \/ Delete \/ UnlinkStamp \/ Pop
  BY <1>5 DEF Put, Evict, NoRoom, RoomMade, WriteTmp, NameStamp, Indexed, WriteFails, Undo,
              Delete, UnlinkStamp, Pop
<1>6. CASE Restamp \/ RestampTmp \/ RestampName \/ RestampFails \/ Remount \/ Crash \/ Start
  BY <1>6 DEF Restamp, RestampTmp, RestampName, RestampFails, Remount, Crash, Start
<1> QED
  BY <1>1, <1>2, <1>3, <1>4, <1>5, <1>6 DEF Next

\* The cache's files implement the store its "Guarantees" promise.
THEOREM SpillStoreImplements == Spec => ImplementsFrameStore
<1>1. Init => FS!FSInit
  BY DEF Init, FS!FSInit
<1>2. StoreInv /\ [Next]_vars => [FS!FSNext]_FS!fsVars
  <2> SUFFICES ASSUME StoreInv, [Next]_vars PROVE FS!FSNext \/ UNCHANGED FS!fsVars
    OBVIOUS
  <2>1. CASE Next
    BY <2>1, StoreStepRefines
  <2>2. CASE UNCHANGED vars
    BY <2>2 DEF vars, fileVars, cardVars, FS!fsVars
  <2> QED
    BY <2>1, <2>2
<1> QED
  BY <1>1, <1>2, StoreInvariant, PTL DEF Spec, ImplementsFrameStore, FS!FSSpec
=============================================================================
