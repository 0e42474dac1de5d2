----------------------------- MODULE SpillStore -----------------------------
(***************************************************************************)
(* The spill cache on the SD card (src/agent/cache.py), file by file: a    *)
(* frame u is u.jpg and its stamp u.json, each written to a .tmp and       *)
(* renamed into place, and an in-memory index of the frames.  One thread   *)
(* (the uploader) puts, evicts and deletes; whichever thread anchors the   *)
(* clock restamps.  Between any two file operations the process may be     *)
(* killed or the power cut; a card in trouble fails writes, or is remounted*)
(* read-only, where unlink() errors are swallowed.                         *)
(*                                                                         *)
(* Frames are put in ULID order, and only the oldest is ever deleted: that *)
(* is what Uploader, the caller, guarantees.                               *)
(***************************************************************************)
EXTENDS Integers, FiniteSets

CONSTANTS Ulids,       \* frames, as naturals in capture order
          MaxStore,    \* SpillStore._max_frames
          MaxDowns     \* bound: times the process goes down

ASSUME SpillStoreAssumption ==
  /\ Ulids \subseteq Nat \ {0}
  /\ MaxStore \in Nat \ {0}
  /\ MaxDowns \in Nat

None == 0
Whole == {"first", "corrected"}   \* as put, and as rewritten by restamp
Stamps == Whole \cup {"none", "torn"}
Kinds == {"stamp", "frame"}

VARIABLES
  frames,     \* the .jpg files
  stamp,      \* the .json file of each frame
  tmps,       \* the .tmp files
  index,      \* SpillStore._sizes
  at,         \* where in put() or delete() the uploader is; "down": no process
  incoming,   \* frame being put
  victim,     \* frame being deleted
  restamping, \* frame another thread restamps
  rat,        \* where in restamp() it is
  card,       \* "ok" or "readonly"
  onCard,     \* what a power cut leaves for sure: names of the frames
  stampOnCard,\*   and the stamp files
  last,       \* last frame put() was called for
  bootFrom,   \* frames above it were put since the last power-up
  downs

fileVars == <<frames, stamp, tmps>>
opVars == <<at, incoming, victim>>
restampVars == <<restamping, rat>>
cardVars == <<card, onCard, stampOnCard>>
lifeVars == <<last, bootFrom, downs>>

vars == <<fileVars, index, opVars, restampVars, cardVars, lifeVars>>

Writing == {"stampTmp", "stampName", "frameTmp", "frameName"}

OldestOf(S, u) == u \in S /\ \A v \in S : u <= v

----------------------------------------------------------------------------
(* put(), evict_to_bounds(), delete()                                      *)

Put ==
  \E u \in Ulids :
  /\ at = "idle" /\ u > last
  /\ at' = "room" /\ incoming' = u /\ last' = u
  /\ UNCHANGED <<fileVars, index, victim, restampVars, cardVars, bootFrom, downs>>

\* Mutant of Victim: evicts the newest.
NewestVictim(u) == u \in index /\ \A v \in index : u >= v

\* The frame to evict or delete.
Victim(u) == OldestOf(index, u)

\* Over max_frames, or free space under the floor: evict the oldest.
Evict ==
  \E u \in Ulids :
  /\ at = "room" /\ Victim(u)
  /\ at' = "unlinkFrame" /\ victim' = u
  /\ UNCHANGED <<fileVars, index, incoming, restampVars, cardVars, lifeVars>>

\* The floor cannot be met even with the store empty.
NoRoom ==
  /\ at = "room" /\ index = {}
  /\ at' = "idle" /\ incoming' = None
  /\ UNCHANGED <<fileVars, index, victim, restampVars, cardVars, lifeVars>>

\* Mutant of HasRoom: evicts only once over the bound.
HasRoomAtBound == Cardinality(index) <= MaxStore

HasRoom == Cardinality(index) < MaxStore

RoomMade ==
  /\ at = "room" /\ HasRoom
  /\ at' = "stampTmp"
  /\ UNCHANGED <<fileVars, index, incoming, victim, restampVars, cardVars, lifeVars>>

\* The file operations of put(), in their order.
WriteTmp ==
  /\ card = "ok"
  /\ \/ at = "stampTmp" /\ at' = "stampName" /\ tmps' = tmps \cup {<<incoming, "stamp">>}
     \/ at = "frameTmp" /\ at' = "frameName" /\ tmps' = tmps \cup {<<incoming, "frame">>}
  /\ UNCHANGED <<frames, stamp, index, incoming, victim, restampVars, cardVars, lifeVars>>

NameStamp ==
  /\ at = "stampName" /\ card = "ok"
  /\ at' = "frameTmp"
  /\ stamp' = [stamp EXCEPT ![incoming] = "first"]
  /\ tmps' = tmps \ {<<incoming, "stamp">>}
  /\ UNCHANGED <<frames, index, incoming, victim, restampVars, cardVars, lifeVars>>

NameFrame ==
  /\ at = "frameName" /\ card = "ok"
  /\ at' = "indexed"
  /\ frames' = frames \cup {incoming}
  /\ tmps' = tmps \ {<<incoming, "frame">>}
  /\ UNCHANGED <<stamp, index, incoming, victim, restampVars, cardVars, lifeVars>>

Indexed ==
  /\ at = "indexed"
  /\ at' = "idle" /\ incoming' = None
  /\ index' = index \cup {incoming}
  /\ UNCHANGED <<fileVars, victim, restampVars, cardVars, lifeVars>>

\* An OSError in one of them, which may leave the .tmp behind.
WriteFails ==
  /\ at \in Writing
  /\ at' = "undo"
  /\ tmps' \in {tmps} \cup
       {tmps \cup {<<incoming, k>>} : k \in
          {j \in Kinds : card = "ok" /\ at = IF j = "stamp" THEN "stampTmp" ELSE "frameTmp"}}
  /\ UNCHANGED <<frames, stamp, index, incoming, victim, restampVars, cardVars, lifeVars>>

\* unlink(), errors swallowed: nothing happens on a read-only card.
UnlinkStampOf(u) ==
  stamp' = IF card = "ok" THEN [stamp EXCEPT ![u] = "none"] ELSE stamp

Undo ==
  /\ at = "undo"
  /\ UnlinkStampOf(incoming)
  /\ at' = "idle" /\ incoming' = None
  /\ UNCHANGED <<frames, tmps, index, victim, restampVars, cardVars, lifeVars>>

\* delete() after an upload, a skip, or by age.
Delete ==
  \E u \in Ulids :
  /\ at = "idle" /\ Victim(u)
  /\ at' = "unlinkFrame" /\ victim' = u
  /\ UNCHANGED <<fileVars, index, incoming, restampVars, cardVars, lifeVars>>

\* Mutant of UnlinkFrame: the stamp goes first.
UnlinkStampFirst ==
  /\ at = "unlinkFrame"
  /\ at' = "unlinkStamp"
  /\ UnlinkStampOf(victim)
  /\ UNCHANGED <<frames, tmps, index, incoming, victim, restampVars, cardVars, lifeVars>>

UnlinkFrame ==
  /\ at = "unlinkFrame"
  /\ at' = "unlinkStamp"
  /\ frames' = IF card = "ok" THEN frames \ {victim} ELSE frames
  /\ UNCHANGED <<stamp, tmps, index, incoming, victim, restampVars, cardVars, lifeVars>>

UnlinkStamp ==
  /\ at = "unlinkStamp"
  /\ at' = "pop"
  /\ UnlinkStampOf(victim)
  /\ UNCHANGED <<frames, tmps, index, incoming, victim, restampVars, cardVars, lifeVars>>

\* Mutant of Pop: the put the eviction made room for is forgotten.
PopToIdle ==
  /\ at = "pop"
  /\ at' = "idle"
  /\ index' = index \ {victim} /\ victim' = None
  /\ UNCHANGED <<fileVars, incoming, restampVars, cardVars, lifeVars>>

\* The index forgets the frame; an eviction goes back to put().
Pop ==
  /\ at = "pop"
  /\ at' = IF incoming = None THEN "idle" ELSE "room"
  /\ index' = index \ {victim} /\ victim' = None
  /\ UNCHANGED <<fileVars, incoming, restampVars, cardVars, lifeVars>>

----------------------------------------------------------------------------
(* restamp(), called by apply_resync() on the thread that anchored the     *)
(* clock                                                                   *)

\* apply_resync's list of the frames, read before the first is rewritten.
\* (Later resyncs may rewrite a corrected stamp: they race with the uploader in
\* the same way and leave the same files, so only the first is modelled.)
Restamp ==
  \E u \in index :
  /\ at # "down" /\ rat = "idle"
  /\ u > bootFrom /\ stamp[u] = "first"
  /\ restamping' = u /\ rat' = "listed"
  /\ UNCHANGED <<fileVars, index, opVars, cardVars, lifeVars>>

\* restamp() looks the frame up in the index before it writes.
StillHeld == restamping \in index

RestampTmp ==
  /\ rat = "listed" /\ StillHeld /\ card = "ok"
  /\ rat' = "tmp"
  /\ tmps' = tmps \cup {<<restamping, "stamp">>}
  /\ UNCHANGED <<frames, stamp, index, opVars, restamping, cardVars, lifeVars>>

RestampName ==
  /\ rat = "tmp" /\ card = "ok"
  /\ rat' = "idle" /\ restamping' = None
  /\ stamp' = [stamp EXCEPT ![restamping] = "corrected"]
  /\ tmps' = tmps \ {<<restamping, "stamp">>}
  /\ UNCHANGED <<frames, index, opVars, cardVars, lifeVars>>

\* The frame is gone, or the write fails.
RestampFails ==
  /\ rat # "idle"
  /\ rat' = "idle" /\ restamping' = None
  /\ UNCHANGED <<fileVars, index, opVars, cardVars, lifeVars>>

----------------------------------------------------------------------------
(* The card, crashes and restarts                                          *)

\* The kernel writes back what it holds of a directory entry or a stamp.
\* (A frame's bytes are fsynced before it gets its name.)
Writeback ==
  \E u \in Ulids :
  /\ \/ /\ onCard' = IF u \in frames THEN onCard \cup {u} ELSE onCard \ {u}
        /\ UNCHANGED stampOnCard
     \/ /\ stampOnCard' = [stampOnCard EXCEPT ![u] = stamp[u]]
        /\ UNCHANGED onCard
  /\ UNCHANGED <<fileVars, index, opVars, restampVars, card, lifeVars>>

\* Errors on the card: the kernel remounts it read-only.
Remount ==
  /\ card = "ok"
  /\ card' = "readonly"
  /\ UNCHANGED <<fileVars, index, opVars, restampVars, onCard, stampOnCard, lifeVars>>

GoDown ==
  /\ at # "down" /\ downs < MaxDowns
  /\ downs' = downs + 1
  /\ at' = "down" /\ incoming' = None /\ victim' = None
  /\ rat' = "idle" /\ restamping' = None
  /\ index' = {}
  /\ UNCHANGED <<tmps, last>>

\* The process ends: the files stay as they are.
Crash ==
  /\ GoDown
  /\ UNCHANGED <<frames, stamp, cardVars, bootFrom>>

\* What may be found after a power cut: what is on the card, or what was
\* about to be; a stamp, never fsynced, may also be cut short.
Survivors(u) ==
  {stampOnCard[u], stamp[u]} \cup
    (IF stamp[u] \notin {"none", stampOnCard[u]} THEN {"torn"} ELSE {})

PowerCut ==
  /\ GoDown
  /\ \E f \in SUBSET (frames \cup onCard) :
       /\ frames \cap onCard \subseteq f
       /\ frames' = f /\ onCard' = f
  /\ stamp' \in {s \in [Ulids -> Stamps] : \A u \in Ulids : s[u] \in Survivors(u)}
  /\ stampOnCard' = stamp'
  /\ card' = "ok"
  /\ bootFrom' = last

\* Mutant of Sweep: stamps without a frame are kept.
SweepTmps ==
  IF card = "ok" THEN tmps' = {} /\ UNCHANGED stamp ELSE UNCHANGED <<tmps, stamp>>

\* _scan drops leftovers of interrupted writes and stamps without a frame.
Sweep ==
  IF card = "ok"
  THEN /\ tmps' = {}
       /\ stamp' = [u \in Ulids |-> IF u \in frames THEN stamp[u] ELSE "none"]
  ELSE UNCHANGED <<tmps, stamp>>

\* Mutant of Start: the index is built from the stamps.
IndexFromStamps ==
  /\ at = "down"
  /\ at' = "idle"
  /\ index' = {u \in Ulids : stamp[u] # "none"}
  /\ Sweep
  /\ UNCHANGED <<frames, incoming, victim, restampVars, cardVars, lifeVars>>

Start ==
  /\ at = "down"
  /\ at' = "idle"
  /\ index' = frames
  /\ Sweep
  /\ UNCHANGED <<frames, incoming, victim, restampVars, cardVars, lifeVars>>

----------------------------------------------------------------------------

Init ==
  /\ frames = {} /\ stamp = [u \in Ulids |-> "none"] /\ tmps = {}
  /\ index = {}
  /\ at = "idle" /\ incoming = None /\ victim = None
  /\ restamping = None /\ rat = "idle"
  /\ card = "ok" /\ onCard = {} /\ stampOnCard = [u \in Ulids |-> "none"]
  /\ last = 0 /\ bootFrom = 0 /\ downs = 0

Next ==
  \/ Put \/ Evict \/ NoRoom \/ RoomMade
  \/ WriteTmp \/ NameStamp \/ NameFrame \/ Indexed \/ WriteFails \/ Undo
  \/ Delete \/ UnlinkFrame \/ UnlinkStamp \/ Pop
  \/ Restamp \/ RestampTmp \/ RestampName \/ RestampFails
  \/ Writeback \/ Remount \/ Crash \/ PowerCut \/ Start

Spec == Init /\ [][Next]_vars

----------------------------------------------------------------------------
(* Properties                                                              *)

\* Types, and which frame is in work where: the bookkeeping of put() and
\* delete() around an eviction.
TypeOK ==
  /\ frames \subseteq Ulids /\ index \subseteq Ulids /\ onCard \subseteq Ulids
  /\ stamp \in [Ulids -> Stamps] /\ stampOnCard \in [Ulids -> Stamps]
  /\ tmps \subseteq Ulids \X Kinds
  /\ at \in Writing \cup {"down", "idle", "room", "indexed", "undo",
                          "unlinkFrame", "unlinkStamp", "pop"}
  /\ incoming \in Ulids \cup {None} /\ victim \in Ulids \cup {None}
  /\ (at \in {"down", "idle"} => incoming = None)
  /\ (at \in Writing \cup {"room", "indexed", "undo"} => incoming # None)
  /\ (at \in {"unlinkFrame", "unlinkStamp", "pop"} <=> victim # None)
  /\ rat \in {"idle", "listed", "tmp"}
  /\ restamping \in Ulids \cup {None} /\ (rat = "idle" <=> restamping = None)
  /\ card \in {"ok", "readonly"}
  /\ last \in Ulids \cup {0} /\ bootFrom \in Ulids \cup {0}
  /\ downs \in 0..MaxDowns

\* "A frame that exists always has a complete sidecar unless the card lost
\* the write": whatever file operation the process dies in, a frame put since
\* the last power-up has its whole stamp.
StampedWhileThere ==
  \A u \in frames : u > bootFrom => stamp[u] \in Whole

\* The index is the frames on disk whenever the uploader is between calls,
\* after any failed write, crash or power cut, as long as the card takes
\* writes.
IndexIsDisk ==
  (at = "idle" /\ card = "ok") => index = frames

\* Once a put succeeds the store is within max_frames again, even if a power
\* cut brought deleted frames back.
BoundedAgain ==
  at = "indexed" => Cardinality(frames) <= MaxStore

\* "Sidecars whose frame never made it" are not left lying about by failed
\* puts, deletes or crashes: a stamp without a frame belongs to a call under
\* way, or to a frame deleted while another thread restamped it.
NoStaleStamps ==
  (at # "down" /\ card = "ok") =>
    \A u \in Ulids \ frames :
      \/ stamp[u] = "none" \/ u \in {incoming, victim}
      \/ stamp[u] = "corrected" /\ u > bootFrom

FS == INSTANCE FrameStore WITH held <- frames, settled <- onCard

\* The files implement the abstract store: frames enter whole and in order,
\* leave oldest first, survive every crash, and a power cut takes back only
\* what had not settled.
ImplementsFrameStore == FS!FSSpec
=============================================================================
