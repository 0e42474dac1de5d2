--------------------------- MODULE AgentClockProofs ---------------------------
(***************************************************************************)
(* Proofs about AgentClock, for either thread or both or none listening to *)
(* the signer, any frames, and any bound on time, slips and restarts.  The *)
(* inductive invariant is ClockInv.                                        *)
(***************************************************************************)
EXTENDS AgentClock, TLAPS

Labels == {"provisional", "synced", "holdover"}
States == {"idle", "first", "refresh", "save", "restamp"}
Kinds == {"provisional", "holdover"}

Readings == [source : Sources]
Measured == [source : Sources, shift : Int]
Resyncs == [kind : Kinds, shift : Int, since : Int]

Begun == [f : Frames, mono : Times, base : Anchors \cup {None}]
Stamped == [f : Frames, mono : Times, seeded : BOOLEAN, off : Int]

FrameRecords ==
  [place : {"queue", "store"}, boot : 1..MaxStarts, start : 1..MaxStarts, mono : Times,
   off : Int, was : Labels, label : Labels, fixes : Nat, by : 0..MaxStarts, late : BOOLEAN]

TimeTypes ==
  truth \in Times /\ mono \in Times /\ mono <= truth /\ slips \in 0..MaxSlips

LifeTypes ==
  boot \in 1..MaxStarts /\ start \in 1..MaxStarts /\ boot <= start

ClockTypes ==
  /\ anchor \in Anchors \cup {None} /\ prov \in Anchors \cup {None}
  /\ disk \in Anchors \cup {None} /\ online \in BOOLEAN
  /\ (anchor = None) = (prov # None)
  /\ anchor # None => anchor.boot = boot
  /\ prov # None => prov.boot = boot
  /\ disk # None => disk.boot <= boot

Busy == {"save", "restamp"}

ThreadTypes ==
  /\ at \in [Threads -> States]
  /\ hold \in [Threads -> Readings \cup Measured \cup Resyncs \cup {Idle}]
  /\ todo \in [Threads -> SUBSET [f : Frames, off : Int]]
  /\ \A t \in Threads :
       /\ at[t] = "first" => hold[t] \in Readings
       /\ at[t] = "refresh" => hold[t] \in Measured
       /\ at[t] \in Busy => hold[t] \in Resyncs
       /\ at[t] # "restamp" => todo[t] = {}

FrameTypes ==
  /\ shot \in Begun \cup Stamped \cup {NoShot}
  /\ frame \in [Frames -> FrameRecords \cup {Free}]
  /\ spoilt \in 0..2 /\ events \in SUBSET {"crossed", "unsaved", "unwritten"}

Types == TimeTypes /\ LifeTypes /\ ClockTypes /\ ThreadTypes /\ FrameTypes

\* A trusted base, in memory or on disk, is behind by slips only.
Exact(b) == (b # None /\ b.boot = boot) => truth - UtcAt(b, mono) \in 0..slips
AnchorInv == Exact(anchor) /\ Exact(disk)

\* The capture that ran into the anchoring is the only one there can be.
SpoiltInv ==
  /\ spoilt <= 1 /\ (spoilt = 1 => anchor # None)
  /\ shot \in Begun => IF shot.base = None THEN spoilt = 0 ELSE anchor # None
  /\ shot \in Stamped => IF shot.seeded THEN spoilt = 0 ELSE anchor # None

\* No time passes while a thread is in observe_trusted, and the main thread
\* captures nothing while it is.
BusyInv ==
  /\ \A t \in Threads : at[t] = "refresh" => anchor # None
  /\ \A t \in Threads : at[t] \in Busy =>
       anchor # None /\ anchor.mono = mono /\ anchor.utc = truth
  /\ "main" \in Threads /\ at["main"] # "idle" => shot = NoShot
  /\ shot # NoShot => frame[shot.f] = Free

\* A resync that corrects nothing.
Void(t) == at[t] = "save" /\ hold[t].kind = "holdover" /\ hold[t].shift = 0

\* As long as no two threads crossed, at most one has something to correct.
SoloInv ==
  "crossed" \notin events =>
    /\ \A t \in Threads : at[t] = "first" => anchor = None
    /\ \A t, u \in Threads : t # u /\ at[t] \in Busy =>
         /\ at[u] = "refresh" => hold[u].shift = 0
         /\ at[u] \in Busy => Void(t) \/ Void(u)

\* What a thread has listed is as it was, or gone.
TodoInv ==
  "crossed" \notin events =>
    \A t \in Threads : \A s \in todo[t] :
      /\ t = "uploader" => frame[s.f] # Free
      /\ \A r \in todo[t] : r.f = s.f => r = s
      /\ frame[s.f] # Free =>
           /\ frame[s.f].place = "store" /\ frame[s.f].boot = boot
           /\ frame[s.f].label = hold[t].kind /\ frame[s.f].off = s.off

\* When a frame was captured, and by which process it was corrected.
AgeInv ==
  /\ \A f \in Kept :
       /\ frame[f].boot <= boot /\ frame[f].start <= start
       /\ frame[f].boot = boot => frame[f].mono <= mono
       /\ frame[f].start = start => frame[f].boot = boot
       /\ frame[f].label = "provisional" => frame[f].was = "provisional" /\ frame[f].by = 0
       /\ frame[f].was = "provisional" /\ frame[f].label # "provisional" /\ frame[f].start = start
            => frame[f].by = start
  /\ shot # NoShot => shot.mono <= mono

\* As long as nothing went wrong, a corrected frame is in the cache, older than
\* the anchor in memory and the one on disk, and in no list.
FixInv ==
  events \cap {"crossed", "unsaved"} = {} =>
    /\ \A f \in Kept : frame[f].fixes > 0 =>
         /\ frame[f].fixes = 1 /\ frame[f].place = "store" /\ frame[f].label = "holdover"
         /\ frame[f].boot = boot =>
              /\ anchor # None /\ frame[f].mono <= anchor.mono
              /\ disk # None /\ disk.boot = boot /\ frame[f].mono <= disk.mono
              /\ \A t \in Threads :
                   at[t] = "save" /\ hold[t].kind = "holdover" /\ hold[t].shift # 0
                     => frame[f].mono <= hold[t].since
    /\ \A t \in Threads :
         /\ at[t] = "restamp" => disk # None /\ disk.boot = boot /\ disk.mono = mono
         /\ \A s \in todo[t] : frame[s.f] # Free => frame[s.f].fixes = 0

\* Who will correct a provisional frame once there is an anchor.
StrandInv ==
  anchor # None /\ "unwritten" \notin events =>
    \A f \in Kept :
      frame[f].boot = boot /\ frame[f].label = "provisional" /\ frame[f].start = start =>
        \/ frame[f].late
        \/ \E t \in Threads : at[t] = "save" /\ hold[t].kind = "provisional"
        \/ frame[f].place = "store" /\ \E t \in Threads : \E s \in todo[t] : s.f = f

\* A provisional time is off by what the seed is off, to what the crystal
\* slipped; so the correction that measured the seed sets it right.
OffInv ==
  "crossed" \notin events =>
    /\ \A f \in Kept :
         frame[f].label = "provisional" /\ frame[f].start = start =>
           /\ anchor = None => frame[f].off + ErrorOf(prov) \in 0..slips
           /\ \A t \in Threads : at[t] \in Busy /\ hold[t].kind = "provisional"
                => frame[f].off + hold[t].shift \in 0..slips
    /\ anchor = None /\ shot \in Stamped => shot.off + ErrorOf(prov) \in 0..slips
    /\ \A f \in Kept :
         frame[f].was = "provisional" /\ frame[f].by = frame[f].start
           => frame[f].off \in 0..slips

ClockInv ==
  /\ Types /\ AnchorInv /\ SpoiltInv /\ BusyInv /\ AgeInv /\ StrandInv
  /\ SoloInv /\ TodoInv /\ OffInv /\ FixInv

----------------------------------------------------------------------------
(* One step of restamp                                                     *)

LEMMA RestampedFrame ==
  ASSUME ClockInv, NEW t \in Threads, NEW s \in todo[t], hold[t] \in Resyncs,
         s.off \in Int, frame[s.f] \in FrameRecords
  PROVE  LET g == frame[s.f]
             h == Restamped(t, s)
         IN /\ h \in FrameRecords
            /\ h.place = g.place /\ h.boot = g.boot /\ h.start = g.start /\ h.mono = g.mono
            /\ h.was = g.was /\ h.late = g.late
            /\ h.off = IF hold[t].kind = "provisional" THEN s.off + hold[t].shift ELSE g.off
            /\ h.label = "holdover" /\ h.fixes = g.fixes + 1 /\ h.by = start
  <1>1. start \in 0..MaxStarts
    BY AgentClockAssumption DEF ClockInv, Types, LifeTypes
  <1>2. s.off + hold[t].shift \in Int
    BY DEF Resyncs
  <1> DEFINE g == frame[s.f]
             h == Restamped(t, s)
  <1>3. /\ h.place = g.place /\ h.boot = g.boot /\ h.start = g.start /\ h.mono = g.mono
        /\ h.was = g.was /\ h.late = g.late
    BY DEF Restamped, FrameRecords
  <1>4. h.off = IF hold[t].kind = "provisional" THEN s.off + hold[t].shift ELSE g.off
    BY DEF Restamped, FrameRecords
  <1>5. h.label = "holdover" /\ h.fixes = g.fixes + 1 /\ h.by = start
    BY DEF Restamped, FrameRecords
  <1>6. h \in FrameRecords
    <2> DEFINE off == IF hold[t].kind = "provisional" THEN s.off + hold[t].shift ELSE g.off
    <2>1. off \in Int /\ g.fixes + 1 \in Nat /\ "holdover" \in Labels
      BY <1>2 DEF FrameRecords, Labels
    <2>2. h = [g EXCEPT !.off = off, !.label = "holdover", !.fixes = g.fixes + 1, !.by = start]
      BY DEF Restamped
    <2> HIDE DEF off, g, h
    <2>3. g \in FrameRecords
      BY DEF g
    <2> QED BY <1>1, <2>1, <2>2, <2>3 DEF FrameRecords
  <1> QED BY <1>3, <1>4, <1>5, <1>6

LEMMA RestampFacts ==
  ASSUME ClockInv, NEW t \in Threads, Restamp(t)
  PROVE  \E s \in todo[t] :
    /\ at[t] = "restamp" /\ hold[t] \in Resyncs
    /\ s \in [f : Frames, off : Int] /\ frame[s.f] \in FrameRecords \cup {Free}
    /\ UNCHANGED <<truth, mono, slips, boot, start, anchor, prov, disk, online, shot,
                   spoilt>>
    /\ events' \in {events, events \cup {"unwritten"}}
    /\ \A u \in Threads \ {t} : at'[u] = at[u] /\ hold'[u] = hold[u] /\ todo'[u] = todo[u]
    /\ todo'[t] = todo[t] \ {s} /\ at'[t] \in {"idle", "restamp"}
    /\ at'[t] = "restamp" => hold'[t] = hold[t]
    /\ \/ frame' = frame
       \/ frame[s.f].place = "store" /\ frame' = [frame EXCEPT ![s.f] = Restamped(t, s)]
    /\ "unwritten" \notin events' /\ frame[s.f].place = "store"
         => frame' = [frame EXCEPT ![s.f] = Restamped(t, s)]
  <1>1. PICK s \in todo[t] :
          /\ todo' = [todo EXCEPT ![t] = @ \ {s}]
          /\ Working(t, todo[t] \ {s})
          /\ \/ frame' = frame
             \/ frame[s.f].place = "store" /\ frame' = [frame EXCEPT ![s.f] = Restamped(t, s)]
          /\ events' \in {events, events \cup {"unwritten"}}
          /\ "unwritten" \notin events' /\ frame[s.f].place = "store"
               => frame' = [frame EXCEPT ![s.f] = Restamped(t, s)]
    BY DEF Restamp
  <1>2. at[t] = "restamp" /\ hold[t] \in Resyncs
    BY <1>1 DEF ClockInv, Types, ThreadTypes, Busy
  <1>3. s \in [f : Frames, off : Int]
    BY <1>1 DEF ClockInv, Types, ThreadTypes
  <1>4. frame[s.f] \in FrameRecords \cup {Free}
    BY <1>3 DEF ClockInv, Types, FrameTypes
  <1>5. /\ \A u \in Threads \ {t} : at'[u] = at[u] /\ hold'[u] = hold[u] /\ todo'[u] = todo[u]
        /\ todo'[t] = todo[t] \ {s} /\ at'[t] \in {"idle", "restamp"}
        /\ at'[t] = "restamp" => hold'[t] = hold[t]
    BY <1>1 DEF Working, ClockInv, Types, ThreadTypes
  <1>6. UNCHANGED <<truth, mono, slips, boot, start, anchor, prov, disk, online, shot,
                    spoilt>>
    BY DEF Restamp, timeVars, lifeVars, clockVars
  <1> QED BY <1>1, <1>2, <1>3, <1>4, <1>5, <1>6

----------------------------------------------------------------------------
(* Captures                                                               *)

LEMMA ShootStep == ASSUME ClockInv, Shoot PROVE ClockInv'
  <1>1. TimeTypes' /\ LifeTypes' /\ ClockTypes' /\ ThreadTypes'
    BY DEF ClockInv, Types, TimeTypes, LifeTypes, ClockTypes, ThreadTypes, Anchors,
        Shoot, timeVars, lifeVars, clockVars, threadVars
  <1>2. AnchorInv' /\ StrandInv' /\ SoloInv' /\ TodoInv' /\ FixInv'
    BY DEF ClockInv, AnchorInv, StrandInv, SoloInv, TodoInv, FixInv, Kept, Exact, Void,
        Shoot, timeVars, lifeVars, clockVars, threadVars, frameVars
  <1>3. FrameTypes'
    <2>1. shot' \in Begun
      BY DEF ClockInv, Types, TimeTypes, ClockTypes, Begun, Shoot
    <2> QED BY <2>1 DEF ClockInv, Types, FrameTypes, Shoot
  <1>4. SpoiltInv'
    <2>1. shot' \notin Stamped /\ shot'.base = anchor
      BY DEF Shoot, Stamped
    <2> QED BY <2>1 DEF ClockInv, SpoiltInv, Types, FrameTypes, Shoot, clockVars
  <1>5. BusyInv'
    BY AgentClockAssumption DEF ClockInv, Types, BusyInv, NoFrame, None, Free, NoShot,
        Busy, Shoot, timeVars, clockVars, threadVars, frameVars
  <1>6. AgeInv'
    BY AgentClockAssumption DEF ClockInv, Types, TimeTypes, LifeTypes, ClockTypes,
        ThreadTypes, FrameTypes, AgeInv, NoFrame, None, Sources, Times, Anchors, Idle,
        Free, NoShot, Kept, Labels, States, Kinds, Readings, Measured, Resyncs, Begun,
        Stamped, FrameRecords, Busy, Shoot, timeVars, lifeVars, clockVars, threadVars,
        frameVars
  <1>7. OffInv'
    <2>1. shot' \notin Stamped
      BY DEF Shoot, Stamped
    <2> QED BY <2>1 DEF ClockInv, OffInv, UtcAt, ErrorOf, Kept, Busy, Shoot, timeVars,
          lifeVars, clockVars, threadVars
  <1> QED BY <1>1, <1>2, <1>3, <1>4, <1>5, <1>6, <1>7 DEF ClockInv, Types

LEMMA ShotAssertsStep == ASSUME ClockInv, ShotAsserts PROVE ClockInv'
  <1>1. TimeTypes' /\ LifeTypes' /\ ClockTypes' /\ ThreadTypes' /\ AnchorInv' /\
      SoloInv'
    BY DEF ClockInv, Types, TimeTypes, LifeTypes, ClockTypes, ThreadTypes, AnchorInv,
        SoloInv, Anchors, Exact, Void, ShotAsserts, timeVars, lifeVars, clockVars,
        threadVars
  <1>2. FrameTypes'
    BY AgentClockAssumption DEF ClockInv, Types, TimeTypes, LifeTypes, ClockTypes,
        FrameTypes, NoFrame, None, Sources, Times, Anchors, Free, NoShot, OneMore,
        Labels, Begun, Stamped, FrameRecords, ShotAsserts, timeVars, lifeVars,
        clockVars, frameVars
  <1>3. SpoiltInv'
    BY AgentClockAssumption DEF ClockInv, Types, TimeTypes, LifeTypes, ClockTypes,
        FrameTypes, SpoiltInv, NoFrame, None, Sources, Times, Anchors, Free, NoShot,
        OneMore, Labels, Begun, Stamped, FrameRecords, ShotAsserts, timeVars, lifeVars,
        clockVars, frameVars
  <1>4. BusyInv'
    BY AgentClockAssumption DEF ClockInv, Types, BusyInv, NoFrame, None, Free, NoShot,
        OneMore, Busy, ShotAsserts, timeVars, clockVars, threadVars, frameVars
  <1>5. AgeInv'
    BY AgentClockAssumption DEF ClockInv, Types, AgeInv, NoFrame, None, Free, NoShot,
        OneMore, Kept, ShotAsserts, timeVars, lifeVars, frameVars
  <1>6. StrandInv'
    <2>1. \A f \in Kept' : f \in Kept /\ frame'[f] = frame[f]
      BY DEF ClockInv, Types, FrameTypes, Kept, Free, ShotAsserts
    <2> QED BY <2>1 DEF ClockInv, StrandInv, ShotAsserts, lifeVars, clockVars, threadVars
  <1>7. TodoInv'
    BY AgentClockAssumption DEF ClockInv, Types, TimeTypes, LifeTypes, ClockTypes,
        ThreadTypes, FrameTypes, BusyInv, AgeInv, SoloInv, TodoInv, NoFrame, None,
        Sources, Times, Anchors, Idle, Free, NoShot, OneMore, Kept, Labels, States,
        Kinds, Readings, Measured, Resyncs, Begun, Stamped, FrameRecords, Busy, Void,
        ShotAsserts, timeVars, lifeVars, clockVars, threadVars, frameVars
  <1>8. OffInv'
    BY AgentClockAssumption DEF ClockInv, Types, TimeTypes, LifeTypes, ClockTypes,
        ThreadTypes, FrameTypes, OffInv, NoFrame, None, Sources, Times, Anchors, Idle,
        Free, NoShot, UtcAt, OneMore, ErrorOf, Kept, Labels, States, Kinds, Readings,
        Measured, Resyncs, Begun, Stamped, FrameRecords, Busy, ShotAsserts, timeVars,
        lifeVars, clockVars, threadVars, frameVars
  <1>9. FixInv'
    BY AgentClockAssumption DEF ClockInv, Types, FixInv, NoFrame, None, Free, NoShot,
        OneMore, Kept, ShotAsserts, timeVars, lifeVars, clockVars, threadVars, frameVars
  <1> QED BY <1>1, <1>2, <1>3, <1>4, <1>5, <1>6, <1>7, <1>8, <1>9 DEF ClockInv, Types

LEMMA ShotStampedStep == ASSUME ClockInv, ShotStamped PROVE ClockInv'
  <1>1. TimeTypes' /\ LifeTypes' /\ ClockTypes' /\ ThreadTypes'
    BY DEF ClockInv, Types, TimeTypes, LifeTypes, ClockTypes, ThreadTypes, Anchors,
        ShotStamped, timeVars, lifeVars, clockVars, threadVars
  <1>2. AnchorInv' /\ StrandInv' /\ SoloInv' /\ TodoInv' /\ FixInv'
    BY DEF ClockInv, AnchorInv, StrandInv, SoloInv, TodoInv, FixInv, Kept, Exact, Void,
        ShotStamped, timeVars, lifeVars, clockVars, threadVars, frameVars
  <1>3. FrameTypes'
    BY AgentClockAssumption DEF ClockInv, Types, TimeTypes, LifeTypes, ClockTypes,
        FrameTypes, NoFrame, None, Sources, Times, Anchors, Free, NoShot, UtcAt, Labels,
        Begun, Stamped, FrameRecords, ShotStamped, timeVars, lifeVars, clockVars,
        frameVars
  <1>4. SpoiltInv'
    <2>1. shot \in Begun
      BY DEF ClockInv, Types, FrameTypes, Begun, Stamped, NoShot, ShotStamped
    <2>2. shot' \notin Begun
      BY DEF ShotStamped, Begun
    <2>3. shot'.seeded = (shot.base = None)
      BY DEF ShotStamped
    <2>4. CASE shot.base = None
      BY <2>1, <2>2, <2>3, <2>4 DEF ClockInv, SpoiltInv, ShotStamped, clockVars
    <2>5. CASE shot.base # None
      BY <2>1, <2>2, <2>3, <2>5 DEF ClockInv, SpoiltInv, ShotStamped, clockVars
    <2> QED BY <2>4, <2>5
  <1>5. BusyInv'
    <2>1. shot # NoShot /\ shot'.f = shot.f
      BY DEF ShotStamped, NoShot
    <2> QED BY <2>1 DEF ClockInv, BusyInv, ShotStamped, timeVars, clockVars, threadVars
  <1>6. AgeInv'
    BY AgentClockAssumption DEF ClockInv, Types, AgeInv, NoFrame, None, NoShot, UtcAt,
        Kept, ShotStamped, timeVars, lifeVars, frameVars
  <1>7. OffInv'
    <2>1. shot \in Begun
      BY DEF ClockInv, Types, FrameTypes, Begun, Stamped, NoShot, ShotStamped
    <2>2. ASSUME anchor = None PROVE shot'.off + ErrorOf(prov) \in 0..slips
      <3>1. shot.base = None
        BY <2>1, <2>2 DEF ClockInv, SpoiltInv
      <3>2. shot'.off = UtcAt(prov, mono) - truth
        BY <3>1 DEF ShotStamped
      <3>3. UtcAt(prov, mono) \in Int /\ truth \in Int /\ slips \in Nat
        BY <2>2, AgentClockAssumption DEF ClockInv, Types, TimeTypes, ClockTypes, Anchors,
            Times, UtcAt
      <3> QED BY <3>2, <3>3 DEF ErrorOf
    <2>3. ErrorOf(prov)' = ErrorOf(prov) /\ anchor' = anchor /\ slips' = slips
      BY DEF ShotStamped, ErrorOf, UtcAt, timeVars, clockVars
    <2> QED BY <2>2, <2>3 DEF ClockInv, OffInv, Kept, Busy, ShotStamped, lifeVars,
          threadVars
  <1> QED BY <1>1, <1>2, <1>3, <1>4, <1>5, <1>6, <1>7 DEF ClockInv, Types

LEMMA TakenStep == ASSUME ClockInv, Taken PROVE ClockInv'
  <1>1. TimeTypes' /\ LifeTypes' /\ ClockTypes' /\ ThreadTypes' /\ AnchorInv' /\
      SoloInv'
    BY DEF ClockInv, Types, TimeTypes, LifeTypes, ClockTypes, ThreadTypes, AnchorInv,
        SoloInv, Anchors, Exact, Void, Taken, timeVars, lifeVars, clockVars, threadVars
  <1>2. FrameTypes'
    BY AgentClockAssumption DEF ClockInv, Types, TimeTypes, LifeTypes, ClockTypes,
        FrameTypes, NoFrame, None, Sources, Times, Anchors, Free, NoShot, QualityAt,
        OneMore, Labels, Begun, Stamped, FrameRecords, Taken, timeVars, lifeVars,
        clockVars, frameVars
  <1>3. SpoiltInv'
    BY AgentClockAssumption DEF ClockInv, Types, TimeTypes, LifeTypes, ClockTypes,
        FrameTypes, SpoiltInv, NoFrame, None, Sources, Times, Anchors, Free, NoShot,
        QualityAt, OneMore, Labels, Begun, Stamped, FrameRecords, Taken, timeVars,
        lifeVars, clockVars, frameVars
  <1>4. BusyInv'
    BY AgentClockAssumption DEF ClockInv, Types, BusyInv, NoFrame, None, Free, NoShot,
        QualityAt, OneMore, Busy, Taken, timeVars, clockVars, threadVars, frameVars
  <1>5. AgeInv'
    BY AgentClockAssumption DEF ClockInv, Types, TimeTypes, LifeTypes, ClockTypes,
        FrameTypes, AgeInv, NoFrame, None, Sources, Times, Anchors, Free, NoShot,
        QualityAt, OneMore, Kept, Labels, Begun, Stamped, FrameRecords, Taken, timeVars,
        lifeVars, clockVars, frameVars
  <1>6. StrandInv'
    BY AgentClockAssumption DEF ClockInv, Types, TimeTypes, LifeTypes, ClockTypes,
        ThreadTypes, FrameTypes, StrandInv, NoFrame, None, Sources, Times, Anchors,
        Idle, Free, NoShot, QualityAt, OneMore, Kept, Labels, States, Kinds, Readings,
        Measured, Resyncs, Begun, Stamped, FrameRecords, Busy, Taken, timeVars,
        lifeVars, clockVars, threadVars, frameVars
  <1>7. TodoInv'
    BY AgentClockAssumption DEF ClockInv, Types, TimeTypes, LifeTypes, ClockTypes,
        ThreadTypes, FrameTypes, BusyInv, AgeInv, SoloInv, TodoInv, NoFrame, None,
        Sources, Times, Anchors, Idle, Free, NoShot, QualityAt, OneMore, Kept, Labels,
        States, Kinds, Readings, Measured, Resyncs, Begun, Stamped, FrameRecords, Busy,
        Void, Taken, timeVars, lifeVars, clockVars, threadVars, frameVars
  <1>8. OffInv'
    <2> SUFFICES ASSUME "crossed" \notin events PROVE OffInv'
      BY DEF Taken, OffInv
    <2> DEFINE q == QualityAt(anchor, mono)
    <2>1. shot \in Stamped /\ shot.f \in Frames
      BY DEF ClockInv, Types, FrameTypes, Begun, Stamped, NoShot, Taken
    <2>2. frame' = [frame EXCEPT ![shot.f] =
                     [place |-> "queue", boot |-> boot, start |-> start, mono |-> shot.mono,
                      off |-> shot.off, was |-> q, label |-> q, fixes |-> 0, by |-> 0,
                      late |-> FALSE]]
      BY DEF Taken
    <2>3. /\ frame'[shot.f].label = q /\ frame'[shot.f].off = shot.off
          /\ frame'[shot.f].by = 0 /\ frame'[shot.f].start = start
      BY <2>1, <2>2 DEF ClockInv, Types, FrameTypes
    <2>4. q = "provisional" => anchor = None
      BY DEF QualityAt
    <2>5. shot' \notin Stamped /\ start # 0
      BY DEF Taken, NoShot, Stamped, ClockInv, Types, LifeTypes
    <2>6. ASSUME NEW f \in Kept', f # shot.f PROVE f \in Kept /\ frame'[f] = frame[f]
      BY <2>2, <2>6 DEF ClockInv, Types, FrameTypes, Kept
    <2>7. ErrorOf(prov)' = ErrorOf(prov) /\ anchor' = anchor /\ slips' = slips
          /\ start' = start /\ at' = at /\ hold' = hold
      BY DEF Taken, ErrorOf, UtcAt, timeVars, lifeVars, clockVars, threadVars
    <2>8. ASSUME NEW f \in Kept', frame'[f].label = "provisional", frame'[f].start = start
          PROVE  /\ anchor = None => frame'[f].off + ErrorOf(prov) \in 0..slips
                 /\ \A t \in Threads : at[t] \in Busy /\ hold[t].kind = "provisional"
                      => frame'[f].off + hold[t].shift \in 0..slips
      <3>1. CASE f = shot.f
        BY <2>1, <2>3, <2>4, <2>8, <3>1 DEF ClockInv, OffInv, BusyInv
      <3>2. CASE f # shot.f
        BY <2>6, <2>8, <3>2 DEF ClockInv, OffInv
      <3> QED BY <3>1, <3>2
    <2>9. ASSUME NEW f \in Kept', frame'[f].was = "provisional", frame'[f].by = frame'[f].start
          PROVE  frame'[f].off \in 0..slips
      BY <2>3, <2>5, <2>6, <2>9 DEF ClockInv, OffInv
    <2> QED BY <2>5, <2>7, <2>8, <2>9 DEF OffInv, Busy
  <1>9. FixInv'
    BY AgentClockAssumption DEF ClockInv, Types, FixInv, NoFrame, None, Free, NoShot,
        QualityAt, OneMore, Kept, Taken, timeVars, lifeVars, clockVars, threadVars,
        frameVars
  <1> QED BY <1>1, <1>2, <1>3, <1>4, <1>5, <1>6, <1>7, <1>8, <1>9 DEF ClockInv, Types

----------------------------------------------------------------------------
(* Trusted readings                                                       *)

LEMMA ObserveStep == ASSUME ClockInv, NEW t \in Threads, Observe(t) PROVE ClockInv'
  <1>1. TimeTypes' /\ LifeTypes' /\ ClockTypes' /\ FrameTypes' /\ AnchorInv' /\
      SpoiltInv' /\ AgeInv'
    BY DEF ClockInv, Types, TimeTypes, LifeTypes, ClockTypes, FrameTypes, AnchorInv,
        SpoiltInv, AgeInv, Anchors, Kept, Begun, Stamped, FrameRecords, Exact, Observe,
        timeVars, lifeVars, clockVars, frameVars
  <1>2. ThreadTypes'
    BY AgentClockAssumption DEF ClockInv, Types, TimeTypes, ClockTypes, ThreadTypes,
        FrameTypes, NoFrame, None, Sources, Times, Anchors, Idle, Free, NoShot, UtcAt,
        ErrorOf, Heeded, Labels, States, Kinds, Readings, Measured, Resyncs, Begun,
        Stamped, FrameRecords, Busy, Observe, timeVars, lifeVars, clockVars, threadVars,
        frameVars
  <1>3. BusyInv'
    BY AgentClockAssumption DEF ClockInv, Types, TimeTypes, ClockTypes, ThreadTypes,
        FrameTypes, BusyInv, NoFrame, None, Sources, Times, Anchors, Idle, Free, NoShot,
        UtcAt, ErrorOf, Heeded, Labels, States, Kinds, Readings, Measured, Resyncs,
        Begun, Stamped, FrameRecords, Busy, Observe, timeVars, lifeVars, clockVars,
        threadVars, frameVars
  <1>4. StrandInv'
    BY AgentClockAssumption DEF ClockInv, Types, TimeTypes, LifeTypes, ClockTypes,
        ThreadTypes, FrameTypes, StrandInv, NoFrame, None, Sources, Times, Anchors,
        Idle, Free, NoShot, UtcAt, ErrorOf, Heeded, Kept, Labels, States, Kinds,
        Readings, Measured, Resyncs, Begun, Stamped, FrameRecords, Busy, Observe,
        timeVars, lifeVars, clockVars, threadVars, frameVars
  <1>5. SoloInv'
    <2> SUFFICES ASSUME "crossed" \notin events PROVE SoloInv'
      BY DEF Observe, SoloInv
    <2>1. /\ at'[t] \in {"first", "refresh"} /\ (at'[t] = "first" => anchor = None)
          /\ \A u \in Threads \ {t} : at'[u] = at[u] /\ hold'[u] = hold[u]
          /\ at'[t] = "refresh" => hold'[t].shift = ErrorOf(anchor)
      BY DEF ClockInv, Types, ThreadTypes, Observe
    <2>2. anchor' = anchor
      BY DEF Observe, clockVars
    <2>3. ASSUME NEW u \in Threads, at[u] \in Busy PROVE anchor # None /\ ErrorOf(anchor) = 0
      <3>1. anchor # None /\ anchor.mono = mono /\ anchor.utc = truth
        BY <2>3 DEF ClockInv, BusyInv
      <3>2. mono \in Int /\ truth \in Int
        BY DEF ClockInv, Types, TimeTypes, Times
      <3> QED BY <3>1, <3>2 DEF ErrorOf, UtcAt
    <2>4. \A u \in Threads : at'[u] = "first" => anchor' = None
      BY <2>1, <2>2 DEF ClockInv, SoloInv
    <2>5. ASSUME NEW u \in Threads, NEW v \in Threads, u # v, at'[u] \in Busy
          PROVE  /\ at'[v] = "refresh" => hold'[v].shift = 0
                 /\ at'[v] \in Busy => Void(u)' \/ Void(v)'
      <3>1. u # t /\ at[u] \in Busy
        BY <2>1, <2>5 DEF Busy
      <3>2. CASE v = t
        BY <2>1, <2>3, <3>1, <3>2 DEF Busy
      <3>3. CASE v # t
        BY <2>1, <2>5, <3>1, <3>3 DEF ClockInv, SoloInv, Void
      <3> QED BY <3>2, <3>3
    <2> QED BY <2>4, <2>5 DEF SoloInv, Busy
  <1>6. TodoInv'
    BY AgentClockAssumption DEF ClockInv, Types, TimeTypes, LifeTypes, ClockTypes,
        ThreadTypes, FrameTypes, TodoInv, NoFrame, None, Sources, Times, Anchors, Idle,
        Free, NoShot, UtcAt, ErrorOf, Heeded, Labels, States, Kinds, Readings, Measured,
        Resyncs, Begun, Stamped, FrameRecords, Busy, Observe, timeVars, lifeVars,
        clockVars, threadVars, frameVars
  <1>7. OffInv'
    BY AgentClockAssumption DEF ClockInv, Types, TimeTypes, LifeTypes, ClockTypes,
        ThreadTypes, FrameTypes, OffInv, NoFrame, None, Sources, Times, Anchors, Idle,
        Free, NoShot, UtcAt, ErrorOf, Heeded, Kept, Labels, States, Kinds, Readings,
        Measured, Resyncs, Begun, Stamped, FrameRecords, Busy, Observe, timeVars,
        lifeVars, clockVars, threadVars, frameVars
  <1>8. FixInv'
    BY AgentClockAssumption DEF ClockInv, Types, TimeTypes, LifeTypes, ClockTypes,
        ThreadTypes, FrameTypes, FixInv, NoFrame, None, Sources, Times, Anchors, Idle,
        Free, NoShot, UtcAt, ErrorOf, Heeded, Kept, Labels, States, Kinds, Readings,
        Measured, Resyncs, Begun, Stamped, FrameRecords, Busy, Observe, timeVars,
        lifeVars, clockVars, threadVars, frameVars
  <1> QED BY <1>1, <1>2, <1>3, <1>4, <1>5, <1>6, <1>7, <1>8 DEF ClockInv, Types

LEMMA SetStep == ASSUME ClockInv, NEW t \in Threads, Set(t) PROVE ClockInv'
  <1>1. TimeTypes' /\ LifeTypes' /\ AgeInv'
    BY DEF ClockInv, Types, TimeTypes, LifeTypes, AgeInv, Kept, Set, timeVars, lifeVars,
        frameVars
  <1>2. ClockTypes'
    BY AgentClockAssumption DEF ClockInv, Types, TimeTypes, LifeTypes, ClockTypes,
        ThreadTypes, FrameTypes, NoFrame, None, Sources, Times, Anchors, Idle, Free,
        NoShot, UtcAt, ErrorOf, Labels, States, Kinds, Readings, Measured, Resyncs,
        Begun, Stamped, FrameRecords, Busy, Set, timeVars, lifeVars, clockVars,
        threadVars, frameVars
  <1>3. ThreadTypes'
    BY AgentClockAssumption DEF ClockInv, Types, TimeTypes, LifeTypes, ClockTypes,
        ThreadTypes, FrameTypes, NoFrame, None, Sources, Times, Anchors, Idle, Free,
        NoShot, UtcAt, ErrorOf, Labels, States, Kinds, Readings, Measured, Resyncs,
        Begun, Stamped, FrameRecords, Busy, Set, timeVars, lifeVars, clockVars,
        threadVars, frameVars
  <1>4. FrameTypes'
    BY AgentClockAssumption DEF ClockInv, Types, FrameTypes, NoFrame, None, Free,
        NoShot, UtcAt, ErrorOf, Set, timeVars, lifeVars, frameVars
  <1>5. AnchorInv'
    BY AgentClockAssumption DEF ClockInv, Types, TimeTypes, LifeTypes, ClockTypes,
        ThreadTypes, FrameTypes, AnchorInv, NoFrame, None, Sources, Times, Anchors,
        Idle, Free, NoShot, UtcAt, ErrorOf, Labels, States, Kinds, Readings, Measured,
        Resyncs, Begun, Stamped, FrameRecords, Busy, Exact, Set, timeVars, lifeVars,
        clockVars, threadVars, frameVars
  <1>6. SpoiltInv'
    BY AgentClockAssumption DEF ClockInv, Types, SpoiltInv, None, UtcAt, ErrorOf, Set,
        timeVars, lifeVars, clockVars, frameVars
  <1>7. BusyInv'
    BY AgentClockAssumption DEF ClockInv, Types, BusyInv, NoFrame, None, Free, NoShot,
        UtcAt, ErrorOf, Busy, Set, timeVars, clockVars, threadVars, frameVars
  <1>8. StrandInv'
    BY AgentClockAssumption DEF ClockInv, Types, TimeTypes, LifeTypes, ClockTypes,
        ThreadTypes, FrameTypes, BusyInv, AgeInv, SoloInv, StrandInv, NoFrame, None,
        Sources, Times, Anchors, Idle, Free, NoShot, UtcAt, ErrorOf, Kept, Labels,
        States, Kinds, Readings, Measured, Resyncs, Begun, Stamped, FrameRecords, Busy,
        Void, Set, timeVars, lifeVars, clockVars, threadVars, frameVars
  <1>9. SoloInv'
    BY AgentClockAssumption DEF ClockInv, Types, TimeTypes, LifeTypes, ClockTypes,
        ThreadTypes, FrameTypes, BusyInv, AgeInv, SoloInv, NoFrame, None, Sources,
        Times, Anchors, Idle, Free, NoShot, UtcAt, ErrorOf, Kept, Labels, States, Kinds,
        Readings, Measured, Resyncs, Begun, Stamped, FrameRecords, Busy, Void, Set,
        timeVars, lifeVars, clockVars, threadVars, frameVars
  <1>10. TodoInv'
    BY AgentClockAssumption DEF ClockInv, Types, TimeTypes, LifeTypes, ClockTypes,
        ThreadTypes, FrameTypes, TodoInv, NoFrame, None, Sources, Times, Anchors, Idle,
        Free, NoShot, UtcAt, ErrorOf, Labels, States, Kinds, Readings, Measured,
        Resyncs, Begun, Stamped, FrameRecords, Busy, Set, timeVars, lifeVars, clockVars,
        threadVars, frameVars
  <1>11. OffInv'
    BY AgentClockAssumption DEF ClockInv, Types, TimeTypes, LifeTypes, ClockTypes,
        ThreadTypes, FrameTypes, BusyInv, AgeInv, SoloInv, OffInv, NoFrame, None,
        Sources, Times, Anchors, Idle, Free, NoShot, UtcAt, ErrorOf, Kept, Labels,
        States, Kinds, Readings, Measured, Resyncs, Begun, Stamped, FrameRecords, Busy,
        Void, Set, timeVars, lifeVars, clockVars, threadVars, frameVars
  <1>12. FixInv'
    BY AgentClockAssumption DEF ClockInv, Types, TimeTypes, LifeTypes, ClockTypes,
        ThreadTypes, FrameTypes, BusyInv, AgeInv, SoloInv, FixInv, NoFrame, None,
        Sources, Times, Anchors, Idle, Free, NoShot, UtcAt, ErrorOf, Kept, Labels,
        States, Kinds, Readings, Measured, Resyncs, Begun, Stamped, FrameRecords, Busy,
        Void, Set, timeVars, lifeVars, clockVars, threadVars, frameVars
  <1> QED BY <1>1, <1>2, <1>3, <1>4, <1>5, <1>6, <1>7, <1>8, <1>9, <1>10, <1>11, <1>12
      DEF ClockInv, Types

LEMMA SaveStep == ASSUME ClockInv, NEW t \in Threads, Save(t) PROVE ClockInv'
  <1>1. /\ at[t] = "save" /\ todo[t] = {} /\ hold[t] \in Resyncs
        /\ \A u \in Threads \ {t} :
             at'[u] = at[u] /\ hold'[u] = hold[u] /\ todo'[u] = todo[u]
        /\ todo'[t] = {[f |-> g, off |-> frame[g].off] : g \in Listed(hold[t])}
        /\ \/ at'[t] = "idle" /\ hold'[t] = Idle /\ todo'[t] = {}
           \/ at'[t] = "restamp" /\ hold'[t] = hold[t]
        /\ UNCHANGED <<truth, mono, slips, boot, start, anchor, prov, shot>>
        /\ "crossed" \in events => "crossed" \in events'
    BY DEF ClockInv, Types, ThreadTypes, Busy, Save, Working, timeVars, lifeVars
  <1>2. ASSUME NEW f \in Frames
        PROVE  /\ frame[f] \in FrameRecords \cup {Free}
               /\ frame'[f] = Free <=> frame[f] = Free
               /\ f \in Kept' <=> f \in Kept
               /\ f \in Kept => frame[f] \in FrameRecords
               /\ frame[f] # Free =>
                    /\ frame'[f].place = frame[f].place /\ frame'[f].boot = frame[f].boot
                    /\ frame'[f].start = frame[f].start /\ frame'[f].label = frame[f].label
                    /\ frame'[f].off = frame[f].off /\ frame'[f].was = frame[f].was
                    /\ frame'[f].by = frame[f].by
    <2>1. frame[f] \in FrameRecords \cup {Free}
      BY DEF ClockInv, Types, FrameTypes
    <2>2. frame'[f] = frame[f]
            \/ (frame[f].place = "queue" /\ frame'[f] = [frame[f] EXCEPT !.late = TRUE])
      BY DEF Save
    <2> QED BY <2>1, <2>2 DEF FrameRecords, Free, Kept
  <1>3. TimeTypes' /\ LifeTypes' /\ SpoiltInv'
    BY DEF ClockInv, Types, TimeTypes, LifeTypes, SpoiltInv, Anchors, Begun, Stamped,
        Save, timeVars, lifeVars, clockVars, frameVars
  <1>4. ClockTypes'
    BY AgentClockAssumption DEF ClockInv, Types, TimeTypes, LifeTypes, ClockTypes,
        ThreadTypes, FrameTypes, NoFrame, None, Sources, Times, Anchors, Idle, Free,
        NoShot, Corrects, Listed, Working, Labels, States, Kinds, Readings, Measured,
        Resyncs, Begun, Stamped, FrameRecords, Busy, Save, timeVars, lifeVars,
        clockVars, threadVars, frameVars
  <1>5. ThreadTypes'
    <2>1. ASSUME NEW g \in Listed(hold[t]) PROVE g \in Frames /\ frame[g].off \in Int
      BY <1>2 DEF Listed, FrameRecords, Free
    <2>2. todo'[t] \in SUBSET [f : Frames, off : Int]
      BY <1>1, <2>1
    <2>3. /\ at' = [u \in Threads |-> at'[u]] /\ hold' = [u \in Threads |-> hold'[u]]
          /\ todo' = [u \in Threads |-> todo'[u]]
      BY DEF ClockInv, Types, ThreadTypes, Save, Working
    <2>4. at' \in [Threads -> States]
      BY <1>1, <2>3 DEF ClockInv, Types, ThreadTypes, States
    <2>5. hold' \in [Threads -> Readings \cup Measured \cup Resyncs \cup {Idle}]
      BY <1>1, <2>3 DEF ClockInv, Types, ThreadTypes
    <2>6. todo' \in [Threads -> SUBSET [f : Frames, off : Int]]
      BY <1>1, <2>2, <2>3 DEF ClockInv, Types, ThreadTypes
    <2>7. \A u \in Threads :
            /\ at'[u] = "first" => hold'[u] \in Readings
            /\ at'[u] = "refresh" => hold'[u] \in Measured
            /\ at'[u] \in Busy => hold'[u] \in Resyncs
            /\ at'[u] # "restamp" => todo'[u] = {}
      BY <1>1 DEF ClockInv, Types, ThreadTypes, Busy
    <2> QED BY <2>4, <2>5, <2>6, <2>7 DEF ThreadTypes, Busy
  <1>6. FrameTypes'
    <2>1. frame' \in [Frames -> FrameRecords \cup {Free}]
      <3> SUFFICES ASSUME NEW f \in Frames PROVE frame'[f] \in FrameRecords \cup {Free}
        BY DEF Save
      <3>1. frame[f] \in FrameRecords \cup {Free}
        BY DEF ClockInv, Types, FrameTypes
      <3>2. frame'[f] = frame[f]
              \/ (frame[f].place = "queue" /\ frame'[f] = [frame[f] EXCEPT !.late = TRUE])
        BY DEF Save
      <3> QED BY <3>1, <3>2 DEF FrameRecords, Free
    <2>2. events' \in SUBSET {"crossed", "unsaved", "unwritten"} /\ shot' = shot /\ spoilt' = spoilt
      BY DEF ClockInv, Types, FrameTypes, Save
    <2> QED BY <2>1, <2>2 DEF ClockInv, Types, FrameTypes
  <1>7. AnchorInv'
    BY AgentClockAssumption DEF ClockInv, Types, AnchorInv, None, Idle, UtcAt, Corrects,
        Listed, Working, Exact, Save, timeVars, lifeVars, clockVars
  <1>8. BusyInv'
    BY AgentClockAssumption DEF ClockInv, Types, TimeTypes, LifeTypes, ClockTypes,
        ThreadTypes, FrameTypes, BusyInv, NoFrame, None, Sources, Times, Anchors, Idle,
        Free, NoShot, Corrects, Listed, Working, Labels, States, Kinds, Readings,
        Measured, Resyncs, Begun, Stamped, FrameRecords, Busy, Save, timeVars, lifeVars,
        clockVars, threadVars, frameVars
  <1>9. AgeInv'
    BY AgentClockAssumption DEF ClockInv, Types, AgeInv, NoFrame, Idle, NoShot,
        Corrects, Listed, Working, Kept, Save, timeVars, lifeVars, frameVars
  <1>10. StrandInv'
    <2> SUFFICES ASSUME anchor # None, "unwritten" \notin events, NEW f \in Kept', frame'[f].boot = boot',
                        frame'[f].label = "provisional", frame'[f].start = start'
                 PROVE  \/ frame'[f].late
                        \/ \E u \in Threads : at'[u] = "save" /\ hold'[u].kind = "provisional"
                        \/ /\ frame'[f].place = "store"
                           /\ \E u \in Threads : \E s \in todo'[u] : s.f = f
      BY DEF Save, StrandInv
    <2>1. f \in Frames /\ boot' = boot /\ start' = start
      BY DEF Kept, Save, lifeVars
    <2>2. frame[f] \in FrameRecords \cup {Free}
      BY <2>1 DEF ClockInv, Types, FrameTypes
    <2>3. \/ frame'[f] = frame[f] /\ ~(frame[f].place = "queue" /\ hold[t].kind = "provisional")
          \/ frame[f].place = "queue" /\ frame'[f] = [frame[f] EXCEPT !.late = TRUE]
      BY <2>1 DEF Save
    <2>4. /\ frame[f].place \in {"queue", "store"} /\ frame'[f].place = frame[f].place
          /\ frame[f].boot = boot /\ frame[f].label = "provisional" /\ frame[f].start = start
          /\ frame[f].late => frame'[f].late
      BY <2>1, <2>2, <2>3 DEF Kept, FrameRecords, Free
    <2>5. /\ at[t] = "save" /\ todo[t] = {}
          /\ \A u \in Threads \ {t} :
               at'[u] = at[u] /\ hold'[u] = hold[u] /\ todo'[u] = todo[u]
          /\ todo'[t] = {[f |-> g, off |-> frame[g].off] : g \in Listed(hold[t])}
      BY DEF ClockInv, Types, ThreadTypes, Save, Working
    <2>6. \/ frame[f].late
          \/ \E u \in Threads : at[u] = "save" /\ hold[u].kind = "provisional"
          \/ frame[f].place = "store" /\ \E u \in Threads : \E s \in todo[u] : s.f = f
      BY <2>1, <2>4 DEF ClockInv, StrandInv, Kept
    <2>7. CASE hold[t].kind = "provisional" /\ frame[f].place = "queue"
      BY <2>2, <2>3, <2>7 DEF FrameRecords, Free
    <2>8. CASE hold[t].kind = "provisional" /\ frame[f].place = "store"
      <3>1. f \in Listed(hold[t])
        BY <2>1, <2>4, <2>8 DEF Listed, Corrects
      <3>2. [f |-> f, off |-> frame[f].off] \in todo'[t]
        BY <2>5, <3>1
      <3> QED BY <2>4, <2>8, <3>2
    <2>9. CASE hold[t].kind # "provisional"
      BY <2>4, <2>5, <2>6, <2>9
    <2> QED BY <2>4, <2>7, <2>8, <2>9
  <1>11. SoloInv'
    <2> SUFFICES ASSUME "crossed" \notin events' PROVE SoloInv'
      BY DEF SoloInv
    <2>1. \A u \in Threads : at'[u] = "first" => anchor' = None
      BY <1>1 DEF ClockInv, SoloInv
    <2>2. ASSUME Void(t) PROVE at'[t] = "idle"
      <3>1. Listed(hold[t]) = {}
        BY <2>2 DEF Void, Listed, Corrects
      <3>2. at'[t] = "idle"
        BY <3>1, <1>1 DEF Save, Working, ClockInv, Types, ThreadTypes
      <3> QED BY <3>2
    <2>3. ASSUME NEW u \in Threads, NEW v \in Threads, u # v, at'[u] \in Busy
          PROVE  /\ at'[v] = "refresh" => hold'[v].shift = 0
                 /\ at'[v] \in Busy => Void(u)' \/ Void(v)'
      <3>1. at[u] \in Busy /\ hold'[u] = hold[u]
        BY <1>1, <2>3 DEF Busy
      <3>2. at'[v] = "refresh" => hold'[v].shift = 0
        BY <1>1, <2>3, <3>1 DEF ClockInv, SoloInv
      <3>3. ASSUME at'[v] \in Busy PROVE Void(u)' \/ Void(v)'
        <4>1. at[v] \in Busy /\ hold'[v] = hold[v]
          BY <1>1, <3>3 DEF Busy
        <4>2. Void(u) \/ Void(v)
          BY <1>1, <2>3, <3>1, <4>1 DEF ClockInv, SoloInv
        <4> QED BY <1>1, <2>2, <2>3, <3>1, <3>3, <4>1, <4>2 DEF Void, Busy
      <3> QED BY <3>2, <3>3
    <2> QED BY <2>1, <2>3 DEF SoloInv, Busy
  <1>12. TodoInv'
    <2> SUFFICES ASSUME "crossed" \notin events', NEW u \in Threads, NEW s \in todo'[u]
                 PROVE  /\ u = "uploader" => frame'[s.f] # Free
                        /\ \A r \in todo'[u] : r.f = s.f => r = s
                        /\ frame'[s.f] # Free =>
                             /\ frame'[s.f].place = "store" /\ frame'[s.f].boot = boot'
                             /\ frame'[s.f].label = hold'[u].kind /\ frame'[s.f].off = s.off
      BY DEF TodoInv
    <2>1. CASE u = t
      <3>1. PICK g \in Listed(hold[t]) : s = [f |-> g, off |-> frame[g].off]
        BY <1>1, <2>1
      <3>2. /\ g \in Frames /\ frame[g].place = "store" /\ frame[g].boot = boot
            /\ frame[g].label = hold[t].kind
        BY DEF Listed
      <3>3. frame[g] # Free
        BY <3>2 DEF Free
      <3>4. \A r \in todo'[t] : r.f = s.f => r = s
        BY <1>1, <3>1
      <3>5. hold'[t] = hold[t]
        BY <1>1, <2>1
      <3> QED BY <1>1, <1>2, <2>1, <3>1, <3>2, <3>3, <3>4, <3>5
    <2>2. CASE u # t
      <3>1. todo'[u] = todo[u] /\ hold'[u] = hold[u] /\ s.f \in Frames
        BY <1>1, <2>2 DEF ClockInv, Types, ThreadTypes
      <3> QED BY <1>1, <1>2, <3>1 DEF ClockInv, TodoInv
    <2> QED BY <2>1, <2>2
  <1>13. OffInv'
    <2> SUFFICES ASSUME "crossed" \notin events' PROVE OffInv'
      BY DEF OffInv
    <2>1. ErrorOf(prov)' = ErrorOf(prov)
      BY <1>1 DEF ErrorOf, UtcAt
    <2>2. ASSUME NEW u \in Threads, at'[u] \in Busy
          PROVE  at[u] \in Busy /\ hold'[u] = hold[u]
      BY <1>1, <2>2 DEF Busy
    <2>3. ASSUME NEW f \in Kept'
          PROVE  /\ f \in Kept /\ frame'[f].start = frame[f].start
                 /\ frame'[f].label = frame[f].label /\ frame'[f].off = frame[f].off
                 /\ frame'[f].was = frame[f].was /\ frame'[f].by = frame[f].by
      BY <1>2, <2>3 DEF Kept, Free
    <2>4. ASSUME NEW f \in Kept', frame'[f].label = "provisional", frame'[f].start = start
          PROVE  /\ anchor = None => frame'[f].off + ErrorOf(prov) \in 0..slips
                 /\ \A u \in Threads : at'[u] \in Busy /\ hold'[u].kind = "provisional"
                      => frame'[f].off + hold'[u].shift \in 0..slips
      BY <1>1, <2>2, <2>3, <2>4 DEF ClockInv, OffInv
    <2>5. ASSUME NEW f \in Kept', frame'[f].was = "provisional", frame'[f].by = frame'[f].start
          PROVE  frame'[f].off \in 0..slips
      BY <1>1, <2>3, <2>5 DEF ClockInv, OffInv
    <2>6. anchor = None /\ shot \in Stamped => shot.off + ErrorOf(prov) \in 0..slips
      BY <1>1 DEF ClockInv, OffInv
    <2> QED BY <1>1, <2>1, <2>4, <2>5, <2>6 DEF OffInv, Busy
  <1>14. FixInv'
    <2> SUFFICES ASSUME events' \cap {"crossed", "unsaved"} = {} PROVE FixInv'
      BY DEF FixInv
    <2>1. /\ events' = events /\ disk' = anchor /\ anchor' = anchor /\ boot' = boot
          /\ mono' = mono /\ at[t] = "save" /\ todo[t] = {} /\ hold[t] \in Resyncs
      BY DEF Save, timeVars, lifeVars, ClockInv, Types, ThreadTypes, Busy
    <2>2. /\ \A u \in Threads \ {t} :
               at'[u] = at[u] /\ hold'[u] = hold[u] /\ todo'[u] = todo[u]
          /\ at'[t] \in {"idle", "restamp"}
          /\ todo'[t] = {[f |-> g, off |-> frame[g].off] : g \in Listed(hold[t])}
      BY DEF ClockInv, Types, ThreadTypes, Save, Working
    <2>3. anchor # None /\ anchor.mono = mono /\ anchor.boot = boot
      BY <2>1 DEF ClockInv, BusyInv, Types, ClockTypes, Busy
    <2>4. ASSUME NEW f \in Frames
          PROVE  /\ frame'[f] # Free => frame[f] # Free /\ f \in Kept
                 /\ frame[f] # Free =>
                      /\ frame'[f].fixes = frame[f].fixes /\ frame'[f].place = frame[f].place
                      /\ frame'[f].label = frame[f].label /\ frame'[f].boot = frame[f].boot
                      /\ frame'[f].mono = frame[f].mono
      <3>1. frame[f] \in FrameRecords \cup {Free}
        BY DEF ClockInv, Types, FrameTypes
      <3>2. frame'[f] = frame[f]
              \/ (frame[f].place = "queue" /\ frame'[f] = [frame[f] EXCEPT !.late = TRUE])
        BY DEF Save
      <3> QED BY <3>1, <3>2 DEF FrameRecords, Free, Kept
    <2>5. Kept' \subseteq Kept /\ \A f \in Kept' : f \in Frames /\ frame[f] # Free
      BY <2>4 DEF Kept, Free
    <2>6. ASSUME NEW f \in Listed(hold[t]) PROVE f \in Frames /\ frame[f].fixes = 0
      <3>1. f \in Kept /\ frame[f] \in FrameRecords
        BY DEF Listed, Kept, ClockInv, Types, FrameTypes, Free
      <3>2. hold[t].kind \in Kinds
        BY <2>1 DEF Resyncs
      <3>3. ~(frame[f].fixes > 0)
        <4>1. CASE hold[t].kind = "provisional"
          BY <2>1, <3>1, <4>1 DEF Listed, ClockInv, FixInv
        <4>2. CASE hold[t].kind = "holdover"
          <5>1. /\ hold[t].shift # 0 /\ frame[f].mono > hold[t].since /\ frame[f].boot = boot
            BY <4>2 DEF Listed, Corrects
          <5>2. frame[f].fixes > 0 => frame[f].mono <= hold[t].since
            BY <2>1, <3>1, <4>2, <5>1 DEF ClockInv, FixInv
          <5>3. frame[f].mono \in Int /\ hold[t].since \in Int
            BY <2>1, <3>1 DEF FrameRecords, Times, Resyncs
          <5> QED BY <5>1, <5>2, <5>3
        <4> QED BY <3>2, <4>1, <4>2 DEF Kinds
      <3>4. frame[f].fixes \in Nat
        BY <3>1 DEF FrameRecords
      <3> QED BY <3>1, <3>3, <3>4 DEF Kept
    <2>7. ASSUME NEW f \in Kept', frame'[f].fixes > 0
          PROVE  /\ frame'[f].fixes = 1 /\ frame'[f].place = "store"
                 /\ frame'[f].label = "holdover"
                 /\ frame'[f].boot = boot =>
                      /\ frame'[f].mono <= anchor.mono
                      /\ \A u \in Threads :
                           at'[u] = "save" /\ hold'[u].kind = "holdover" /\ hold'[u].shift # 0
                             => frame'[f].mono <= hold'[u].since
      BY <2>1, <2>2, <2>4, <2>5, <2>7 DEF ClockInv, FixInv
    <2>8. ASSUME NEW u \in Threads, NEW r \in todo'[u], frame'[r.f] # Free
          PROVE  frame'[r.f].fixes = 0
      <3>1. CASE u = t
        BY <2>2, <2>4, <2>6, <2>8, <3>1
      <3>2. CASE u # t
        <4>1. r \in todo[u] /\ r.f \in Frames
          BY <2>2, <3>2 DEF ClockInv, Types, ThreadTypes
        <4> QED BY <2>1, <2>4, <2>8, <4>1 DEF ClockInv, FixInv
      <3> QED BY <3>1, <3>2
    <2> QED BY <2>1, <2>3, <2>7, <2>8 DEF FixInv
  <1> QED BY <1>3, <1>4, <1>5, <1>6, <1>7, <1>8, <1>9, <1>10, <1>11, <1>12, <1>13, <1>14
      DEF ClockInv, Types

LEMMA RestampStep == ASSUME ClockInv, NEW t \in Threads, Restamp(t) PROVE ClockInv'
  <1>1. PICK s \in todo[t] :
          /\ at[t] = "restamp" /\ hold[t] \in Resyncs
          /\ s \in [f : Frames, off : Int] /\ frame[s.f] \in FrameRecords \cup {Free}
          /\ UNCHANGED <<truth, mono, slips, boot, start, anchor, prov, disk, online, shot,
                         spoilt>>
          /\ events' \in {events, events \cup {"unwritten"}}
          /\ \A u \in Threads \ {t} : at'[u] = at[u] /\ hold'[u] = hold[u] /\ todo'[u] = todo[u]
          /\ todo'[t] = todo[t] \ {s} /\ at'[t] \in {"idle", "restamp"}
          /\ at'[t] = "restamp" => hold'[t] = hold[t]
          /\ \/ frame' = frame
             \/ frame[s.f].place = "store" /\ frame' = [frame EXCEPT ![s.f] = Restamped(t, s)]
          /\ "unwritten" \notin events' /\ frame[s.f].place = "store"
               => frame' = [frame EXCEPT ![s.f] = Restamped(t, s)]
    BY RestampFacts
  <1>2. \A f \in Frames \ {s.f} : frame'[f] = frame[f]
    BY <1>1 DEF ClockInv, Types, FrameTypes
  <1>3. frame' \in [Frames -> FrameRecords \cup {Free}]
    <2>1. CASE frame' = frame
      BY <2>1 DEF ClockInv, Types, FrameTypes
    <2>2. CASE frame[s.f].place = "store" /\ frame' = [frame EXCEPT ![s.f] = Restamped(t, s)]
      <3>1. frame[s.f] \in FrameRecords /\ s.off \in Int
        BY <1>1, <2>2 DEF Free
      <3>2. Restamped(t, s) \in FrameRecords
        BY <1>1, <3>1, RestampedFrame
      <3> QED BY <2>2, <3>2 DEF ClockInv, Types, FrameTypes
    <2> QED BY <1>1, <2>1, <2>2
  <1>4. ASSUME frame' # frame
        PROVE  /\ frame[s.f].place = "store" /\ frame[s.f] \in FrameRecords /\ frame[s.f] # Free /\ s.f \in Kept
               /\ frame'[s.f] \in FrameRecords
               /\ frame'[s.f].place = "store" /\ frame'[s.f].boot = frame[s.f].boot
               /\ frame'[s.f].start = frame[s.f].start /\ frame'[s.f].mono = frame[s.f].mono
               /\ frame'[s.f].was = frame[s.f].was
               /\ frame'[s.f].off = IF hold[t].kind = "provisional"
                                     THEN s.off + hold[t].shift ELSE frame[s.f].off
               /\ frame'[s.f].label = "holdover" /\ frame'[s.f].fixes = frame[s.f].fixes + 1
               /\ frame'[s.f].by = start
    <2>1. /\ frame[s.f].place = "store" /\ frame[s.f] \in FrameRecords
          /\ frame[s.f] # Free /\ s.f \in Kept
      BY <1>1, <1>4 DEF Free, Kept
    <2>2. frame'[s.f] = Restamped(t, s)
      BY <1>1, <1>4 DEF ClockInv, Types, FrameTypes
    <2>3. s.off \in Int
      BY <1>1
    <2> QED BY <1>1, <1>4, <2>1, <2>2, <2>3, RestampedFrame
  <1>5. TimeTypes' /\ LifeTypes' /\ ClockTypes' /\ AnchorInv' /\ SpoiltInv'
    BY DEF ClockInv, Types, TimeTypes, LifeTypes, ClockTypes, AnchorInv, SpoiltInv,
        Anchors, Begun, Stamped, Exact, Restamp, timeVars, lifeVars, clockVars,
        frameVars
  <1>6. ThreadTypes'
    BY AgentClockAssumption DEF ClockInv, Types, LifeTypes, ThreadTypes, FrameTypes,
        NoFrame, None, Sources, Times, Anchors, Idle, Free, NoShot, Working, Restamped,
        Labels, States, Kinds, Readings, Measured, Resyncs, Begun, Stamped,
        FrameRecords, Busy, Restamp, timeVars, lifeVars, threadVars, frameVars
  <1>7. FrameTypes'
    BY <1>1, <1>3 DEF ClockInv, Types, FrameTypes
  <1>8. BusyInv'
    BY AgentClockAssumption DEF ClockInv, Types, TimeTypes, LifeTypes, ClockTypes,
        ThreadTypes, FrameTypes, BusyInv, NoFrame, None, Sources, Times, Anchors, Idle,
        Free, NoShot, Working, Restamped, Labels, States, Kinds, Readings, Measured,
        Resyncs, Begun, Stamped, FrameRecords, Busy, Restamp, timeVars, lifeVars,
        clockVars, threadVars, frameVars
  <1>9. AgeInv'
    <2>1. ASSUME NEW f \in Kept', f # s.f \/ frame' = frame
          PROVE  f \in Kept /\ frame'[f] = frame[f]
      BY <1>2, <2>1 DEF Kept
    <2>2. ASSUME NEW f \in Kept', f = s.f, frame' # frame
          PROVE  /\ frame'[f].boot <= boot /\ frame'[f].start <= start
                 /\ frame'[f].boot = boot => frame'[f].mono <= mono
                 /\ frame'[f].start = start => frame'[f].boot = boot
                 /\ frame'[f].label = "holdover" /\ frame'[f].by = start
      BY <1>4, <2>2 DEF ClockInv, AgeInv
    <2> QED BY <1>1, <2>1, <2>2 DEF ClockInv, AgeInv
  <1>10. StrandInv'
    <2> SUFFICES ASSUME anchor # None, "unwritten" \notin events', NEW f \in Kept',
                        frame'[f].boot = boot, frame'[f].label = "provisional",
                        frame'[f].start = start
                 PROVE  \/ frame'[f].late
                        \/ \E u \in Threads : at'[u] = "save" /\ hold'[u].kind = "provisional"
                        \/ /\ frame'[f].place = "store"
                           /\ \E u \in Threads : \E r \in todo'[u] : r.f = f
      BY <1>1 DEF StrandInv
    <2>1. f \in Kept /\ frame'[f] = frame[f] /\ ~(f = s.f /\ frame[s.f].place = "store")
      <3>1. CASE f = s.f /\ frame[s.f].place = "store"
        <4>1. frame'[f] = Restamped(t, s) /\ frame[s.f] \in FrameRecords /\ s.off \in Int
          BY <1>1, <3>1 DEF ClockInv, Types, FrameTypes, Free
        <4>2. Restamped(t, s).label = "holdover"
          BY <1>1, <4>1, RestampedFrame
        <4> QED BY <4>1, <4>2
      <3>2. CASE ~(f = s.f /\ frame[s.f].place = "store")
        BY <1>1, <1>2, <3>2 DEF Kept
      <3> QED BY <3>1, <3>2
    <2>2. "unwritten" \notin events
      BY <1>1
    <2>3. \/ frame[f].late
          \/ \E u \in Threads : at[u] = "save" /\ hold[u].kind = "provisional"
          \/ frame[f].place = "store" /\ \E u \in Threads : \E r \in todo[u] : r.f = f
      BY <2>1, <2>2 DEF ClockInv, StrandInv
    <2>4. ASSUME NEW u \in Threads, at[u] = "save" PROVE at'[u] = "save" /\ hold'[u] = hold[u]
      BY <1>1, <2>4
    <2>5. ASSUME NEW u \in Threads, NEW r \in todo[u], r.f = f, frame[f].place = "store"
          PROVE  r \in todo'[u]
      BY <1>1, <2>1, <2>5
    <2> QED BY <2>1, <2>3, <2>4, <2>5
  <1>11. SoloInv'
    BY AgentClockAssumption DEF ClockInv, Types, LifeTypes, ClockTypes, ThreadTypes,
        FrameTypes, SoloInv, NoFrame, None, Sources, Times, Anchors, Idle, Free, NoShot,
        Working, Restamped, Labels, States, Kinds, Readings, Measured, Resyncs, Begun,
        Stamped, FrameRecords, Busy, Void, Restamp, timeVars, lifeVars, clockVars,
        threadVars, frameVars
  <1>12. TodoInv'
    BY AgentClockAssumption DEF ClockInv, Types, TimeTypes, LifeTypes, ClockTypes,
        ThreadTypes, FrameTypes, BusyInv, AgeInv, SoloInv, TodoInv, NoFrame, None,
        Sources, Times, Anchors, Idle, Free, NoShot, Working, Restamped, Kept, Labels,
        States, Kinds, Readings, Measured, Resyncs, Begun, Stamped, FrameRecords, Busy,
        Void, Restamp, timeVars, lifeVars, clockVars, threadVars, frameVars
  <1>13. OffInv'
    <2> SUFFICES ASSUME "crossed" \notin events PROVE OffInv'
      BY <1>1 DEF OffInv
    <2>1. ErrorOf(prov)' = ErrorOf(prov)
      BY <1>1 DEF ErrorOf, UtcAt
    <2>2. ASSUME NEW u \in Threads, at'[u] \in Busy
          PROVE  at[u] \in Busy /\ hold'[u] = hold[u]
      BY <1>1, <2>2 DEF Busy
    <2>3. ASSUME NEW f \in Kept', f # s.f \/ frame' = frame
          PROVE  f \in Kept /\ frame'[f] = frame[f]
      BY <1>2, <2>3 DEF Kept
    <2>4. ASSUME frame' # frame,
                 frame'[s.f].was = "provisional", frame'[s.f].by = frame'[s.f].start
          PROVE  frame'[s.f].off \in 0..slips
      <3>1. /\ frame[s.f].was = "provisional" /\ frame[s.f].start = start /\ s.f \in Kept
            /\ frame'[s.f].off = IF hold[t].kind = "provisional"
                                  THEN s.off + hold[t].shift ELSE frame[s.f].off
        BY <1>4, <2>4
      <3>2. frame[s.f].label = hold[t].kind /\ frame[s.f].off = s.off
        BY <1>1, <1>4, <2>4 DEF ClockInv, TodoInv
      <3>3. CASE hold[t].kind = "provisional"
        <4>1. frame[s.f].off + hold[t].shift \in 0..slips
          BY <1>1, <3>1, <3>2, <3>3 DEF ClockInv, OffInv, Busy
        <4> QED BY <3>1, <3>2, <3>3, <4>1
      <3>4. CASE hold[t].kind # "provisional"
        <4>1. frame[s.f].by = start
          BY <3>1, <3>2, <3>4 DEF ClockInv, AgeInv
        <4> QED BY <3>1, <3>4, <4>1 DEF ClockInv, OffInv
      <3> QED BY <3>3, <3>4
    <2>5. ASSUME NEW f \in Kept', frame'[f].label = "provisional", frame'[f].start = start
          PROVE  /\ anchor = None => frame'[f].off + ErrorOf(prov) \in 0..slips
                 /\ \A u \in Threads : at'[u] \in Busy /\ hold'[u].kind = "provisional"
                      => frame'[f].off + hold'[u].shift \in 0..slips
      <3>1. f \in Kept /\ frame'[f] = frame[f]
        BY <1>4, <2>3, <2>5
      <3> QED BY <2>2, <2>5, <3>1 DEF ClockInv, OffInv
    <2>6. ASSUME NEW f \in Kept', frame'[f].was = "provisional", frame'[f].by = frame'[f].start
          PROVE  frame'[f].off \in 0..slips
      BY <2>3, <2>4, <2>6 DEF ClockInv, OffInv
    <2>7. anchor = None /\ shot \in Stamped => shot.off + ErrorOf(prov) \in 0..slips
      BY DEF ClockInv, OffInv
    <2> QED BY <1>1, <2>1, <2>5, <2>6, <2>7 DEF OffInv, Busy
  <1>14. FixInv'
    <2> SUFFICES ASSUME events \cap {"crossed", "unsaved"} = {} PROVE FixInv'
      BY <1>1 DEF FixInv
    <2>1. ASSUME NEW u \in Threads, u # t, at[u] \in Busy
          PROVE  Void(u)
      BY <1>1, <2>1 DEF ClockInv, SoloInv, Void, Busy
    <2>2. /\ anchor # None /\ anchor.mono = mono
          /\ disk # None /\ disk.boot = boot /\ disk.mono = mono
      BY <1>1 DEF ClockInv, BusyInv, FixInv, Busy
    <2>3. ASSUME frame' # frame
          PROVE  frame[s.f].fixes = 0 /\ frame[s.f].boot = boot /\ frame[s.f].mono <= mono
      <3>1. frame[s.f].fixes = 0 /\ frame[s.f].boot = boot
        BY <1>4, <2>3 DEF ClockInv, FixInv, TodoInv
      <3> QED BY <1>4, <2>3, <3>1 DEF ClockInv, AgeInv
    <2>4. ASSUME NEW f \in Kept', frame'[f].fixes > 0
          PROVE  /\ frame'[f].fixes = 1 /\ frame'[f].place = "store"
                 /\ frame'[f].label = "holdover"
                 /\ frame'[f].boot = boot =>
                      /\ frame'[f].mono <= anchor.mono /\ frame'[f].mono <= disk.mono
                      /\ \A u \in Threads :
                           at'[u] = "save" /\ hold'[u].kind = "holdover" /\ hold'[u].shift # 0
                             => frame'[f].mono <= hold'[u].since
      <3>1. \A u \in Threads : at'[u] = "save" => Void(u) /\ hold'[u] = hold[u]
        BY <1>1, <2>1 DEF Busy
      <3>2. CASE f = s.f /\ frame' # frame
        BY <1>4, <2>2, <2>3, <3>1, <3>2 DEF Void
      <3>3. CASE f # s.f \/ frame' = frame
        <4>1. frame'[f] = frame[f] /\ f \in Kept
          BY <1>2, <3>3 DEF Kept
        <4> QED BY <2>4, <3>1, <4>1 DEF ClockInv, FixInv, Void
      <3> QED BY <3>2, <3>3
    <2>5. ASSUME NEW u \in Threads, NEW r \in todo'[u], frame'[r.f] # Free
          PROVE  frame'[r.f].fixes = 0
      <3>1. u = t
        BY <1>1, <2>1 DEF ClockInv, Types, ThreadTypes, Void, Busy
      <3>2. r \in todo[t] /\ r # s
        BY <1>1, <3>1
      <3>3. r.f # s.f /\ r.f \in Frames
        BY <1>1, <3>2 DEF ClockInv, TodoInv, Types, ThreadTypes
      <3>4. frame'[r.f] = frame[r.f]
        BY <1>2, <3>3
      <3> QED BY <2>5, <3>2, <3>4 DEF ClockInv, FixInv
    <2> QED BY <1>1, <2>2, <2>4, <2>5 DEF FixInv
  <1> QED BY <1>5, <1>6, <1>7, <1>8, <1>9, <1>10, <1>11, <1>12, <1>13, <1>14 DEF
      ClockInv, Types

----------------------------------------------------------------------------
(* The pipeline                                                           *)

LEMMA SpillStep == ASSUME ClockInv, Spill PROVE ClockInv'
  <1>1. TimeTypes' /\ LifeTypes' /\ ClockTypes' /\ ThreadTypes' /\ AnchorInv' /\
      SpoiltInv' /\ SoloInv'
    BY DEF ClockInv, Types, TimeTypes, LifeTypes, ClockTypes, ThreadTypes, AnchorInv,
        SpoiltInv, SoloInv, Anchors, Begun, Stamped, Exact, Void, Spill, timeVars,
        lifeVars, clockVars, threadVars, frameVars
  <1>2. FrameTypes'
    BY AgentClockAssumption DEF ClockInv, Types, TimeTypes, LifeTypes, ClockTypes,
        ThreadTypes, FrameTypes, NoFrame, None, Sources, Times, Anchors, Idle, Free,
        NoShot, UploaderFree, Labels, States, Kinds, Readings, Measured, Resyncs, Begun,
        Stamped, FrameRecords, Busy, Spill, timeVars, lifeVars, clockVars, threadVars,
        frameVars
  <1>3. BusyInv'
    BY AgentClockAssumption DEF ClockInv, Types, BusyInv, NoFrame, None, Free, NoShot,
        UploaderFree, Busy, Spill, timeVars, clockVars, threadVars, frameVars
  <1>4. AgeInv'
    BY AgentClockAssumption DEF ClockInv, Types, AgeInv, NoFrame, NoShot, UploaderFree,
        Kept, Spill, timeVars, lifeVars, frameVars
  <1>5. StrandInv'
    BY AgentClockAssumption DEF ClockInv, Types, StrandInv, None, UploaderFree, Kept,
        Spill, lifeVars, clockVars, threadVars, frameVars
  <1>6. TodoInv'
    BY AgentClockAssumption DEF ClockInv, Types, TodoInv, Free, UploaderFree, Spill,
        lifeVars, threadVars, frameVars
  <1>7. OffInv'
    BY AgentClockAssumption DEF ClockInv, Types, OffInv, None, UtcAt, ErrorOf,
        UploaderFree, Kept, Busy, Spill, timeVars, lifeVars, clockVars, threadVars,
        frameVars
  <1>8. FixInv'
    BY AgentClockAssumption DEF ClockInv, Types, FixInv, None, Free, UploaderFree, Kept,
        Spill, timeVars, lifeVars, clockVars, threadVars, frameVars
  <1> QED BY <1>1, <1>2, <1>3, <1>4, <1>5, <1>6, <1>7, <1>8 DEF ClockInv, Types

LEMMA SettleStep == ASSUME ClockInv, Settle PROVE ClockInv'
  <1>1. TimeTypes' /\ LifeTypes' /\ ClockTypes' /\ ThreadTypes' /\ AnchorInv' /\
      SpoiltInv' /\ SoloInv'
    BY DEF ClockInv, Types, TimeTypes, LifeTypes, ClockTypes, ThreadTypes, AnchorInv,
        SpoiltInv, SoloInv, Anchors, Begun, Stamped, Exact, Void, Settle, timeVars,
        lifeVars, clockVars, threadVars, frameVars
  <1>2. FrameTypes'
    BY AgentClockAssumption DEF ClockInv, Types, FrameTypes, NoFrame, Free, NoShot,
        UploaderFree, Settle, timeVars, lifeVars, frameVars
  <1>3. BusyInv'
    BY AgentClockAssumption DEF ClockInv, Types, BusyInv, NoFrame, None, Free, NoShot,
        UploaderFree, Busy, Settle, timeVars, clockVars, threadVars, frameVars
  <1>4. AgeInv'
    BY AgentClockAssumption DEF ClockInv, Types, AgeInv, NoFrame, Free, NoShot,
        UploaderFree, Kept, Settle, timeVars, lifeVars, frameVars
  <1>5. StrandInv'
    BY AgentClockAssumption DEF ClockInv, Types, StrandInv, None, Free, UploaderFree,
        Kept, Settle, lifeVars, clockVars, threadVars, frameVars
  <1>6. TodoInv'
    BY AgentClockAssumption DEF ClockInv, Types, LifeTypes, ClockTypes, ThreadTypes,
        FrameTypes, TodoInv, NoFrame, None, Sources, Times, Anchors, Idle, Free, NoShot,
        UploaderFree, Labels, States, Kinds, Readings, Measured, Resyncs, Begun,
        Stamped, FrameRecords, Busy, Settle, timeVars, lifeVars, clockVars, threadVars,
        frameVars
  <1>7. OffInv'
    BY AgentClockAssumption DEF ClockInv, Types, OffInv, None, Free, UtcAt, ErrorOf,
        UploaderFree, Kept, Busy, Settle, timeVars, lifeVars, clockVars, threadVars,
        frameVars
  <1>8. FixInv'
    BY AgentClockAssumption DEF ClockInv, Types, FixInv, None, Free, UploaderFree, Kept,
        Settle, timeVars, lifeVars, clockVars, threadVars, frameVars
  <1> QED BY <1>1, <1>2, <1>3, <1>4, <1>5, <1>6, <1>7, <1>8 DEF ClockInv, Types

LEMMA GoOfflineStep == ASSUME ClockInv, GoOffline PROVE ClockInv'
  <1>1. TimeTypes' /\ LifeTypes' /\ ThreadTypes' /\ FrameTypes'
    BY DEF ClockInv, Types, TimeTypes, LifeTypes, ThreadTypes, FrameTypes, Anchors,
        Begun, Stamped, FrameRecords, GoOffline, timeVars, lifeVars, threadVars,
        frameVars
  <1>2. SpoiltInv' /\ BusyInv' /\ AgeInv' /\ StrandInv' /\ SoloInv' /\ TodoInv' /\
      OffInv'
    BY DEF ClockInv, SpoiltInv, BusyInv, AgeInv, StrandInv, SoloInv, TodoInv, OffInv,
        Anchors, ErrorOf, Kept, Begun, Stamped, Void, GoOffline, timeVars, lifeVars,
        clockVars, threadVars, frameVars
  <1>3. ClockTypes'
    <2>1. disk' \in {anchor, disk} /\ anchor' = anchor /\ prov' = prov /\ boot' = boot
          /\ online' = FALSE
      BY DEF GoOffline, lifeVars
    <2>2. boot \in Int /\ boot <= boot
      BY DEF ClockInv, Types, LifeTypes
    <2> QED BY <2>1, <2>2 DEF ClockInv, Types, ClockTypes
  <1>4. AnchorInv'
    BY AgentClockAssumption DEF ClockInv, Types, AnchorInv, None, UtcAt, UploaderFree,
        Exact, GoOffline, timeVars, lifeVars, clockVars
  <1>5. FixInv'
    BY AgentClockAssumption DEF ClockInv, Types, TimeTypes, LifeTypes, ClockTypes,
        ThreadTypes, FrameTypes, BusyInv, AgeInv, SoloInv, FixInv, NoFrame, None,
        Sources, Times, Anchors, Idle, Free, NoShot, UploaderFree, Kept, Labels, States,
        Kinds, Readings, Measured, Resyncs, Begun, Stamped, FrameRecords, Busy, Void,
        GoOffline, timeVars, lifeVars, clockVars, threadVars, frameVars
  <1> QED BY <1>1, <1>2, <1>3, <1>4, <1>5 DEF ClockInv, Types

LEMMA GoOnlineStep == ASSUME ClockInv, GoOnline PROVE ClockInv'
  <1>1. TimeTypes' /\ LifeTypes' /\ ThreadTypes' /\ FrameTypes'
    BY DEF ClockInv, Types, TimeTypes, LifeTypes, ThreadTypes, FrameTypes, Anchors,
        Begun, Stamped, FrameRecords, GoOnline, timeVars, lifeVars, threadVars,
        frameVars
  <1>2. AnchorInv' /\ SpoiltInv' /\ BusyInv' /\ AgeInv' /\ StrandInv' /\ SoloInv' /\
      TodoInv' /\ OffInv' /\ FixInv'
    BY DEF ClockInv, AnchorInv, SpoiltInv, BusyInv, AgeInv, StrandInv, SoloInv, TodoInv,
        OffInv, FixInv, Anchors, ErrorOf, Kept, Begun, Stamped, Exact, Void, GoOnline,
        timeVars, lifeVars, clockVars, threadVars, frameVars
  <1>3. ClockTypes'
    BY AgentClockAssumption DEF ClockInv, Types, ClockTypes, None, UploaderFree,
        GoOnline, timeVars, lifeVars, clockVars
  <1> QED BY <1>1, <1>2, <1>3 DEF ClockInv, Types

----------------------------------------------------------------------------
(* Time, and the process                                                  *)

LEMMA TickStep == ASSUME ClockInv, Tick PROVE ClockInv'
  <1>1. LifeTypes' /\ ThreadTypes' /\ StrandInv' /\ SoloInv' /\ TodoInv'
    BY DEF ClockInv, Types, LifeTypes, ThreadTypes, StrandInv, SoloInv, TodoInv, Kept,
        Void, Tick, lifeVars, clockVars, threadVars, frameVars
  <1>2. TimeTypes'
    BY AgentClockAssumption DEF ClockInv, Types, TimeTypes, ThreadTypes, FrameTypes,
        NoFrame, None, Sources, Times, Anchors, Idle, Free, NoShot, Between, Labels,
        States, Kinds, Readings, Measured, Resyncs, Begun, Stamped, FrameRecords, Busy,
        Tick, timeVars, lifeVars, threadVars, frameVars
  <1>3. ClockTypes'
    BY AgentClockAssumption DEF ClockInv, Types, ClockTypes, None, Between, Tick,
        timeVars, lifeVars, clockVars
  <1>4. FrameTypes'
    BY AgentClockAssumption DEF ClockInv, Types, FrameTypes, NoFrame, Free, NoShot,
        Between, Tick, timeVars, lifeVars, frameVars
  <1>5. AnchorInv'
    BY AgentClockAssumption DEF ClockInv, Types, TimeTypes, LifeTypes, ClockTypes,
        ThreadTypes, FrameTypes, AnchorInv, NoFrame, None, Sources, Times, Anchors,
        Idle, Free, NoShot, UtcAt, Between, Labels, States, Kinds, Readings, Measured,
        Resyncs, Begun, Stamped, FrameRecords, Busy, Exact, Tick, timeVars, lifeVars,
        clockVars, threadVars, frameVars
  <1>6. SpoiltInv'
    BY AgentClockAssumption DEF ClockInv, Types, SpoiltInv, None, Between, Tick,
        timeVars, lifeVars, clockVars, frameVars
  <1>7. BusyInv'
    BY AgentClockAssumption DEF ClockInv, Types, BusyInv, NoFrame, None, Free, NoShot,
        Between, Busy, Tick, timeVars, clockVars, threadVars, frameVars
  <1>8. AgeInv'
    BY AgentClockAssumption DEF ClockInv, Types, TimeTypes, LifeTypes, ThreadTypes,
        FrameTypes, AgeInv, NoFrame, None, Sources, Times, Anchors, Idle, Free, NoShot,
        Between, Kept, Labels, States, Kinds, Readings, Measured, Resyncs, Begun,
        Stamped, FrameRecords, Busy, Tick, timeVars, lifeVars, threadVars, frameVars
  <1>9. OffInv'
    BY AgentClockAssumption DEF ClockInv, Types, TimeTypes, LifeTypes, ClockTypes,
        ThreadTypes, FrameTypes, OffInv, NoFrame, None, Sources, Times, Anchors, Idle,
        Free, NoShot, UtcAt, ErrorOf, Between, Kept, Labels, States, Kinds, Readings,
        Measured, Resyncs, Begun, Stamped, FrameRecords, Busy, Tick, timeVars, lifeVars,
        clockVars, threadVars, frameVars
  <1>10. FixInv'
    BY AgentClockAssumption DEF ClockInv, Types, FixInv, None, Free, Between, Kept,
        Tick, timeVars, lifeVars, clockVars, threadVars, frameVars
  <1> QED BY <1>1, <1>2, <1>3, <1>4, <1>5, <1>6, <1>7, <1>8, <1>9, <1>10 DEF ClockInv,
      Types

LEMMA SlipStep == ASSUME ClockInv, Slip PROVE ClockInv'
  <1>1. LifeTypes' /\ ClockTypes' /\ ThreadTypes' /\ FrameTypes'
    BY DEF ClockInv, Types, LifeTypes, ClockTypes, ThreadTypes, FrameTypes, Anchors,
        Begun, Stamped, FrameRecords, Slip, timeVars, lifeVars, clockVars, threadVars,
        frameVars
  <1>2. SpoiltInv' /\ AgeInv' /\ StrandInv' /\ SoloInv' /\ TodoInv' /\ FixInv'
    BY DEF ClockInv, SpoiltInv, AgeInv, StrandInv, SoloInv, TodoInv, FixInv, Anchors,
        Kept, Begun, Stamped, Void, Slip, timeVars, lifeVars, clockVars, threadVars,
        frameVars
  <1>3. TimeTypes'
    BY AgentClockAssumption DEF ClockInv, Types, TimeTypes, ThreadTypes, FrameTypes,
        NoFrame, None, Sources, Times, Anchors, Idle, Free, NoShot, Between, Labels,
        States, Kinds, Readings, Measured, Resyncs, Begun, Stamped, FrameRecords, Busy,
        Slip, timeVars, lifeVars, threadVars, frameVars
  <1>4. AnchorInv'
    BY AgentClockAssumption DEF ClockInv, Types, TimeTypes, LifeTypes, ClockTypes,
        ThreadTypes, FrameTypes, AnchorInv, NoFrame, None, Sources, Times, Anchors,
        Idle, Free, NoShot, UtcAt, Between, Labels, States, Kinds, Readings, Measured,
        Resyncs, Begun, Stamped, FrameRecords, Busy, Exact, Slip, timeVars, lifeVars,
        clockVars, threadVars, frameVars
  <1>5. BusyInv'
    BY AgentClockAssumption DEF ClockInv, Types, BusyInv, NoFrame, None, Free, NoShot,
        Between, Busy, Slip, timeVars, clockVars, threadVars, frameVars
  <1>6. OffInv'
    BY AgentClockAssumption DEF ClockInv, Types, TimeTypes, LifeTypes, ClockTypes,
        ThreadTypes, FrameTypes, OffInv, NoFrame, None, Sources, Times, Anchors, Idle,
        Free, NoShot, UtcAt, ErrorOf, Between, Kept, Labels, States, Kinds, Readings,
        Measured, Resyncs, Begun, Stamped, FrameRecords, Busy, Slip, timeVars, lifeVars,
        clockVars, threadVars, frameVars
  <1> QED BY <1>1, <1>2, <1>3, <1>4, <1>5, <1>6 DEF ClockInv, Types

LEMMA RestartStep == ASSUME ClockInv, Restart PROVE ClockInv'
  <1>1. TimeTypes'
    BY AgentClockAssumption DEF ClockInv, Types, TimeTypes, LifeTypes, ClockTypes,
        ThreadTypes, FrameTypes, NoFrame, None, Sources, Times, Anchors, Idle,
        SystemReads, Free, NoShot, Later, Restored, Started, Labels, States, Kinds,
        Readings, Measured, Resyncs, Begun, Stamped, FrameRecords, Busy, Restart,
        timeVars, lifeVars, clockVars, threadVars, frameVars
  <1>2. LifeTypes'
    BY AgentClockAssumption DEF ClockInv, Types, LifeTypes, NoFrame, None, Idle, Free,
        NoShot, Later, Restored, Started, Restart, lifeVars
  <1>3. ClockTypes'
    BY AgentClockAssumption DEF ClockInv, Types, TimeTypes, LifeTypes, ClockTypes,
        ThreadTypes, FrameTypes, NoFrame, None, Sources, Times, Anchors, Idle,
        SystemReads, Free, NoShot, Later, Restored, Started, Labels, States, Kinds,
        Readings, Measured, Resyncs, Begun, Stamped, FrameRecords, Busy, Restart,
        timeVars, lifeVars, clockVars, threadVars, frameVars
  <1>4. ThreadTypes'
    BY AgentClockAssumption DEF ClockInv, Types, TimeTypes, LifeTypes, ClockTypes,
        ThreadTypes, FrameTypes, NoFrame, None, Sources, Times, Anchors, Idle,
        SystemReads, Free, NoShot, Later, Restored, Started, Labels, States, Kinds,
        Readings, Measured, Resyncs, Begun, Stamped, FrameRecords, Busy, Restart,
        timeVars, lifeVars, clockVars, threadVars, frameVars
  <1>5. FrameTypes'
    BY AgentClockAssumption DEF ClockInv, Types, FrameTypes, NoFrame, None, Idle, Free,
        NoShot, Later, Restored, Started, Restart, timeVars, lifeVars, frameVars
  <1>6. AnchorInv'
    BY AgentClockAssumption DEF ClockInv, Types, TimeTypes, LifeTypes, ClockTypes,
        ThreadTypes, FrameTypes, AnchorInv, NoFrame, None, Sources, Times, Anchors,
        Idle, SystemReads, Free, NoShot, Later, UtcAt, Restored, Started, Labels,
        States, Kinds, Readings, Measured, Resyncs, Begun, Stamped, FrameRecords, Busy,
        Exact, Restart, timeVars, lifeVars, clockVars, threadVars, frameVars
  <1>7. SpoiltInv'
    BY AgentClockAssumption DEF ClockInv, Types, TimeTypes, LifeTypes, ClockTypes,
        ThreadTypes, FrameTypes, SpoiltInv, NoFrame, None, Sources, Times, Anchors,
        Idle, SystemReads, Free, NoShot, Later, Restored, Started, Labels, States,
        Kinds, Readings, Measured, Resyncs, Begun, Stamped, FrameRecords, Busy, Restart,
        timeVars, lifeVars, clockVars, threadVars, frameVars
  <1>8. BusyInv'
    BY AgentClockAssumption DEF ClockInv, Types, BusyInv, NoFrame, None, Idle, Free,
        NoShot, Later, Restored, Started, Busy, Restart, timeVars, clockVars,
        threadVars, frameVars
  <1>9. AgeInv'
    BY AgentClockAssumption DEF ClockInv, Types, TimeTypes, LifeTypes, ClockTypes,
        ThreadTypes, FrameTypes, AgeInv, NoFrame, None, Sources, Times, Anchors, Idle,
        SystemReads, Free, NoShot, Later, Restored, Started, Kept, Labels, States,
        Kinds, Readings, Measured, Resyncs, Begun, Stamped, FrameRecords, Busy, Restart,
        timeVars, lifeVars, clockVars, threadVars, frameVars
  <1>10. StrandInv'
    BY AgentClockAssumption DEF ClockInv, Types, TimeTypes, LifeTypes, ClockTypes,
        ThreadTypes, FrameTypes, BusyInv, AgeInv, SoloInv, StrandInv, NoFrame, None,
        Sources, Times, Anchors, Idle, SystemReads, Free, NoShot, Later, Restored,
        Started, Kept, Labels, States, Kinds, Readings, Measured, Resyncs, Begun,
        Stamped, FrameRecords, Busy, Void, Restart, timeVars, lifeVars, clockVars,
        threadVars, frameVars
  <1>11. SoloInv'
    BY AgentClockAssumption DEF ClockInv, Types, SoloInv, NoFrame, None, Idle, Free,
        NoShot, Later, Restored, Started, Busy, Void, Restart, clockVars, threadVars
  <1>12. TodoInv'
    BY AgentClockAssumption DEF ClockInv, Types, TodoInv, NoFrame, None, Idle, Free,
        NoShot, Later, Restored, Started, Restart, lifeVars, threadVars, frameVars
  <1>13. OffInv'
    BY AgentClockAssumption DEF ClockInv, Types, TimeTypes, LifeTypes, ClockTypes,
        ThreadTypes, FrameTypes, BusyInv, AgeInv, SoloInv, OffInv, NoFrame, None,
        Sources, Times, Anchors, Idle, SystemReads, Free, NoShot, Later, UtcAt, ErrorOf,
        Restored, Started, Kept, Labels, States, Kinds, Readings, Measured, Resyncs,
        Begun, Stamped, FrameRecords, Busy, Void, Restart, timeVars, lifeVars,
        clockVars, threadVars, frameVars
  <1>14. FixInv'
    BY AgentClockAssumption DEF ClockInv, Types, TimeTypes, LifeTypes, ClockTypes,
        ThreadTypes, FrameTypes, BusyInv, AgeInv, SoloInv, FixInv, NoFrame, None,
        Sources, Times, Anchors, Idle, SystemReads, Free, NoShot, Later, Restored,
        Started, Kept, Labels, States, Kinds, Readings, Measured, Resyncs, Begun,
        Stamped, FrameRecords, Busy, Void, Restart, timeVars, lifeVars, clockVars,
        threadVars, frameVars
  <1> QED BY <1>1, <1>2, <1>3, <1>4, <1>5, <1>6, <1>7, <1>8, <1>9, <1>10, <1>11, <1>12,
      <1>13, <1>14 DEF ClockInv, Types

----------------------------------------------------------------------------
(* The invariant                                                           *)

LEMMA InitInv == Init => ClockInv
  <1> SUFFICES ASSUME Init PROVE ClockInv
    OBVIOUS
  <1>1. /\ 0 \in Times /\ 1 \in Times /\ 1 \in 1..MaxStarts /\ 0 \in 0..MaxSlips
        /\ prov \in Anchors /\ prov.boot = 1
    BY AgentClockAssumption DEF Init, Times, SystemReads, Anchors
  <1>2. None \notin Anchors
    BY DEF None, Anchors, Times
  <1>3. TimeTypes /\ LifeTypes
    BY <1>1 DEF Init, TimeTypes, LifeTypes
  <1>4. ClockTypes
    BY <1>1, <1>2 DEF Init, ClockTypes
  <1>5. ThreadTypes
    BY DEF Init, ThreadTypes, States, Busy
  <1>6. FrameTypes
    BY DEF Init, FrameTypes
  <1>7. NoShot \notin Begun /\ NoShot \notin Stamped
    BY DEF NoShot, Begun, Stamped
  <1>8. AnchorInv /\ SpoiltInv
    BY <1>7 DEF Init, AnchorInv, Exact, SpoiltInv
  <1>9. BusyInv /\ SoloInv /\ TodoInv
    BY DEF Init, BusyInv, SoloInv, TodoInv, Busy
  <1>10. Kept = {}
    BY DEF Init, Kept, Free
  <1>11. AgeInv /\ StrandInv /\ OffInv /\ FixInv
    BY <1>7, <1>10 DEF Init, AgeInv, StrandInv, OffInv, FixInv
  <1> QED BY <1>3, <1>4, <1>5, <1>6, <1>8, <1>9, <1>11 DEF ClockInv, Types

LEMMA StutterInv == ASSUME ClockInv, UNCHANGED vars PROVE ClockInv'
  <1>1. Types'
    BY DEF ClockInv, Types, TimeTypes, LifeTypes, ClockTypes, ThreadTypes, FrameTypes,
        vars, timeVars, lifeVars, clockVars, threadVars, frameVars
  <1>2. AnchorInv' /\ SpoiltInv' /\ BusyInv' /\ AgeInv' /\ StrandInv'
    BY DEF ClockInv, AnchorInv, Exact, UtcAt, SpoiltInv, BusyInv, AgeInv, StrandInv,
        Kept, vars, timeVars, lifeVars, clockVars, threadVars, frameVars
  <1>3. SoloInv' /\ TodoInv' /\ OffInv' /\ FixInv'
    BY DEF ClockInv, SoloInv, Void, TodoInv, OffInv, ErrorOf, UtcAt, FixInv, Kept, vars,
        timeVars, lifeVars, clockVars, threadVars, frameVars
  <1> QED BY <1>1, <1>2, <1>3 DEF ClockInv

\* Everything the clock, its threads and the frames can come to together.
THEOREM ClockInvariant == Spec => []ClockInv
  <1>1. ClockInv /\ [Next]_vars => ClockInv'
    BY StutterInv, ShootStep, ShotAssertsStep, ShotStampedStep, TakenStep, ObserveStep,
       SetStep, SaveStep, RestampStep, SpillStep, SettleStep, GoOfflineStep,
       GoOnlineStep, TickStep, SlipStep, RestartStep DEF Next
  <1> QED BY InitInv, <1>1, PTL DEF Spec

----------------------------------------------------------------------------
(* What follows from it                                                    *)

\* The types hold; an anchor is of this boot, and there is a seed exactly as long
\* as there is no anchor (clock.py:117-135 and 186-200).
THEOREM ClockTypeCorrect == Spec => []TypeOK
  <1>1. ClockInv => TypeOK
    BY DEF ClockInv, Types, TimeTypes, LifeTypes, ClockTypes, ThreadTypes, FrameTypes,
        States, TypeOK
  <1> QED BY <1>1, ClockInvariant, PTL

\* An anchored clock is right to what the crystal slipped, across restarts and
\* reboots and whichever thread anchored it.
THEOREM AnchoredClockRight == Spec => []AnchoredTimeRight
  <1>1. ASSUME ClockInv, anchor # None PROVE Size(UtcAt(anchor, mono) - truth) <= slips
    <2>1. truth - UtcAt(anchor, mono) \in 0..slips
      BY <1>1 DEF ClockInv, AnchorInv, Exact, Types, ClockTypes
    <2>2. UtcAt(anchor, mono) \in Int /\ truth \in Int /\ slips \in Int
      BY <1>1 DEF ClockInv, Types, TimeTypes, ClockTypes, Anchors, Times, UtcAt
    <2> QED BY <2>1, <2>2 DEF Size
  <1>2. ClockInv => AnchoredTimeRight
    BY <1>1 DEF AnchoredTimeRight
  <1> QED BY <1>2, ClockInvariant, PTL

\* The capture that runs into the anchoring is the only one that suffers.
THEOREM OneFrameSpoilt == Spec => []AnchoringCostsOneFrame
  <1>1. ClockInv => AnchoringCostsOneFrame
    BY DEF ClockInv, SpoiltInv, AnchoringCostsOneFrame
  <1> QED BY <1>1, ClockInvariant, PTL

\* restamp() never corrects a frame twice, unless threads crossed or an anchor
\* could not be saved.
THEOREM FramesCorrectedOnce == Spec => []CorrectedOnce
  <1>1. ASSUME ClockInv, NEW f \in Kept PROVE frame[f].fixes <= 1 \/ events \cap {"crossed", "unsaved"} # {}
    <2>1. frame[f] \in FrameRecords
      BY <1>1 DEF ClockInv, Types, FrameTypes, Kept, Free
    <2>2. frame[f].fixes \in Nat
      BY <2>1 DEF FrameRecords
    <2> QED BY <1>1, <2>2 DEF ClockInv, FixInv
  <1>2. ClockInv => CorrectedOnce
    BY <1>1 DEF CorrectedOnce
  <1> QED BY <1>2, ClockInvariant, PTL

\* The correction of a provisional frame, by the process that took it, gives it
\* its true time, unless threads crossed.
THEOREM CorrectionsRight == Spec => []RestampedRight
  <1>1. ASSUME ClockInv, NEW f \in Kept, frame[f].was = "provisional",
               frame[f].by = frame[f].start, "crossed" \notin events
        PROVE  Size(frame[f].off) <= slips
    <2>1. frame[f].off \in 0..slips
      BY <1>1 DEF ClockInv, OffInv
    <2>2. slips \in Int
      BY <1>1 DEF ClockInv, Types, TimeTypes
    <2> QED BY <2>1, <2>2 DEF Size
  <1>2. ClockInv => RestampedRight
    BY <1>1 DEF RestampedRight
  <1> QED BY <1>2, ClockInvariant, PTL

\* A provisional frame that no correction reached was queued at the time, or an
\* earlier process left it, or some stamp could not be written.
THEOREM StrandedHaveReason == Spec => []StrandedExplained
  <1>1. ASSUME ClockInv, anchor # None,
               \A t \in Threads : at[t] \in {"idle", "first", "refresh"},
               NEW f \in Kept, frame[f].place = "store", frame[f].boot = boot,
               frame[f].label = "provisional"
        PROVE  frame[f].late \/ frame[f].start # start \/ "unwritten" \in events
    <2>1. \A t \in Threads : at[t] # "save" /\ todo[t] = {}
      BY <1>1 DEF ClockInv, Types, ThreadTypes
    <2> QED BY <1>1, <2>1 DEF ClockInv, StrandInv
  <1>2. ClockInv => StrandedExplained
    BY <1>1 DEF StrandedExplained
  <1> QED BY <1>2, ClockInvariant, PTL

=============================================================================
