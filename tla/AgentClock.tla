----------------------------- MODULE AgentClock -----------------------------
(***************************************************************************)
(* The internet-anchored clock (src/agent/clock.py) with those who read    *)
(* and feed it: the capture loop stamps frames by it, and any thread that  *)
(* gets a trusted time (the Date of a signer answer, or NTP) anchors it    *)
(* and corrects the cached frames (Uploader.apply_resync).  Nothing is     *)
(* locked: a read and an update are several steps each.                    *)
(*                                                                         *)
(* Times are whole numbers.  The crystal runs with true time except where  *)
(* it slips; a trusted reading is exact; the system clock found when the   *)
(* process starts is right or far behind (there is no RTC).  A stamp is    *)
(* kept as how far it is off; how much of a holdover drift a frame gets is *)
(* left out: only whether it gets any.                                     *)
(***************************************************************************)
EXTENDS Integers

CONSTANTS Threads,     \* threads that hear signer answers; "main" captures
          Frames,      \* bound: frames in memory and in the cache
          RefreshS,    \* AgentClock._refresh_s
          MaxTime, MaxSlips, MaxStarts  \* bounds

NoFrame == "none"

ASSUME AgentClockAssumption ==
  /\ Threads \subseteq {"main", "uploader"}
  /\ NoFrame \notin Frames
  /\ {RefreshS, MaxTime, MaxStarts} \subseteq Nat \ {0} /\ MaxSlips \in Nat

None == [utc |-> -1]
Sources == {"ntp", "signer"}
Times == 0..MaxTime
Anchors == [utc : Times, mono : Times, boot : 1..MaxStarts, source : Sources \cup {"none"}]

VARIABLES
  truth, mono,   \* true time; monotonic time since the boot
  slips,         \* how often the crystal slipped behind
  boot, start,   \* boots of the device; starts of the process
  anchor, prov,  \* AgentClock._anchor, ._prov
  disk,          \* anchor.json
  online,        \* AgentClock._online
  at, hold,      \* per thread: where in observe_trusted it is, with what reading
  todo,          \* per thread: the frames apply_resync has listed, with their stamps
  shot,          \* the capture under way: its frame, and what utc_at read first
  frame,         \* the frames
  spoilt,        \* since the start: captures that failed in utc_at's assertion, or
                 \*   whose label claims more than their time is worth (at most 2 counted)
  events         \* what happened that weakens the clock's promises

timeVars == <<truth, mono, slips>>
lifeVars == <<boot, start>>
clockVars == <<anchor, prov, disk, online>>
threadVars == <<at, hold, todo>>
frameVars == <<shot, frame, spoilt>>

vars == <<timeVars, lifeVars, clockVars, threadVars, frameVars, events>>

Idle == [source |-> "none"]
\* What the system clock may read when true time is t.
SystemReads(t) == {0, t}

Free == [place |-> "none"]
NoShot == [f |-> NoFrame]

Later(a, b) == IF a > b THEN a ELSE b

----------------------------------------------------------------------------
(* Reading                                                                 *)

UtcAt(base, m) == base.utc + (m - base.mono)

\* Mutant of QualityAt: online is taken for anchored.
QualityIfOnline(a, m) ==
  IF online THEN "synced" ELSE IF a = None THEN "provisional" ELSE "holdover"

QualityAt(a, m) ==
  IF a = None THEN "provisional"
  ELSE IF online /\ m - a.mono < 2 * RefreshS THEN "synced" ELSE "holdover"

\* capture_jpeg asks the clock; utc_at finds an anchor, or not.
Shoot ==
  \E f \in Frames :
    /\ frame[f] = Free
    /\ shot = NoShot /\ ("main" \in Threads => at["main"] = "idle")
    /\ shot' = [f |-> f, mono |-> mono, base |-> anchor]
    /\ UNCHANGED <<timeVars, lifeVars, clockVars, threadVars, frame, spoilt, events>>

OneMore == IF spoilt < 2 THEN spoilt + 1 ELSE spoilt

\* It had found none, and _prov is gone by now: the capture fails.
ShotAsserts ==
  /\ "base" \in DOMAIN shot
  /\ shot.base = None /\ prov = None
  /\ shot' = NoShot
  /\ frame' = [frame EXCEPT ![shot.f] = Free]
  /\ spoilt' = OneMore
  /\ UNCHANGED <<timeVars, lifeVars, clockVars, threadVars, events>>

ShotStamped ==
  /\ "base" \in DOMAIN shot
  /\ shot.base # None \/ prov # None
  /\ LET base == IF shot.base # None THEN shot.base ELSE prov
     IN shot' = [f |-> shot.f, mono |-> shot.mono, seeded |-> shot.base = None,
                 off |-> UtcAt(base, mono) - truth]
  /\ UNCHANGED <<timeVars, lifeVars, clockVars, threadVars, frame, spoilt, events>>

\* The frame is encoded; only then does capture_once ask for the quality.
Taken ==
  /\ "off" \in DOMAIN shot
  /\ LET q == QualityAt(anchor, mono)
     IN frame' = [frame EXCEPT ![shot.f] =
                   [place |-> "queue", boot |-> boot, start |-> start,
                    mono |-> shot.mono, off |-> shot.off, was |-> q, label |-> q,
                    fixes |-> 0, by |-> 0, late |-> FALSE]]
     /\ spoilt' = IF shot.seeded /\ q # "provisional" THEN OneMore ELSE spoilt
  /\ shot' = NoShot
  /\ UNCHANGED <<timeVars, lifeVars, clockVars, threadVars, events>>

----------------------------------------------------------------------------
(* Trusted readings                                                        *)

\* Mutant of ErrorOf: against what the base was, not what it is by now.
ErrorOfBase(base) == truth - base.utc

\* How far the clock is behind a reading.
ErrorOf(base) == truth - UtcAt(base, mono)

\* Whether observe_http_date or observe_trusted uses a reading.
Heeded(source, forced) ==
  LET age == mono - anchor.mono
  IN anchor # None =>
       /\ source = "signer" /\ anchor.source = "ntp" => age >= RefreshS
       /\ forced \/ age >= RefreshS

\* A signer answer (forced while OFFLINE) or a positive NTP poll.  A refresh
\* measures the error at once (the log of it comes before the new anchor).
Observe(t) ==
  \E source \in Sources :
    /\ at[t] = "idle" /\ (t = "main" => shot = NoShot)
    /\ Heeded(source, source = "signer" /\ ~online)
    /\ \/ /\ anchor = None
          /\ at' = [at EXCEPT ![t] = "first"]
          /\ hold' = [hold EXCEPT ![t] = [source |-> source]]
       \/ /\ anchor # None
          /\ at' = [at EXCEPT ![t] = "refresh"]
          /\ hold' = [hold EXCEPT ![t] = [source |-> source, shift |-> ErrorOf(anchor)]]
    /\ UNCHANGED <<timeVars, lifeVars, clockVars, todo, frameVars, events>>

\* The new anchor, and the Resync it yields.  A first reading that finds another
\* thread's anchor by now measures against that.
Set(t) ==
  LET base == IF anchor # None THEN anchor ELSE prov
      first == [kind |-> "provisional", shift |-> ErrorOf(base), since |-> mono]
      refresh == [kind |-> "holdover", shift |-> hold[t].shift, since |-> base.mono]
  IN /\ at[t] \in {"first", "refresh"}
     /\ anchor' = [utc |-> truth, mono |-> mono, boot |-> boot, source |-> hold[t].source]
     /\ prov' = None
     /\ at' = [at EXCEPT ![t] = "save"]
     /\ hold' = [hold EXCEPT ![t] = IF at[t] = "first" THEN first ELSE refresh]
     /\ events' = IF \E u \in Threads \ {t} : at[u] \in {"first", "refresh"}
                  THEN events \cup {"crossed"} ELSE events
     /\ UNCHANGED <<timeVars, lifeVars, disk, online, todo, frameVars>>

\* Mutant of Corrects: no clamp, a frame before the window gets a negative share.
CorrectsUnclamped(r, m) == r.kind = "provisional" \/ r.shift # 0

\* Mutant of Corrects: the window asked of provisional frames too.
CorrectsInWindow(r, m) == m > r.since

\* correction_s: is there any?
Corrects(r, m) == r.kind = "provisional" \/ (r.shift # 0 /\ m > r.since)

\* The cached frames apply_resync selects.
Listed(r) ==
  {f \in Frames : /\ frame[f].place = "store" /\ frame[f].boot = boot
                  /\ frame[f].label = r.kind
                  /\ Corrects(r, frame[f].mono)}

\* The thread restamps while something is listed.
Working(t, list) ==
  /\ at' = [at EXCEPT ![t] = IF list = {} THEN "idle" ELSE "restamp"]
  /\ hold' = IF list = {} THEN [hold EXCEPT ![t] = Idle] ELSE hold

\* persist_now (which a full card makes fail silently), then the listing.
Save(t) ==
  LET list == {[f |-> f, off |-> frame[f].off] : f \in Listed(hold[t])}
  IN /\ at[t] = "save"
     /\ \/ disk' = anchor /\ events' = events
        \/ disk' = disk /\ events' = events \cup {"unsaved"}
     /\ todo' = [todo EXCEPT ![t] = list]
     /\ Working(t, list)
     /\ frame' = [f \in Frames |->
                    IF frame[f].place = "queue" /\ hold[t].kind = "provisional"
                    THEN [frame[f] EXCEPT !.late = TRUE] ELSE frame[f]]
     /\ UNCHANGED <<timeVars, lifeVars, anchor, prov, online, shot, spoilt>>

\* What restamp() makes of a frame, from the stamp that was listed.
Restamped(t, s) ==
  [frame[s.f] EXCEPT !.off = IF hold[t].kind = "provisional"
                             THEN s.off + hold[t].shift ELSE @,
                     !.label = "holdover", !.fixes = @ + 1, !.by = start]

\* A frame gone meanwhile is left; so is one whose stamp cannot be written.
Restamp(t) ==
  \E s \in todo[t] :
    /\ todo' = [todo EXCEPT ![t] = @ \ {s}]
    /\ Working(t, todo[t] \ {s})
    /\ \/ /\ frame' = IF frame[s.f].place # "store" THEN frame
                      ELSE [frame EXCEPT ![s.f] = Restamped(t, s)]
          /\ events' = events
       \/ /\ frame[s.f].place = "store"
          /\ frame' = frame /\ events' = events \cup {"unwritten"}
    /\ UNCHANGED <<timeVars, lifeVars, clockVars, shot, spoilt>>

----------------------------------------------------------------------------
(* The pipeline, as far as the clock sees it                               *)

UploaderFree == "uploader" \in Threads => at["uploader"] = "idle"

\* A provisional frame, or any while OFFLINE.
Spill ==
  \E f \in Frames :
    /\ UploaderFree /\ frame[f].place = "queue"
    /\ ~online \/ frame[f].label = "provisional"
    /\ frame' = [frame EXCEPT ![f].place = "store"]
    /\ UNCHANGED <<timeVars, lifeVars, clockVars, threadVars, shot, spoilt, events>>

\* A live frame is uploaded, a cached one uploaded or (provisional) dropped.
Settle ==
  \E f \in Frames :
    /\ UploaderFree /\ online
    /\ \/ frame[f].place = "queue" /\ frame[f].label # "provisional"
       \/ frame[f].place = "store"
    /\ frame' = [frame EXCEPT ![f] = Free]
    /\ UNCHANGED <<timeVars, lifeVars, clockVars, threadVars, shot, spoilt, events>>

\* _go_offline, which saves the anchor, and _mark_online.
GoOffline ==
  /\ UploaderFree /\ online
  /\ online' = FALSE
  /\ disk' = IF anchor # None THEN anchor ELSE disk
  /\ UNCHANGED <<timeVars, lifeVars, anchor, prov, threadVars, frameVars, events>>

GoOnline ==
  /\ UploaderFree /\ ~online
  /\ online' = TRUE
  /\ UNCHANGED <<timeVars, lifeVars, anchor, prov, disk, threadVars, frameVars, events>>

----------------------------------------------------------------------------
(* Time, and the process                                                   *)

\* A whole unit of time is longer than a reading and its use take.
Between ==
  /\ truth < MaxTime
  /\ \A t \in Threads : at[t] = "idle"
  /\ "base" \notin DOMAIN shot

Tick ==
  /\ Between
  /\ truth' = truth + 1 /\ mono' = mono + 1
  /\ UNCHANGED <<slips, lifeVars, clockVars, threadVars, frameVars, events>>

Slip ==
  /\ Between /\ slips < MaxSlips
  /\ truth' = truth + 1 /\ slips' = slips + 1
  /\ UNCHANGED <<mono, lifeVars, clockVars, threadVars, frameVars, events>>

\* Mutant of Restored: any stored anchor is taken for this boot's.
RestoredOfAnyBoot(b) == disk # None

\* AgentClock.__init__: is the stored anchor of this boot?
Restored(b) == disk # None /\ disk.boot = b

\* The clock of a new process, on a system clock that reads sys.
Started(b, m, sys) ==
  IF Restored(b)
  THEN anchor' = disk /\ prov' = None
  ELSE /\ anchor' = None
       /\ prov' = [utc |-> IF disk # None THEN Later(disk.utc, sys) ELSE sys,
                   mono |-> m, boot |-> b, source |-> "none"]

\* The process ends (a restart, a crash) or the device reboots; memory is lost.
Restart ==
  \E reboot \in BOOLEAN, sys \in SystemReads(truth) :
    /\ start < MaxStarts
    /\ start' = start + 1 /\ boot' = IF reboot THEN boot + 1 ELSE boot
    /\ mono' = IF reboot THEN 0 ELSE mono
    /\ Started(boot', mono', sys)
    /\ online' = TRUE
    /\ at' = [t \in Threads |-> "idle"] /\ hold' = [t \in Threads |-> Idle]
    /\ todo' = [t \in Threads |-> {}]
    /\ shot' = NoShot
    /\ frame' = [f \in Frames |-> IF frame[f].place = "queue" \/ f = shot.f
                                  THEN Free ELSE frame[f]]
    /\ spoilt' = 0
    /\ UNCHANGED <<truth, slips, disk, events>>

Init ==
  /\ truth = 1 /\ mono = 0 /\ slips = 0 /\ boot = 1 /\ start = 1
  /\ anchor = None /\ disk = None /\ online = TRUE
  /\ \E sys \in SystemReads(truth) : prov = [utc |-> sys, mono |-> 0, boot |-> 1, source |-> "none"]
  /\ at = [t \in Threads |-> "idle"] /\ hold = [t \in Threads |-> Idle]
  /\ todo = [t \in Threads |-> {}]
  /\ shot = NoShot /\ frame = [f \in Frames |-> Free]
  /\ spoilt = 0 /\ events = {}

Next ==
  \/ Shoot \/ ShotAsserts \/ ShotStamped \/ Taken
  \/ \E t \in Threads : Observe(t) \/ Set(t) \/ Save(t) \/ Restamp(t)
  \/ Spill \/ Settle \/ GoOffline \/ GoOnline
  \/ Tick \/ Slip \/ Restart

Spec == Init /\ [][Next]_vars

----------------------------------------------------------------------------
(* Properties                                                              *)

Kept == {f \in Frames : frame[f].place \in {"queue", "store"}}

\* Types; and an anchor is of this boot, or there is a seed instead.
TypeOK ==
  /\ truth \in Times /\ mono \in Times /\ slips \in 0..MaxSlips
  /\ boot \in 1..MaxStarts /\ start \in 1..MaxStarts /\ online \in BOOLEAN
  /\ anchor \in Anchors \cup {None} /\ prov \in Anchors \cup {None}
  /\ disk \in Anchors \cup {None}
  /\ \A b \in {anchor, prov} : b # None => b.boot = boot
  /\ (anchor = None) = (prov # None)
  /\ \A t \in Threads : at[t] \in {"idle", "first", "refresh", "save", "restamp"}
  /\ spoilt \in 0..2 /\ events \subseteq {"crossed", "unsaved", "unwritten"}

Size(d) == IF d < 0 THEN -d ELSE d

\* Once anchored, the clock is right to what the crystal slipped, whatever
\* the system clock said, across restarts (the anchor file of this boot, never
\* of another) and whichever threads anchored it (clock.py:8, 175-178).
AnchoredTimeRight ==
  anchor # None => Size(UtcAt(anchor, mono) - truth) <= slips

\* A provisional frame corrected by the process that stamped it has its true
\* time, to what the crystal slipped, unless two threads were inside
\* observe_trusted at once (clock.py:98-99).  MCAgentClock shows what another
\* process's correction does.
RestampedRight ==
  \A f \in Kept :
    frame[f].was = "provisional" /\ frame[f].by = frame[f].start /\ "crossed" \notin events
      => Size(frame[f].off) <= slips

\* No frame is corrected twice, not when drift windows follow each other, nor
\* when a restart falls between two corrections; unless two threads were inside
\* observe_trusted at once or an anchor could not be saved (its window is then
\* measured again after a restart).  (clock.py:100-102, uploader.py:533-537)
CorrectedOnce ==
  \A f \in Kept : frame[f].fixes <= 1 \/ events \cap {"crossed", "unsaved"} # {}

\* Anchoring while a frame is being captured costs that frame (a provisional
\* time labelled as trusted, or utc_at's assertion) and no other: at most one
\* per start of the process (capture.py:132 and 145, clock.py:206-207).
AnchoringCostsOneFrame == spoilt <= 1

\* A provisional frame of this boot still in the cache once the clock is
\* anchored and nobody is correcting: it was queued when the cache was listed,
\* an earlier process left it, which may have died after it saved its anchor, or
\* some stamp could not be written (uploader.py:530, clock.py:237, cache.py:284).
StrandedExplained ==
  anchor # None /\ (\A t \in Threads : at[t] \in {"idle", "first", "refresh"}) =>
    \A f \in Kept :
      frame[f].place = "store" /\ frame[f].boot = boot /\ frame[f].label = "provisional"
        => frame[f].late \/ frame[f].start # start \/ "unwritten" \in events

=============================================================================
