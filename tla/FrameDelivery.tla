---------------------------- MODULE FrameDelivery ----------------------------
(***************************************************************************)
(* What the upload pipeline promises for the frames it is given (the module*)
(* comment of src/agent/uploader.py, "Guarantees" of src/agent/cache.py),  *)
(* with its threads, answers and network states left out: frames enter     *)
(* memory in capture order; S3 is sent the oldest in memory or the oldest  *)
(* cached; a frame moves to the cache as the newest there; it leaves       *)
(* uploaded once S3 has it; and it is lost only from the old end of memory *)
(* or cache, or with the process, and only if S3 never got it.             *)
(***************************************************************************)
EXTENDS Integers

CONSTANTS Frames,    \* a set of integers: frames in capture order
          Qualities  \* of the stamps frames are uploaded under

VARIABLES memory,    \* frames the process would lose
          cached,    \* frames on disk
          sent,      \* frames S3 has, each with the quality of a stamp
          claimed,   \* frames that count as uploaded
          lost       \* frames neither here nor in S3

fdVars == <<memory, cached, sent, claimed, lost>>

FDInit == memory = {} /\ cached \subseteq Frames /\ sent = {} /\ claimed = {} /\ lost = {}

Has(s, f) == \E q \in Qualities : <<f, q>> \in s

OldestIn(S, f) == f \in S /\ \A g \in S : f <= g

\* Frames E are given up: lost are those S3 has not got.
GiveUpAll(E) == lost' = lost \cup {f \in E : ~Has(sent', f)}

\* Some of the oldest frames in the cache.
OldPart(E) == E \subseteq cached /\ \A f \in E, g \in cached \ E : f < g

\* Nothing is sent, or the oldest in memory or cache, whose answer may be lost.
MaySend ==
  \/ sent' = sent
  \/ \E f \in Frames, q \in Qualities :
       /\ OldestIn(memory, f) \/ OldestIn(cached, f)
       /\ sent' = sent \cup {<<f, q>>}

CaptureNew ==
  \E f \in Frames :
    /\ \A g \in memory \cup cached \cup claimed \cup lost : g < f
    /\ ~Has(sent, f)
    /\ memory' = memory \cup {f}
    /\ UNCHANGED <<cached, sent, claimed, lost>>

\* An upload that does not count yet, or the age limit, or both at once.
SendOrAge ==
  \E E \in SUBSET cached :
    /\ OldPart(E) /\ MaySend
    /\ cached' = cached \ E /\ GiveUpAll(E)
    /\ UNCHANGED <<memory, claimed>>

\* The oldest in memory goes to the cache, which makes room at its old end; a
\* failed write costs that frame.  An upload whose answer is lost may be what
\* sends it there.
MoveToCache ==
  \E f \in Frames, E \in SUBSET cached :
    /\ OldestIn(memory, f) /\ (\A g \in cached : g < f)
    /\ OldPart(E) /\ MaySend
    /\ memory' = memory \ {f}
    /\ \/ cached' = (cached \ E) \cup {f} /\ GiveUpAll(E)
       \/ cached' = cached \ E /\ GiveUpAll(E \cup {f})
    /\ UNCHANGED claimed

\* Once S3 has it, the oldest in memory or cache leaves, uploaded (age may have
\* taken it from the cache already).
Claim ==
  \E f \in Frames :
    /\ Has(sent, f)
    /\ f \in memory => OldestIn(memory, f)
    /\ f \in cached => OldestIn(cached, f)
    /\ claimed' = claimed \cup {f}
    /\ memory' = memory \ {f} /\ cached' = cached \ {f}
    /\ UNCHANGED <<sent, lost>>

\* The signer does not want it, or it cannot be uploaded.
GiveUpOldest ==
  \E f \in Frames :
    /\ OldestIn(memory, f) \/ OldestIn(cached, f)
    /\ memory' = memory \ {f} /\ cached' = cached \ {f} /\ GiveUpAll({f})
    /\ UNCHANGED <<sent, claimed>>

\* The queue overflows: the oldest in memory but for the one being uploaded.
Overflow ==
  \E f \in memory :
    /\ \A g, h \in memory : g < f /\ h < f => g = h
    /\ memory' = memory \ {f} /\ GiveUpAll({f})
    /\ UNCHANGED <<cached, sent, claimed>>

ProcessEnds ==
  /\ memory' = {} /\ GiveUpAll(memory)
  /\ UNCHANGED <<cached, sent, claimed>>

FDNext ==
  \/ CaptureNew \/ SendOrAge \/ MoveToCache \/ Claim
  \/ GiveUpOldest \/ Overflow \/ ProcessEnds

FDSpec == FDInit /\ [][FDNext]_fdVars

----------------------------------------------------------------------------
\* What this comes to: cached frames are older than those in memory; lost means
\* neither here nor in S3; and what counts as uploaded is in S3, and not kept.
Delivers ==
  /\ \A f \in cached, g \in memory : f < g
  /\ \A f \in lost : f \notin memory \cup cached /\ ~Has(sent, f)
  /\ \A f \in claimed : Has(sent, f) /\ f \notin memory \cup cached

\* No frame vanishes: one that leaves memory and cache is in S3, or lost.
NoneVanishes ==
  [][\A f \in memory \cup cached : f \in memory' \cup cached' \cup lost' \/ Has(sent', f)]_fdVars

\* The cache is used like a queue: what enters comes from memory and is newer than
\* what is there, what leaves is older than what stays.
CachedInOrder ==
  [][/\ cached' \subseteq cached \cup memory
     /\ \A f \in cached' \ cached, g \in cached : g < f
     /\ \A f \in cached \ cached', g \in cached \cap cached' : f < g]_fdVars
=============================================================================
