----------------------------- MODULE FrameStore -----------------------------
(***************************************************************************)
(* What the spill cache promises (src/agent/cache.py, "Guarantees"): frames*)
(* enter one by one in capture order, whole or not at all; they leave      *)
(* oldest first; a crash of the process changes nothing; and a power cut   *)
(* can only take back, frame by frame, what the card had not yet settled.  *)
(***************************************************************************)
EXTENDS Integers

CONSTANT Ulids  \* a set of naturals: ULIDs in capture order

VARIABLES held,     \* the frames a restart of the agent would find
          settled   \* the same, of what has reached the card for good

fsVars == <<held, settled>>

FSInit == held = {} /\ settled = {}

\* A frame newer than every frame held is added.
Accept ==
  \E u \in Ulids \ held :
    /\ \A v \in held : v < u
    /\ held' = held \cup {u}
    /\ UNCHANGED settled

RemoveOldest ==
  \E u \in held :
    /\ \A v \in held : u <= v
    /\ held' = held \ {u}
    /\ UNCHANGED settled

\* The card writes back what it had cached about frame u.
SettleFrame ==
  \E u \in Ulids :
    /\ settled' = IF u \in held THEN settled \cup {u} ELSE settled \ {u}
    /\ UNCHANGED held

\* A power cut: the frames held before and after agree with what the card
\* had or would have had.
PowerLoss ==
  \E s \in SUBSET Ulids :
    /\ held \cap settled \subseteq s /\ s \subseteq held \cup settled
    /\ held' = s /\ settled' = s

FSNext == Accept \/ RemoveOldest \/ SettleFrame \/ PowerLoss

FSSpec == FSInit /\ [][FSNext]_fsVars
=============================================================================
