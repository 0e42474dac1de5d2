----------------------------- MODULE MCUploader -----------------------------
(***************************************************************************)
(* Uploader for TLC: the configurations MCUploader_*.cfg, and what the     *)
(* code's own comments say of the program that its behaviours refute.      *)
(***************************************************************************)
EXTENDS Uploader

\* uploader.py:23-25: provisional frames are spilled, and the first trusted
\* reading restamps them exactly.  So once the clock has its anchor no cached
\* frame of this boot is provisional.  (A frame still in the queue then is
\* spilled later, and nothing restamps it.)
CorrectedOnceAnchored ==
  anchored => \A f \in store : f > bootStart => quality[f] = "trusted"

\* uploader.py:591: a cached frame is uploaded under its final stamp.  (The
\* item is built before its own /sign, whose Date may restamp the file.)
UploadedUnderFinalStamp ==
  (upc = "verified" /\ late) => handq = quality[hand]

\* uploader.py:18: while OFFLINE every queued frame goes to the spill store
\* at once.  (A heartbeat of the main thread can take the agent OFFLINE while
\* process() retries: nothing tips it again, and the queue overflows instead.)
OfflineQueueSpills ==
  (network = "down" /\ net_state = "offline") ~> (InMemory = {} \/ stopping)
=============================================================================
