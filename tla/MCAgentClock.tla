---------------------------- MODULE MCAgentClock ----------------------------
(* Instances of AgentClock, and what its documentation claims of a boot.   *)
EXTENDS AgentClock

CONSTANT f1

\* "every provisional frame of this boot is off by exactly offset_s"
\* (clock.py:98-99): a restamped one has its true time.
EveryProvisionalOfBootExact ==
  \A f \in Kept :
    frame[f].was = "provisional" /\ frame[f].fixes > 0
      => Size(frame[f].off) <= slips

=============================================================================
