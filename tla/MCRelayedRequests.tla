------------------------- MODULE MCRelayedRequests -------------------------
(* Instances of RelayedRequests, and what its documentation claims of a    *)
(* lost answer.                                                            *)
EXTENDS RelayedRequests

\* "so a lost answer or a crash is simply retried with the same secret"
\* (enroll.py:5-6): what the signer has accepted, the device comes to use.
AcceptedIsAdopted == live # secret ~> live = secret

=============================================================================
