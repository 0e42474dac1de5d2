------------------------ MODULE RelayedRequestsProofs ------------------------
(***************************************************************************)
(* Proofs about RelayedRequests, for any networks, any number of attempts  *)
(* and any number of requests, tokens and crashes.  The inductive          *)
(* invariant is RelayedInv; the safety halves of the liveness properties,  *)
(* which have further ones, come after it.                                 *)
(***************************************************************************)
EXTENDS RelayedRequests, FiniteSetTheorems, TLAPS

SomeSecret == Secrets \cup {None}
SomeToken == Tokens \cup {None}
SomeRequest == Requests \cup {NoRequest}

Resting == {"boot", "idle", "frame", "report"}
WifiSteps == {"swap", "scan", "apply", "record"} \cup Switching
EnrollSteps == {"swapToken", "pend", "post", "write", "adopt"}

WifiJobs ==
  [kind : {"scan", "apply"}, id : 1..MaxIncidents, net : Nets \cup {Off}, right : BOOLEAN,
   previous : Nets \cup {Off}]
EnrollJobs ==
  [kind : {"enroll"}, token : Tokens, first : BOOLEAN, secret : SomeSecret,
   tries : 0..(ReenrollAttempts - 1)]

SignerTypes ==
  /\ want \in SomeRequest /\ posted \in Ids
  /\ relay \in SomeToken /\ tokens \in Tokens
  /\ usedBy \in [Tokens -> SomeSecret] /\ expired \in SUBSET Tokens
  /\ live \in SomeSecret

StashTypes ==
  /\ answer \in [wifi : SomeRequest, token : SomeToken]
  /\ wifiRequest \in SomeRequest /\ reenrollRequest \in SomeToken

WifiTypes ==
  /\ handled \in [{"scan", "apply"} -> Ids] /\ ack \in [{"scan", "apply"} -> Ids]
  /\ lastApplied \in Ids /\ lastScan \in Ids
  /\ begun \in [id : Ids, saved : BOOLEAN]

NetTypes ==
  /\ profile \in [Nets -> SUBSET {"good", "bad"}] /\ active \in Nets \cup {Off}

EnrollTypes ==
  /\ file \in [secret : SomeSecret, pending : SomeSecret]
  /\ secret \in SomeSecret /\ doneId \in SomeToken

LifeTypes ==
  /\ crashes \in Ids /\ lost \in [ids : SUBSET Ids, nets : SUBSET Nets]

\* The request in hand, at each step of its handler.
JobInv ==
  /\ up \in Resting \cup WifiSteps \cup EnrollSteps
  /\ up \in Resting => job = NoJob
  /\ up \in WifiSteps =>
       /\ job \in WifiJobs
       /\ up = "scan" => job.kind = "scan"
       /\ up \notin {"swap", "scan"} => job.kind = "apply"
       /\ job.kind = "apply" => job.net \in Nets
  /\ up \in EnrollSteps => job \in EnrollJobs

Types ==
  /\ SignerTypes /\ StashTypes /\ WifiTypes /\ NetTypes /\ EnrollTypes /\ LifeTypes
  /\ JobInv

\* What the last switch begun left in memory and on disk.
AckInv ==
  /\ begun.saved => ack["apply"] = begun.id /\ handled["apply"] = begun.id
  /\ up = "apply" => handled["apply"] # job.id

\* Profiles: what is active has a good one, and a bad one is of the switch under
\* way or of a network that a crash or a failing command is to blame for; what a
\* switch with the right password finds is of the latter kind.
ProfileInv ==
  /\ active # Off => "good" \in profile[active]
  /\ BadProfileGone
  /\ /\ up = "add" \/ (up \in {"connect", "fallback", "cleanup"} /\ job.right)
     /\ "bad" \in profile[job.net]
     => job.net \in lost.nets

\* Secrets: the pending one is nobody's until the signer accepts it, which makes
\* it the live one; an enrollment in hand is about the pending one.
SecretInv ==
  /\ file.pending # None =>
       /\ file.pending # secret /\ file.pending # file.secret
       /\ \A t \in Tokens : usedBy[t] = file.pending => live = file.pending
  /\ up \in {"post", "write"} => job.secret # None /\ job.secret = file.pending
  /\ up = "write" => live = job.secret
  /\ up = "adopt" => file.pending = None /\ file.secret = job.secret /\ live = job.secret
  /\ WorkingSurvivesRestart

RelayedInv == Types /\ AckInv /\ ProfileInv /\ SecretInv

----------------------------------------------------------------------------
(* A secret nobody has                                                     *)

LEMMA FreshSecret ==
  ASSUME SignerTypes, EnrollTypes
  PROVE  /\ Fresh \in Secrets
         /\ Fresh \notin {live, secret, file.secret, file.pending}
         /\ \A t \in Tokens : usedBy[t] # Fresh
  <1> DEFINE held == {live, secret, file.secret, file.pending}
             traded == {usedBy[t] : t \in Tokens}
  <1>1. IsFiniteSet(held) /\ Cardinality(held) <= 4
    <2>1. IsFiniteSet({}) /\ Cardinality({}) = 0
      BY FS_EmptySet
    <2> DEFINE h1 == {} \cup {live}
               h2 == h1 \cup {secret}
               h3 == h2 \cup {file.secret}
               h4 == h3 \cup {file.pending}
    <2>2. IsFiniteSet(h1) /\ Cardinality(h1) \in 0..1
      BY <2>1, FS_AddElement
    <2> HIDE DEF h1
    <2>3. IsFiniteSet(h2) /\ Cardinality(h2) \in 0..2
      BY <2>2, FS_AddElement
    <2> HIDE DEF h2
    <2>4. IsFiniteSet(h3) /\ Cardinality(h3) \in 0..3
      BY <2>3, FS_AddElement
    <2> HIDE DEF h3
    <2>5. IsFiniteSet(h4) /\ Cardinality(h4) \in 0..4
      BY <2>4, FS_AddElement
    <2>6. held = h4
      BY DEF h1, h2, h3, h4
    <2> QED BY <2>5, <2>6
  <1>2. IsFiniteSet(traded) /\ Cardinality(traded) <= MaxIncidents + 1
    <2>1. IsFiniteSet(Tokens) /\ Cardinality(Tokens) = MaxIncidents + 1
      BY RelayedAssumption, FS_Interval DEF Tokens
    <2> DEFINE use == [t \in Tokens |-> usedBy[t]]
    <2>2. use \in Surjection(Tokens, traded)
      BY DEF Surjection
    <2> HIDE DEF use, traded
    <2>3. IsFiniteSet(traded) /\ Cardinality(traded) <= Cardinality(Tokens)
      BY <2>1, <2>2, FS_Surjection
    <2> QED BY <2>1, <2>3
  <1>3. IsFiniteSet(Secrets) /\ Cardinality(Secrets) = MaxIncidents + 6
    BY RelayedAssumption, FS_Interval DEF Secrets
  <1>4. IsFiniteSet(held \cup traded) /\ Cardinality(held \cup traded) <= MaxIncidents + 5
    <2>1. Cardinality(held \cup traded)
            = Cardinality(held) + Cardinality(traded) - Cardinality(held \cap traded)
      BY <1>1, <1>2, FS_Union
    <2>2. IsFiniteSet(held \cup traded) /\ IsFiniteSet(held \cap traded)
      BY <1>1, <1>2, FS_Union, FS_Intersection
    <2>3. /\ Cardinality(held) \in Nat /\ Cardinality(traded) \in Nat
          /\ Cardinality(held \cap traded) \in Nat /\ Cardinality(held \cup traded) \in Nat
      BY <1>1, <1>2, <2>2, FS_CardinalityType
    <2> QED BY <1>1, <1>2, <2>1, <2>2, <2>3, RelayedAssumption
  <1>5. \E s \in Secrets : s \notin held \cup traded
    <2>1. SUFFICES ASSUME Secrets \subseteq held \cup traded PROVE FALSE
      OBVIOUS
    <2>2. Cardinality(Secrets) <= Cardinality(held \cup traded)
      BY <1>4, <2>1, FS_Subset
    <2>3. Cardinality(held \cup traded) \in Nat
      BY <1>4, FS_CardinalityType
    <2> QED BY <1>3, <1>4, <2>2, <2>3, RelayedAssumption
  <1>6. Fresh \in Secrets /\ Fresh \notin held \cup traded
    BY <1>5 DEF Fresh
  <1> QED BY <1>6

----------------------------------------------------------------------------
(* The signer, NetworkManager and the main thread                         *)

LEMMA PostRequestStep == ASSUME RelayedInv, PostRequest PROVE RelayedInv'
  <1>1. StashTypes' /\ WifiTypes' /\ NetTypes' /\ EnrollTypes' /\ LifeTypes' /\ JobInv'
      /\ AckInv' /\ ProfileInv' /\ SecretInv'
    BY DEF RelayedInv, Types, StashTypes, WifiTypes, NetTypes, EnrollTypes, LifeTypes,
        JobInv, AckInv, ProfileInv, SecretInv, BadProfileGone, WorkingSurvivesRestart,
        PostRequest, MoreToCome, Requests, signerVars, stashVars, wifiVars, netVars,
        enrollVars, lifeVars
  <1>2. SignerTypes'
    BY RelayedAssumption DEF RelayedInv, Types, SignerTypes, LifeTypes, None, Off,
        NoRequest, Tokens, Ids, SomeSecret, SomeToken, SomeRequest, PostRequest,
        MoreToCome, Requests, signerVars, lifeVars
  <1> QED BY <1>1, <1>2 DEF RelayedInv, Types

LEMMA IssueTokenStep == ASSUME RelayedInv, IssueToken PROVE RelayedInv'
  <1>1. StashTypes' /\ WifiTypes' /\ NetTypes' /\ EnrollTypes' /\ LifeTypes' /\ JobInv'
      /\ AckInv' /\ ProfileInv' /\ SecretInv'
    BY DEF RelayedInv, Types, StashTypes, WifiTypes, NetTypes, EnrollTypes, LifeTypes,
        JobInv, AckInv, ProfileInv, SecretInv, BadProfileGone, WorkingSurvivesRestart,
        IssueToken, MoreToCome, signerVars, stashVars, wifiVars, netVars, enrollVars,
        lifeVars
  <1>2. SignerTypes'
    BY RelayedAssumption DEF RelayedInv, Types, SignerTypes, LifeTypes, None, Off,
        Requests, NoRequest, Tokens, Ids, SomeSecret, SomeToken, SomeRequest,
        IssueToken, MoreToCome, signerVars, lifeVars
  <1> QED BY <1>1, <1>2 DEF RelayedInv, Types

LEMMA ExpireStep == ASSUME RelayedInv, Expire PROVE RelayedInv'
  <1>1. StashTypes' /\ WifiTypes' /\ NetTypes' /\ EnrollTypes' /\ LifeTypes' /\ JobInv'
      /\ AckInv' /\ ProfileInv' /\ SecretInv'
    BY DEF RelayedInv, Types, StashTypes, WifiTypes, NetTypes, EnrollTypes, LifeTypes,
        JobInv, AckInv, ProfileInv, SecretInv, BadProfileGone, WorkingSurvivesRestart,
        Expire, signerVars, stashVars, wifiVars, netVars, enrollVars, lifeVars
  <1>2. SignerTypes'
    BY RelayedAssumption DEF RelayedInv, Types, SignerTypes, None, Off, Requests,
        NoRequest, Tokens, Ids, SomeSecret, SomeToken, SomeRequest, Expire, signerVars
  <1> QED BY <1>1, <1>2 DEF RelayedInv, Types

LEMMA AutoconnectStep == ASSUME RelayedInv, Autoconnect PROVE RelayedInv'
  <1>1. SignerTypes' /\ StashTypes' /\ WifiTypes' /\ EnrollTypes' /\ LifeTypes' /\
      JobInv' /\ AckInv' /\ SecretInv'
    BY DEF RelayedInv, Types, SignerTypes, StashTypes, WifiTypes, EnrollTypes,
        LifeTypes, JobInv, AckInv, SecretInv, WorkingSurvivesRestart, Autoconnect,
        signerVars, stashVars, wifiVars, enrollVars, lifeVars
  <1>2. NetTypes'
    BY RelayedAssumption DEF RelayedInv, Types, NetTypes, Off, Autoconnect, netVars
  <1>3. ProfileInv'
    BY RelayedAssumption DEF RelayedInv, Types, ProfileInv, Off, Switching,
        BadProfileGone, Autoconnect, netVars, lifeVars
  <1> QED BY <1>1, <1>2, <1>3 DEF RelayedInv, Types

LEMMA MainSignsStep == ASSUME RelayedInv, MainSigns PROVE RelayedInv'
  <1>1. WifiTypes' /\ NetTypes' /\ EnrollTypes' /\ LifeTypes' /\ JobInv' /\ AckInv' /\
      ProfileInv' /\ SecretInv'
    BY DEF RelayedInv, Types, WifiTypes, NetTypes, EnrollTypes, LifeTypes, JobInv,
        AckInv, ProfileInv, SecretInv, BadProfileGone, WorkingSurvivesRestart,
        MainSigns, Signed, Nothing, Asked, signerVars, wifiVars, netVars, enrollVars,
        lifeVars
  <1>2. SignerTypes'
    BY RelayedAssumption DEF RelayedInv, Types, SignerTypes, StashTypes, WifiTypes,
        NetTypes, EnrollTypes, None, Off, Requests, NoRequest, Tokens, Ids, SomeSecret,
        SomeToken, SomeRequest, MainSigns, Signed, Nothing, Asked, signerVars,
        stashVars, wifiVars, netVars, enrollVars
  <1>3. StashTypes'
    BY RelayedAssumption DEF RelayedInv, Types, SignerTypes, StashTypes, WifiTypes,
        NetTypes, EnrollTypes, None, Off, Requests, NoRequest, Tokens, Ids, SomeSecret,
        SomeToken, SomeRequest, MainSigns, Signed, Nothing, Asked, signerVars,
        stashVars, wifiVars, netVars, enrollVars
  <1> QED BY <1>1, <1>2, <1>3 DEF RelayedInv, Types

LEMMA MainStashesStep == ASSUME RelayedInv, MainStashes PROVE RelayedInv'
  <1>1. SignerTypes' /\ WifiTypes' /\ NetTypes' /\ EnrollTypes' /\ LifeTypes' /\ JobInv'
      /\ AckInv' /\ ProfileInv' /\ SecretInv'
    BY DEF RelayedInv, Types, SignerTypes, WifiTypes, NetTypes, EnrollTypes, LifeTypes,
        JobInv, AckInv, ProfileInv, SecretInv, BadProfileGone, WorkingSurvivesRestart,
        MainStashes, Stashed, Nothing, signerVars, wifiVars, netVars, enrollVars,
        lifeVars
  <1>2. StashTypes'
    BY RelayedAssumption DEF RelayedInv, Types, StashTypes, None, Off, Requests,
        NoRequest, Tokens, SomeToken, SomeRequest, MainStashes, Stashed, Nothing,
        stashVars
  <1> QED BY <1>1, <1>2 DEF RelayedInv, Types

----------------------------------------------------------------------------
(* The uploader thread: reports and Wi-Fi requests                        *)

LEMMA UploaderSignsStep == ASSUME RelayedInv, UploaderSigns PROVE RelayedInv'
  <1>1. WifiTypes' /\ NetTypes' /\ EnrollTypes' /\ LifeTypes'
    BY DEF RelayedInv, Types, WifiTypes, NetTypes, EnrollTypes, LifeTypes,
        UploaderSigns, Signed, Stashed, Asked, wifiVars, netVars, enrollVars, lifeVars
  <1>2. SignerTypes'
    BY RelayedAssumption DEF RelayedInv, Types, SignerTypes, StashTypes, WifiTypes,
        NetTypes, EnrollTypes, JobInv, None, Off, Requests, NoRequest, Tokens, NoJob,
        Switching, Ids, SomeSecret, SomeToken, SomeRequest, Resting, WifiSteps,
        EnrollSteps, WifiJobs, EnrollJobs, UploaderSigns, Signed, Stashed, Asked,
        signerVars, stashVars, wifiVars, netVars, enrollVars
  <1>3. StashTypes'
    BY RelayedAssumption DEF RelayedInv, Types, SignerTypes, StashTypes, WifiTypes,
        NetTypes, EnrollTypes, JobInv, None, Off, Requests, NoRequest, Tokens, NoJob,
        Switching, Ids, SomeSecret, SomeToken, SomeRequest, Resting, WifiSteps,
        EnrollSteps, WifiJobs, EnrollJobs, UploaderSigns, Signed, Stashed, Asked,
        signerVars, stashVars, wifiVars, netVars, enrollVars
  <1>4. JobInv'
    BY RelayedAssumption DEF RelayedInv, Types, JobInv, None, Off, NoRequest, Tokens,
        NoJob, Switching, SomeSecret, Resting, WifiSteps, EnrollSteps, WifiJobs,
        EnrollJobs, UploaderSigns, Signed, Stashed, Asked, enrollVars
  <1>5. AckInv'
    BY RelayedAssumption DEF RelayedInv, Types, AckInv, None, Off, NoRequest,
        UploaderSigns, Signed, Stashed, Asked, wifiVars
  <1>6. ProfileInv'
    BY RelayedAssumption DEF RelayedInv, Types, ProfileInv, None, Off, NoRequest,
        Switching, BadProfileGone, UploaderSigns, Signed, Stashed, Asked, netVars,
        lifeVars
  <1>7. SecretInv'
    BY RelayedAssumption DEF RelayedInv, Types, SecretInv, None, Off, NoRequest, Tokens,
        WorkingSurvivesRestart, UploaderSigns, Signed, Stashed, Asked, signerVars,
        enrollVars
  <1> QED BY <1>1, <1>2, <1>3, <1>4, <1>5, <1>6, <1>7 DEF RelayedInv, Types

LEMMA ReportFailsStep == ASSUME RelayedInv, ReportFails PROVE RelayedInv'
  <1>1. SignerTypes' /\ StashTypes' /\ WifiTypes' /\ NetTypes' /\ EnrollTypes' /\
      LifeTypes'
    BY DEF RelayedInv, Types, SignerTypes, StashTypes, WifiTypes, NetTypes, EnrollTypes,
        LifeTypes, ReportFails, signerVars, stashVars, wifiVars, netVars, enrollVars,
        lifeVars
  <1>2. JobInv'
    BY RelayedAssumption DEF RelayedInv, Types, JobInv, None, Off, Tokens, NoJob,
        Switching, SomeSecret, Resting, WifiSteps, EnrollSteps, WifiJobs, EnrollJobs,
        ReportFails, enrollVars
  <1>3. AckInv'
    BY RelayedAssumption DEF RelayedInv, Types, AckInv, ReportFails, wifiVars
  <1>4. ProfileInv'
    BY RelayedAssumption DEF RelayedInv, Types, ProfileInv, Off, Switching,
        BadProfileGone, ReportFails, netVars, lifeVars
  <1>5. SecretInv'
    BY RelayedAssumption DEF RelayedInv, Types, SecretInv, None, Tokens,
        WorkingSurvivesRestart, ReportFails, signerVars, enrollVars
  <1> QED BY <1>1, <1>2, <1>3, <1>4, <1>5 DEF RelayedInv, Types

LEMMA TakeFrameStep == ASSUME RelayedInv, TakeFrame PROVE RelayedInv'
  <1>1. SignerTypes' /\ StashTypes' /\ WifiTypes' /\ NetTypes' /\ EnrollTypes' /\
      LifeTypes'
    BY DEF RelayedInv, Types, SignerTypes, StashTypes, WifiTypes, NetTypes, EnrollTypes,
        LifeTypes, TakeFrame, signerVars, stashVars, wifiVars, netVars, enrollVars,
        lifeVars
  <1>2. JobInv'
    BY RelayedAssumption DEF RelayedInv, Types, JobInv, None, Off, Tokens, NoJob,
        Switching, SomeSecret, Resting, WifiSteps, EnrollSteps, WifiJobs, EnrollJobs,
        TakeFrame, enrollVars
  <1>3. AckInv'
    BY RelayedAssumption DEF RelayedInv, Types, AckInv, TakeFrame, wifiVars
  <1>4. ProfileInv'
    BY RelayedAssumption DEF RelayedInv, Types, ProfileInv, Off, Switching,
        BadProfileGone, TakeFrame, netVars, lifeVars
  <1>5. SecretInv'
    BY RelayedAssumption DEF RelayedInv, Types, SecretInv, None, Tokens,
        WorkingSurvivesRestart, TakeFrame, signerVars, enrollVars
  <1> QED BY <1>1, <1>2, <1>3, <1>4, <1>5 DEF RelayedInv, Types

LEMMA FrameDoneStep == ASSUME RelayedInv, FrameDone PROVE RelayedInv'
  <1>1. SignerTypes' /\ StashTypes' /\ WifiTypes' /\ NetTypes' /\ EnrollTypes' /\
      LifeTypes'
    BY DEF RelayedInv, Types, SignerTypes, StashTypes, WifiTypes, NetTypes, EnrollTypes,
        LifeTypes, FrameDone, signerVars, stashVars, wifiVars, netVars, enrollVars,
        lifeVars
  <1>2. JobInv'
    BY RelayedAssumption DEF RelayedInv, Types, JobInv, None, Off, Tokens, NoJob,
        Switching, SomeSecret, Resting, WifiSteps, EnrollSteps, WifiJobs, EnrollJobs,
        FrameDone, enrollVars
  <1>3. AckInv'
    BY RelayedAssumption DEF RelayedInv, Types, AckInv, FrameDone, wifiVars
  <1>4. ProfileInv'
    BY RelayedAssumption DEF RelayedInv, Types, ProfileInv, Off, Switching,
        BadProfileGone, FrameDone, netVars, lifeVars
  <1>5. SecretInv'
    BY RelayedAssumption DEF RelayedInv, Types, SecretInv, None, Tokens,
        WorkingSurvivesRestart, FrameDone, signerVars, enrollVars
  <1> QED BY <1>1, <1>2, <1>3, <1>4, <1>5 DEF RelayedInv, Types

LEMMA TakeWifiStep == ASSUME RelayedInv, TakeWifi PROVE RelayedInv'
  <1>1. SignerTypes' /\ StashTypes' /\ WifiTypes' /\ NetTypes' /\ EnrollTypes' /\
      LifeTypes'
    BY DEF RelayedInv, Types, SignerTypes, StashTypes, WifiTypes, NetTypes, EnrollTypes,
        LifeTypes, TakeWifi, Switch, Kind, signerVars, stashVars, wifiVars, netVars,
        enrollVars, lifeVars
  <1>2. JobInv'
    BY RelayedAssumption DEF RelayedInv, Types, StashTypes, EnrollTypes, JobInv, None,
        Off, Requests, NoRequest, Tokens, NoJob, Switching, SomeSecret, SomeToken,
        SomeRequest, Resting, WifiSteps, EnrollSteps, WifiJobs, EnrollJobs, TakeWifi,
        Switch, Kind, stashVars, enrollVars
  <1>3. AckInv'
    BY RelayedAssumption DEF RelayedInv, Types, AckInv, None, Off, NoRequest, TakeWifi,
        Switch, Kind, wifiVars
  <1>4. ProfileInv'
    BY RelayedAssumption DEF RelayedInv, Types, ProfileInv, None, Off, NoRequest,
        Switching, BadProfileGone, TakeWifi, Switch, Kind, netVars, lifeVars
  <1>5. SecretInv'
    BY RelayedAssumption DEF RelayedInv, Types, SecretInv, None, Off, NoRequest, Tokens,
        WorkingSurvivesRestart, TakeWifi, Switch, Kind, signerVars, enrollVars
  <1> QED BY <1>1, <1>2, <1>3, <1>4, <1>5 DEF RelayedInv, Types

LEMMA ClearWifiStep == ASSUME RelayedInv, ClearWifi PROVE RelayedInv'
  <1>1. SignerTypes' /\ WifiTypes' /\ NetTypes' /\ EnrollTypes' /\ LifeTypes'
    BY DEF RelayedInv, Types, SignerTypes, WifiTypes, NetTypes, EnrollTypes, LifeTypes,
        ClearWifi, NoJob, signerVars, wifiVars, netVars, enrollVars, lifeVars
  <1>2. StashTypes'
    BY RelayedAssumption DEF RelayedInv, Types, StashTypes, None, Off, Requests,
        NoRequest, Tokens, SomeToken, SomeRequest, ClearWifi, NoJob, stashVars
  <1>3. JobInv'
    BY RelayedAssumption DEF RelayedInv, Types, JobInv, None, Off, NoRequest, Tokens,
        Switching, SomeSecret, Resting, WifiSteps, EnrollSteps, WifiJobs, EnrollJobs,
        ClearWifi, NoJob, enrollVars
  <1>4. AckInv'
    BY RelayedAssumption DEF RelayedInv, Types, AckInv, None, Off, NoRequest, ClearWifi,
        NoJob, wifiVars
  <1>5. ProfileInv'
    BY RelayedAssumption DEF RelayedInv, Types, StashTypes, WifiTypes, NetTypes,
        LifeTypes, JobInv, ProfileInv, None, Off, Requests, NoRequest, Tokens,
        Switching, Ids, BadProfileGone, SomeSecret, SomeToken, SomeRequest, Resting,
        WifiSteps, EnrollSteps, WifiJobs, EnrollJobs, ClearWifi, NoJob, stashVars,
        wifiVars, netVars, enrollVars, lifeVars
  <1>6. SecretInv'
    BY RelayedAssumption DEF RelayedInv, Types, SignerTypes, StashTypes, WifiTypes,
        EnrollTypes, JobInv, SecretInv, None, Off, Requests, NoRequest, Tokens,
        Switching, Ids, WorkingSurvivesRestart, SomeSecret, SomeToken, SomeRequest,
        Resting, WifiSteps, EnrollSteps, WifiJobs, EnrollJobs, ClearWifi, NoJob,
        signerVars, stashVars, wifiVars, enrollVars
  <1> QED BY <1>1, <1>2, <1>3, <1>4, <1>5, <1>6 DEF RelayedInv, Types

LEMMA ScanStep == ASSUME RelayedInv, Scan PROVE RelayedInv'
  <1>1. SignerTypes' /\ StashTypes' /\ NetTypes' /\ EnrollTypes' /\ LifeTypes'
    BY DEF RelayedInv, Types, SignerTypes, StashTypes, NetTypes, EnrollTypes, LifeTypes,
        Scan, NoJob, Acknowledge, signerVars, stashVars, netVars, enrollVars, lifeVars
  <1>2. WifiTypes'
    BY RelayedAssumption DEF RelayedInv, Types, WifiTypes, JobInv, None, Off, Tokens,
        Switching, Ids, SomeSecret, Resting, WifiSteps, EnrollSteps, WifiJobs,
        EnrollJobs, Scan, NoJob, Acknowledge, wifiVars, enrollVars
  <1>3. JobInv'
    BY RelayedAssumption DEF RelayedInv, Types, JobInv, None, Off, Tokens, Switching,
        SomeSecret, Resting, WifiSteps, EnrollSteps, WifiJobs, EnrollJobs, Scan, NoJob,
        Acknowledge, enrollVars
  <1>4. AckInv'
    BY RelayedAssumption DEF RelayedInv, Types, WifiTypes, JobInv, AckInv, None, Off,
        Tokens, Switching, Ids, SomeSecret, Resting, WifiSteps, EnrollSteps, WifiJobs,
        EnrollJobs, Scan, NoJob, Acknowledge, wifiVars, enrollVars
  <1>5. ProfileInv'
    BY RelayedAssumption DEF RelayedInv, Types, ProfileInv, Off, Switching,
        BadProfileGone, Scan, NoJob, Acknowledge, netVars, lifeVars
  <1>6. SecretInv'
    BY RelayedAssumption DEF RelayedInv, Types, SecretInv, None, Tokens,
        WorkingSurvivesRestart, Scan, NoJob, Acknowledge, signerVars, enrollVars
  <1> QED BY <1>1, <1>2, <1>3, <1>4, <1>5, <1>6 DEF RelayedInv, Types

LEMMA BeginApplyStep == ASSUME RelayedInv, BeginApply PROVE RelayedInv'
  <1>1. SignerTypes' /\ StashTypes' /\ NetTypes' /\ EnrollTypes' /\ LifeTypes'
    BY DEF RelayedInv, Types, SignerTypes, StashTypes, NetTypes, EnrollTypes, LifeTypes,
        BeginApply, AckIfDue, AckedAt, Acknowledge, signerVars, stashVars, netVars,
        enrollVars, lifeVars
  <1>2. WifiTypes'
    BY RelayedAssumption DEF RelayedInv, Types, WifiTypes, JobInv, None, Off, Tokens,
        NoJob, Switching, Ids, SomeSecret, Resting, WifiSteps, EnrollSteps, WifiJobs,
        EnrollJobs, BeginApply, AckIfDue, AckedAt, Acknowledge, wifiVars, enrollVars
  <1>3. JobInv'
    BY RelayedAssumption DEF RelayedInv, Types, JobInv, None, Off, Tokens, NoJob,
        Switching, SomeSecret, Resting, WifiSteps, EnrollSteps, WifiJobs, EnrollJobs,
        BeginApply, AckIfDue, AckedAt, Acknowledge, enrollVars
  <1>4. AckInv'
    BY RelayedAssumption DEF RelayedInv, Types, WifiTypes, JobInv, AckInv, None, Off,
        Tokens, NoJob, Switching, Ids, SomeSecret, Resting, WifiSteps, EnrollSteps,
        WifiJobs, EnrollJobs, BeginApply, AckIfDue, AckedAt, Acknowledge, wifiVars,
        enrollVars
  <1>5. ProfileInv'
    BY RelayedAssumption DEF RelayedInv, Types, ProfileInv, Off, Switching,
        BadProfileGone, BeginApply, AckIfDue, AckedAt, Acknowledge, netVars, lifeVars
  <1>6. SecretInv'
    BY RelayedAssumption DEF RelayedInv, Types, SecretInv, None, Tokens,
        WorkingSurvivesRestart, BeginApply, AckIfDue, AckedAt, Acknowledge, signerVars,
        enrollVars
  <1> QED BY <1>1, <1>2, <1>3, <1>4, <1>5, <1>6 DEF RelayedInv, Types

LEMMA DeleteStep == ASSUME RelayedInv, Delete PROVE RelayedInv'
  <1>1. SignerTypes' /\ StashTypes' /\ WifiTypes' /\ EnrollTypes'
    BY DEF RelayedInv, Types, SignerTypes, StashTypes, WifiTypes, EnrollTypes,
        Delete, Drop, signerVars, stashVars, wifiVars, enrollVars
  <1>0. job \in WifiJobs /\ job.net \in Nets
    BY DEF RelayedInv, Types, JobInv, Delete, WifiSteps, Switching
  <1>9. PICK rest \in SUBSET profile[job.net] :
          /\ profile' = [profile EXCEPT ![job.net] = rest]
          /\ \/ active' = active /\ (active = job.net => "good" \in rest)
             \/ active' = Off /\ active = job.net
          /\ lost' = [lost EXCEPT !.nets = IF "bad" \in rest THEN @ \cup {job.net}
                                                            ELSE @ \ {job.net}]
    BY DEF Delete, Drop
  <1>2. NetTypes'
    BY <1>0, <1>9 DEF RelayedInv, Types, NetTypes
  <1>3. JobInv'
    BY RelayedAssumption DEF RelayedInv, Types, NetTypes, EnrollTypes, JobInv, None,
        Off, Tokens, NoJob, Switching, SomeSecret, SomeToken, Resting, WifiSteps,
        EnrollSteps, WifiJobs, EnrollJobs, Delete, Drop, netVars, enrollVars
  <1>4. AckInv'
    BY RelayedAssumption DEF RelayedInv, Types, AckInv, Off, Delete, Drop, wifiVars
  <1>5. ProfileInv'
    <2>1. up' = "add" /\ job'.net = job.net
      BY <1>0 DEF Delete, WifiJobs
    <2>2. active' # Off => "good" \in profile'[active']
      BY <1>0, <1>9 DEF RelayedInv, Types, NetTypes, ProfileInv
    <2>3. "bad" \in profile'[job.net] => job.net \in lost'.nets
      BY <1>0, <1>9 DEF RelayedInv, Types, NetTypes, LifeTypes
    <2>4. ASSUME NEW n \in Nets, n # job.net, "bad" \in profile'[n]
          PROVE  n \in lost'.nets
      BY <1>9, <2>4 DEF RelayedInv, Types, NetTypes, LifeTypes, ProfileInv, BadProfileGone
    <2> QED BY <2>1, <2>2, <2>3, <2>4 DEF ProfileInv, BadProfileGone
  <1>6. SecretInv'
    BY RelayedAssumption DEF RelayedInv, Types, SecretInv, None, Off, Tokens,
        WorkingSurvivesRestart, Delete, Drop, signerVars, enrollVars
  <1>7. LifeTypes'
    BY DEF RelayedInv, Types, LifeTypes, JobInv, WifiSteps, Switching, Delete, Drop
  <1> QED BY <1>1, <1>2, <1>3, <1>4, <1>5, <1>6, <1>7 DEF RelayedInv, Types

LEMMA AddStep == ASSUME RelayedInv, Add PROVE RelayedInv'
  <1>1. SignerTypes' /\ StashTypes' /\ WifiTypes' /\ EnrollTypes'
    BY DEF RelayedInv, Types, SignerTypes, StashTypes, WifiTypes, EnrollTypes,
        Add, Added, Blame, signerVars, stashVars, wifiVars, enrollVars
  <1>0. job \in WifiJobs /\ job.net \in Nets /\ up = "add"
    BY DEF RelayedInv, Types, JobInv, Add, WifiSteps, Switching
  <1>2. NetTypes'
    BY RelayedAssumption DEF RelayedInv, Types, NetTypes, Off, Add, Added, Blame, netVars
  <1>3. JobInv'
    BY RelayedAssumption DEF RelayedInv, Types, JobInv, None, Off, Tokens, NoJob,
        Switching, SomeSecret, Resting, WifiSteps, EnrollSteps, WifiJobs, EnrollJobs,
        Add, Added, Blame, enrollVars
  <1>4. AckInv'
    BY RelayedAssumption DEF RelayedInv, Types, AckInv, Add, Added, Blame, wifiVars
  <1>5. ProfileInv'
    <2>1. active' = active /\ job' = job /\ profile' \in {profile, Added} /\ up' # "add"
      BY DEF Add
    <2>2. active' # Off => "good" \in profile'[active']
      BY <1>0, <2>1 DEF RelayedInv, Types, NetTypes, ProfileInv, Added
    <2>3. "bad" \in profile'[job.net] =>
            job.net \in lost'.nets \/ (up' = "connect" /\ ~job.right)
      BY <1>0 DEF RelayedInv, Types, NetTypes, LifeTypes, ProfileInv, Add, Added, Blame
    <2>4. ASSUME NEW n \in Nets, n # job.net, "bad" \in profile'[n]
          PROVE  n \in lost'.nets
      <3>1. n \in lost.nets
        BY <2>1, <2>4 DEF RelayedInv, Types, NetTypes, ProfileInv, BadProfileGone, Added
      <3> QED BY <3>1 DEF RelayedInv, Types, LifeTypes, Add, Blame
    <2> QED BY <2>1, <2>2, <2>3, <2>4 DEF ProfileInv, BadProfileGone, Switching, Add
  <1>6. SecretInv'
    BY RelayedAssumption DEF RelayedInv, Types, SecretInv, None, Tokens,
        WorkingSurvivesRestart, Add, Added, Blame, signerVars, enrollVars
  <1>7. LifeTypes'
    BY DEF RelayedInv, Types, LifeTypes, JobInv, WifiSteps, Switching, Add, Added, Blame, Blame
  <1> QED BY <1>1, <1>2, <1>3, <1>4, <1>5, <1>6, <1>7 DEF RelayedInv, Types

LEMMA ConnectStep == ASSUME RelayedInv, Connect PROVE RelayedInv'
  <1>1. SignerTypes' /\ StashTypes' /\ WifiTypes' /\ EnrollTypes'
    BY DEF RelayedInv, Types, SignerTypes, StashTypes, WifiTypes, EnrollTypes,
        Connect, Switched, Blame, signerVars, stashVars, wifiVars, enrollVars
  <1>2. NetTypes'
    BY RelayedAssumption DEF RelayedInv, Types, NetTypes, JobInv, None, Off, Tokens,
        NoJob, Switching, SomeSecret, Resting, WifiSteps, EnrollSteps, WifiJobs,
        EnrollJobs, Connect, Switched, Blame, netVars, enrollVars
  <1>3. JobInv'
    BY RelayedAssumption DEF RelayedInv, Types, JobInv, None, Off, Tokens, NoJob,
        Switching, SomeSecret, Resting, WifiSteps, EnrollSteps, WifiJobs, EnrollJobs,
        Connect, Switched, Blame, enrollVars
  <1>4. AckInv'
    BY RelayedAssumption DEF RelayedInv, Types, AckInv, Off, Connect, Switched, Blame, wifiVars
  <1>5. ProfileInv'
    <2>1. up = "connect" /\ job \in WifiJobs /\ job.net \in Nets /\ profile' = profile
      BY DEF RelayedInv, Types, JobInv, Connect, WifiSteps, Switching
    <2>2. CASE up' = "record"
      <3>1. active' = job.net /\ "good" \in profile[job.net]
        BY <2>2 DEF Connect
      <3>2. "bad" \in profile[job.net] => job.net \in lost'.nets
        BY <2>1, <2>2 DEF Connect, Blame, RelayedInv, Types, LifeTypes, ProfileInv
      <3>3. ASSUME NEW n \in Nets, n # job.net, "bad" \in profile[n]
            PROVE  n \in lost'.nets
        <4>1. n \in lost.nets
          BY <3>3 DEF RelayedInv, ProfileInv, BadProfileGone
        <4> QED BY <4>1 DEF RelayedInv, Types, LifeTypes, Connect, Blame
      <3> QED BY <2>1, <2>2, <3>1, <3>2, <3>3 DEF ProfileInv, BadProfileGone
    <2>3. CASE up' = "fallback"
      <3>1. job' = job /\ lost' = lost /\ active' \in {active, Off}
        BY <2>3 DEF Connect
      <3> QED BY <2>1, <2>3, <3>1 DEF RelayedInv, ProfileInv, BadProfileGone, Switching
    <2> QED BY <2>2, <2>3 DEF Connect
  <1>6. SecretInv'
    BY RelayedAssumption DEF RelayedInv, Types, SecretInv, None, Off, Tokens,
        WorkingSurvivesRestart, Connect, Switched, Blame, signerVars, enrollVars
  <1>7. LifeTypes'
    BY DEF RelayedInv, Types, LifeTypes, JobInv, WifiSteps, Switching, Connect, Switched, Blame, Blame
  <1> QED BY <1>1, <1>2, <1>3, <1>4, <1>5, <1>6, <1>7 DEF RelayedInv, Types

LEMMA RetreatStep == ASSUME RelayedInv, Retreat PROVE RelayedInv'
  <1>1. SignerTypes' /\ StashTypes' /\ WifiTypes' /\ EnrollTypes' /\ LifeTypes'
    BY DEF RelayedInv, Types, SignerTypes, StashTypes, WifiTypes, EnrollTypes,
        LifeTypes, Retreat, signerVars, stashVars, wifiVars, enrollVars, lifeVars
  <1>2. NetTypes'
    BY RelayedAssumption DEF RelayedInv, Types, NetTypes, JobInv, None, Off, Tokens,
        NoJob, Switching, SomeSecret, Resting, WifiSteps, EnrollSteps, WifiJobs,
        EnrollJobs, Retreat, netVars, enrollVars
  <1>3. JobInv'
    BY RelayedAssumption DEF RelayedInv, Types, JobInv, None, Off, Tokens, NoJob,
        Switching, SomeSecret, Resting, WifiSteps, EnrollSteps, WifiJobs, EnrollJobs,
        Retreat, enrollVars
  <1>4. AckInv'
    BY RelayedAssumption DEF RelayedInv, Types, AckInv, Off, Retreat, wifiVars
  <1>5. ProfileInv'
    BY RelayedAssumption DEF RelayedInv, Types, ProfileInv, Off, Switching,
        BadProfileGone, Retreat, netVars, lifeVars
  <1>6. SecretInv'
    BY RelayedAssumption DEF RelayedInv, Types, SecretInv, None, Off, Tokens,
        WorkingSurvivesRestart, Retreat, signerVars, enrollVars
  <1> QED BY <1>1, <1>2, <1>3, <1>4, <1>5, <1>6 DEF RelayedInv, Types

LEMMA CleanUpStep == ASSUME RelayedInv, CleanUp PROVE RelayedInv'
  <1>1. SignerTypes' /\ StashTypes' /\ WifiTypes' /\ EnrollTypes'
    BY DEF RelayedInv, Types, SignerTypes, StashTypes, WifiTypes, EnrollTypes,
        CleanUp, Switched, Discarded, Drop, signerVars, stashVars, wifiVars,
        enrollVars
  <1>2. NetTypes'
    BY RelayedAssumption DEF RelayedInv, Types, NetTypes, Off, CleanUp, Switched, Discarded, Drop,
        netVars
  <1>3. JobInv'
    BY RelayedAssumption DEF RelayedInv, Types, JobInv, None, Off, Tokens, NoJob,
        Switching, SomeSecret, Resting, WifiSteps, EnrollSteps, WifiJobs, EnrollJobs,
        CleanUp, Switched, Discarded, Drop, enrollVars
  <1>4. AckInv'
    BY RelayedAssumption DEF RelayedInv, Types, AckInv, Off, CleanUp, Switched, Discarded, Drop,
        wifiVars
  <1>5. ProfileInv'
    BY RelayedAssumption DEF RelayedInv, Types, NetTypes, LifeTypes, JobInv, ProfileInv,
        None, Off, Tokens, NoJob, Switching, Ids, BadProfileGone, SomeSecret, Resting,
        WifiSteps, EnrollSteps, WifiJobs, EnrollJobs, CleanUp, Switched, Discarded, Drop, netVars,
        enrollVars, lifeVars
  <1>6. SecretInv'
    BY RelayedAssumption DEF RelayedInv, Types, SecretInv, None, Off, Tokens,
        WorkingSurvivesRestart, CleanUp, Switched, Discarded, Drop, signerVars, enrollVars
  <1>7. LifeTypes'
    BY DEF RelayedInv, Types, LifeTypes, JobInv, WifiSteps, Switching, CleanUp, Switched, Discarded, Drop
  <1> QED BY <1>1, <1>2, <1>3, <1>4, <1>5, <1>6, <1>7 DEF RelayedInv, Types

LEMMA RecordStep == ASSUME RelayedInv, Record PROVE RelayedInv'
  <1>1. SignerTypes' /\ StashTypes' /\ NetTypes' /\ EnrollTypes' /\ LifeTypes'
    BY DEF RelayedInv, Types, SignerTypes, StashTypes, NetTypes, EnrollTypes, LifeTypes,
        Record, NoJob, Outcome, AckIfDue, AckedAt, Acknowledge, signerVars, stashVars,
        netVars, enrollVars, lifeVars
  <1>2. WifiTypes'
    BY RelayedAssumption DEF RelayedInv, Types, WifiTypes, JobInv, None, Off, Tokens,
        Switching, Ids, SomeSecret, Resting, WifiSteps, EnrollSteps, WifiJobs,
        EnrollJobs, Record, NoJob, Outcome, AckIfDue, AckedAt, Acknowledge, wifiVars,
        enrollVars
  <1>3. JobInv'
    BY RelayedAssumption DEF RelayedInv, Types, JobInv, None, Off, Tokens, Switching,
        SomeSecret, Resting, WifiSteps, EnrollSteps, WifiJobs, EnrollJobs, Record,
        NoJob, Outcome, AckIfDue, AckedAt, Acknowledge, enrollVars
  <1>4. AckInv'
    BY RelayedAssumption DEF RelayedInv, Types, AckInv, Record, NoJob, Outcome,
        AckIfDue, AckedAt, Acknowledge, wifiVars
  <1>5. ProfileInv'
    BY RelayedAssumption DEF RelayedInv, Types, ProfileInv, Off, Switching,
        BadProfileGone, Record, NoJob, Outcome, AckIfDue, AckedAt, Acknowledge, netVars,
        lifeVars
  <1>6. SecretInv'
    BY RelayedAssumption DEF RelayedInv, Types, SecretInv, None, Tokens,
        WorkingSurvivesRestart, Record, NoJob, Outcome, AckIfDue, AckedAt, Acknowledge,
        signerVars, enrollVars
  <1> QED BY <1>1, <1>2, <1>3, <1>4, <1>5, <1>6 DEF RelayedInv, Types

----------------------------------------------------------------------------
(* The uploader thread: enrollment                                        *)

LEMMA BootStep == ASSUME RelayedInv, Boot PROVE RelayedInv'
  <1>1. SignerTypes' /\ StashTypes' /\ WifiTypes' /\ NetTypes' /\ LifeTypes'
    BY DEF RelayedInv, Types, SignerTypes, StashTypes, WifiTypes, NetTypes, LifeTypes,
        Boot, Trade, NoJob, EnvToken, signerVars, stashVars, wifiVars, netVars, lifeVars
  <1>2. EnrollTypes'
    BY RelayedAssumption DEF RelayedInv, Types, EnrollTypes, None, Tokens, SomeSecret,
        SomeToken, Boot, Trade, NoJob, EnvToken, enrollVars
  <1>3. JobInv'
    <2>1. CASE up' = "idle"
      BY <2>1 DEF Boot, JobInv, NoJob, Resting, WifiSteps, EnrollSteps, Switching
    <2>2. CASE up' = "pend"
      <3>1. job' = [kind |-> "enroll", token |-> 1, first |-> TRUE, secret |-> None, tries |-> 0]
        BY <2>2 DEF Boot, Trade, EnvToken
      <3>2. 1 \in Tokens /\ None \in SomeSecret /\ 0 \in 0 .. (ReenrollAttempts - 1)
        BY RelayedAssumption DEF Tokens, SomeSecret
      <3>3. job' \in EnrollJobs
        BY <3>1, <3>2 DEF EnrollJobs
      <3> QED BY <2>2, <3>3 DEF JobInv, Resting, WifiSteps, EnrollSteps, Switching
    <2> QED BY <2>1, <2>2 DEF Boot
  <1>4. AckInv'
    BY RelayedAssumption DEF RelayedInv, Types, AckInv, None, Boot, Trade, NoJob,
        EnvToken, wifiVars
  <1>5. ProfileInv'
    BY RelayedAssumption DEF RelayedInv, Types, ProfileInv, None, Off, Switching,
        BadProfileGone, Boot, Trade, NoJob, EnvToken, netVars, lifeVars
  <1>6. SecretInv'
    BY RelayedAssumption DEF RelayedInv, Types, SecretInv, None, Tokens,
        WorkingSurvivesRestart, Boot, Trade, NoJob, EnvToken, signerVars, enrollVars
  <1> QED BY <1>1, <1>2, <1>3, <1>4, <1>5, <1>6 DEF RelayedInv, Types

LEMMA TakeReenrollStep == ASSUME RelayedInv, TakeReenroll PROVE RelayedInv'
  <1>1. SignerTypes' /\ StashTypes' /\ WifiTypes' /\ NetTypes' /\ EnrollTypes' /\
      LifeTypes'
    BY DEF RelayedInv, Types, SignerTypes, StashTypes, WifiTypes, NetTypes, EnrollTypes,
        LifeTypes, TakeReenroll, Trade, signerVars, stashVars, wifiVars, netVars,
        enrollVars, lifeVars
  <1>2. JobInv'
    BY RelayedAssumption DEF RelayedInv, Types, StashTypes, EnrollTypes, JobInv, None,
        Off, Requests, NoRequest, Tokens, NoJob, Switching, SomeSecret, SomeToken,
        SomeRequest, Resting, WifiSteps, EnrollSteps, WifiJobs, EnrollJobs,
        TakeReenroll, Trade, stashVars, enrollVars
  <1>3. AckInv'
    BY RelayedAssumption DEF RelayedInv, Types, AckInv, None, TakeReenroll, Trade,
        wifiVars
  <1>4. ProfileInv'
    BY RelayedAssumption DEF RelayedInv, Types, ProfileInv, None, Off, Switching,
        BadProfileGone, TakeReenroll, Trade, netVars, lifeVars
  <1>5. SecretInv'
    BY RelayedAssumption DEF RelayedInv, Types, SecretInv, None, Tokens,
        WorkingSurvivesRestart, TakeReenroll, Trade, signerVars, enrollVars
  <1> QED BY <1>1, <1>2, <1>3, <1>4, <1>5 DEF RelayedInv, Types

LEMMA ClearReenrollStep == ASSUME RelayedInv, ClearReenroll PROVE RelayedInv'
  <1>1. SignerTypes' /\ WifiTypes' /\ NetTypes' /\ EnrollTypes' /\ LifeTypes'
    BY DEF RelayedInv, Types, SignerTypes, WifiTypes, NetTypes, EnrollTypes, LifeTypes,
        ClearReenroll, NoJob, signerVars, wifiVars, netVars, enrollVars, lifeVars
  <1>2. StashTypes'
    BY RelayedAssumption DEF RelayedInv, Types, StashTypes, None, Off, Requests,
        NoRequest, Tokens, SomeToken, SomeRequest, ClearReenroll, NoJob, stashVars
  <1>3. JobInv'
    BY RelayedAssumption DEF RelayedInv, Types, JobInv, None, Off, Tokens, Switching,
        SomeSecret, Resting, WifiSteps, EnrollSteps, WifiJobs, EnrollJobs,
        ClearReenroll, NoJob, enrollVars
  <1>4. AckInv'
    BY RelayedAssumption DEF RelayedInv, Types, AckInv, None, ClearReenroll, NoJob,
        wifiVars
  <1>5. ProfileInv'
    BY RelayedAssumption DEF RelayedInv, Types, ProfileInv, None, Off, Switching,
        BadProfileGone, ClearReenroll, NoJob, netVars, lifeVars
  <1>6. SecretInv'
    BY RelayedAssumption DEF RelayedInv, Types, SecretInv, None, Tokens,
        WorkingSurvivesRestart, ClearReenroll, NoJob, signerVars, enrollVars
  <1> QED BY <1>1, <1>2, <1>3, <1>4, <1>5, <1>6 DEF RelayedInv, Types

LEMMA PendStep == ASSUME RelayedInv, Pend PROVE RelayedInv'
  <1>1. SignerTypes' /\ StashTypes' /\ WifiTypes' /\ NetTypes' /\ LifeTypes'
    BY DEF RelayedInv, Types, SignerTypes, StashTypes, WifiTypes, NetTypes, LifeTypes,
        Pend, Stored, Raises, NoJob, signerVars, stashVars, wifiVars, netVars, lifeVars
  <1>2. EnrollTypes'
    BY FreshSecret DEF RelayedInv, Types, EnrollTypes, SomeSecret, Pend, Stored, enrollVars
  <1>3. JobInv'
    <2>1. job \in EnrollJobs
      BY DEF RelayedInv, Types, JobInv, Pend, EnrollSteps
    <2>2. CASE up' = "post"
      <3>1. job' = [job EXCEPT !.secret = file.pending] \/ job' = [job EXCEPT !.secret = Fresh]
        BY <2>2 DEF Pend, Raises
      <3>2. file.pending \in SomeSecret /\ Fresh \in SomeSecret
        BY FreshSecret DEF RelayedInv, Types, EnrollTypes, SomeSecret
      <3>3. job' \in EnrollJobs
        BY <2>1, <3>1, <3>2 DEF EnrollJobs
      <3> QED BY <2>2, <3>3 DEF JobInv, Resting, WifiSteps, EnrollSteps, Switching
    <2>3. CASE up' # "post"
      BY <2>3 DEF Pend, Raises, JobInv, NoJob, Resting, WifiSteps, EnrollSteps, Switching
    <2> QED BY <2>2, <2>3
  <1>4. AckInv'
    BY RelayedAssumption DEF RelayedInv, Types, AckInv, None, Tokens, Pend, Stored,
        Raises, NoJob, wifiVars
  <1>5. ProfileInv'
    BY RelayedAssumption DEF RelayedInv, Types, ProfileInv, None, Off, Tokens,
        Switching, BadProfileGone, Pend, Stored, Raises, NoJob, netVars, lifeVars
  <1>6. SecretInv'
    <2>1. /\ job \in EnrollJobs /\ up = "pend"
          /\ file \in [secret : SomeSecret, pending : SomeSecret]
      BY DEF RelayedInv, Types, EnrollTypes, JobInv, Pend, EnrollSteps
    <2>2. CASE file.pending # None /\ job' = [job EXCEPT !.secret = file.pending]
               /\ up' = "post" /\ file' = file
      BY <2>1, <2>2 DEF RelayedInv, SecretInv, WorkingSurvivesRestart, EnrollJobs, Pend,
          signerVars
    <2>3. CASE file.pending = None /\ job' = [job EXCEPT !.secret = Fresh]
               /\ up' = "post" /\ file' = Stored(Fresh)
      <3>1. /\ Fresh # None /\ Fresh # secret /\ Fresh # file.secret
            /\ \A t \in Tokens : usedBy[t] # Fresh
        BY FreshSecret, RelayedAssumption DEF RelayedInv, Types, Secrets, None
      <3>2. file'.pending = Fresh /\ file'.secret = file.secret /\ job'.secret = Fresh
        BY <2>1, <2>3 DEF Stored, EnrollJobs
      <3> QED BY <2>1, <2>3, <3>1, <3>2 DEF RelayedInv, SecretInv,
          WorkingSurvivesRestart, Pend, signerVars
    <2>4. CASE up' \in {"boot", "idle"} /\ file' = file
      BY <2>1, <2>4 DEF RelayedInv, SecretInv, WorkingSurvivesRestart, Pend, signerVars
    <2> QED BY <2>2, <2>3, <2>4 DEF Pend, Raises
  <1> QED BY <1>1, <1>2, <1>3, <1>4, <1>5, <1>6 DEF RelayedInv, Types

LEMMA PostAnsweredStep == ASSUME RelayedInv, PostAnswered PROVE RelayedInv'
  <1>1. StashTypes' /\ WifiTypes' /\ NetTypes' /\ EnrollTypes' /\ LifeTypes'
    BY DEF RelayedInv, Types, StashTypes, WifiTypes, NetTypes, EnrollTypes, LifeTypes,
        PostAnswered, Accepted, Accepts, stashVars, wifiVars, netVars, enrollVars,
        lifeVars
  <1>2. SignerTypes'
    BY RelayedAssumption DEF RelayedInv, Types, SignerTypes, NetTypes, EnrollTypes,
        JobInv, None, Off, Requests, NoRequest, Tokens, NoJob, Switching, Ids,
        SomeSecret, SomeToken, SomeRequest, Resting, WifiSteps, EnrollSteps, WifiJobs,
        EnrollJobs, PostAnswered, Accepted, Accepts, signerVars, netVars, enrollVars
  <1>3. JobInv'
    BY RelayedAssumption DEF RelayedInv, Types, JobInv, None, Off, Tokens, NoJob,
        Switching, SomeSecret, Resting, WifiSteps, EnrollSteps, WifiJobs, EnrollJobs,
        PostAnswered, Accepted, Accepts, enrollVars
  <1>4. AckInv'
    BY RelayedAssumption DEF RelayedInv, Types, AckInv, None, Off, PostAnswered,
        Accepted, Accepts, wifiVars
  <1>5. ProfileInv'
    BY RelayedAssumption DEF RelayedInv, Types, ProfileInv, None, Off, Switching,
        BadProfileGone, PostAnswered, Accepted, Accepts, netVars, lifeVars
  <1>6. SecretInv'
    BY RelayedAssumption DEF RelayedInv, Types, SignerTypes, NetTypes, EnrollTypes,
        JobInv, SecretInv, None, Off, Requests, NoRequest, Tokens, NoJob, Switching,
        Ids, WorkingSurvivesRestart, SomeSecret, SomeToken, SomeRequest, Resting,
        WifiSteps, EnrollSteps, WifiJobs, EnrollJobs, PostAnswered, Accepted, Accepts,
        signerVars, netVars, enrollVars
  <1> QED BY <1>1, <1>2, <1>3, <1>4, <1>5, <1>6 DEF RelayedInv, Types

LEMMA PostFailsStep == ASSUME RelayedInv, PostFails PROVE RelayedInv'
  <1>1. StashTypes' /\ WifiTypes' /\ NetTypes' /\ LifeTypes'
    BY DEF RelayedInv, Types, StashTypes, WifiTypes, NetTypes, LifeTypes, PostFails,
        Accepted, Accepts, OutOfAttempts, DoneAfterFailure, Raises, NoJob, stashVars,
        wifiVars, netVars, lifeVars
  <1>2. SignerTypes'
    BY RelayedAssumption, ZenonT(60) DEF RelayedInv, Types, SignerTypes, NetTypes, EnrollTypes,
        JobInv, None, Off, Requests, NoRequest, Tokens, Switching, Ids, SomeSecret,
        SomeToken, SomeRequest, Resting, WifiSteps, EnrollSteps, WifiJobs, EnrollJobs,
        PostFails, Accepted, Accepts, OutOfAttempts, DoneAfterFailure, Raises, NoJob,
        signerVars, netVars, enrollVars
  <1>3. EnrollTypes'
    BY RelayedAssumption DEF RelayedInv, Types, EnrollTypes, None, Off, Tokens,
        SomeSecret, SomeToken, PostFails, Accepted, Accepts, OutOfAttempts,
        DoneAfterFailure, Raises, NoJob, enrollVars
  <1>4. JobInv'
    BY RelayedAssumption DEF RelayedInv, Types, JobInv, None, Off, Tokens, Switching,
        SomeSecret, Resting, WifiSteps, EnrollSteps, WifiJobs, EnrollJobs, PostFails,
        Accepted, Accepts, OutOfAttempts, DoneAfterFailure, Raises, NoJob, enrollVars
  <1>5. AckInv'
    BY RelayedAssumption DEF RelayedInv, Types, AckInv, None, Off, PostFails, Accepted,
        Accepts, OutOfAttempts, DoneAfterFailure, Raises, NoJob, wifiVars
  <1>6. ProfileInv'
    BY RelayedAssumption DEF RelayedInv, Types, ProfileInv, None, Off, Switching,
        BadProfileGone, PostFails, Accepted, Accepts, OutOfAttempts, DoneAfterFailure,
        Raises, NoJob, netVars, lifeVars
  <1>7. SecretInv'
    BY RelayedAssumption DEF RelayedInv, Types, SignerTypes, NetTypes, EnrollTypes,
        JobInv, SecretInv, None, Off, Requests, NoRequest, Tokens, Switching, Ids,
        WorkingSurvivesRestart, SomeSecret, SomeToken, SomeRequest, Resting, WifiSteps,
        EnrollSteps, WifiJobs, EnrollJobs, PostFails, Accepted, Accepts, OutOfAttempts,
        DoneAfterFailure, Raises, NoJob, signerVars, netVars, enrollVars
  <1> QED BY <1>1, <1>2, <1>3, <1>4, <1>5, <1>6, <1>7 DEF RelayedInv, Types

LEMMA PostRefusedStep == ASSUME RelayedInv, PostRefused PROVE RelayedInv'
  <1>1. SignerTypes' /\ StashTypes' /\ WifiTypes' /\ NetTypes' /\ LifeTypes'
    BY DEF RelayedInv, Types, SignerTypes, StashTypes, WifiTypes, NetTypes, LifeTypes,
        PostRefused, Accepts, Raises, NoJob, signerVars, stashVars, wifiVars, netVars,
        lifeVars
  <1>2. EnrollTypes'
    BY RelayedAssumption DEF RelayedInv, Types, SignerTypes, NetTypes, EnrollTypes,
        JobInv, None, Off, Requests, NoRequest, Tokens, Switching, Ids, SomeSecret,
        SomeToken, SomeRequest, Resting, WifiSteps, EnrollSteps, WifiJobs, EnrollJobs,
        PostRefused, Accepts, Raises, NoJob, signerVars, netVars, enrollVars
  <1>3. JobInv'
    BY RelayedAssumption DEF RelayedInv, Types, JobInv, None, Off, Tokens, Switching,
        SomeSecret, Resting, WifiSteps, EnrollSteps, WifiJobs, EnrollJobs, PostRefused,
        Accepts, Raises, NoJob, enrollVars
  <1>4. AckInv'
    BY RelayedAssumption DEF RelayedInv, Types, AckInv, None, Off, PostRefused, Accepts,
        Raises, NoJob, wifiVars
  <1>5. ProfileInv'
    BY RelayedAssumption DEF RelayedInv, Types, ProfileInv, None, Off, Switching,
        BadProfileGone, PostRefused, Accepts, Raises, NoJob, netVars, lifeVars
  <1>6. SecretInv'
    BY RelayedAssumption DEF RelayedInv, Types, SignerTypes, NetTypes, EnrollTypes,
        JobInv, SecretInv, None, Off, Requests, NoRequest, Tokens, Switching, Ids,
        WorkingSurvivesRestart, SomeSecret, SomeToken, SomeRequest, Resting, WifiSteps,
        EnrollSteps, WifiJobs, EnrollJobs, PostRefused, Accepts, Raises, NoJob,
        signerVars, netVars, enrollVars
  <1> QED BY <1>1, <1>2, <1>3, <1>4, <1>5, <1>6 DEF RelayedInv, Types

LEMMA WriteCredentialStep == ASSUME RelayedInv, WriteCredential PROVE RelayedInv'
  <1>1. SignerTypes' /\ StashTypes' /\ WifiTypes' /\ NetTypes' /\ LifeTypes'
    BY DEF RelayedInv, Types, SignerTypes, StashTypes, WifiTypes, NetTypes, LifeTypes,
        WriteCredential, Unwritten, Raises, NoJob, signerVars, stashVars, wifiVars,
        netVars, lifeVars
  <1>2. EnrollTypes'
    BY RelayedAssumption DEF RelayedInv, Types, EnrollTypes, JobInv, None, Off, Tokens,
        Switching, SomeSecret, SomeToken, Resting, WifiSteps, EnrollSteps, WifiJobs,
        EnrollJobs, WriteCredential, Unwritten, Raises, NoJob, enrollVars
  <1>3. JobInv'
    BY RelayedAssumption DEF RelayedInv, Types, JobInv, None, Off, Tokens, Switching,
        SomeSecret, Resting, WifiSteps, EnrollSteps, WifiJobs, EnrollJobs,
        WriteCredential, Unwritten, Raises, NoJob, enrollVars
  <1>4. AckInv'
    BY RelayedAssumption DEF RelayedInv, Types, AckInv, None, WriteCredential,
        Unwritten, Raises, NoJob, wifiVars
  <1>5. ProfileInv'
    BY RelayedAssumption DEF RelayedInv, Types, ProfileInv, None, Off, Switching,
        BadProfileGone, WriteCredential, Unwritten, Raises, NoJob, netVars, lifeVars
  <1>6. SecretInv'
    BY RelayedAssumption DEF RelayedInv, Types, SecretInv, None, Tokens,
        WorkingSurvivesRestart, WriteCredential, Unwritten, Raises, NoJob, signerVars,
        enrollVars
  <1> QED BY <1>1, <1>2, <1>3, <1>4, <1>5, <1>6 DEF RelayedInv, Types

LEMMA AdoptStep == ASSUME RelayedInv, Adopt PROVE RelayedInv'
  <1>1. SignerTypes' /\ StashTypes' /\ WifiTypes' /\ NetTypes' /\ LifeTypes'
    BY DEF RelayedInv, Types, SignerTypes, StashTypes, WifiTypes, NetTypes, LifeTypes,
        Adopt, NoJob, signerVars, stashVars, wifiVars, netVars, lifeVars
  <1>2. EnrollTypes'
    BY RelayedAssumption DEF RelayedInv, Types, EnrollTypes, JobInv, None, Off, Tokens,
        Switching, SomeSecret, SomeToken, Resting, WifiSteps, EnrollSteps, WifiJobs,
        EnrollJobs, Adopt, NoJob, enrollVars
  <1>3. JobInv'
    BY RelayedAssumption DEF RelayedInv, Types, JobInv, None, Off, Tokens, Switching,
        SomeSecret, Resting, WifiSteps, EnrollSteps, WifiJobs, EnrollJobs, Adopt, NoJob,
        enrollVars
  <1>4. AckInv'
    BY RelayedAssumption DEF RelayedInv, Types, AckInv, Adopt, NoJob, wifiVars
  <1>5. ProfileInv'
    BY RelayedAssumption DEF RelayedInv, Types, ProfileInv, Off, Switching,
        BadProfileGone, Adopt, NoJob, netVars, lifeVars
  <1>6. SecretInv'
    BY RelayedAssumption DEF RelayedInv, Types, SecretInv, None, Tokens,
        WorkingSurvivesRestart, Adopt, NoJob, signerVars, enrollVars
  <1> QED BY <1>1, <1>2, <1>3, <1>4, <1>5, <1>6 DEF RelayedInv, Types

----------------------------------------------------------------------------
(* The process dies                                                       *)

LEMMA CrashStep == ASSUME RelayedInv, Crash PROVE RelayedInv'
  <1>1. SignerTypes' /\ NetTypes'
    BY DEF RelayedInv, Types, SignerTypes, NetTypes, Crash, MoreToCome, Nothing, NoJob,
        NoRequest, Switching, signerVars, netVars
  <1>2. StashTypes'
    BY RelayedAssumption DEF RelayedInv, Types, StashTypes, None, Off, Requests,
        NoRequest, Tokens, SomeToken, SomeRequest, Crash, MoreToCome, Nothing, NoJob,
        NoRequest, Switching, stashVars
  <1>3. WifiTypes'
    BY RelayedAssumption DEF RelayedInv, Types, WifiTypes, None, Off, NoRequest, Ids,
        Crash, MoreToCome, Nothing, NoJob, NoRequest, Switching, wifiVars
  <1>4. EnrollTypes'
    BY RelayedAssumption DEF RelayedInv, Types, EnrollTypes, None, Off, NoRequest,
        Tokens, SomeSecret, SomeToken, Crash, MoreToCome, Nothing, NoJob, NoRequest,
        Switching, enrollVars
  <1>5. LifeTypes'
    BY RelayedAssumption DEF RelayedInv, Types, SignerTypes, StashTypes, WifiTypes,
        EnrollTypes, LifeTypes, JobInv, None, Off, Requests, NoRequest, Tokens, Ids,
        SomeSecret, SomeToken, SomeRequest, Resting, WifiSteps, EnrollSteps, WifiJobs,
        EnrollJobs, Crash, MoreToCome, Nothing, NoJob, NoRequest, Switching, signerVars,
        stashVars, wifiVars, enrollVars, lifeVars
  <1>6. JobInv'
    BY RelayedAssumption DEF RelayedInv, Types, JobInv, None, Off, NoRequest, Tokens,
        SomeSecret, Resting, WifiSteps, EnrollSteps, WifiJobs, EnrollJobs, Crash,
        MoreToCome, Nothing, NoJob, NoRequest, Switching, enrollVars
  <1>7. AckInv'
    BY RelayedAssumption DEF RelayedInv, Types, AckInv, None, Off, NoRequest, Crash,
        MoreToCome, Nothing, NoJob, NoRequest, Switching, wifiVars
  <1>8. ProfileInv'
    BY RelayedAssumption DEF RelayedInv, Types, ProfileInv, None, Off, NoRequest,
        BadProfileGone, Crash, MoreToCome, Nothing, NoJob, NoRequest, Switching,
        netVars, lifeVars
  <1>9. SecretInv'
    BY RelayedAssumption DEF RelayedInv, Types, SecretInv, None, Off, NoRequest, Tokens,
        WorkingSurvivesRestart, Crash, MoreToCome, Nothing, NoJob, NoRequest, Switching,
        signerVars, enrollVars
  <1> QED BY <1>1, <1>2, <1>3, <1>4, <1>5, <1>6, <1>7, <1>8, <1>9 DEF RelayedInv, Types

----------------------------------------------------------------------------
(* The invariant                                                           *)

LEMMA InitInv == Init => RelayedInv
  <1> SUFFICES ASSUME Init PROVE RelayedInv
    OBVIOUS
  <1>1. 0 \in Ids /\ 1 \in Tokens /\ 1 \in Secrets
    BY RelayedAssumption DEF Ids, Tokens, Secrets
  <1>2. SignerTypes
    BY <1>1 DEF Init, SignerTypes, SomeRequest, SomeToken, SomeSecret, None
  <1>3. StashTypes /\ WifiTypes /\ LifeTypes
    BY <1>1 DEF Init, StashTypes, WifiTypes, LifeTypes, Nothing, SomeRequest, SomeToken,
        None
  <1>4. NetTypes /\ EnrollTypes
    BY <1>1 DEF Init, NetTypes, EnrollTypes, SomeSecret, SomeToken, None, Off
  <1>5. JobInv
    BY DEF Init, JobInv, Resting, WifiSteps, EnrollSteps, Switching
  <1>6. AckInv /\ SecretInv
    BY DEF Init, AckInv, SecretInv, WorkingSurvivesRestart, None
  <1>7. ProfileInv
    BY DEF Init, ProfileInv, BadProfileGone
  <1> QED BY <1>2, <1>3, <1>4, <1>5, <1>6, <1>7 DEF RelayedInv, Types

LEMMA NextInv == ASSUME RelayedInv, Next PROVE RelayedInv'
  <1>1. CASE Work
    BY <1>1, ClearWifiStep, ScanStep, BeginApplyStep, DeleteStep, AddStep, ConnectStep,
       RetreatStep, CleanUpStep, RecordStep, ReportFailsStep, BootStep,
       ClearReenrollStep, PendStep, PostAnsweredStep, PostFailsStep, PostRefusedStep,
       WriteCredentialStep, AdoptStep DEF Work
  <1>2. CASE ~Work
    BY <1>2, PostRequestStep, IssueTokenStep, ExpireStep, AutoconnectStep,
       MainSignsStep, MainStashesStep, UploaderSignsStep, TakeFrameStep, FrameDoneStep, TakeWifiStep,
       TakeReenrollStep, CrashStep DEF Next
  <1> QED BY <1>1, <1>2

LEMMA StutterInv == ASSUME RelayedInv, UNCHANGED vars PROVE RelayedInv'
  <1>1. Types'
    BY DEF RelayedInv, Types, SignerTypes, StashTypes, WifiTypes, NetTypes, EnrollTypes,
        LifeTypes, JobInv, vars, signerVars, stashVars, wifiVars, netVars, enrollVars,
        lifeVars
  <1>2. AckInv' /\ ProfileInv' /\ SecretInv'
    BY DEF RelayedInv, AckInv, ProfileInv, SecretInv, BadProfileGone,
        WorkingSurvivesRestart, vars, signerVars, wifiVars, netVars, enrollVars,
        lifeVars
  <1> QED BY <1>1, <1>2 DEF RelayedInv

\* Every state the device and the signer can reach together, whatever answers
\* are lost, writes fail and restarts come between.
THEOREM RelayedInvariant == Spec => []RelayedInv
  <1>1. RelayedInv /\ [Next]_vars => RelayedInv'
    BY NextInv, StutterInv
  <1> QED BY InitInv, <1>1, PTL DEF Spec

----------------------------------------------------------------------------
(* What follows from it                                                    *)

\* Type correctness, and that a connection is always by a good profile.
THEOREM RelayedTypeCorrect == Spec => []TypeOK
  <1>1. RelayedInv => TypeOK
    <2> SUFFICES ASSUME RelayedInv PROVE TypeOK
      OBVIOUS
    <2>1. job.kind = "enroll" => job.tries < ReenrollAttempts
      BY RelayedAssumption DEF RelayedInv, Types, JobInv, NoJob, Resting, WifiSteps,
          EnrollSteps, WifiJobs, EnrollJobs
    <2> QED BY <2>1 DEF RelayedInv, Types, SignerTypes, StashTypes, WifiTypes, NetTypes,
          EnrollTypes, ProfileInv, TypeOK, SomeRequest, SomeToken, SomeSecret
  <1> QED BY RelayedInvariant, <1>1, PTL

\* The clean-up of WifiManager.apply (wifi.py:275): after every switch the profile
\* with a wrong password is gone, unless the process died in it or a command failed
\* whose result apply() does not look at: a deletion (wifi.py:234, 275), or an
\* addition that did its work before it timed out (wifi.py:251-256).
THEOREM FailedSwitchLeavesNothing == Spec => []BadProfileGone
  <1>1. RelayedInv => BadProfileGone
    BY DEF RelayedInv, ProfileInv
  <1> QED BY RelayedInvariant, <1>1, PTL

\* WifiManager acknowledges before it acts: no answer, repeated before or after
\* a restart, begins the same switch again once its id could be saved.
THEOREM SwitchOnce == Spec => AppliedOnce
  <1>1. ASSUME RelayedInv, up = "apply", up' = "delete"
        PROVE  begun.id # job.id \/ ~begun.saved
    BY <1>1 DEF RelayedInv, AckInv
  <1>2. RelayedInv => [up = "apply" /\ up' = "delete" => begun.id # job.id \/ ~begun.saved]_vars
    BY <1>1
  <1> QED BY RelayedInvariant, <1>2, PTL DEF AppliedOnce

\* The credential a running device works with is what a restart would load.
THEOREM RestartKeepsWorking == Spec => []WorkingSurvivesRestart
  <1>1. RelayedInv => WorkingSurvivesRestart
    BY DEF RelayedInv, SecretInv
  <1> QED BY RelayedInvariant, <1>1, PTL

\* enroll.py's order of writes: the pending secret is on disk before the signer
\* can accept it, and stays there until the credential is.
THEOREM SecretStaysOnDisk == Spec => SecretOnDisk
  <1> DEFINE Dropped == up = "post" /\ up' # "post" /\ usedBy[job.token] # live
  <1>1. ASSUME RelayedInv, Next, OnDisk PROVE OnDisk' \/ Dropped
    <2>1. CASE PostAnswered \/ PostFails
      <3>1. live' \in {live, job.secret} /\ file' = file
        BY <2>1 DEF PostAnswered, PostFails, Accepted, enrollVars, signerVars
      <3>2. job.secret = file.pending
        BY <1>1, <2>1 DEF RelayedInv, SecretInv, PostAnswered, PostFails
      <3> QED BY <1>1, <3>1, <3>2 DEF OnDisk
    <2>2. CASE PostRefused
      <3>1. /\ up = "post" /\ up' # "post" /\ live' = live
            /\ usedBy[job.token] # job.secret
        BY <2>2 DEF PostRefused, Raises, Accepts, signerVars
      <3>2. job.secret = file.pending
        BY <1>1, <3>1 DEF RelayedInv, SecretInv
      <3>3. file'.secret = file.secret
        BY <1>1, <2>2 DEF PostRefused, RelayedInv, Types, EnrollTypes
      <3>4. CASE live = file.pending
        BY <3>1, <3>2, <3>4
      <3>5. CASE live \in {None, file.secret}
        BY <3>1, <3>3, <3>5 DEF OnDisk
      <3> QED BY <1>1, <3>4, <3>5 DEF OnDisk
    <2>3. CASE WriteCredential
      <3>1. live = job.secret /\ live' = live
        BY <1>1, <2>3 DEF RelayedInv, SecretInv, WriteCredential, signerVars
      <3>2. file' = file \/ file' = [secret |-> job.secret, pending |-> None]
        BY <2>3 DEF WriteCredential
      <3> QED BY <1>1, <3>1, <3>2 DEF OnDisk
    <2>4. CASE Pend
      <3>1. live' = live /\ (file' = file \/ (file.pending = None /\ file' = Stored(Fresh)))
        BY <2>4 DEF Pend, signerVars
      <3>2. file' # file => file'.secret = file.secret
        BY <1>1, <3>1 DEF Stored, RelayedInv, Types, EnrollTypes
      <3> QED BY <1>1, <3>1, <3>2 DEF OnDisk
    <2>5. CASE Work /\ ~(PostAnswered \/ PostFails \/ PostRefused \/ WriteCredential \/ Pend)
      <3>1. live' = live /\ file' = file
        BY <2>5 DEF Work, ClearWifi, Scan, BeginApply, Delete, Add, Connect, Retreat,
            CleanUp, Record, ReportFails, Boot, ClearReenroll, Adopt, signerVars,
            enrollVars
      <3> QED BY <1>1, <3>1 DEF OnDisk
    <2>6. CASE ~Work
      <3>1. live' = live /\ file' = file
        BY <1>1, <2>6 DEF Next, PostRequest, IssueToken, Expire, Autoconnect, MainSigns,
            MainStashes, UploaderSigns, Signed, TakeFrame, FrameDone, TakeWifi, TakeReenroll, Crash,
            signerVars, enrollVars
      <3> QED BY <1>1, <3>1 DEF OnDisk
    <2> QED BY <2>1, <2>2, <2>3, <2>4, <2>5, <2>6
  <1>2. RelayedInv /\ [Next]_vars => [OnDisk => OnDisk' \/ Dropped]_vars
    BY <1>1
  <1> QED BY RelayedInvariant, <1>2, PTL DEF Spec, SecretOnDisk

----------------------------------------------------------------------------
(* Outcomes of Wi-Fi requests                                              *)

\* From the acknowledgement of a switch to its outcome.
Begun == Switching \cup {"record"}

\* Ids are known only once they are posted.
PostedInv ==
  /\ want.id <= posted /\ answer.wifi.id <= posted /\ wifiRequest.id <= posted
  /\ up \in WifiSteps => job.id <= posted
  /\ \A k \in {"scan", "apply"} : handled[k] <= posted /\ ack[k] <= posted

\* A request that is still asked for and noted as handled has an outcome: one that
\* every status carries, one of a switch under way, or one a crash took.
OutcomeInv ==
  /\ handled["scan"] = want.id => want.id \in {None, lastScan} \cup lost.ids
  /\ up \in Begun \/ (handled["apply"] = want.id => want.id \in {None, lastApplied} \cup lost.ids)
  /\ up \in Begun => handled["apply"] = job.id

LEMMA PostedTypes ==
  ASSUME RelayedInv
  PROVE  /\ posted \in Nat /\ want.id \in Nat /\ answer.wifi.id \in Nat
         /\ wifiRequest.id \in Nat /\ (up \in WifiSteps => job \in WifiJobs)
         /\ handled \in [{"scan", "apply"} -> Nat] /\ ack \in [{"scan", "apply"} -> Nat]
  BY RelayedAssumption DEF RelayedInv, Types, SignerTypes, StashTypes, WifiTypes, JobInv,
     SomeRequest, Requests, NoRequest, None, Ids

LEMMA PostedStep == ASSUME RelayedInv, PostedInv, Next PROVE PostedInv'
  <1> USE PostedTypes
  <1>1. /\ posted' \in {posted, posted + 1}
        /\ posted' # posted => PostRequest
    BY DEF Next, Work, PostRequest, IssueToken, Expire, Autoconnect, MainSigns, MainStashes,
       UploaderSigns, Signed, TakeFrame, FrameDone, TakeWifi, TakeReenroll, ClearWifi, Scan,
       BeginApply, Delete, Add, Connect, Retreat, CleanUp, Record, ReportFails, Boot,
       ClearReenroll, Pend, PostAnswered, PostFails, PostRefused, Accepted, WriteCredential,
       Adopt, Crash, signerVars
  <1>2. /\ want'.id \in {want.id, None} \/ (PostRequest /\ want'.id = posted')
        /\ answer'.wifi.id \in {answer.wifi.id, want'.id, None}
        /\ wifiRequest'.id \in {wifiRequest.id, answer.wifi.id, want'.id, None}
    <2>1. CASE PostRequest
      <3>1. answer' = answer /\ wifiRequest' = wifiRequest
        BY <2>1 DEF PostRequest, stashVars
      <3>2. want'.id = posted + 1 /\ posted' = posted + 1
        BY <2>1 DEF PostRequest
      <3> QED BY <2>1, <3>1, <3>2
    <2>2. CASE MainSigns \/ MainStashes \/ UploaderSigns
      <3>1. CASE MainSigns
        <4>1. want' \in {want, NoRequest} /\ answer'.wifi = want' /\ wifiRequest' = wifiRequest
          BY <3>1 DEF MainSigns, Signed, Asked
        <4> QED BY <4>1 DEF NoRequest
      <3>2. CASE MainStashes
        <4>1. want' = want /\ answer' = Nothing /\ wifiRequest' \in {wifiRequest, answer.wifi}
          BY <3>2 DEF MainStashes, Stashed, signerVars
        <4> QED BY <4>1 DEF Nothing, NoRequest
      <3>3. CASE UploaderSigns
        <4>1. want' \in {want, NoRequest} /\ answer' = answer /\ wifiRequest' \in {wifiRequest, want'}
          BY <3>3 DEF UploaderSigns, Signed, Stashed, Asked
        <4> QED BY <4>1 DEF NoRequest
      <3> QED BY <2>2, <3>1, <3>2, <3>3
    <2>3. CASE ClearWifi \/ Crash
      BY <2>3 DEF ClearWifi, Crash, Nothing, NoRequest, signerVars
    <2>4. CASE ~(PostRequest \/ MainSigns \/ MainStashes \/ UploaderSigns \/ ClearWifi \/ Crash)
      BY <2>4 DEF Next, Work, IssueToken, Expire, Autoconnect, TakeFrame, FrameDone, TakeWifi,
         TakeReenroll, Scan, BeginApply, Delete, Add, Connect, Retreat, CleanUp, Record,
         ReportFails, Boot, ClearReenroll, Pend, PostAnswered, PostFails, PostRefused, Accepted,
         WriteCredential, Adopt, signerVars, stashVars
    <2> QED BY <2>1, <2>2, <2>3, <2>4
  <1>3. /\ want'.id <= posted' /\ answer'.wifi.id <= posted' /\ wifiRequest'.id <= posted'
    BY <1>1, <1>2 DEF PostedInv, None
  <1>4. up' \in WifiSteps => job'.id <= posted'
    <2>1. CASE TakeWifi
      BY <1>1, <2>1 DEF TakeWifi, Switch, PostedInv
    <2>2. CASE up \in WifiSteps /\ up' \in WifiSteps
      <3>1. job'.id = job.id
        BY <2>2 DEF Next, Work, PostRequest, IssueToken, Expire, Autoconnect, MainSigns,
           MainStashes, UploaderSigns, TakeFrame, FrameDone, TakeWifi, TakeReenroll, ClearWifi,
           Scan, BeginApply, Delete, Add, Connect, Retreat, CleanUp, Switched, Record,
           ReportFails, Boot, ClearReenroll, Pend, PostAnswered, PostFails, PostRefused,
           WriteCredential, Adopt, Crash, WifiSteps, Switching, WifiJobs
      <3> QED BY <1>1, <2>2, <3>1 DEF PostedInv, WifiJobs
    <2>3. CASE ~TakeWifi /\ up \notin WifiSteps
      <3>1. up' \notin WifiSteps
        BY <2>3 DEF Next, Work, PostRequest, IssueToken, Expire, Autoconnect, MainSigns,
           MainStashes, UploaderSigns, TakeFrame, FrameDone, TakeReenroll, ClearWifi,
           Scan, BeginApply, Delete, Add, Connect, Retreat, CleanUp, Record, Raises,
           ReportFails, Boot, ClearReenroll, Pend, PostAnswered, PostFails, PostRefused,
           WriteCredential, Unwritten, Adopt, Crash, WifiSteps, Switching
      <3> QED BY <3>1
    <2> QED BY <2>1, <2>2, <2>3
  <1>5. \A k \in {"scan", "apply"} : handled'[k] <= posted' /\ ack'[k] <= posted'
    <2>1. CASE Scan \/ BeginApply
      <3>1. up \in WifiSteps /\ posted' = posted
        BY <2>1 DEF Scan, BeginApply, WifiSteps, signerVars
      <3>2. /\ handled' = [handled EXCEPT ![job.kind] = job.id] /\ ack' \in {ack, handled'}
        BY <2>1 DEF Scan, BeginApply, AckIfDue, AckedAt, Acknowledge
      <3> QED BY <3>1, <3>2 DEF PostedInv, WifiJobs
    <2>2. CASE ~(Scan \/ BeginApply)
      <3>1. handled' \in {handled, ack} /\ ack' = ack
        BY <2>2 DEF Next, Work, PostRequest, IssueToken, Expire, Autoconnect, MainSigns,
           MainStashes, UploaderSigns, TakeFrame, FrameDone, TakeWifi, TakeReenroll, ClearWifi,
           Delete, Add, Connect, Retreat, CleanUp, Record, AckIfDue, AckedAt,
           ReportFails, Boot, ClearReenroll, Pend, PostAnswered, PostFails, PostRefused,
           WriteCredential, Adopt, Crash, wifiVars
      <3> QED BY <1>1, <3>1 DEF PostedInv
    <2> QED BY <2>1, <2>2
  <1> QED BY <1>3, <1>4, <1>5 DEF PostedInv

LEMMA OutcomeStep == ASSUME RelayedInv, PostedInv, OutcomeInv, Next PROVE OutcomeInv'
  <1> USE DEF OutcomeInv, Begun, Switching
  <1>1. CASE Crash
    <2>1. handled' = ack /\ up' = "boot" /\ want' = want
      BY <1>1 DEF Crash, signerVars
    <2>2. \A k \in {"scan", "apply"} : ack[k] = want.id => want.id \in {None} \cup lost'.ids
      BY <1>1 DEF Crash
    <2> QED BY <2>1, <2>2
  <1>2. CASE Scan
    <2>1. up = "scan" /\ job.kind = "scan"
      BY <1>2 DEF Scan, RelayedInv, Types, JobInv, WifiSteps
    <2>2. /\ handled' = [handled EXCEPT !["scan"] = job.id] /\ lastScan' = job.id
          /\ UNCHANGED <<lastApplied, want, lost>> /\ up' = "report"
      BY <1>2, <2>1 DEF Scan, Acknowledge, signerVars, lifeVars
    <2> QED BY <2>1, <2>2 DEF RelayedInv, Types, WifiTypes
  <1>3. CASE BeginApply
    <2>1. up = "apply" /\ job.kind = "apply"
      BY <1>3 DEF BeginApply, RelayedInv, Types, JobInv, WifiSteps
    <2>2. /\ handled' = [handled EXCEPT !["apply"] = job.id] /\ job' = job
          /\ UNCHANGED <<lastScan, want, lost>> /\ up' = "delete"
      BY <1>3, <2>1 DEF BeginApply, AckIfDue, AckedAt, Acknowledge, signerVars, lifeVars
    <2> QED BY <2>2 DEF RelayedInv, Types, WifiTypes
  <1>4. CASE Record
    <2>1. /\ handled' = handled /\ lastApplied' = job.id /\ up = "record" /\ up' = "report"
          /\ UNCHANGED <<lastScan, want, lost>>
      BY <1>4 DEF Record, AckIfDue, AckedAt, Outcome, signerVars, lifeVars
    <2> QED BY <2>1
  <1>5. CASE Delete \/ Add \/ Connect \/ Retreat \/ CleanUp
    <2>1. /\ UNCHANGED <<handled, lastScan, lastApplied, want>> /\ lost'.ids = lost.ids
          /\ up \in Begun /\ up' \in Begun
      BY <1>5 DEF Delete, Add, Connect, Retreat, CleanUp, Drop, Blame, wifiVars, signerVars,
         lifeVars, RelayedInv, Types, LifeTypes
    <2>2. job'.id = job.id
      BY <1>5 DEF Delete, Add, Connect, Retreat, CleanUp, Switched, RelayedInv, Types, JobInv, WifiSteps, WifiJobs
    <2> QED BY <2>1, <2>2
  <1>6. CASE Work /\ ~(Scan \/ BeginApply \/ Record \/ Delete \/ Add \/ Connect \/ Retreat \/ CleanUp)
    <2>1. /\ UNCHANGED <<handled, lastScan, lastApplied, want, lost>>
          /\ up \notin Begun
      BY <1>6 DEF Work, ClearWifi, ReportFails, Boot, ClearReenroll, Pend, PostAnswered,
         PostFails, PostRefused, WriteCredential, Adopt, Accepted, wifiVars, signerVars, lifeVars
    <2>2. up' \notin Begun
      BY <1>6 DEF Work, ClearWifi, ReportFails, Boot, ClearReenroll, Pend, PostAnswered,
         PostFails, PostRefused, WriteCredential, Unwritten, Adopt, Raises,
         RelayedInv, Types, JobInv, WifiSteps, WifiJobs
    <2> QED BY <2>1, <2>2
  <1>7. CASE ~Work /\ ~Crash
    <2>1. UNCHANGED <<handled, lastScan, lastApplied, lost>>
      BY <1>7 DEF Next, PostRequest, IssueToken, Expire, Autoconnect, MainSigns, MainStashes,
         UploaderSigns, TakeFrame, FrameDone, TakeWifi, TakeReenroll, wifiVars, lifeVars
    <2>2. UNCHANGED <<up, job>> \/ (up \notin Begun /\ up' \notin Begun)
      BY <1>7 DEF Next, PostRequest, IssueToken, Expire, Autoconnect, MainSigns, MainStashes,
         UploaderSigns, TakeFrame, FrameDone, TakeWifi, TakeReenroll
    <2>3. want'.id \in {want.id, None} \/ \A k \in {"scan", "apply"} : handled[k] # want'.id
      <3>1. CASE PostRequest
        <4>1. want'.id = posted + 1
          BY <3>1 DEF PostRequest
        <4> QED BY <4>1, PostedTypes DEF PostedInv
      <3>2. CASE ~PostRequest
        <4>1. want' \in {want, NoRequest}
          BY <1>7, <3>2 DEF Next, IssueToken, Expire, Autoconnect, MainSigns, MainStashes,
             UploaderSigns, Signed, TakeFrame, FrameDone, TakeWifi, TakeReenroll, signerVars
        <4> QED BY <4>1 DEF NoRequest
      <3> QED BY <3>1, <3>2
    <2> QED BY <2>1, <2>2, <2>3
  <1> QED BY <1>1, <1>2, <1>3, <1>4, <1>5, <1>6, <1>7

\* An answer that asks for what was handled already is dismissed only if the signer
\* no longer asks for it, or its outcome is in the status of every /sign from then
\* on, however answers of the two threads crossed; or a crash took the outcome.
DismissedIsReported ==
  [][up = "swap" /\ up' = "idle" =>
       job.id # want.id \/ job.id \in {lastScan, lastApplied} \cup lost.ids]_vars

\* A request that is dismissed and still asked for is one whose outcome is about to
\* be reported: the safety half of RequestAnswered (wifi.py:159-180).
THEOREM DismissalsReported == Spec => DismissedIsReported
  <1> DEFINE OI == PostedInv /\ OutcomeInv
  <1>1. Init => OI
    BY RelayedAssumption DEF Init, PostedInv, OutcomeInv, Begun, Switching, WifiSteps, Nothing,
       NoRequest, None
  <1>2. RelayedInv /\ OI /\ [Next]_vars => OI'
    <2>1. OI /\ UNCHANGED vars => OI'
      BY DEF PostedInv, OutcomeInv, vars, wifiVars, signerVars, stashVars, lifeVars
    <2> QED BY <2>1, OutcomeStep, PostedStep
  <1>3. ASSUME RelayedInv, OutcomeInv, Next, up = "swap", up' = "idle"
        PROVE  job.id # want.id \/ job.id \in {lastScan, lastApplied} \cup lost.ids
    <2>1. job \in WifiJobs
      BY <1>3 DEF RelayedInv, Types, JobInv, WifiSteps
    <2>2. job.kind \in {"scan", "apply"} /\ job.id # None
      BY <2>1, RelayedAssumption DEF WifiJobs, None
    <2>3. handled[job.kind] = job.id
      <3>1. CASE Work
        <4>1. ~(Boot \/ ClearReenroll \/ Pend \/ PostAnswered \/ PostFails \/ PostRefused
                \/ WriteCredential \/ Adopt)
          BY <1>3 DEF Boot, ClearReenroll, Pend, PostAnswered, PostFails, PostRefused,
             WriteCredential, Adopt
        <4>2. ~(Scan \/ BeginApply \/ Delete \/ Add \/ Connect \/ Retreat \/ CleanUp \/ Record
                \/ ReportFails)
          BY <1>3 DEF Scan, BeginApply, Delete, Add, Connect, Retreat, CleanUp, Record, ReportFails
        <4>3. ClearWifi
          BY <3>1, <4>1, <4>2 DEF Work
        <4>4. job.kind # "idle"
          BY <2>2
        <4> QED BY <1>3, <4>3, <4>4 DEF ClearWifi
      <3>2. CASE ~Work
        BY <1>3, <3>2 DEF Next, PostRequest, IssueToken, Expire, Autoconnect, MainSigns,
           MainStashes, UploaderSigns, TakeFrame, FrameDone, TakeWifi, TakeReenroll, Crash
      <3> QED BY <3>1, <3>2
    <2>4. up \notin Begun
      BY <1>3 DEF Begun, Switching
    <2> QED BY <1>3, <2>2, <2>3, <2>4 DEF OutcomeInv
  <1>4. RelayedInv /\ OI /\ [Next]_vars =>
          [up = "swap" /\ up' = "idle" =>
             job.id # want.id \/ job.id \in {lastScan, lastApplied} \cup lost.ids]_vars
    BY <1>3
  <1> HIDE DEF OI
  <1> QED BY <1>1, <1>2, <1>4, RelayedInvariant, PTL DEF Spec, DismissedIsReported

----------------------------------------------------------------------------
(* Enrollment tokens                                                       *)

\* Tokens anyone knows are issued ones, and unissued ones are unused.  A
\* token being relayed is unused and in time; one that is traded is used until
\* it is adopted; one the device is done with is used or out of time.
TokenInv ==
  /\ relay <= tokens /\ answer.token <= tokens /\ reenrollRequest <= tokens
  /\ up \in EnrollSteps => job.token <= tokens
  /\ \A t \in Tokens : t > tokens => usedBy[t] = None /\ t \notin expired
  /\ relay # None => usedBy[relay] = None /\ relay \notin expired
  /\ up \in {"write", "adopt"} => usedBy[job.token] # None
  /\ doneId # None => usedBy[doneId] # None \/ doneId \in expired

LEMMA TokenInit == ASSUME Init PROVE TokenInv
  <1>1. /\ relay = 0 /\ tokens = 1 /\ answer.token = 0 /\ reenrollRequest = 0 /\ up = "boot"
        /\ doneId = 0 /\ expired = {}
        /\ \A t \in Tokens : t > tokens => usedBy[t] = None
    BY DEF Init, Nothing, None, EnvToken
  <1> QED BY <1>1 DEF TokenInv, EnrollSteps, None

LEMMA TokenTypes ==
  ASSUME RelayedInv
  PROVE  /\ tokens \in Tokens /\ (\A t \in Tokens : t \in Int /\ 0 < t) /\ None = 0
         /\ relay \in Tokens \cup {0} /\ answer.token \in Tokens \cup {0}
         /\ reenrollRequest \in Tokens \cup {0} /\ doneId \in Tokens \cup {0}
         /\ usedBy \in [Tokens -> SomeSecret] /\ EnvToken \in Tokens
         /\ up \in EnrollSteps => job \in EnrollJobs
  BY RelayedAssumption DEF RelayedInv, Types, SignerTypes, StashTypes, EnrollTypes, JobInv,
     SomeToken, None, Tokens, EnvToken

\* Answers, and what the uploader does between requests.
LEMMA TokenOthers ==
  ASSUME RelayedInv, TokenInv, Next,
         ~IssueToken, ~Expire, ~PostAnswered, ~PostFails, ~PostRefused, ~Adopt
  PROVE  TokenInv'
  <1> USE TokenTypes
  <1>1. UNCHANGED <<relay, tokens, usedBy, expired>>
    BY DEF Next, Work, PostRequest, Autoconnect, MainSigns, MainStashes, UploaderSigns, Signed,
       TakeFrame, FrameDone, TakeWifi, TakeReenroll, ClearWifi, Scan, BeginApply, Delete, Add, Connect, Retreat,
       CleanUp, Record, ReportFails, Boot, ClearReenroll, Pend, WriteCredential, Crash, signerVars
  <1>2. doneId' \in {doneId, None}
    BY DEF Next, Work, PostRequest, Autoconnect, MainSigns, MainStashes, UploaderSigns,
       TakeFrame, FrameDone, TakeWifi, TakeReenroll, ClearWifi, Scan, BeginApply, Delete, Add, Connect, Retreat,
       CleanUp, Record, ReportFails, Boot, ClearReenroll, Pend, WriteCredential, Crash, enrollVars
  <1>3. /\ answer'.token \in {answer.token, relay, None}
        /\ reenrollRequest' \in {reenrollRequest, answer.token, relay, None}
    <2>1. CASE MainSigns \/ MainStashes \/ UploaderSigns
      BY <2>1 DEF MainSigns, MainStashes, UploaderSigns, Stashed, Asked, Nothing, Signed
    <2>2. CASE ClearWifi \/ ClearReenroll \/ Crash
      BY <2>2 DEF ClearWifi, ClearReenroll, Crash, Nothing
    <2>3. CASE ~(\/ MainSigns \/ MainStashes \/ UploaderSigns \/ ClearWifi \/ ClearReenroll
                 \/ Crash)
      BY <2>3 DEF Next, Work, PostRequest, Autoconnect, TakeFrame, FrameDone, TakeWifi, TakeReenroll, Scan, BeginApply,
         Delete, Add, Connect, Retreat, CleanUp, Record, ReportFails, Boot, Pend,
         WriteCredential, stashVars
    <2> QED BY <2>1, <2>2, <2>3
  <1>4. /\ up' \in EnrollSteps => job'.token <= tokens
        /\ up' \in {"write", "adopt"} => usedBy[job'.token] # None
    <2>1. CASE Boot \/ TakeReenroll
      BY <2>1 DEF Boot, TakeReenroll, Trade, TokenInv, EnrollSteps, EnvToken
    <2>2. CASE ClearReenroll
      BY <2>2 DEF ClearReenroll, TokenInv, EnrollSteps
    <2>3. CASE Pend
      <3>1. up = "pend" /\ job \in EnrollJobs
        BY <2>3 DEF Pend, EnrollSteps
      <3>2. up' \in EnrollSteps => up' = "post" /\ job'.token = job.token
        BY <2>3, <3>1 DEF Pend, Raises, EnrollJobs, EnrollSteps
      <3> QED BY <3>1, <3>2 DEF TokenInv, EnrollSteps
    <2>4. CASE WriteCredential
      <3>1. up = "write" /\ (up' \in EnrollSteps => job' = job)
        BY <2>4 DEF WriteCredential, Unwritten, Raises, EnrollSteps
      <3>2. {"write", "adopt"} \subseteq EnrollSteps
        BY DEF EnrollSteps
      <3> QED BY <3>1, <3>2 DEF TokenInv
    <2>5. CASE UNCHANGED <<up, job>>
      BY <2>5 DEF TokenInv
    <2>6. CASE up' \notin EnrollSteps
      BY <2>6 DEF EnrollSteps
    <2>7. CASE ~(Boot \/ TakeReenroll \/ ClearReenroll \/ Pend \/ WriteCredential)
      <3>1. job.kind \in {"scan", "apply"} \/ ~ClearWifi
        BY DEF RelayedInv, Types, JobInv, ClearWifi, WifiSteps, WifiJobs
      <3>2. CASE Work
        BY <2>6, <2>7, <3>1, <3>2 DEF Work, ClearWifi, Scan, BeginApply, Delete, Add, Connect,
           Retreat, CleanUp, Record, ReportFails, EnrollSteps
      <3>3. CASE ~Work
        BY <2>5, <2>6, <2>7, <3>3 DEF Next, PostRequest, Autoconnect, MainSigns, MainStashes,
           UploaderSigns, TakeFrame, FrameDone, TakeWifi, Crash, EnrollSteps
      <3> QED BY <3>2, <3>3
    <2> QED BY <2>1, <2>2, <2>3, <2>4, <2>7
  <1> QED BY <1>1, <1>2, <1>3, <1>4 DEF TokenInv

LEMMA TokenStep == ASSUME RelayedInv, TokenInv, Next PROVE TokenInv'
  <1> USE TokenTypes
  <1>1. CASE IssueToken
    <2>1. tokens' \in Tokens
      BY <1>1, IssueTokenStep DEF RelayedInv, Types, SignerTypes
    <2>2. /\ tokens' = tokens + 1 /\ relay' = tokens + 1
          /\ UNCHANGED <<usedBy, expired, answer, reenrollRequest, up, job, doneId>>
      BY <1>1 DEF IssueToken, stashVars, enrollVars
    <2>3. up \in EnrollSteps => job.token \in Tokens /\ job.token <= tokens
      BY DEF EnrollJobs, TokenInv
    <2>4. /\ relay' <= tokens' /\ answer'.token <= tokens' /\ reenrollRequest' <= tokens'
          /\ up' \in EnrollSteps => job'.token <= tokens'
      BY <2>2, <2>3 DEF TokenInv
    <2>5. \A t \in Tokens : t > tokens => usedBy[t] = None /\ t \notin expired
      BY DEF TokenInv
    <2>6. /\ \A t \in Tokens : t > tokens' => usedBy'[t] = None /\ t \notin expired'
          /\ usedBy'[relay'] = None /\ relay' \notin expired'
      <3>1. tokens \in Int /\ \A t \in Tokens : t \in Int
        OBVIOUS
      <3>2. \A t \in Tokens : t >= tokens' => usedBy[t] = None /\ t \notin expired
        BY <2>2, <2>5, <3>1
      <3>3. relay' \in Tokens /\ relay' >= tokens'
        BY <2>1, <2>2, <3>1
      <3>4. UNCHANGED <<usedBy, expired>>
        BY <2>2
      <3>5. \A t \in Tokens : t > tokens' => t >= tokens'
        BY <2>1, <3>1
      <3> QED BY <3>2, <3>3, <3>4, <3>5
    <2>7. /\ up' \in {"write", "adopt"} => usedBy'[job'.token] # None
          /\ doneId' # None => usedBy'[doneId'] # None \/ doneId' \in expired'
      BY <2>2 DEF TokenInv
    <2> QED BY <2>4, <2>6, <2>7 DEF TokenInv
  <1>2. CASE Expire
    <2>1. /\ expired' = expired \cup {relay} /\ relay' = None
          /\ UNCHANGED <<tokens, usedBy, answer, reenrollRequest, up, job, doneId>>
      BY <1>2 DEF Expire, stashVars, enrollVars
    <2> QED BY <2>1 DEF TokenInv
  <1>3. ASSUME up = "post", Accepted
        PROVE  /\ usedBy'[job.token] # None /\ UNCHANGED <<tokens, expired>>
               /\ \A t \in Tokens : usedBy'[t] = usedBy[t] \/ (t = job.token /\ usedBy'[t] # None)
               /\ relay' # None => relay' = relay /\ relay # job.token
    <2>1. job \in EnrollJobs /\ job.token \in Tokens /\ job.secret # None
      BY <1>3 DEF EnrollSteps, EnrollJobs, RelayedInv, SecretInv
    <2> QED BY <1>3, <2>1 DEF Accepted
  <1>4. CASE PostAnswered \/ PostFails
    <2>1. /\ up = "post" /\ UNCHANGED <<answer, reenrollRequest>> /\ doneId' = doneId
      BY <1>4 DEF PostAnswered, PostFails, DoneAfterFailure, stashVars, enrollVars
    <2>2. job \in EnrollJobs /\ job.token \in Tokens /\ job.token <= tokens
      BY <2>1 DEF EnrollSteps, EnrollJobs, TokenInv
    <2>3. /\ up' \in EnrollSteps => job'.token = job.token
          /\ up' \in {"write", "adopt"} => Accepted
      BY <1>4, <2>2 DEF PostAnswered, PostFails, Raises, EnrollSteps, EnrollJobs
    <2>4. {"write", "adopt"} \subseteq EnrollSteps
      BY DEF EnrollSteps
    <2>5. CASE Accepted
      BY <1>3, <2>1, <2>2, <2>3, <2>4, <2>5 DEF TokenInv
    <2>6. CASE UNCHANGED signerVars /\ ~Accepted
      BY <2>1, <2>2, <2>3, <2>6 DEF TokenInv, signerVars
    <2> QED BY <1>4, <2>5, <2>6 DEF PostAnswered, PostFails
  <1>5. CASE PostRefused
    <2>1. /\ up = "post" /\ UNCHANGED <<signerVars, answer, reenrollRequest>>
          /\ up' \notin EnrollSteps /\ doneId' \in {doneId, job.token}
          /\ ~Accepts(job.token, job.secret)
      BY <1>5 DEF PostRefused, Raises, EnrollSteps, stashVars, enrollVars
    <2>2. usedBy[job.token] # None \/ job.token \in expired
      BY <2>1 DEF Accepts
    <2> QED BY <2>1, <2>2 DEF TokenInv, signerVars, EnrollSteps
  <1>6. CASE Adopt
    <2>1. /\ up = "adopt" /\ UNCHANGED <<signerVars, answer, reenrollRequest>>
          /\ up' = "idle" /\ doneId' \in {doneId, job.token}
      BY <1>6 DEF Adopt, stashVars
    <2> QED BY <2>1 DEF TokenInv, signerVars, EnrollSteps
  <1> QED BY <1>1, <1>2, <1>4, <1>5, <1>6, TokenOthers

\* A token the signer relays is never taken for one the device is done with
\* (_handle_reenroll's first return), whatever answers were lost, refused or
\* repeated.
RelayedNotDone == relay # None => doneId # relay

\* So no relayed token that reaches the uploader is turned away: the safety half
\* of TokenTraded (uploader.py:414-417).
THEOREM RelayedTokenFresh == Spec => []RelayedNotDone
  <1>1. RelayedInv /\ TokenInv /\ [Next]_vars => TokenInv'
    <2>1. TokenInv /\ UNCHANGED vars => TokenInv'
      BY DEF TokenInv, vars, signerVars, stashVars, enrollVars
    <2> QED BY <2>1, TokenStep
  <1>2. TokenInv => RelayedNotDone
    BY DEF TokenInv, RelayedNotDone
  <1> QED BY TokenInit, <1>1, <1>2, RelayedInvariant, PTL DEF Spec

----------------------------------------------------------------------------
(* The first enrollment                                                    *)

\* Until there is a credential on disk the token of the env file is in time,
\* and unused or used with the pending secret; nothing else is enrolled with.
FirstInv ==
  /\ EnvToken \notin expired /\ relay # EnvToken
  /\ file.secret = None =>
       /\ usedBy[EnvToken] \in {None, file.pending}
       /\ secret = None /\ answer.token = None /\ reenrollRequest = None
       /\ up \in EnrollSteps => job.first
  /\ up \in EnrollSteps /\ job.first => job.token = EnvToken /\ (file.secret = None \/ up = "adopt")
  /\ up = "adopt" => file.secret # None

LEMMA FirstInit == ASSUME Init PROVE FirstInv
  <1>1. PICK s \in {None, 1} :
          /\ usedBy = [t \in Tokens |-> IF t = EnvToken THEN s ELSE None]
          /\ file = [secret |-> s, pending |-> None]
    BY DEF Init
  <1>2. EnvToken \in Tokens
    BY RelayedAssumption DEF EnvToken, Tokens
  <1>3. usedBy[EnvToken] = file.secret
    BY <1>1, <1>2
  <1> QED BY <1>3 DEF Init, FirstInv, Nothing, None, EnvToken, EnrollSteps

LEMMA FirstStep == ASSUME RelayedInv, TokenInv, FirstInv, Next PROVE FirstInv'
  <1> USE TokenTypes
  <1>0. EnvToken = 1 /\ EnvToken <= tokens /\ file \in [secret : SomeSecret, pending : SomeSecret]
    BY DEF EnvToken, RelayedInv, Types, EnrollTypes
  <1>1. EnvToken \notin expired' /\ relay' # EnvToken
    <2>1. expired' \in {expired, expired \cup {relay}} /\ relay' \in {relay, None, tokens + 1}
      BY DEF Next, Work, PostRequest, IssueToken, Expire, Autoconnect, MainSigns, MainStashes,
         UploaderSigns, Signed, TakeFrame, FrameDone, TakeWifi, TakeReenroll, ClearWifi, Scan, BeginApply, Delete, Add,
         Connect, Retreat, CleanUp, Record, ReportFails, Boot, ClearReenroll, Pend, PostAnswered,
         PostFails, PostRefused, Accepted, WriteCredential, Adopt, Crash, signerVars
    <2> QED BY <1>0, <2>1 DEF FirstInv
  <1>2. CASE UNCHANGED <<file, usedBy, secret>> /\ UNCHANGED <<up, job>>
             /\ (file.secret = None => answer'.token = None /\ reenrollRequest' = None)
    BY <1>1, <1>2 DEF FirstInv
  <1>3. CASE UNCHANGED <<file, usedBy>> /\ up' \notin EnrollSteps
             /\ (file.secret = None => /\ secret' = None
                                       /\ answer'.token = None /\ reenrollRequest' = None)
    BY <1>1, <1>3 DEF FirstInv, EnrollSteps
  <1>4. CASE MainSigns \/ MainStashes \/ UploaderSigns
    <2>1. file.secret = None => MainStashes
      BY <1>4 DEF MainSigns, UploaderSigns, Signed, FirstInv
    <2>2. file.secret = None => answer'.token = None /\ reenrollRequest' = None
      BY <2>1 DEF MainStashes, Stashed, Nothing, FirstInv
    <2>3. UNCHANGED <<file, usedBy, secret>>
      BY <1>4 DEF MainSigns, MainStashes, UploaderSigns, Signed, signerVars, enrollVars
    <2>4. UNCHANGED <<up, job>> \/ up' \notin EnrollSteps
      BY <1>4 DEF MainSigns, MainStashes, UploaderSigns, EnrollSteps
    <2> QED BY <1>2, <1>3, <2>2, <2>3, <2>4 DEF FirstInv
  <1>5. CASE PostRequest \/ IssueToken \/ Expire \/ Autoconnect
    <2>1. UNCHANGED <<file, usedBy, secret, up, job, answer, reenrollRequest>>
      BY <1>5 DEF PostRequest, IssueToken, Expire, Autoconnect, signerVars, stashVars, enrollVars
    <2> QED BY <1>2, <2>1 DEF FirstInv
  <1>6. CASE Crash
    <2>1. UNCHANGED <<file, usedBy>> /\ up' = "boot" /\ secret' = None /\ reenrollRequest' = None
      BY <1>6 DEF Crash, signerVars
    <2>2. answer'.token = None
      BY <1>6 DEF Crash, Nothing
    <2> QED BY <1>3, <2>1, <2>2 DEF EnrollSteps
  <1>7. CASE \/ TakeFrame \/ FrameDone \/ TakeWifi \/ Scan \/ BeginApply \/ Delete \/ Add \/ Connect \/ Retreat \/ CleanUp
             \/ Record \/ ReportFails
    <2>1. UNCHANGED <<file, usedBy, secret, answer, reenrollRequest>> /\ up' \notin EnrollSteps
      BY <1>7 DEF TakeFrame, FrameDone, TakeWifi, Scan, BeginApply, Delete, Add, Connect, Retreat, CleanUp, Record,
         ReportFails, EnrollSteps, stashVars, signerVars, enrollVars
    <2> QED BY <1>3, <2>1 DEF FirstInv
  <1>8. CASE ClearWifi
    <2>1. job.kind \in {"scan", "apply"}
      BY <1>8 DEF RelayedInv, Types, JobInv, ClearWifi, WifiSteps, WifiJobs
    <2>2. UNCHANGED <<file, usedBy, secret, answer, reenrollRequest>> /\ up' \notin EnrollSteps
      BY <1>8, <2>1 DEF ClearWifi, EnrollSteps, signerVars, enrollVars
    <2> QED BY <1>3, <2>2 DEF FirstInv
  <1>9. CASE Boot
    <2>1. /\ UNCHANGED <<file, usedBy, answer, reenrollRequest>>
          /\ \/ file.secret # None /\ up' = "idle"
             \/ /\ file.secret = None /\ secret' = secret
                /\ up' = "pend" /\ job'.first /\ job'.token = EnvToken
      BY <1>9 DEF Boot, Trade, stashVars, signerVars
    <2> QED BY <1>1, <2>1 DEF FirstInv, EnrollSteps
  <1>10. CASE TakeReenroll
    <2>1. /\ UNCHANGED <<file, usedBy, secret, answer, reenrollRequest>> /\ reenrollRequest # None
          /\ ~job'.first /\ up' # "adopt"
      BY <1>10 DEF TakeReenroll, Trade, stashVars, signerVars, enrollVars
    <2> QED BY <1>1, <2>1 DEF FirstInv
  <1>11. CASE ClearReenroll
    <2>1. /\ UNCHANGED <<file, usedBy, secret, answer>> /\ reenrollRequest' = None
          /\ up' \notin EnrollSteps \/ (job' = job /\ up' = "pend")
          /\ up = "swapToken"
      BY <1>11 DEF ClearReenroll, EnrollSteps, signerVars, enrollVars
    <2> QED BY <1>1, <2>1 DEF FirstInv, EnrollSteps
  <1>12. CASE Pend
    <2>1. /\ UNCHANGED <<usedBy, secret, answer, reenrollRequest>> /\ up = "pend"
          /\ file' = file \/ (file.pending = None /\ file' = Stored(Fresh))
      BY <1>12 DEF Pend, stashVars, signerVars
    <2>2. file'.secret = file.secret
      BY <1>0, <2>1 DEF Stored
    <2>3. job \in EnrollJobs
      BY <2>1 DEF EnrollSteps
    <2>4. up' \notin EnrollSteps \/ (job'.first = job.first /\ job'.token = job.token /\ up' = "post")
      BY <1>12, <2>3 DEF Pend, Raises, EnrollSteps, EnrollJobs
    <2>5. file.secret = None => usedBy'[EnvToken] \in {None, file'.pending}
      BY <2>1 DEF FirstInv
    <2> QED BY <1>1, <2>1, <2>2, <2>4, <2>5 DEF FirstInv, EnrollSteps
  <1>13. CASE PostAnswered \/ PostFails
    <2>1. /\ UNCHANGED <<file, secret, answer, reenrollRequest>> /\ up = "post"
          /\ usedBy' \in {usedBy, [usedBy EXCEPT ![job.token] = job.secret]}
      BY <1>13 DEF PostAnswered, PostFails, Accepted, stashVars, signerVars, enrollVars
    <2>2. job \in EnrollJobs /\ job.secret = file.pending
      BY <2>1 DEF EnrollSteps, RelayedInv, SecretInv
    <2>3. up' \notin EnrollSteps
            \/ (job'.first = job.first /\ job'.token = job.token /\ up' \in {"post", "write"})
      BY <1>13, <2>1, <2>2 DEF PostAnswered, PostFails, Raises, EnrollSteps, EnrollJobs
    <2>4. file.secret = None => usedBy'[EnvToken] \in {None, file'.pending}
      BY <2>1, <2>2 DEF FirstInv, EnrollJobs
    <2> QED BY <1>1, <2>1, <2>3, <2>4 DEF FirstInv, EnrollSteps
  <1>14. CASE PostRefused
    <2>1. /\ UNCHANGED <<usedBy, secret, answer, reenrollRequest>> /\ up = "post"
          /\ ~Accepts(job.token, job.secret) /\ up' \notin EnrollSteps
          /\ file' \in {file, [file EXCEPT !.pending = None]}
      BY <1>14 DEF PostRefused, Raises, EnrollSteps, stashVars, signerVars
    <2>2. job.secret = file.pending
      BY <2>1 DEF RelayedInv, SecretInv
    <2>3. file.secret # None
      BY <2>1, <2>2 DEF FirstInv, Accepts, EnrollSteps
    <2>4. file'.secret = file.secret
      BY <1>0, <2>1
    <2> QED BY <1>1, <2>1, <2>3, <2>4 DEF FirstInv
  <1>15. CASE WriteCredential
    <2>1. /\ UNCHANGED <<usedBy, secret, answer, reenrollRequest>> /\ up = "write"
          /\ \/ file' = [secret |-> job.secret, pending |-> None] /\ up' = "adopt" /\ job' = job
             \/ file' = file /\ up' \notin EnrollSteps
      BY <1>15 DEF WriteCredential, Unwritten, Raises, EnrollSteps, stashVars, signerVars
    <2>2. job.secret # None
      BY <2>1 DEF RelayedInv, SecretInv
    <2> QED BY <1>1, <2>1, <2>2 DEF FirstInv, EnrollSteps
  <1>16. CASE Adopt
    <2>1. UNCHANGED <<file, usedBy, answer, reenrollRequest>> /\ up = "adopt" /\ up' = "idle"
      BY <1>16 DEF Adopt, stashVars, signerVars
    <2>2. file.secret # None
      BY <2>1 DEF FirstInv
    <2> QED BY <1>1, <2>1, <2>2 DEF FirstInv, EnrollSteps
  <1> QED BY <1>4, <1>5, <1>6, <1>7, <1>8, <1>9, <1>10, <1>11, <1>12, <1>13, <1>14, <1>15, <1>16
          DEF Next, Work

\* The enrollment of a new device is never refused: until the credential is on
\* disk each try sends the secret the token was used with, if it was used
\* (enroll.py:4-6), whatever answers were lost, writes failed and restarts came
\* between.
FirstNeverRefused == [][PostRefused => ~job.first]_vars

\* So trying again is enough: the safety half of FirstEnrollmentEnds.
THEOREM FirstEnrollmentGood == Spec => FirstNeverRefused
  <1>1. RelayedInv /\ TokenInv /\ [Next]_vars => TokenInv'
    <2>1. TokenInv /\ UNCHANGED vars => TokenInv'
      BY DEF TokenInv, vars, signerVars, stashVars, enrollVars
    <2> QED BY <2>1, TokenStep
  <1>2. RelayedInv /\ TokenInv /\ FirstInv /\ [Next]_vars => FirstInv'
    <2>1. FirstInv /\ UNCHANGED vars => FirstInv'
      BY DEF FirstInv, vars, signerVars, stashVars, enrollVars
    <2> QED BY <2>1, FirstStep
  <1>3. ASSUME RelayedInv, FirstInv, PostRefused PROVE ~job.first
    <2>1. up = "post" /\ ~Accepts(job.token, job.secret) /\ job.secret = file.pending
      BY <1>3 DEF PostRefused, RelayedInv, SecretInv
    <2> QED BY <1>3, <2>1 DEF FirstInv, Accepts, EnrollSteps
  <1>4. RelayedInv /\ TokenInv /\ FirstInv /\ [Next]_vars => [PostRefused => ~job.first]_vars
    BY <1>3
  <1> QED BY TokenInit, FirstInit, <1>1, <1>2, <1>4, RelayedInvariant, PTL
          DEF Spec, FirstNeverRefused

----------------------------------------------------------------------------
(* The network the device was set up with                                  *)

\* No request in the device is for Home, and its only profile is the good one.
HomeInv ==
  /\ profile[Home] = {"good"}
  /\ answer.wifi.net # Home /\ wifiRequest.net # Home
  /\ up \in WifiSteps => job.net # Home

LEMMA HomeInit == ASSUME Init PROVE HomeInv
  <1>1. profile[Home] = {"good"}
    BY RelayedAssumption DEF Init
  <1>2. answer.wifi.net = Off /\ wifiRequest.net = Off /\ up = "boot"
    BY DEF Init, Nothing, NoRequest
  <1> QED BY <1>1, <1>2, RelayedAssumption DEF HomeInv, Off, WifiSteps, Switching

LEMMA HomeStep ==
  ASSUME RelayedInv, HomeInv, Next, want.net # Home, want'.net # Home PROVE HomeInv'
  <1>0. /\ Off # Home /\ Home \in Nets /\ profile \in [Nets -> SUBSET {"good", "bad"}]
        /\ up \in WifiSteps => job \in WifiJobs
    BY RelayedAssumption DEF Off, RelayedInv, Types, NetTypes, JobInv
  <1>1. CASE UNCHANGED <<profile, answer, wifiRequest>> /\ up' \notin WifiSteps
    BY <1>1 DEF HomeInv
  <1>2. CASE UNCHANGED <<profile, answer, wifiRequest, up, job>>
    BY <1>2 DEF HomeInv
  <1>3. CASE PostRequest \/ IssueToken \/ Expire \/ Autoconnect
    <2>1. UNCHANGED <<profile, answer, wifiRequest, up, job>>
      BY <1>3 DEF PostRequest, IssueToken, Expire, Autoconnect, stashVars, netVars
    <2> QED BY <1>2, <2>1
  <1>4. CASE MainSigns
    <2>1. UNCHANGED <<profile, wifiRequest, up, job>> /\ answer'.wifi = want'
      BY <1>4 DEF MainSigns, Asked, netVars
    <2> QED BY <2>1 DEF HomeInv
  <1>5. CASE MainStashes
    <2>1. UNCHANGED <<profile, up, job>> /\ answer' = Nothing
          /\ wifiRequest' \in {answer.wifi, wifiRequest}
      BY <1>5 DEF MainStashes, Stashed, netVars
    <2> QED BY <1>0, <2>1 DEF HomeInv, Nothing, NoRequest
  <1>6. CASE UploaderSigns
    <2>1. UNCHANGED <<profile, answer>> /\ up' \in {"idle", "frame"} /\ wifiRequest' \in {want', wifiRequest}
      BY <1>6 DEF UploaderSigns, Stashed, Asked, netVars
    <2> QED BY <2>1 DEF HomeInv, WifiSteps, Switching
  <1>7. CASE TakeWifi
    <2>1. UNCHANGED <<profile, answer, wifiRequest>> /\ job'.net = wifiRequest.net
      BY <1>7 DEF TakeWifi, Switch, stashVars, netVars
    <2> QED BY <2>1 DEF HomeInv
  <1>8. CASE ClearWifi
    <2>1. UNCHANGED <<profile, answer>> /\ wifiRequest' = NoRequest /\ up = "swap"
          /\ (up' \notin WifiSteps \/ job' = job)
      BY <1>8 DEF ClearWifi, netVars, WifiSteps, Switching
    <2> QED BY <1>0, <2>1 DEF HomeInv, NoRequest, WifiSteps, Switching
  <1>9. CASE BeginApply \/ Connect \/ Retreat
    <2>1. UNCHANGED <<profile, answer, wifiRequest>> /\ up \in WifiSteps
      BY <1>9 DEF BeginApply, Connect, Retreat, WifiSteps, Switching, stashVars, netVars
    <2>2. job'.net = job.net
      BY <1>0, <1>9, <2>1 DEF BeginApply, Connect, Switched, Retreat, WifiJobs
    <2> QED BY <2>1, <2>2 DEF HomeInv
  <1>10. CASE Delete \/ Add \/ CleanUp
    <2>1. up \in WifiSteps /\ UNCHANGED <<answer, wifiRequest>>
      BY <1>10 DEF Delete, Add, CleanUp, WifiSteps, Switching, stashVars
    <2>2. job'.net = job.net /\ job.net # Home
      BY <1>0, <1>10, <2>1 DEF Delete, Add, CleanUp, Switched, WifiJobs, HomeInv
    <2>3. \E p \in SUBSET {"good", "bad"} : profile' \in {profile, [profile EXCEPT ![job.net] = p]}
      <3>1. job.net \in Nets
        BY <1>10 DEF Delete, Add, CleanUp, RelayedInv, Types, JobInv, WifiSteps, Switching
      <3>2. CASE Delete \/ CleanUp
        <4>1. PICK rest \in SUBSET profile[job.net] :
                profile' \in {profile, [profile EXCEPT ![job.net] = rest]}
          BY <3>2 DEF Delete, CleanUp, Drop, Discarded, netVars
        <4>2. rest \in SUBSET {"good", "bad"}
          BY <1>0, <3>1
        <4> QED BY <4>1, <4>2
      <3>3. CASE Add
        <4>1. profile[job.net] \in SUBSET {"good", "bad"}
          BY <1>0, <3>1
        <4>2. profile' \in {profile, [profile EXCEPT ![job.net] =
                              profile[job.net] \cup {IF job.right THEN "good" ELSE "bad"}]}
          BY <3>3 DEF Add, Added
        <4> QED BY <4>1, <4>2
      <3> QED BY <1>10, <3>2, <3>3
    <2>4. profile'[Home] = profile[Home]
      BY <1>0, <2>2, <2>3
    <2> QED BY <2>1, <2>2, <2>4 DEF HomeInv
  <1>12. CASE Scan \/ Record \/ ReportFails \/ TakeFrame \/ FrameDone
    <2>1. UNCHANGED <<profile, answer, wifiRequest>> /\ up' \notin WifiSteps
      BY <1>12 DEF Scan, Record, ReportFails, TakeFrame, FrameDone, WifiSteps, Switching, stashVars, netVars
    <2> QED BY <1>1, <2>1
  <1>13. CASE Boot \/ TakeReenroll \/ ClearReenroll \/ Pend \/ PostAnswered \/ PostFails
              \/ PostRefused \/ WriteCredential \/ Adopt
    <2>1. UNCHANGED <<profile, answer, wifiRequest>> /\ up' \notin WifiSteps
      BY <1>13 DEF Boot, TakeReenroll, ClearReenroll, Pend, PostAnswered, PostFails, PostRefused,
         WriteCredential, Unwritten, Adopt, Raises, WifiSteps, Switching, stashVars, netVars
    <2> QED BY <1>1, <2>1
  <1>14. CASE Crash
    <2>1. UNCHANGED profile /\ answer' = Nothing /\ wifiRequest' = NoRequest /\ up' = "boot"
      BY <1>14 DEF Crash, netVars
    <2> QED BY <1>0, <2>1 DEF HomeInv, Nothing, NoRequest, WifiSteps, Switching
  <1> QED BY <1>3, <1>4, <1>5, <1>6, <1>7, <1>8, <1>9, <1>10, <1>12, <1>13, <1>14
          DEF Next, Work

\* As long as nobody asks to replace the network the device was set up with, its
\* profile stays as it was, whatever switches fail and wherever the process
\* dies: apply() deletes and adds the profile asked for only (wifi.py:224-280).
HomeSurvives == HomeKept => [](profile[Home] = {"good"})

\* The safety half of BackOnNetwork: the network to come back to is never lost.
THEOREM HomeProfileSurvives == Spec => HomeSurvives
  <1> DEFINE Kept == want.net # Home
             Good == profile[Home] = {"good"}
  <1>1. RelayedInv /\ HomeInv /\ Kept /\ Kept' /\ [Next]_vars => HomeInv'
    <2>1. HomeInv /\ UNCHANGED vars => HomeInv'
      BY DEF HomeInv, vars, stashVars, netVars
    <2> QED BY <2>1, HomeStep DEF Kept
  <1>2. HomeInv => Good
    BY DEF HomeInv, Good
  <1>3. Init => HomeInv
    BY HomeInit
  <1> HIDE DEF Kept, Good
  <1>4. Spec /\ []Kept => []Good
    BY <1>1, <1>2, <1>3, RelayedInvariant, PTL DEF Spec
  <1> QED BY <1>4 DEF HomeSurvives, HomeKept, Kept, Good

=============================================================================
