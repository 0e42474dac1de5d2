--------------------------- MODULE RelayedRequests ---------------------------
(***************************************************************************)
(* What the signer asks of the device in its answers: a Wi-Fi scan or      *)
(* switch (src/agent/wifi.py) and a re-enrollment (src/agent/enroll.py),   *)
(* stashed by whichever thread got the answer and carried out by the       *)
(* uploader thread between frames (src/agent/uploader.py); and the first   *)
(* enrollment, before the threads start.  The process may die at any step. *)
(*                                                                         *)
(* External, from how the code and docs/protocol.md use them: the signer   *)
(* relays a request until its outcome is reported, and an enrollment token *)
(* until it is used; a token used once is good for the same secret only,   *)
(* and acceptance ends the old secret.  NetworkManager connects to any     *)
(* network in range that it has a good profile of; it keeps as many        *)
(* profiles of one name as it is given, and a command that fails may have  *)
(* done its work, or half of it.                                           *)
(***************************************************************************)
EXTENDS Integers

CONSTANTS Nets, Home,            \* networks in range; the one set up at first
          ReenrollAttempts,      \* REENROLL_ATTEMPTS
          MaxIncidents           \* bound: requests, tokens and crashes together

ASSUME RelayedAssumption ==
  /\ Home \in Nets /\ "none" \notin Nets
  /\ ReenrollAttempts \in Nat \ {0}
  /\ MaxIncidents \in Nat

None == 0
Off == "none"   \* no network

\* A Wi-Fi request: its id, and the network to switch to (Off: a scan) with
\* the right password or not.
Requests == [id : 1..MaxIncidents, net : Nets \cup {Off}, right : BOOLEAN]
NoRequest == [id |-> None, net |-> Off, right |-> TRUE]

\* Enrollment tokens, the first of which is in the env file; secrets are
\* numbered again once nobody holds them.
EnvToken == 1
Tokens == 1..(MaxIncidents + 1)
Secrets == 1..(MaxIncidents + 6)

VARIABLES
  want, posted,   \* signer: the Wi-Fi request it relays; requests posted so far
  relay, tokens,  \*   the enrollment token it relays; tokens issued
  usedBy, expired,\*   the secret each token was used with; tokens past their time
  live,           \*   the secret it accepts
  answer,         \* the answer on its way to the main thread
  wifiRequest, reenrollRequest,  \* Uploader._wifi_request, ._reenroll_request
  up, job,        \* where the uploader thread is: in tick ("idle"), in process() with a
                  \*   frame, or in a handler; the request in hand, with what its
                  \*   handler has in local variables
  handled, ack,   \* WifiManager._handled, per kind, and its file
  lastApplied, lastScan,         \* ids of the outcomes the status carries
  profile, active,\* NetworkManager: the profiles of each name, those with the right
                  \*   password "good"; and the connection
  file,           \* the credential file
  secret,         \* Uploader.device_token; None: not enrolled yet
  doneId,         \* Uploader._reenroll_done_id
  crashes,
  begun,          \* the last switch begun, whatever crashed since: saved as handled?
  lost            \* ids acknowledged, and still asked for when the process died; networks
                  \*   that it was switching to, or of which a command that failed may
                  \*   have left a bad profile

signerVars == <<want, posted, relay, tokens, usedBy, expired, live>>
stashVars == <<answer, wifiRequest, reenrollRequest>>
wifiVars == <<handled, ack, lastApplied, lastScan, begun>>
netVars == <<profile, active>>
enrollVars == <<file, secret, doneId>>
lifeVars == <<crashes, lost>>

vars == <<signerVars, stashVars, up, job, wifiVars, netVars, enrollVars, lifeVars>>

----------------------------------------------------------------------------
(* The operator, the signer and NetworkManager (external)                  *)

MoreToCome == posted + (tokens - 1) + crashes < MaxIncidents

PostRequest ==
  \E net \in Nets \cup {Off}, right \in BOOLEAN :
    /\ MoreToCome /\ (net = Off => right)
    /\ posted' = posted + 1
    /\ want' = [id |-> posted + 1, net |-> net, right |-> right]
    /\ UNCHANGED <<relay, tokens, usedBy, expired, live, stashVars, up, job,
                   wifiVars, netVars, enrollVars, lifeVars>>

IssueToken ==
  /\ MoreToCome /\ live # None
  /\ tokens' = tokens + 1 /\ relay' = tokens + 1
  /\ UNCHANGED <<want, posted, usedBy, expired, live, stashVars, up, job,
                 wifiVars, netVars, enrollVars, lifeVars>>

Expire ==
  /\ relay # None
  /\ expired' = expired \cup {relay} /\ relay' = None
  /\ UNCHANGED <<want, posted, tokens, usedBy, live, stashVars, up, job,
                 wifiVars, netVars, enrollVars, lifeVars>>

Autoconnect ==
  \E n \in Nets :
    /\ active = Off /\ "good" \in profile[n]
    /\ active' = n
    /\ UNCHANGED <<signerVars, stashVars, up, job, wifiVars, profile, enrollVars, lifeVars>>

\* The status of a /sign reports the outcomes; its answer carries what is asked.
Signed ==
  /\ active # Off /\ secret # None /\ secret = live
  /\ want' = IF want.id \in {lastApplied, lastScan} THEN NoRequest ELSE want
  /\ UNCHANGED <<posted, relay, tokens, usedBy, expired, live>>

Nothing == [wifi |-> NoRequest, token |-> None]
Asked == [wifi |-> want', token |-> relay]

\* _stash_wifi.
Stashed(a) ==
  /\ wifiRequest' = IF a.wifi # NoRequest THEN a.wifi ELSE wifiRequest
  /\ reenrollRequest' = IF a.token # None THEN a.token ELSE reenrollRequest

\* The main thread's heartbeat: its answer is under way while the uploader works.
MainSigns ==
  /\ answer = Nothing
  /\ Signed
  /\ answer' = Asked
  /\ UNCHANGED <<wifiRequest, reenrollRequest, up, job, wifiVars, netVars, enrollVars, lifeVars>>

MainStashes ==
  /\ answer # Nothing
  /\ Stashed(answer)
  /\ answer' = Nothing
  /\ UNCHANGED <<signerVars, up, job, wifiVars, netVars, enrollVars, lifeVars>>

\* The uploader's /sign: for a frame, as a probe, or as the forced report after
\* a switch.
UploaderSigns ==
  /\ up \in {"idle", "frame", "report"}
  /\ Signed /\ Stashed(Asked)
  /\ up' = IF up = "frame" THEN up ELSE "idle"
  /\ UNCHANGED <<answer, job, wifiVars, netVars, enrollVars, lifeVars>>

\* The forced report fails.
ReportFails ==
  /\ up = "report" /\ up' = "idle"
  /\ UNCHANGED <<signerVars, stashVars, job, wifiVars, netVars, enrollVars, lifeVars>>

----------------------------------------------------------------------------
(* The frames between which requests are served                            *)

\* tick looks for requests first, but one may come in while it waits for the frame.
TakeFrame ==
  /\ up = "idle" /\ up' = "frame"
  /\ UNCHANGED <<signerVars, stashVars, job, wifiVars, netVars, enrollVars, lifeVars>>

\* process() returns; it may also try one frame for ever.
FrameDone ==
  /\ up = "frame" /\ up' = "idle"
  /\ UNCHANGED <<signerVars, stashVars, job, wifiVars, netVars, enrollVars, lifeVars>>

----------------------------------------------------------------------------
(* _handle_wifi_request and WifiManager                                    *)

NoJob == [kind |-> "none"]
Kind(r) == IF r.net = Off THEN "scan" ELSE "apply"
Switch(r) == [kind |-> Kind(r), id |-> r.id, net |-> r.net, right |-> r.right, previous |-> Off]

\* The swap reads the stash, then clears it: what the main thread stashes in
\* between is gone until the signer relays it again.
TakeWifi ==
  /\ up = "idle" /\ wifiRequest # NoRequest
  /\ up' = "swap" /\ job' = Switch(wifiRequest)
  /\ UNCHANGED <<signerVars, stashVars, wifiVars, netVars, enrollVars, lifeVars>>

\* A request is handled unless it is the last one handled of its kind.
ClearWifi ==
  /\ up = "swap"
  /\ wifiRequest' = NoRequest
  /\ IF handled[job.kind] = job.id
     THEN up' = "idle" /\ job' = NoJob
     ELSE up' = job.kind /\ job' = job
  /\ UNCHANGED <<signerVars, answer, reenrollRequest, wifiVars, netVars, enrollVars, lifeVars>>

\* The id is noted and the ids are saved; a write error is only logged.
Acknowledge ==
  /\ handled' = [handled EXCEPT ![job.kind] = job.id]
  /\ ack' \in {ack, handled'}

Scan ==
  /\ up = "scan" /\ up' = "report" /\ job' = NoJob
  /\ lastScan' = job.id /\ Acknowledge
  /\ UNCHANGED <<signerVars, stashVars, lastApplied, begun, netVars, enrollVars, lifeVars>>

\* Mutant of AckedAt: acknowledged once the switch is done.
AckedAtTheEnd == "record"

\* The step of a switch at which its id is acknowledged.
AckedAt == "apply"

AckIfDue ==
  IF up = AckedAt THEN Acknowledge ELSE UNCHANGED <<handled, ack>>

BeginApply ==
  /\ up = "apply" /\ up' = "delete"
  /\ AckIfDue
  /\ begun' = [id |-> job.id, saved |-> up = AckedAt => ack'["apply"] = job.id]
  /\ UNCHANGED <<signerVars, stashVars, job, lastApplied, lastScan, netVars, enrollVars, lifeVars>>

Blame(n) == lost' = [lost EXCEPT !.nets = @ \cup {n}]

\* What a deletion, whose result is ignored, leaves of the profiles of a name:
\* none if it works, the rest if it is refused, missing or timed out.
Drop(n) ==
  \E rest \in SUBSET profile[n] :
    /\ profile' = [profile EXCEPT ![n] = rest]
    /\ \/ active' = active /\ (active = n => "good" \in rest)
       \/ active' = Off /\ active = n
    /\ lost' = [lost EXCEPT !.nets = IF "bad" \in rest THEN @ \cup {n} ELSE @ \ {n}]

\* apply() asks for the network in use (an answer may fail to come), and deletes
\* the profiles of the new one's name.
Delete ==
  /\ up = "delete" /\ up' = "add"
  /\ \E previous \in {active, Off} : job' = [job EXCEPT !.previous = previous]
  /\ Drop(job.net)
  /\ UNCHANGED <<signerVars, stashVars, wifiVars, enrollVars, crashes>>

Added == [profile EXCEPT ![job.net] = @ \cup {IF job.right THEN "good" ELSE "bad"}]

\* connection add; if that fails there is no fallback, nor is a profile deleted
\* that it added before it timed out.
Add ==
  /\ up = "add"
  /\ \/ up' = "connect" /\ profile' = Added /\ lost' = lost
     \/ up' = "record" /\ profile' = profile /\ lost' = lost
     \/ /\ up' = "record" /\ profile' = Added
        /\ IF job.right THEN lost' = lost ELSE Blame(job.net)
  /\ UNCHANGED <<signerVars, stashVars, job, wifiVars, active, enrollVars, crashes>>

\* When apply() returns, its local variable is gone.
Switched == [job EXCEPT !.previous = Off]

\* connection up: with an older profile of that name, if its deletion failed, a
\* wrong password goes unnoticed.  A failure comes before or after the old network
\* is left.
Connect ==
  /\ up = "connect"
  /\ \/ /\ up' = "record"
        /\ "good" \in profile[job.net] /\ active' = job.net
        /\ IF job.right THEN lost' = lost ELSE Blame(job.net)
        /\ job' = Switched
     \/ up' = "fallback" /\ active' \in {active, Off} /\ job' = job /\ lost' = lost
  /\ UNCHANGED <<signerVars, stashVars, wifiVars, profile, enrollVars, crashes>>

\* The fallback time leaves autoconnect a chance; then the previous network is
\* pushed, if none is active or it cannot be told (which may fail too).
Retreat ==
  /\ up = "fallback" /\ up' = "cleanup"
  /\ \/ active' = active
     \/ job.previous # Off /\ "good" \in profile[job.previous] /\ active' = job.previous
     \/ job.previous # Off /\ active' = Off
  /\ UNCHANGED <<signerVars, stashVars, job, wifiVars, profile, enrollVars, lifeVars>>

\* Mutants of Discarded: the network left is deleted for the one that failed;
\* nothing is.
DiscardedPrevious == job.previous
DiscardedNone == Off

\* The name whose profiles are deleted after a failed switch.
Discarded == job.net

CleanUp ==
  /\ up = "cleanup" /\ up' = "record"
  /\ IF Discarded = Off THEN UNCHANGED <<netVars, lost>> ELSE Drop(Discarded)
  /\ job' = Switched
  /\ UNCHANGED <<signerVars, stashVars, wifiVars, enrollVars, crashes>>

\* Mutant of Outcome: a switch that failed leaves none.
OutcomeIfConnected == IF active = job.net THEN job.id ELSE lastApplied

\* The id of the outcome that is reported from now on.
Outcome == job.id

Record ==
  /\ up = "record" /\ up' = "report" /\ job' = NoJob
  /\ lastApplied' = Outcome
  /\ AckIfDue
  /\ UNCHANGED <<signerVars, stashVars, lastScan, begun, netVars, enrollVars, lifeVars>>

----------------------------------------------------------------------------
(* _handle_reenroll, resolve_identity and enroll                           *)

Trade(token, first) ==
  [kind |-> "enroll", token |-> token, first |-> first, secret |-> None, tries |-> 0]

\* The process starts: the credential file, or the token of the env file.
Boot ==
  /\ up = "boot"
  /\ \/ file.secret # None /\ secret' = file.secret /\ up' = "idle" /\ job' = NoJob
     \/ /\ file.secret = None
        /\ up' = "pend" /\ job' = Trade(EnvToken, TRUE) /\ secret' = secret
  /\ UNCHANGED <<signerVars, stashVars, wifiVars, netVars, file, doneId, lifeVars>>

TakeReenroll ==
  /\ up = "idle" /\ reenrollRequest # None
  /\ up' = "swapToken" /\ job' = Trade(reenrollRequest, FALSE)
  /\ UNCHANGED <<signerVars, stashVars, wifiVars, netVars, enrollVars, lifeVars>>

ClearReenroll ==
  /\ up = "swapToken"
  /\ reenrollRequest' = None
  /\ IF job.token = doneId
     THEN up' = "idle" /\ job' = NoJob
     ELSE up' = "pend" /\ job' = job
  /\ UNCHANGED <<signerVars, answer, wifiRequest, wifiVars, netVars, enrollVars, lifeVars>>

\* enroll() raises: at the start that ends the process, and systemd restarts it.
Raises == job' = NoJob /\ up' = IF job.first THEN "boot" ELSE "idle"

\* A secret nobody has.
Fresh ==
  CHOOSE s \in Secrets : s \notin {live, secret, file.secret, file.pending}
                                  \cup {usedBy[t] : t \in Tokens}

\* Mutant of Stored: the pending secret is only kept in memory.
StoredInMemory(s) == file

\* The file with a pending secret.
Stored(s) == [file EXCEPT !.pending = s]

\* A pending secret is traded again; otherwise one is made, and written first
\* (which may raise OSError).
Pend ==
  /\ up = "pend"
  /\ \/ /\ file.pending # None
        /\ job' = [job EXCEPT !.secret = file.pending] /\ up' = "post" /\ file' = file
     \/ /\ file.pending = None
        /\ job' = [job EXCEPT !.secret = Fresh] /\ up' = "post" /\ file' = Stored(Fresh)
     \/ file.pending = None /\ Raises /\ file' = file
  /\ UNCHANGED <<signerVars, stashVars, wifiVars, netVars, secret, doneId, lifeVars>>

\* The signer: a token not used yet, or used with the same secret.
Accepts(t, s) == usedBy[t] = s \/ (usedBy[t] = None /\ t \notin expired)

Accepted ==
  /\ active # Off /\ Accepts(job.token, job.secret)
  /\ usedBy' = [usedBy EXCEPT ![job.token] = job.secret]
  /\ live' = IF usedBy[job.token] = None THEN job.secret ELSE live
  /\ relay' = IF relay = job.token THEN None ELSE relay
  /\ UNCHANGED <<want, posted, tokens, expired>>

PostAnswered ==
  /\ up = "post" /\ up' = "write"
  /\ Accepted
  /\ UNCHANGED <<stashVars, job, wifiVars, netVars, enrollVars, lifeVars>>

\* Mutant of OutOfAttempts: the count is compared before it is raised.
OutOfAttemptsLate == ~job.first /\ job.tries = ReenrollAttempts

\* max_attempts is not set at the start: it tries for ever.
OutOfAttempts == ~job.first /\ job.tries + 1 = ReenrollAttempts

\* Mutant of DoneAfterFailure: no failed token is tried again.
DoneAfterAnyFailure == job.token

\* _reenroll_done_id after a transport failure.
DoneAfterFailure == doneId

\* A 5xx, no connection, or an answer that is lost.
PostFails ==
  /\ up = "post"
  /\ Accepted \/ UNCHANGED signerVars
  /\ \/ OutOfAttempts /\ Raises /\ doneId' = DoneAfterFailure
     \/ /\ ~OutOfAttempts /\ up' = up /\ doneId' = doneId
        /\ job' = [job EXCEPT !.tries = IF job.first THEN 0 ELSE @ + 1]
  /\ UNCHANGED <<stashVars, wifiVars, netVars, file, secret, lifeVars>>

\* A 4xx: the pending secret is dropped, and the token not tried again, unless
\* writing that fails.
PostRefused ==
  /\ up = "post"
  /\ active # Off /\ ~Accepts(job.token, job.secret)
  /\ \/ /\ file' = [file EXCEPT !.pending = None]
        /\ doneId' = IF job.first THEN doneId ELSE job.token
     \/ UNCHANGED <<file, doneId>>
  /\ Raises
  /\ UNCHANGED <<signerVars, stashVars, wifiVars, netVars, secret, lifeVars>>

\* Mutant of Unwritten: a failed write of the new credential goes unnoticed.
UnwrittenAnyway == up' = "adopt" /\ job' = job

\* The write of the new credential fails.
Unwritten == Raises

WriteCredential ==
  /\ up = "write"
  /\ \/ /\ file' = [secret |-> job.secret, pending |-> None]
        /\ up' = "adopt" /\ job' = job
     \/ file' = file /\ Unwritten
  /\ UNCHANGED <<signerVars, stashVars, wifiVars, netVars, secret, doneId, lifeVars>>

Adopt ==
  /\ up = "adopt" /\ up' = "idle" /\ job' = NoJob
  /\ secret' = job.secret
  /\ doneId' = IF job.first THEN doneId ELSE job.token
  /\ UNCHANGED <<signerVars, stashVars, wifiVars, netVars, file, lifeVars>>

----------------------------------------------------------------------------
Switching == {"delete", "add", "connect", "fallback", "cleanup"}

\* The process dies and is restarted; memory is lost.
Crash ==
  /\ MoreToCome /\ crashes' = crashes + 1
  /\ lost' = [ids |-> lost.ids \cup (({want.id} \cap {ack["scan"], ack["apply"]}) \ {None}),
              nets |-> lost.nets \cup (IF up \in Switching THEN {job.net} ELSE {})]
  /\ up' = "boot" /\ job' = NoJob
  /\ answer' = Nothing /\ wifiRequest' = NoRequest /\ reenrollRequest' = None
  /\ handled' = ack /\ lastApplied' = None /\ lastScan' = None
  /\ secret' = None /\ doneId' = None
  /\ UNCHANGED <<signerVars, ack, begun, netVars, file>>

\* The device has a credential, or not yet.
Init ==
  /\ want = NoRequest /\ posted = 0
  /\ relay = None /\ tokens = 1 /\ expired = {}
  /\ \E s \in {None, 1} :
       /\ live = s /\ usedBy = [t \in Tokens |-> IF t = EnvToken THEN s ELSE None]
       /\ file = [secret |-> s, pending |-> None]
  /\ answer = Nothing /\ wifiRequest = NoRequest /\ reenrollRequest = None
  /\ up = "boot" /\ job = NoJob
  /\ handled = [k \in {"scan", "apply"} |-> None] /\ ack = handled
  /\ lastApplied = None /\ lastScan = None
  /\ begun = [id |-> None, saved |-> TRUE]
  /\ profile = [n \in Nets |-> IF n = Home THEN {"good"} ELSE {}] /\ active = Off
  /\ secret = None /\ doneId = None
  /\ crashes = 0 /\ lost = [ids |-> {}, nets |-> {}]

Work ==
  \/ ClearWifi \/ Scan \/ BeginApply \/ Delete \/ Add \/ Connect \/ Retreat
  \/ CleanUp \/ Record \/ ReportFails
  \/ Boot \/ ClearReenroll \/ Pend \/ PostAnswered \/ PostFails \/ PostRefused
  \/ WriteCredential \/ Adopt

Next ==
  \/ PostRequest \/ IssueToken \/ Expire \/ Autoconnect
  \/ MainSigns \/ MainStashes \/ UploaderSigns
  \/ TakeFrame \/ FrameDone \/ TakeWifi \/ TakeReenroll \/ Work
  \/ Crash

Spec == Init /\ [][Next]_vars

\* What is stashed is taken once the uploader is between frames time and again;
\* that it is, is nowhere assumed.  One of the threads signs: the uploader for
\* frames, the main thread while there are none.
FairSpec ==
  /\ Spec
  /\ WF_vars(Work) /\ WF_vars(MainStashes) /\ WF_vars(Autoconnect)
  /\ SF_vars(TakeWifi) /\ SF_vars(TakeReenroll) /\ SF_vars(MainSigns \/ UploaderSigns)
  /\ SF_vars(Pend /\ up' = "post") /\ SF_vars(PostAnswered)
  /\ SF_vars(WriteCredential /\ file' # file)

----------------------------------------------------------------------------
(* Properties                                                              *)

Ids == 0..MaxIncidents

TypeOK ==
  /\ want \in Requests \cup {NoRequest} /\ wifiRequest \in Requests \cup {NoRequest}
  /\ posted \in Ids
  /\ relay \in Tokens \cup {None} /\ reenrollRequest \in Tokens \cup {None}
  /\ live \in Secrets \cup {None} /\ secret \in Secrets \cup {None}
  /\ file \in [secret : Secrets \cup {None}, pending : Secrets \cup {None}]
  /\ handled \in [{"scan", "apply"} -> Ids] /\ ack \in [{"scan", "apply"} -> Ids]
  /\ active \in Nets \cup {Off}
  /\ active # Off => "good" \in profile[active]
  /\ job.kind = "enroll" => job.tries < ReenrollAttempts

\* A switch whose id could be saved is begun once, through crashes, unless
\* another was begun in between: repeated answers and a restart mid-apply do
\* not begin it again (wifi.py:18-19 and 175-177).
AppliedOnce ==
  [][up = "apply" /\ up' = "delete" => begun.id # job.id \/ ~begun.saved]_vars

\* A profile with a wrong password is there while its switch is under way, and
\* otherwise only where a switch was broken off by a crash, a deletion failed, or
\* an addition did its work and failed all the same (wifi.py:12-14, 234, 251-256,
\* 275), until a later deletion works.
BadProfileGone ==
  \A n \in Nets : "bad" \in profile[n] =>
    (up \in Switching /\ job.net = n) \/ n \in lost.nets

OnDisk == live \in {None, file.secret, file.pending}

\* The secret the signer accepts is in the credential file, live or pending,
\* whichever answers were lost, writes failed and restarts came between; only
\* the refusal of a token that it was not accepted for drops it (enroll.py:4-6,
\* 140-143).
SecretOnDisk ==
  [][OnDisk => OnDisk' \/ (up = "post" /\ up' # "post" /\ usedBy[job.token] # live)]_vars

\* A restart finds the credential that works now (enroll.py:13-14, uploader.py:433).
WorkingSurvivesRestart ==
  secret # None /\ secret = live => file.secret = live

HomeKept == [](want.net # Home)
Working == secret # None /\ secret = live

\* As long as nobody asks to replace the network it was set up with, the device
\* is on a network again after every switch, failed or broken off (wifi.py:12-14).
BackOnNetwork == HomeKept => []<>(active # Off)

\* On such a device, with a credential that works time and again, and unless one
\* frame is tried for ever (uploader.py:345), every Wi-Fi request is reported or
\* replaced by a newer one (of which there are finitely many here), except the one
\* a crash left acknowledged and unreported (wifi.py:3-7).
RequestAnswered ==
  HomeKept /\ []<>Working /\ []<>(up # "frame") => []<>(want.id \in {None} \cup lost.ids)

\* And so is every relayed token traded, replaced or past its time
\* (uploader.py:414-417).
TokenTraded ==
  HomeKept /\ []<>Working /\ []<>(up # "frame") => []<>(relay = None)

\* A device without a credential gets one in the end, whatever answers are lost,
\* writes fail and restarts come between (enroll.py:4-6 and 111-112).
FirstEnrollmentEnds == live = None ~> Working

=============================================================================
