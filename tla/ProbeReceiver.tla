-------------------------- MODULE ProbeReceiver --------------------------
(***************************************************************************)
(* src/probe-receiver.mjs: the private staging harness that authorises one *)
(* upstream session check and, in the scopes that admit it, one upstream   *)
(* body fetch, receives the chunks of each result and keeps the committed  *)
(* bytes as evidence.  One row of the database holds the whole state of    *)
(* the root; every request is handled in one transaction that writes the   *)
(* row, the request count and the reply together.  The transfer file and   *)
(* the artifact files are written outside that transaction, the session    *)
(* buffer lives in memory only.                                            *)
(*                                                                         *)
(* The requests a caller may send at any moment are arbitrary: every       *)
(* operation is an action, and the two Refuse actions stand for the        *)
(* requests that change nothing but the count of requests.                 *)
(***************************************************************************)
EXTENDS Integers, Sequences, FiniteSets

CONSTANTS
  Null,            \* the null of the JSON state
  Lost,            \* an artifact file that is missing, unsafe or altered
  Scopes,          \* the scopes a root may be created with
  Browsers,        \* browser_instance_id values
  Collectors,      \* document_id or collector_instance_id values
  Data,            \* the contents one chunk may carry
  ArtifactIds,     \* the random ids an artifact may get
  FailureClasses,  \* the failure_class values a collector reports
  RetryDelays,     \* usable Retry-After delays
  WellFormed(_, _), \* the complete bytes of a kind are UTF-8, JSON, canonical
  Accepts(_, _),   \* well-formed bytes name the bound identity, or are the body asked for
  PermitMs,        \* lifetime of a lease and of a permit
  SpacingMs,       \* pause between a permit's end and the next permit
  SkewMs,          \* tolerated divergence of wall and monotonic time
  CooldownMs,      \* least cooldown after a rate limit
  MaxChunks,       \* chunks a transfer may hold
  MaxRequests,     \* requests a root may serve
  MaxTime,         \* bound of the model: largest clock reading
  MaxBoots,        \* bound of the model: boots of the machine
  MaxOpens         \* bound of the model: openings of the root

AllScopes == {"conversation", "session-only", "setup-inspection",
              "background-setup-inspection", "background-selected-conversation"}
SetupScopes == {"setup-inspection", "background-setup-inspection"}
BodyScopes == {"conversation", "background-selected-conversation"}
BackgroundScopes == {"background-setup-inspection", "background-selected-conversation"}

Kinds == {"session-check", "body"}

SetupStages == {"setup_complete", "background_setup_complete"}
BodyStages == {"probe_complete", "background_probe_complete"}
TerminalStages == SetupStages \cup BodyStages
Stages == {"new", "session_claimed", "session_permit", "session_started",
           "session_partial", "session_committed", "body_permit", "body_started",
           "body_partial", "blocked"} \cup TerminalStages

\* Mistake: the class itself becomes the blocker.
BlockerOfRaw(class) == class

\* What a reported failure_class leaves as the root's blocker.
BlockerOf(class) ==
  CASE class = "rate_limited" -> "cooldown"
    [] class = "auth_required" -> "login_required"
    [] class = "challenge" -> "challenge_required"
    [] class \in {"schema_changed", "identity_mismatch"} -> class
    [] OTHER -> "blocked"

Blockers == {"dispatch_uncertain", "clock_untrusted", "local_conflict",
             "recovery_evidence_missing", "invalid_body", "identity_mismatch",
             "budget_exhausted", "cooldown", "login_required",
             "challenge_required", "schema_changed", "blocked"}

ASSUME ReceiverAssumption ==
  /\ Scopes \subseteq AllScopes
  /\ PermitMs \in Nat /\ SpacingMs \in Nat /\ SkewMs \in Nat /\ CooldownMs \in Nat
  /\ RetryDelays \subseteq Nat
  /\ MaxChunks \in Nat /\ MaxRequests \in Nat
  /\ MaxTime \in Nat /\ MaxBoots \in Nat /\ MaxOpens \in Nat

Clocks == [wall : Nat, mono : Nat, boot : Nat]
Deadlines == [wall : Nat, mono : Nat]
Permits == [kind : Kinds, status : {"granted", "started", "failed", "uncertain"},
            until : Deadlines, next : Nat]
Evidence == [artifact : ArtifactIds, content : Seq(Data)]
Origins == [at : Clocks, browser : Browsers, collector : Collectors, opening : Nat]

\* null is distinct from every value a field holds when it is set.
ASSUME NullAssumption ==
  /\ Null \notin Blockers \cup Browsers \cup Collectors
  /\ Null \notin Deadlines /\ Null \notin Permits
  /\ Null \notin Evidence /\ Null \notin Origins
  /\ Null # Lost /\ \A n \in 0..MaxChunks : Null \notin [1..n -> Data]

VARIABLES
  \* the row of probe_state
  scope, stage, blocker, claimed, attested, bodyReady, browser, collector,
  leaseUntil, permit, nextPermit, lastClock, evidence, requestCount, cooldown,
  receipts,  \* the commit_result successes kept in request_receipts
  \* files of the root
  part,      \* transfers/<permit>.part, with the rows of chunks
  disk,      \* artifacts/<id>.json
  \* the process
  mode,      \* "up", "faulted" after an I/O fault, "down"
  mem,       \* sessionBuffers and sessionChunks
  clock,     \* what readClock returns
  \* history, read by the properties only
  opens,     \* how often the root has been opened
  fetches,   \* accepted dispatch_started requests of each kind
  origin     \* the last accepted dispatch of each kind

statusVars  == <<stage, blocker>>
claimVars   == <<claimed, browser, leaseUntil>>
permitVars  == <<permit, nextPermit, collector>>
proofVars   == <<attested, bodyReady, evidence, receipts>>
fileVars    == <<part, disk>>
processVars == <<mode, mem, opens>>
historyVars == <<fetches, origin>>

vars == <<scope, statusVars, claimVars, permitVars, proofVars, lastClock,
          requestCount, cooldown, fileVars, processVars, clock, historyVars>>

TypeOK ==
  /\ scope \in Scopes
  /\ stage \in Stages
  /\ blocker \in Blockers \cup {Null}
  /\ claimed \in BOOLEAN /\ attested \in BOOLEAN /\ bodyReady \in BOOLEAN
  /\ browser \in Browsers \cup {Null}
  /\ collector \in Collectors \cup {Null}
  /\ leaseUntil \in Deadlines \cup {Null}
  /\ permit \in Permits \cup {Null}
  /\ nextPermit \in Deadlines \cup {Null}
  /\ lastClock \in Clocks
  /\ evidence \in [Kinds -> Evidence \cup {Null}]
  /\ requestCount \in Nat
  /\ cooldown \in [until : Nat, unbounded : BOOLEAN] \cup {Null}
  /\ receipts \subseteq Evidence
  /\ part \in Seq(Data)
  /\ disk \in [ArtifactIds -> Seq(Data) \cup {Null, Lost}]
  /\ mode \in {"up", "faulted", "down"}
  /\ mem \in Seq(Data)
  /\ clock \in Clocks
  /\ opens \in Nat
  /\ fetches \in [Kinds -> Nat]
  /\ origin \in [Kinds -> Origins \cup {Null}]

-----------------------------------------------------------------------------
(* Deadlines and the trusted clock *)

In(ms) == [wall |-> clock.wall + ms, mono |-> clock.mono + ms]
Passed(d) == clock.wall > d.wall \/ clock.mono > d.mono
Ahead(d) == clock.wall < d.wall \/ clock.mono < d.mono

\* The reading a timed request is handled at continues the last trusted one.
ClockTrusted ==
  LET drift == (clock.wall - lastClock.wall) - (clock.mono - lastClock.mono)
  IN /\ clock.boot = lastClock.boot
     /\ clock.mono >= lastClock.mono
     /\ clock.wall >= lastClock.wall
     /\ drift <= SkewMs /\ -drift <= SkewMs

-----------------------------------------------------------------------------
(* What every request goes through *)

\* Mistake: a claimed lease of a body scope counts as a proven session.
BodyReadyOnceClaimed == scope \in BodyScopes /\ claimed

BodyReady == attested \/ bodyReady
WorkUnit == IF BodyReady THEN "body" ELSE "session-check"
SetupTerminal == IF scope \in BackgroundScopes THEN "background_setup_complete"
                                                ELSE "setup_complete"
SetupDone == scope \in SetupScopes /\ stage = SetupTerminal

\* The session-only scope refuses every operation that leads to a fetch.
SessionDone == scope = "session-only" /\ attested
Open4Work == blocker = Null /\ stage \notin TerminalStages

\* Mistake: the stage keeps saying what the root was doing.
BlockInPlace(b) == blocker' = b /\ stage' = stage

Block(b) == blocker' = b /\ stage' = "blocked"

\* A request reaches its handler and its transaction commits.
Served ==
  /\ mode = "up"
  /\ requestCount < MaxRequests
  /\ requestCount' = requestCount + 1
  /\ UNCHANGED <<scope, mode, opens, clock>>

\* claim_work, request_permit and dispatch_started first check the clock.
ServedOnTime ==
  /\ Served
  /\ ~SetupDone
  /\ blocker = Null /\ ClockTrusted
  /\ lastClock' = clock

ServedAnyTime == Served /\ UNCHANGED lastClock

\* A timed request whose clock does not continue the last trusted reading.
DistrustClock ==
  /\ Served
  /\ ~SetupDone
  /\ blocker = Null /\ ~ClockTrusted
  /\ Block("clock_untrusted")
  /\ UNCHANGED <<claimVars, permitVars, proofVars, lastClock, cooldown, fileVars,
                 mem, historyVars>>

\* A timed request that a handler refuses, or answers without a change of state.  What
\* process itself refuses, before the request is counted, is stuttering.
RefuseOnTime ==
  /\ ServedOnTime
  /\ UNCHANGED <<statusVars, claimVars, permitVars, proofVars, cooldown, fileVars,
                 mem, historyVars>>

\* hello, and any other request that leaves the state as it is.
Refuse ==
  /\ ServedAnyTime
  /\ UNCHANGED <<statusVars, claimVars, permitVars, proofVars, cooldown, fileVars,
                 mem, historyVars>>

\* A new request once the budget is spent: it is neither counted nor recorded.
ExhaustBudget ==
  /\ mode = "up"
  /\ requestCount >= MaxRequests
  /\ Block("budget_exhausted")
  /\ UNCHANGED <<scope, claimVars, permitVars, proofVars, lastClock, requestCount,
                 cooldown, fileVars, processVars, clock, historyVars>>

-----------------------------------------------------------------------------
(* claim_work *)

\* Whom the request names: nobody yet, the configured binding, or another.
Principals == {"unknown", "bound", "other"}

ClaimAdmitted(b, who) ==
  /\ Open4Work
  /\ ~SessionDone
  /\ scope = "session-only" => who = "unknown"
  /\ browser \in {Null, b}

PrincipalMatches(who) == who = (IF BodyReady THEN "bound" ELSE "unknown")

LeaseLapsed == leaseUntil # Null /\ Passed(leaseUntil) /\ stage # "session_committed"

Claim(b, who) ==
  /\ ServedOnTime
  /\ ClaimAdmitted(b, who) /\ PrincipalMatches(who) /\ ~LeaseLapsed
  /\ browser' = b
  /\ claimed' = TRUE
  /\ stage' = IF claimed THEN stage ELSE "session_claimed"
  /\ leaseUntil' = In(PermitMs)
  /\ UNCHANGED <<blocker, permitVars, proofVars, cooldown, fileVars, mem, historyVars>>

\* A first claim that names a principal is refused, and pins its browser.
ClaimMismatch(b, who) ==
  /\ ServedOnTime
  /\ ClaimAdmitted(b, who) /\ ~PrincipalMatches(who)
  /\ browser' = b
  /\ UNCHANGED <<statusVars, claimed, leaseUntil, permitVars, proofVars, cooldown,
                 fileVars, mem, historyVars>>

-----------------------------------------------------------------------------
(* request_permit *)

\* Mistake: the pause counts from the grant, so a late dispatch eats it up.
PauseFromGrant == In(SpacingMs)

\* The pause counts from the end of the permit, the latest possible dispatch.
PauseFromPermitEnd == In(PermitMs + SpacingMs)

MayPermit ==
  /\ claimed /\ ~SessionDone
  /\ Open4Work
  /\ leaseUntil # Null => ~Passed(leaseUntil)
  /\ permit # Null => permit.status = "failed"
  /\ nextPermit # Null => ~Ahead(nextPermit)

\* A new permit has a random id: its transfer starts empty.
RequestPermit ==
  /\ ServedOnTime
  /\ MayPermit
  /\ permit' = [kind |-> WorkUnit, status |-> "granted", until |-> In(PermitMs), next |-> 0]
  /\ nextPermit' = PauseFromPermitEnd
  /\ stage' = IF WorkUnit = "body" THEN "body_permit" ELSE "session_permit"
  /\ part' = <<>> /\ mem' = <<>>
  /\ UNCHANGED <<blocker, claimVars, collector, proofVars, cooldown, disk, historyVars>>

-----------------------------------------------------------------------------
(* dispatch_started *)

\* Mistake: a blocked root still honours its permit.
PermitIsThough(statuses) == permit # Null /\ permit.status \in statuses

PermitIs(statuses) == blocker = Null /\ permit # Null /\ permit.status \in statuses

\* Mistake: a dispatch announced again under a new request id counts again.
DispatchableAgain == PermitIs({"granted", "started"})

Dispatchable == PermitIs({"granted"})

\* Mistake: each dispatch may name a collector of its own.
AnyCollector(c) == TRUE

\* The collector of the first dispatch is the only one.
SameCollector(c) == collector \in {Null, c}

\* The request names the pinned browser and the collector of the first dispatch.
DispatchStarted(b, c) ==
  /\ ServedOnTime
  /\ ~SessionDone
  /\ Dispatchable /\ ~Passed(permit.until)
  /\ browser = b /\ SameCollector(c)
  /\ permit' = [permit EXCEPT !.status = "started"]
  /\ collector' = c
  /\ stage' = IF permit.kind = "body" THEN "body_started" ELSE "session_started"
  /\ fetches' = [fetches EXCEPT ![permit.kind] = @ + 1]
  /\ origin' = [origin EXCEPT ![permit.kind] =
                  [at |-> clock, browser |-> b, collector |-> c, opening |-> opens]]
  /\ UNCHANGED <<blocker, claimVars, nextPermit, proofVars, cooldown, fileVars, mem>>

\* A dispatch announced after its permit ended may already be under way.
DispatchLate ==
  /\ ServedOnTime
  /\ ~SessionDone
  /\ Dispatchable /\ Passed(permit.until)
  /\ Block("dispatch_uncertain")
  /\ UNCHANGED <<claimVars, permitVars, proofVars, cooldown, fileVars, mem, historyVars>>

-----------------------------------------------------------------------------
(* result_chunk *)

\* The bytes of the transfer: in memory for a session, in the part file for a body.
Received == IF permit.kind = "session-check" THEN mem ELSE part

Chunk(x) ==
  /\ ServedAnyTime
  /\ PermitIs({"started"}) /\ permit.next < MaxChunks
  /\ permit' = [permit EXCEPT !.next = @ + 1]
  /\ \/ permit.kind = "session-check" /\ mem' = Append(mem, x) /\ UNCHANGED part
     \/ permit.kind = "body" /\ part' = Append(part, x) /\ UNCHANGED mem
  /\ stage' = IF permit.kind = "body" THEN "body_partial" ELSE "session_partial"
  /\ UNCHANGED <<blocker, claimVars, nextPermit, collector, proofVars, cooldown, disk,
                 historyVars>>

\* An earlier sequence number with other bytes; with the same bytes it is
\* acknowledged again, which is Refuse.
ChunkConflict(sequence, x) ==
  /\ ServedAnyTime
  /\ PermitIs({"started"})
  /\ sequence < permit.next
  /\ sequence < Len(Received) => Received[sequence + 1] # x
  /\ Block("local_conflict")
  /\ UNCHANGED <<claimVars, permitVars, proofVars, cooldown, fileVars, mem, historyVars>>

-----------------------------------------------------------------------------
(* commit_result *)

\* The request counts the chunks the receiver holds; `exact` says whether the
\* digest it names is the digest of those bytes.
MayCommit(count) == PermitIs({"started"}) /\ count >= 1 /\ count = permit.next

CommitVerdict(exact) ==
  IF Received = <<>> THEN "recovery_evidence_missing"
  ELSE IF ~exact \/ Len(Received) # permit.next THEN "invalid_body"
  ELSE IF ~WellFormed(permit.kind, Received) THEN "invalid_body"
  ELSE IF Accepts(permit.kind, Received) THEN "valid"
  ELSE IF permit.kind = "body" THEN "invalid_body" ELSE "identity_mismatch"

CommitRejected(count, exact) ==
  /\ ServedAnyTime
  /\ MayCommit(count) /\ CommitVerdict(exact) # "valid"
  /\ Block(CommitVerdict(exact))
  /\ UNCHANGED <<claimVars, permitVars, proofVars, cooldown, fileVars, mem, historyVars>>

\* Mistake: whatever is not a setup root attests the workspace.
AttestsUnlessSetup == scope \notin SetupScopes

\* A background session proves the configured account, not the visible workspace.
Attests == scope \in {"conversation", "session-only"}

\* Mistake: the file is left to be written after the transaction.
WriteArtifactLater(a) == disk[a] = Null /\ disk' = disk

\* The artifact is created, written and synced before the transaction commits.
WriteArtifact(a) ==
  /\ disk[a] = Null
  /\ disk' = [disk EXCEPT ![a] = Received]

CommittedStage ==
  IF permit.kind = "body"
  THEN IF scope \in BackgroundScopes THEN "background_probe_complete" ELSE "probe_complete"
  ELSE IF scope \in SetupScopes THEN SetupTerminal ELSE "session_committed"

CommitAccepted(count, a) ==
  LET proof == [artifact |-> a, content |-> Received]
  IN /\ ServedAnyTime
     /\ MayCommit(count) /\ CommitVerdict(TRUE) = "valid"
     /\ WriteArtifact(a)
     /\ evidence' = [evidence EXCEPT ![permit.kind] = proof]
     /\ receipts' = receipts \cup {proof}
     /\ attested' = (IF permit.kind = "session-check"
                       THEN Attests
                       ELSE attested /\ scope \notin BackgroundScopes)
     /\ bodyReady' = (bodyReady \/ ( /\ permit.kind = "session-check"
                                    /\ scope = "background-selected-conversation"))
     /\ stage' = CommittedStage
     /\ permit' = Null
     /\ UNCHANGED <<blocker, claimVars, nextPermit, collector, cooldown, part, mem,
                    historyVars>>

\* The stored evidence still has the bytes that were committed.
Intact(proof) == disk[proof.artifact] = proof.content

\* Mistake: the receipt is enough.
ReplayableByReceipt(proof) == blocker # "recovery_evidence_missing"

\* The success of a repeated commit_result is replayed: its artifact is one the row still
\* names, and its bytes are those of the receipt.
Replayable(proof) ==
  /\ blocker # "recovery_evidence_missing"
  /\ \E k \in Kinds : evidence[k] # Null /\ evidence[k].artifact = proof.artifact
  /\ Intact(proof)

\* Otherwise the root is blocked.  The replay of a success changes nothing.
ReplayUnproven(proof) ==
  /\ mode = "up"
  /\ proof \in receipts
  /\ ~Replayable(proof)
  /\ Block("recovery_evidence_missing")
  /\ UNCHANGED <<scope, claimVars, permitVars, proofVars, lastClock, requestCount,
                 cooldown, fileVars, processVars, clock, historyVars>>

-----------------------------------------------------------------------------
(* request_failed and reconcile_dispatch *)

Later(a, b) == IF a >= b THEN a ELSE b

\* Mistake: the wall clock alone says when the limit was met.
WallReading == clock.wall

LatestReading == Later(clock.wall, lastClock.wall)

\* The clock never shortens a deadline: the later of this reading and the last
\* trusted one counts.  `delay` is a usable Retry-After, 0 when there is none;
\* an overflowing one leaves no deadline to wait for.
CooldownFrom(delay, overflow) ==
  LET at == LatestReading
      floor == Later(at + CooldownMs, IF cooldown = Null THEN 0 ELSE cooldown.until)
  IN [until |-> IF overflow THEN floor ELSE Later(floor, at + delay),
      unbounded |-> overflow \/ (cooldown # Null /\ cooldown.unbounded)]

RequestFailed(class, delay, overflow) ==
  /\ ServedAnyTime
  /\ PermitIs({"granted", "started"})
  /\ permit' = [permit EXCEPT !.status = "failed"]
  /\ Block(BlockerOf(class))
  /\ cooldown' = IF class = "rate_limited" THEN CooldownFrom(delay, overflow) ELSE cooldown
  /\ UNCHANGED <<claimVars, nextPermit, collector, proofVars, fileVars, mem, historyVars>>

ReconcileDispatch ==
  /\ ServedAnyTime
  /\ scope \notin BackgroundScopes
  /\ PermitIs({"granted", "started"})
  /\ permit' = [permit EXCEPT !.status = "uncertain"]
  /\ Block("dispatch_uncertain")
  /\ UNCHANGED <<claimVars, nextPermit, collector, proofVars, cooldown, fileVars, mem,
                 historyVars>>

-----------------------------------------------------------------------------
(* Faults, crashes and recovery *)

\* The process stops, by close() or by a crash, or an I/O fault makes the
\* instance refuse all further requests.
Stop ==
  \/ mode = "up" /\ mode' = "faulted" /\ UNCHANGED mem
  \/ mode # "down" /\ mode' = "down" /\ mem' = <<>>

\* The database does not change: the transaction in progress is rolled back.
RolledBack ==
  UNCHANGED <<scope, statusVars, claimVars, permitVars, proofVars, lastClock,
              requestCount, cooldown, opens, clock, historyVars>>

Halt == Stop /\ RolledBack /\ UNCHANGED fileVars

\* Interrupted between a file's write and the commit of the transaction.
HaltDuringChunk(x) ==
  /\ mode = "up" /\ requestCount < MaxRequests
  /\ PermitIs({"started"}) /\ permit.next < MaxChunks /\ permit.kind = "body"
  /\ part' = Append(part, x)
  /\ Stop /\ RolledBack /\ UNCHANGED disk

HaltDuringCommit(count, a) ==
  /\ mode = "up" /\ requestCount < MaxRequests
  /\ MayCommit(count) /\ CommitVerdict(TRUE) = "valid"
  /\ WriteArtifact(a)
  /\ Stop /\ RolledBack /\ UNCHANGED part

\* Evidence a terminal stage rests on.
TerminalKinds ==
  IF stage \in SetupStages THEN {"session-check"}
  ELSE IF stage \in BodyStages THEN Kinds ELSE {}

\* Mistake: only the body of a complete probe is verified.
LastEvidenceStands ==
  stage \in BodyStages => evidence["body"] # Null /\ Intact(evidence["body"])

EvidenceStands ==
  /\ \A k \in TerminalKinds : evidence[k] # Null /\ Intact(evidence[k])
  /\ \A k, l \in TerminalKinds : evidence[k].artifact = evidence[l].artifact => k = l

\* A readable artifact file no recorded evidence of a terminal stage names.
OrphanArtifact ==
  \E a \in ArtifactIds :
    /\ disk[a] \notin {Null, Lost}
    /\ \A k \in TerminalKinds : evidence[k] # Null => evidence[k].artifact # a

OrphanTransfer == part # <<>> /\ permit # Null /\ permit.status # "failed"

\* Mistake: only a transfer that left bytes counts as unfinished.
UnfinishedTransfer == stage \in {"session_partial", "body_partial", "blocked"}

Unfinished == stage \notin {"new"} \cup TerminalStages

\* The blocker a reopened root has: incomplete work is uncertain, completed work
\* must still be proven.
RecoveredBlocker ==
  IF Unfinished
    THEN IF blocker = Null THEN "dispatch_uncertain" ELSE blocker
  ELSE IF OrphanTransfer THEN "dispatch_uncertain"
  ELSE IF stage = "new" THEN IF OrphanArtifact THEN "dispatch_uncertain" ELSE blocker
  ELSE IF OrphanArtifact \/ ~EvidenceStands THEN "recovery_evidence_missing"
  ELSE blocker

OpenRoot ==
  /\ mode = "down"
  /\ opens < MaxOpens
  /\ scope \in SetupScopes \cup {"background-selected-conversation"} => ~attested
  /\ mode' = "up" /\ opens' = opens + 1
  /\ blocker' = RecoveredBlocker
  /\ stage' = IF RecoveredBlocker = Null THEN stage ELSE "blocked"
  /\ UNCHANGED <<scope, claimVars, permitVars, proofVars, lastClock, requestCount,
                 cooldown, fileVars, mem, clock, historyVars>>

-----------------------------------------------------------------------------
(* The environment of the receiver *)

\* Whoever can write the root removes or alters an artifact.
LoseArtifact(a) ==
  /\ disk[a] \notin {Null, Lost}
  /\ disk' = [disk EXCEPT ![a] = Lost]
  /\ UNCHANGED <<scope, statusVars, claimVars, permitVars, proofVars, lastClock,
                 requestCount, cooldown, part, processVars, clock, historyVars>>

ClockOnly ==
  UNCHANGED <<scope, statusVars, claimVars, permitVars, proofVars, lastClock,
              requestCount, cooldown, fileVars, processVars, historyVars>>

Tick ==
  /\ clock.wall < MaxTime /\ clock.mono < MaxTime
  /\ clock' = [clock EXCEPT !.wall = @ + 1, !.mono = @ + 1]
  /\ ClockOnly

\* Somebody sets the wall clock.
SetWall(t) == clock' = [clock EXCEPT !.wall = t] /\ ClockOnly

Reboot ==
  /\ mode = "down"
  /\ clock.boot < MaxBoots
  /\ clock' = [wall |-> clock.wall, mono |-> 0, boot |-> clock.boot + 1]
  /\ ClockOnly

-----------------------------------------------------------------------------

\* createProbeReceiver on a fresh root.
Init ==
  /\ scope \in Scopes
  /\ stage = "new" /\ blocker = Null
  /\ claimed = FALSE /\ attested = FALSE /\ bodyReady = FALSE
  /\ browser = Null /\ collector = Null
  /\ leaseUntil = Null /\ permit = Null /\ nextPermit = Null
  /\ clock = [wall |-> 0, mono |-> 0, boot |-> 0] /\ lastClock = clock
  /\ evidence = [k \in Kinds |-> Null] /\ receipts = {}
  /\ requestCount = 0 /\ cooldown = Null
  /\ part = <<>> /\ mem = <<>> /\ disk = [a \in ArtifactIds |-> Null]
  /\ mode = "up" /\ opens = 1
  /\ fetches = [k \in Kinds |-> 0] /\ origin = [k \in Kinds |-> Null]

ClaimWork == \E b \in Browsers, who \in Principals : Claim(b, who) \/ ClaimMismatch(b, who)
StartDispatch == DispatchLate \/ \E b \in Browsers, c \in Collectors : DispatchStarted(b, c)
ResultChunk ==
  \E x \in Data : \/ Chunk(x)
                  \/ \E sequence \in 0..MaxChunks : ChunkConflict(sequence, x)
CommitResult ==
  \E count \in 1..MaxChunks :
    \/ \E exact \in BOOLEAN : CommitRejected(count, exact)
    \/ \E a \in ArtifactIds : CommitAccepted(count, a)
FailRequest ==
  \E class \in FailureClasses, delay \in RetryDelays, overflow \in BOOLEAN :
    RequestFailed(class, delay, overflow)
Interrupted ==
  \/ Halt
  \/ \E x \in Data : HaltDuringChunk(x)
  \/ \E count \in 1..MaxChunks, a \in ArtifactIds : HaltDuringCommit(count, a)

Serve ==
  \/ DistrustClock \/ RefuseOnTime \/ Refuse \/ ExhaustBudget
  \/ ClaimWork \/ RequestPermit \/ StartDispatch \/ ResultChunk \/ CommitResult
  \/ FailRequest \/ ReconcileDispatch
  \/ \E proof \in receipts : ReplayUnproven(proof)

Environment ==
  \/ Tick \/ Reboot
  \/ \E t \in 0..MaxTime : SetWall(t)
  \/ \E a \in ArtifactIds : LoseArtifact(a)

Next == Serve \/ Interrupted \/ OpenRoot \/ Environment

Spec == Init /\ [][Next]_vars
=============================================================================
