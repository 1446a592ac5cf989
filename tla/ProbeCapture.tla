--------------------------- MODULE ProbeCapture ---------------------------
(***************************************************************************)
(* One run of extension/probe-client.mjs against the receiver, over a      *)
(* connection that may break at any moment: runQualification drives a      *)
(* collector and the receiver in turn, createNativeClient has at most one  *)
(* request outstanding and gives up for good when it is not answered in    *)
(* time.  A request that is given up may still arrive.                     *)
(*                                                                         *)
(* The client is the only caller of the receiver here, whose actions are   *)
(* those of ProbeReceiver.  Whether a second run may start is the matter   *)
(* of ProbeController.                                                     *)
(***************************************************************************)
EXTENDS ProbeReceiver

CONSTANTS
  Wanted,       \* the scopes the extension may be configured for
  Browser,      \* its browser_instance_id
  Collector,    \* the document_id or collector_instance_id of its collector
  WaitMs,       \* the pause between the two rounds of a run
  Walls         \* bound of the model: readings the wall clock may be set to

ASSUME CaptureAssumption ==
  /\ Wanted \subseteq AllScopes
  /\ Browser \in Browsers /\ Collector \in Collectors
  /\ WaitMs \in Nat /\ WaitMs >= PermitMs + SpacingMs
  /\ Walls \subseteq 0..MaxTime

VARIABLES
  \* runQualification
  want,      \* the scope the extension is configured for
  step,      \* the call it makes next, or awaits
  kind,      \* the kind of its current round
  sent,      \* chunks of the current result that are acknowledged
  until,     \* valid_until of its permit
  wakeAt,    \* when the pause between the rounds ends
  saved,     \* the failure receipt is in the storage
  outcome,   \* how the run ended
  \* the collector
  source,    \* its stage
  got,       \* the result of each kind
  lastCall,  \* when it fetched last
  \* createNativeClient and what lies between it and the receiver
  pending,   \* a request is outstanding
  port,      \* the native port is open
  link,      \* the connection behind it is to a receiver that has not stopped
  wire,      \* the request on its way to the receiver
  answer,    \* the reply on its way back
  \* history
  calls      \* upstream requests of each kind the collector has made

runVars     == <<want, kind, sent, until, wakeAt, saved>>
sourceVars  == <<source, got, lastCall, calls>>
portVars    == <<pending, port, link, wire, answer>>
clientVars  == <<runVars, step, outcome, sourceVars, portVars>>
captureVars == <<vars, clientVars>>

RequestSteps == {"hello", "claim", "permit", "dispatch", "chunk", "commit", "report"}
CallSteps == {"call", "pull", "release"}
ClientSteps == RequestSteps \cup CallSteps \cup {"wait", "persist", "ended", "dead"}

Results == UNION {[1..n -> Data] : n \in 1..MaxChunks}
Messages == [op : RequestSteps, kind : Kinds, sequence : Nat, bytes : Seq(Data)]
Replies == [ok : BOOLEAN, kind : Kinds, until : Nat]

Outcomes == {"complete", "failed", "uncertain"}

ASSUME NullUnused == Null \notin Messages \cup Replies \cup Nat \cup Outcomes

CaptureTypeOK ==
  /\ want \in Wanted /\ step \in ClientSteps /\ kind \in Kinds
  /\ sent \in Nat /\ until \in Nat /\ wakeAt \in Nat /\ saved \in BOOLEAN
  /\ outcome \in Outcomes \cup {Null}
  /\ source \in {"new", "session_buffer", "ready", "body_buffer", "complete", "failed", "closed"}
  /\ got \in [Kinds -> Seq(Data)] /\ lastCall \in Nat \cup {Null}
  /\ pending \in BOOLEAN /\ port \in BOOLEAN /\ link \in BOOLEAN
  /\ wire \in Messages \cup {Null} /\ answer \in Replies \cup {Null}
  /\ calls \in [Kinds -> Nat]

-----------------------------------------------------------------------------
(* The end of a run *)

\* The collector is told to abort and the native port is closed.
End(o) ==
  /\ step' = "ended" /\ outcome' = o
  /\ source' = "closed"
  /\ pending' = FALSE /\ port' = FALSE /\ answer' = Null
  /\ UNCHANGED <<runVars, got, lastCall, calls, link, wire>>

Running == step \notin {"ended", "dead"}

GoOn(next) == step' = next /\ UNCHANGED outcome

-----------------------------------------------------------------------------
(* Requests: send, and what createNativeClient does with the reply *)

Message ==
  [op |-> step, kind |-> kind, sequence |-> sent,
   bytes |-> IF step = "chunk" THEN <<got[kind][sent + 1]>>
             ELSE IF step = "commit" THEN got[kind] ELSE <<>>]

Send ==
  /\ step \in RequestSteps /\ ~pending
  /\ IF port
       THEN /\ pending' = TRUE
            /\ wire' = IF link THEN Message ELSE Null
            /\ GoOn(step)
            /\ UNCHANGED <<runVars, sourceVars, port, link, answer>>
       ELSE End("uncertain")
  /\ UNCHANGED vars

\* Mistake: a dispatch whose time is up counts as acknowledged.
GiveUpAsDone ==
  /\ pending /\ port /\ step = "dispatch"
  /\ GoOn("call")
  /\ pending' = FALSE /\ answer' = Null
  /\ UNCHANGED <<vars, runVars, sourceVars, port, link, wire>>

\* Mistake: a request has no timer.
GiveUpNever == FALSE

\* The port is lost, the time is up or the reply does not fit: the client fails
\* and disconnects.  The request may still be on its way.
GiveUp ==
  /\ pending /\ port
  /\ End("uncertain")
  /\ UNCHANGED vars

\* The port is lost while nothing is outstanding.
LosePort ==
  /\ Running /\ ~pending /\ port
  /\ port' = FALSE
  /\ UNCHANGED <<vars, runVars, step, outcome, sourceVars, pending, link, wire, answer>>

\* What breaks behind the port swallows the request.
LoseRequest ==
  /\ wire # Null
  /\ wire' = Null /\ link' = FALSE
  /\ UNCHANGED <<vars, runVars, step, outcome, sourceVars, pending, port, answer>>

LastRound == kind = "body" \/ want \notin BodyScopes

AfterChunk == IF sent + 1 < Len(got[kind]) THEN "pull"
              ELSE IF want \in SetupScopes THEN "release" ELSE "commit"

\* The reply is a success, and what is permitted is what this round is about.
Fits(reply) == reply.ok /\ (step = "permit" => reply.kind = kind)

\* Where an accepted reply leads.
Accepted(reply) ==
  /\ \/ step = "hello" /\ GoOn("claim") /\ UNCHANGED runVars
     \/ step = "claim" /\ GoOn("permit") /\ UNCHANGED runVars
     \/ /\ step = "permit" /\ GoOn("dispatch")
        /\ until' = reply.until /\ UNCHANGED <<want, kind, sent, wakeAt, saved>>
     \/ step = "dispatch" /\ GoOn("call") /\ UNCHANGED runVars
     \/ /\ step = "chunk" /\ GoOn(AfterChunk)
        /\ sent' = sent + 1 /\ UNCHANGED <<want, kind, until, wakeAt, saved>>
     \/ step = "commit" /\ want \notin SetupScopes /\ GoOn("release") /\ UNCHANGED runVars
  /\ pending' = FALSE /\ answer' = Null
  /\ UNCHANGED <<sourceVars, port, link, wire>>

Answered ==
  /\ pending /\ answer # Null
  /\ \/ Fits(answer) /\ Accepted(answer)
     \/ Fits(answer) /\ step = "commit" /\ want \in SetupScopes /\ End("complete")
     \/ Fits(answer) /\ step = "report" /\ End("failed")
     \/ ~Fits(answer) /\ End("uncertain")
  /\ UNCHANGED vars

-----------------------------------------------------------------------------
(* The collector *)

\* A session first and a body after it, within the permit, and spaced.
Admits ==
  /\ source = (IF kind = "body" THEN "ready" ELSE "new")
  /\ clock.wall <= until
  /\ lastCall # Null => clock.mono >= lastCall + SpacingMs

\* The collector fetches, and has a result, a failure to report or nothing to say.
Fetch ==
  /\ step = "call" /\ Admits
  /\ calls' = [calls EXCEPT ![kind] = @ + 1]
  /\ lastCall' = clock.mono
  /\ \/ /\ \E r \in Results : got' = [got EXCEPT ![kind] = r]
        /\ source' = IF kind = "body" THEN "body_buffer" ELSE "session_buffer"
        /\ GoOn("pull")
     \/ source' = "failed" /\ GoOn("persist") /\ UNCHANGED got
  /\ UNCHANGED <<vars, runVars, portVars>>

\* It refuses before it fetches.
RefuseCall ==
  /\ step = "call"
  /\ GoOn("persist")
  /\ UNCHANGED <<vars, runVars, sourceVars, portVars>>

\* Mistake: session bytes are forwarded as they come.
ForwardAll(d) == TRUE

\* A session's result is one chunk, and is forwarded if it is the configured identity's.
Forward(d) ==
  kind = "session-check" =>
    Len(got[kind]) = 1 /\ WellFormed(kind, <<d>>) /\ Accepts(kind, <<d>>)

Pull ==
  /\ step = "pull"
  /\ IF Forward(got[kind][sent + 1])
       THEN GoOn("chunk") /\ UNCHANGED <<runVars, sourceVars, portVars>>
       ELSE End("uncertain")
  /\ UNCHANGED vars

\* Mistake: the pause between the rounds covers the spacing alone.
PauseSpacing == clock.mono + SpacingMs

\* The pause covers the end of the permit and the spacing after it.
Pause == clock.mono + WaitMs

Release ==
  /\ step = "release"
  /\ source' = IF kind = "body" THEN "complete" ELSE "ready"
  /\ \/ want \in SetupScopes /\ GoOn("commit") /\ UNCHANGED runVars
     \/ /\ want \notin SetupScopes /\ ~LastRound
        /\ GoOn("wait")
        /\ kind' = "body" /\ sent' = 0 /\ wakeAt' = Pause
        /\ UNCHANGED <<want, until, saved>>
  /\ UNCHANGED <<vars, got, lastCall, calls, portVars>>

\* The last round's release is the end of a run that is complete.
Complete ==
  /\ step = "release" /\ want \notin SetupScopes /\ LastRound
  /\ End("complete")
  /\ UNCHANGED vars

\* The document is lost, or the collector throws; it may have fetched by then.
LoseSource ==
  /\ step \in CallSteps
  /\ End("uncertain")
  /\ UNCHANGED vars

Wake ==
  /\ step = "wait" /\ clock.mono >= wakeAt
  /\ GoOn("claim")
  /\ UNCHANGED <<vars, runVars, sourceVars, portVars>>

-----------------------------------------------------------------------------
(* Failures *)

\* Mistake: the failure is sent at once.
PersistLater ==
  /\ step = "persist" /\ GoOn("report")
  /\ UNCHANGED <<vars, runVars, sourceVars, portVars>>

\* The failure is saved before it is sent, if the storage takes it.
Persist ==
  /\ step = "persist"
  /\ \/ /\ saved' = TRUE /\ GoOn("report")
        /\ UNCHANGED <<want, kind, sent, until, wakeAt, sourceVars, portVars>>
     \/ End("uncertain")
  /\ UNCHANGED vars

\* The browser kills the worker.
Kill ==
  /\ Running
  /\ step' = "dead" /\ UNCHANGED outcome
  /\ pending' = FALSE /\ port' = FALSE /\ answer' = Null
  /\ UNCHANGED <<vars, runVars, sourceVars, link, wire>>

-----------------------------------------------------------------------------
(* The receiver handles the request that reaches it *)

Reply(ok, k, end) ==
  /\ wire' = Null
  /\ answer' = IF pending THEN [ok |-> ok, kind |-> k, until |-> end] ELSE Null
  /\ UNCHANGED <<runVars, step, outcome, sourceVars, pending, port, link>>

Grant == Reply(TRUE, wire.kind, 0)
Deny == Reply(FALSE, wire.kind, 0)

\* A timed operation that changes nothing: the reply is an error.
DenyOnTime(grantable) ==
  /\ \/ RefuseOnTime /\ ~grantable
     \/ Refuse /\ blocker # Null
     \/ mode = "up" /\ SetupDone /\ UNCHANGED vars
  /\ Deny

Capable ==
  IF scope = "background-selected-conversation" THEN want = scope
  ELSE /\ want # "background-selected-conversation"
       /\ scope \in BackgroundScopes <=> want \in BackgroundScopes

HandleHello ==
  /\ wire.op = "hello"
  /\ Refuse
  /\ IF Capable THEN Grant ELSE Deny

Who(k) == IF k = "body" THEN "bound" ELSE "unknown"

HandleClaim ==
  /\ wire.op = "claim"
  /\ \/ Claim(Browser, Who(wire.kind)) /\ Grant
     \/ (ClaimMismatch(Browser, Who(wire.kind)) \/ DistrustClock) /\ Deny
     \/ DenyOnTime(ClaimAdmitted(Browser, Who(wire.kind))
                     /\ (PrincipalMatches(Who(wire.kind)) => ~LeaseLapsed))

HandlePermit ==
  /\ wire.op = "permit"
  /\ \/ RequestPermit /\ Reply(TRUE, WorkUnit, clock.wall + PermitMs)
     \/ DistrustClock /\ Deny
     \/ DenyOnTime(MayPermit)

\* A collector of the other sort is turned away before anything else.
HandleDispatch ==
  /\ wire.op = "dispatch"
  /\ IF (want \in BackgroundScopes) = (scope \in BackgroundScopes)
       THEN \/ DispatchStarted(Browser, Collector) /\ Grant
            \/ (DispatchLate \/ DistrustClock) /\ Deny
            \/ DenyOnTime(~SessionDone /\ Dispatchable /\ browser = Browser
                            /\ SameCollector(Collector))
       ELSE mode = "up" /\ UNCHANGED vars /\ Deny

TakesChunk == PermitIs({"started"}) /\ permit.next < MaxChunks /\ permit.next = wire.sequence

HandleChunk ==
  /\ wire.op = "chunk"
  /\ \/ TakesChunk /\ Chunk(wire.bytes[1]) /\ Grant
     \/ ~TakesChunk /\ Refuse /\ Deny

\* Mistake: the receiver acknowledges a result it has not committed.
HandleCommitBlindly ==
  /\ wire.op = "commit"
  /\ Refuse /\ Grant

\* The digest of the request is that of the bytes the client has sent.
HandleCommit ==
  LET count == Len(wire.bytes)
      exact == Received = wire.bytes
  IN /\ wire.op = "commit"
     /\ \/ /\ MayCommit(count) /\ exact
           /\ \E a \in ArtifactIds : CommitAccepted(count, a)
           /\ Grant
        \/ CommitRejected(count, exact) /\ Deny
        \/ ~MayCommit(count) /\ Refuse /\ Deny

HandleReport ==
  /\ wire.op = "report"
  /\ \/ \E class \in FailureClasses, delay \in RetryDelays, overflow \in BOOLEAN :
          RequestFailed(class, delay, overflow) /\ Grant
     \/ ~PermitIs({"granted", "started"}) /\ Refuse /\ Deny

Handle ==
  /\ wire # Null
  /\ \/ ExhaustBudget /\ Deny
     \/ HandleHello \/ HandleClaim \/ HandlePermit \/ HandleDispatch \/ HandleChunk
     \/ HandleCommit \/ HandleReport

-----------------------------------------------------------------------------
(* Faults and the environment *)

\* The receiver stops, perhaps in the middle of the request: the connection is
\* gone, the request is not answered.
StopReceiver ==
  /\ \/ Halt
     \/ wire # Null /\ wire.op = "chunk" /\ HaltDuringChunk(wire.bytes[1])
     \/ /\ wire # Null /\ wire.op = "commit" /\ Received = wire.bytes
        /\ \E a \in ArtifactIds : HaltDuringCommit(Len(wire.bytes), a)
  /\ link' = FALSE /\ wire' = Null /\ answer' = Null
  /\ UNCHANGED <<runVars, step, outcome, sourceVars, pending, port>>

Surroundings ==
  /\ \/ OpenRoot \/ Tick
     \/ \E t \in Walls : SetWall(t)
     \/ \E a \in ArtifactIds : LoseArtifact(a)
  /\ UNCHANGED clientVars

-----------------------------------------------------------------------------

CaptureInit ==
  /\ Init
  /\ want \in Wanted /\ step = "hello" /\ kind = "session-check"
  /\ sent = 0 /\ until = 0 /\ wakeAt = 0 /\ saved = FALSE /\ outcome = Null
  /\ source = "new" /\ got = [k \in Kinds |-> <<>>] /\ lastCall = Null
  /\ pending = FALSE /\ port = TRUE /\ link = TRUE /\ wire = Null /\ answer = Null
  /\ calls = [k \in Kinds |-> 0]

\* What goes on by itself: a request is sent and answered or given up in time, a
\* collector answers or throws, a pause ends.
Progress ==
  \/ Send \/ Answered \/ GiveUp \/ Wake \/ Persist
  \/ Fetch \/ RefuseCall \/ Pull \/ Release \/ Complete \/ LoseSource

CaptureNext ==
  Progress \/ Handle \/ LosePort \/ LoseRequest \/ Kill \/ StopReceiver \/ Surroundings

CaptureSpec == CaptureInit /\ [][CaptureNext]_captureVars

\* Timers bound every wait of the client; nothing is assumed of the receiver.
FairCaptureSpec == CaptureSpec /\ WF_captureVars(Progress)

-----------------------------------------------------------------------------
(* Properties *)

\* The collector makes no upstream request the receiver has not durably counted
\* before, and none twice: a lost acknowledgement costs the request.
CountedFirst == \A k \in Kinds : calls[k] <= fetches[k] /\ fetches[k] <= 1

\* The collector asks upstream for a body only where the receiver's scope admits one, and
\* only once the session's result is committed there.
UpstreamInOrder ==
  calls["body"] > 0 => scope \in BodyScopes /\ evidence["session-check"] # Null

\* A run that reports completion has left the receiver with the very bytes the
\* collector fetched, each kind in its own artifact.
CompletionShared ==
  outcome = "complete" =>
    \A k \in (IF want \in BodyScopes THEN Kinds ELSE {"session-check"}) :
      evidence[k] # Null /\ evidence[k].content = got[k] /\ calls[k] = 1

\* A failure the run reports is recorded on both sides, and the receiver has
\* never recorded one whose receipt the extension has not saved.
FailureShared ==
  /\ outcome = "failed" => blocker # Null /\ permit # Null /\ permit.status = "failed"
  /\ permit # Null /\ permit.status = "failed" => saved

\* The receiver never holds session bytes of another identity.
ForeignBytesStay ==
  \A i \in 1..Len(mem) : /\ WellFormed("session-check", <<mem[i]>>)
                         /\ Accepts("session-check", <<mem[i]>>)

\* The pause of the client covers the pause the receiver demands: its request for
\* the second permit never comes before the interval is over on the clock that
\* nobody sets.
PauseSuffices ==
  wire # Null /\ wire.op = "permit" /\ nextPermit # Null => clock.mono >= nextPermit.mono

\* A round always comes to an end, whatever is lost, refused or never answered.
RoundsEnd == Running /\ step # "wait" ~> step \in {"wait", "ended", "dead"}
=============================================================================
