------------------------ MODULE ProbeCaptureProofs ------------------------
(***************************************************************************)
(* A run of the client against the receiver, whatever is lost between      *)
(* them: the receiver does nothing it would not do for an arbitrary        *)
(* caller, so all that is proved of it holds here, and the two agree on    *)
(* what was fetched and on what failed.                                    *)
(***************************************************************************)
EXTENDS ProbeCapture, ProbeReceiverProofs

\* Steps of a round before its upstream request.
Before == {"hello", "wait", "claim", "permit", "dispatch", "call"}

\* The step, the request and the reply of a run fit together, and what is sent is
\* part of a result the collector has.
RunSound ==
  /\ step \in Before => sent = 0
  /\ step \in {"pull", "chunk"} => sent < Len(got[kind])
  /\ step \in {"pull", "chunk", "release", "commit"} => Len(got[kind]) \in 1..MaxChunks
  /\ wire # Null => /\ wire.op = "chunk" => Len(wire.bytes) = 1
                    /\ wire.op = "commit" => Len(wire.bytes) \in 1..MaxChunks
                    /\ pending => wire.op = step
  /\ Running /\ ~pending => wire = Null
  /\ pending => step \in RequestSteps
  /\ answer # Null => pending /\ wire = Null

RunInv == CaptureTypeOK /\ RunSound

\* What is called has been counted: the permit the client holds is for the kind of
\* its round, and the acknowledgement it waits for says that this kind was counted.
CountSound ==
  /\ \A k \in Kinds : calls[k] <= fetches[k]
  /\ kind = "session-check" => calls["body"] = 0
  /\ step \in Before => calls[kind] = 0
  /\ step = "call" => fetches[kind] >= 1
  /\ step = "dispatch" => /\ permit # Null => permit.kind = kind
                          /\ answer # Null /\ answer.ok => fetches[kind] >= 1
  /\ step = "permit" /\ answer # Null /\ answer.ok /\ permit # Null => permit.kind = answer.kind

\* A recorded failure was saved before, and stays recorded.
Recorded == blocker # Null /\ permit # Null /\ permit.status = "failed"
FailureSound ==
  /\ step = "report" => saved
  /\ wire # Null /\ wire.op = "report" => saved
  /\ permit # Null /\ permit.status = "failed" => saved
  /\ outcome = "failed" \/ (step = "report" /\ answer # Null /\ answer.ok) => Recorded

-----------------------------------------------------------------------------
(* The parts of a step *)

\* An ended run keeps the request that is under way and nothing else.
LEMMA EndKeeps ==
  ASSUME RunInv, NEW o \in Outcomes, End(o)
  PROVE  RunInv'
BY DEF RunInv, RunSound, CaptureTypeOK, End, Running, Before, ClientSteps, RequestSteps, CallSteps, runVars

\* A reply takes the place of the request.
LEMMA ReplyKeeps ==
  ASSUME RunInv, NEW ok \in BOOLEAN, NEW k \in Kinds, NEW end \in Nat, Reply(ok, k, end)
  PROVE  RunInv'
BY DEF RunInv, RunSound, CaptureTypeOK, Reply, Running, Before, runVars, sourceVars, Replies

\* What a handled request is replied.
LEMMA Replied ==
  ASSUME RunInv, TypeOK, Handle
  PROVE  /\ wire # Null
         /\ \E ok \in BOOLEAN, k \in Kinds, end \in Nat : Reply(ok, k, end)
<1>1. wire # Null /\ wire.kind \in Kinds
  BY DEF Handle, RunInv, CaptureTypeOK, Messages
<1>2. WorkUnit \in Kinds /\ clock.wall + PermitMs \in Nat
  BY ReceiverAssumption DEF WorkUnit, Kinds, TypeOK, Clocks
<1>3. CASE Grant \/ Deny
  BY <1>1, <1>3 DEF Grant, Deny
<1>4. CASE Reply(TRUE, WorkUnit, clock.wall + PermitMs)
  BY <1>1, <1>2, <1>4
<1> QED
  BY <1>1, <1>3, <1>4 DEF Handle, HandleHello, HandleClaim, HandlePermit, HandleDispatch,
     HandleChunk, HandleCommit, HandleReport, DenyOnTime

\* A message is of its type, and what it carries is part of the result.
LEMMA MessageTypes ==
  ASSUME RunInv, step \in RequestSteps
  PROVE  /\ Message \in Messages /\ Message # Null
         /\ Message.op = step
         /\ Message.op = "chunk" => Len(Message.bytes) = 1
         /\ Message.op = "commit" => Len(Message.bytes) \in 1..MaxChunks
<1>1. CASE step = "chunk"
  <2>1. got[kind] \in Seq(Data) /\ sent \in Nat /\ sent < Len(got[kind])
    BY <1>1 DEF RunInv, RunSound, CaptureTypeOK
  <2>2. got[kind][sent + 1] \in Data
    BY <2>1
  <2>3. Message \in Messages
    BY <1>1, <2>1, <2>2 DEF Message, Messages, RunInv, CaptureTypeOK, RequestSteps
  <2> QED
    BY <1>1, <2>3, NullUnused DEF Message
<1>2. CASE step # "chunk"
  <2>1. Message \in Messages
    BY <1>2 DEF Message, Messages, RunInv, CaptureTypeOK, RequestSteps
  <2> QED
    BY <1>2, <2>1, NullUnused DEF Message, RunInv, RunSound
<1> QED
  BY <1>1, <1>2

\* Sending puts the message on the way if there still is one.
LEMMA SendKeeps ==
  ASSUME RunInv, Send
  PROVE  RunInv'
<1>1. CASE port
  <2>1. Message \in Messages /\ Message # Null
        /\ (Message.op = step)
        /\ (Message.op = "chunk" => Len(Message.bytes) = 1)
        /\ (Message.op = "commit" => Len(Message.bytes) \in 1..MaxChunks)
    BY MessageTypes DEF Send
  <2> HIDE DEF Message
  <2> QED
    BY <1>1, <2>1 DEF Send, GoOn, RunInv, RunSound, CaptureTypeOK, Running, Before, RequestSteps, runVars,
       sourceVars
<1>2. CASE ~port
  BY <1>2, EndKeeps DEF Outcomes, Send
<1> QED
  BY <1>1, <1>2

\* An accepted reply leads to the next call.
LEMMA AnsweredKeeps ==
  ASSUME RunInv, Answered
  PROVE  RunInv'
<1> USE DEF RunInv, RunSound, CaptureTypeOK, GoOn, Running, Before, ClientSteps, RequestSteps, CallSteps,
        runVars, sourceVars
<1>1. CASE Accepted(answer)
  <2>1. /\ pending' = FALSE /\ answer' = Null /\ wire' = Null /\ answer \in Replies
        /\ UNCHANGED <<sourceVars, port, link, outcome>>
    BY <1>1 DEF Answered, Accepted
  <2>2. CASE step \in {"hello", "claim", "dispatch"}
    <3>1. step' \in {"claim", "permit", "call"} /\ UNCHANGED runVars
      BY <1>1, <2>2 DEF Accepted
    <3> QED
      BY <2>1, <2>2, <3>1
  <2>3. CASE step = "permit"
    <3>1. step' = "dispatch" /\ until' \in Nat /\ UNCHANGED <<want, kind, sent, wakeAt, saved>>
      BY <1>1, <2>1, <2>3 DEF Accepted, Replies
    <3> QED
      BY <2>1, <2>3, <3>1
  <2>4. CASE step = "chunk"
    <3>1. /\ step' = AfterChunk /\ sent' = sent + 1
          /\ UNCHANGED <<want, kind, until, wakeAt, saved>>
      BY <1>1, <2>4 DEF Accepted
    <3>2. AfterChunk \in {"pull", "release", "commit"}
          /\ (AfterChunk = "pull" => sent + 1 < Len(got[kind]))
      BY DEF AfterChunk
    <3>3. sent' \in Nat /\ got' = got /\ kind' = kind /\ Len(got[kind]) \in 1..MaxChunks
      BY <2>1, <2>4, <3>1
    <3>4. CaptureTypeOK'
      BY <2>1, <3>1, <3>2, <3>3
    <3>5. RunSound'
      BY <2>1, <3>1, <3>2, <3>3
    <3> QED
      BY <3>4, <3>5
  <2>5. CASE step = "commit"
    <3>1. step' = "release" /\ UNCHANGED runVars
      BY <1>1, <2>5 DEF Accepted
    <3> QED
      BY <2>1, <2>5, <3>1
  <2> QED
    BY <1>1, <2>2, <2>3, <2>4, <2>5 DEF Accepted
<1>2. CASE \E o \in Outcomes : End(o)
  BY <1>2, EndKeeps
<1> QED
  BY <1>1, <1>2 DEF Outcomes, Answered

\* A result is a sequence of data of bounded length.
LEMMA ResultTypes ==
  ASSUME NEW r \in Results
  PROVE  r \in Seq(Data) /\ Len(r) \in 1..MaxChunks
BY ReceiverAssumption DEF Results

\* The collector's answers.
LEMMA CollectorKeeps ==
  ASSUME RunInv, TypeOK, Fetch \/ RefuseCall \/ Pull \/ Release \/ Complete \/ LoseSource
  PROVE  RunInv'
<1> USE DEF RunInv, RunSound, CaptureTypeOK, GoOn, Running, Before, ClientSteps, RequestSteps, CallSteps,
        runVars, sourceVars, portVars
<1>1. CASE Fetch
  <2>1. /\ calls' \in [Kinds -> Nat] /\ lastCall' \in Nat /\ step = "call"
        /\ UNCHANGED <<runVars, outcome, portVars>>
    BY <1>1 DEF Fetch, TypeOK, Clocks
  <2>2. CASE \E r \in Results : got' = [got EXCEPT ![kind] = r] /\ step' = "pull"
    <3>1. PICK r \in Results : got' = [got EXCEPT ![kind] = r] /\ step' = "pull"
      BY <2>2
    <3>2. r \in Seq(Data) /\ Len(r) \in 1..MaxChunks
      BY ResultTypes
    <3>3. got' \in [Kinds -> Seq(Data)] /\ got'[kind] = r
      BY <3>1, <3>2
    <3>4. source' \in {"session_buffer", "body_buffer", "failed"} /\ sent = 0
      BY <1>1 DEF Fetch
    <3> QED
      BY <2>1, <3>1, <3>2, <3>3, <3>4
  <2>3. CASE source' = "failed" /\ step' = "persist" /\ UNCHANGED got
    BY <2>1, <2>3
  <2> QED
    BY <1>1, <2>2, <2>3 DEF Fetch
<1>2. CASE RefuseCall
  BY <1>2 DEF RefuseCall
<1>3. CASE Pull
  BY <1>3, EndKeeps DEF Outcomes, Pull
<1>4. CASE Release
  <2>1. /\ source' \in {"ready", "complete"} /\ step = "release"
        /\ UNCHANGED <<got, lastCall, calls, portVars, outcome>>
    BY <1>4 DEF Release
  <2>2. CASE GoOn("commit") /\ UNCHANGED runVars
    BY <2>1, <2>2
  <2>3. CASE step' = "wait" /\ kind' = "body" /\ sent' = 0 /\ wakeAt' = Pause
             /\ UNCHANGED <<want, until, saved>>
    <3>1. Pause \in Nat
      BY CaptureAssumption DEF Pause, TypeOK, Clocks
    <3> QED
      BY <2>1, <2>3, <3>1 DEF Kinds
  <2> QED
    BY <1>4, <2>2, <2>3 DEF Release
<1>5. CASE Complete \/ LoseSource
  BY <1>5, EndKeeps DEF Outcomes, Complete, LoseSource
<1> QED
  BY <1>1, <1>2, <1>3, <1>4, <1>5

\* Sleep, storage and whatever breaks.
LEMMA FaultsKeep ==
  ASSUME RunInv, Wake \/ Persist \/ LosePort \/ LoseRequest \/ Kill \/ StopReceiver \/ Surroundings
  PROVE  RunInv'
<1> USE DEF RunInv, GoOn, runVars, sourceVars, portVars
<1>1. CASE Wake
  BY <1>1 DEF Wake, RunSound, CaptureTypeOK, Running, Before, ClientSteps, RequestSteps, CallSteps
<1>2. CASE Persist
  BY <1>2, EndKeeps
  DEF Outcomes, Persist, RunSound, CaptureTypeOK, Running, Before, ClientSteps, RequestSteps, CallSteps
<1>3. CASE LosePort \/ LoseRequest \/ StopReceiver
  <2>1. /\ UNCHANGED <<runVars, step, outcome, sourceVars, pending>>
        /\ port' \in BOOLEAN /\ link' \in BOOLEAN
        /\ wire' \in {wire, Null} /\ answer' \in {answer, Null}
        /\ answer' # Null => wire' = Null
    BY <1>3 DEF LosePort, LoseRequest, StopReceiver, RunSound, CaptureTypeOK
  <2>2. CaptureTypeOK'
    BY <2>1 DEF CaptureTypeOK
  <2>3. RunSound'
    BY <2>1 DEF RunSound, Running
  <2> QED
    BY <2>2, <2>3
<1>4. CASE Kill
  <2>1. /\ step' = "dead" /\ pending' = FALSE /\ port' = FALSE /\ answer' = Null
        /\ UNCHANGED <<runVars, sourceVars, outcome, link, wire>>
    BY <1>4 DEF Kill
  <2>2. CaptureTypeOK'
    BY <2>1 DEF CaptureTypeOK, ClientSteps
  <2>3. RunSound'
    BY <2>1 DEF RunSound, Running, Before
  <2> QED
    BY <2>2, <2>3
<1>5. CASE Surroundings
  BY <1>5 DEF Surroundings, clientVars, RunSound, CaptureTypeOK, Running
<1> QED
  BY <1>1, <1>2, <1>3, <1>4, <1>5

\* A run begins well.
LEMMA InitRun == CaptureInit => RunInv
<1> SUFFICES ASSUME CaptureInit PROVE RunInv
  OBVIOUS
<1>1. step = "hello" /\ sent = 0 /\ wire = Null /\ answer = Null /\ pending = FALSE
  BY DEF CaptureInit
<1>2. got \in [Kinds -> Seq(Data)] /\ calls \in [Kinds -> Nat] /\ "session-check" \in Kinds
  BY DEF CaptureInit, Kinds
<1>3. CaptureTypeOK
  BY <1>1, <1>2 DEF CaptureInit, CaptureTypeOK, ClientSteps, RequestSteps
<1>4. RunSound
  BY <1>1 DEF RunSound
<1> QED
  BY <1>3, <1>4 DEF RunInv

\* Every step keeps a run well.
LEMMA StepRun ==
  ASSUME RunInv, TypeOK, [CaptureNext]_captureVars
  PROVE  RunInv'
<1>1. CASE UNCHANGED captureVars
  BY <1>1 DEF captureVars, clientVars, runVars, sourceVars, portVars, RunInv, RunSound, CaptureTypeOK, Running
<1>2. CASE GiveUp
  BY <1>2, EndKeeps DEF Outcomes, GiveUp
<1>3. CASE Handle
  BY <1>3, Replied, ReplyKeeps
<1> QED
  BY <1>1, <1>2, <1>3, SendKeeps, AnsweredKeeps, CollectorKeeps, FaultsKeep DEF CaptureNext, Progress

-----------------------------------------------------------------------------
(* The receiver of a run is the receiver *)

\* What the client and the collector do, the receiver does not notice.
LEMMA ProgressApart == Progress => UNCHANGED vars
BY DEF Progress, Send, Answered, GiveUp, Wake, Persist, Fetch, RefuseCall, Pull, Release, Complete,
   LoseSource

\* A handled request is one of the requests the receiver may serve.
LEMMA HandleServes ==
  ASSUME RunInv, Handle
  PROVE  [Next]_vars
<1>1. wire # Null /\ wire \in Messages
  BY DEF Handle, RunInv, CaptureTypeOK
<1>2. Browser \in Browsers /\ Collector \in Collectors /\ Who(wire.kind) \in Principals
  BY CaptureAssumption DEF Who, Principals
<1>3. CASE ExhaustBudget \/ HandleHello
  BY <1>3 DEF HandleHello, Next, Serve
<1>4. CASE HandleClaim
  BY <1>2, <1>4 DEF HandleClaim, DenyOnTime, Next, Serve, ClaimWork
<1>5. CASE HandlePermit
  BY <1>5 DEF HandlePermit, DenyOnTime, Next, Serve
<1>6. CASE HandleDispatch
  BY <1>2, <1>6 DEF HandleDispatch, DenyOnTime, Next, Serve, StartDispatch
<1>7. CASE HandleChunk
  <2>1. wire.bytes[1] \in Data
    BY <1>1, <1>7 DEF HandleChunk, RunInv, RunSound, Messages
  <2> QED
    BY <1>7, <2>1 DEF HandleChunk, Next, Serve, ResultChunk
<1>8. CASE HandleCommit
  <2>1. Len(wire.bytes) \in 1..MaxChunks /\ (Received = wire.bytes) \in BOOLEAN
    BY <1>1, <1>8 DEF HandleCommit, RunInv, RunSound
  <2> QED
    BY <1>8, <2>1 DEF HandleCommit, Next, Serve, CommitResult
<1>9. CASE HandleReport
  BY <1>9 DEF HandleReport, Next, Serve, FailRequest
<1> QED
  BY <1>3, <1>4, <1>5, <1>6, <1>7, <1>8, <1>9 DEF Handle

\* A receiver that stops is interrupted in what it was asked to do.
LEMMA StopInterrupts ==
  ASSUME RunInv, StopReceiver
  PROVE  Next
<1>1. CASE Halt
  BY <1>1 DEF Next, Interrupted
<1>2. CASE wire # Null /\ wire.op = "chunk" /\ HaltDuringChunk(wire.bytes[1])
  <2>1. wire.bytes[1] \in Data
    BY <1>2 DEF RunInv, RunSound, CaptureTypeOK, Messages
  <2> QED
    BY <1>2, <2>1 DEF Next, Interrupted
<1>3. ASSUME wire # Null, wire.op = "commit", NEW a \in ArtifactIds, HaltDuringCommit(Len(wire.bytes), a)
      PROVE  Next
  <2>1. Len(wire.bytes) \in 1..MaxChunks
    BY <1>3 DEF RunInv, RunSound
  <2> QED
    BY <1>3, <2>1 DEF Next, Interrupted
<1> QED
  BY <1>1, <1>2, <1>3 DEF StopReceiver

\* Every step of the composition is a step of the receiver, or none.
LEMMA StepServes ==
  ASSUME RunInv, [CaptureNext]_captureVars
  PROVE  [Next]_vars
<1>1. CASE UNCHANGED captureVars
  BY <1>1 DEF captureVars
<1>2. CASE LosePort \/ LoseRequest \/ Kill
  BY <1>2 DEF LosePort, LoseRequest, Kill
<1>3. CASE Surroundings
  <2>1. Walls \subseteq 0..MaxTime
    BY CaptureAssumption
  <2> QED
    BY <1>3, <2>1 DEF Surroundings, Next, Environment
<1> QED
  BY <1>1, <1>2, <1>3, ProgressApart, HandleServes, StopInterrupts DEF CaptureNext

\* The receiver of a run keeps its inductive invariant, the run its own.
LEMMA CaptureInductive == CaptureSpec => [](Inductive /\ RunInv)
<1>1. CaptureInit => Inductive /\ RunInv
  BY InitInductive, InitRun DEF CaptureInit
<1>2. Inductive /\ RunInv /\ [CaptureNext]_captureVars => Inductive' /\ RunInv'
  BY StepServes, StepInductive, StepRun DEF Inductive
<1> QED
  BY <1>1, <1>2, PTL DEF CaptureSpec

\* Every variable of the client, the collector and the connection keeps its type.
THEOREM CaptureTypes == CaptureSpec => []CaptureTypeOK
BY CaptureInductive, PTL DEF RunInv

\* The composition implements the receiver: no request that is lost, given up or
\* late makes it do what it would not do for an arbitrary caller.  All that is proved
\* of Spec is proved of a run.
THEOREM RunServes == CaptureSpec => Spec
<1>1. CaptureInit => Init
  BY DEF CaptureInit
<1>2. RunInv /\ [CaptureNext]_captureVars => [Next]_vars
  BY StepServes
<1> QED
  BY <1>1, <1>2, CaptureInductive, PTL DEF CaptureSpec, Spec

-----------------------------------------------------------------------------
(* What a step does to the permit and the count *)

\* Fetches are only ever added.
LEMMA FetchesGrow ==
  ASSUME Inductive, [Next]_vars
  PROVE  \A k \in Kinds : fetches[k] \in Nat /\ fetches'[k] \in Nat /\ fetches[k] <= fetches'[k]
<1>1. fetches \in [Kinds -> Nat] /\ fetches' \in [Kinds -> Nat]
  BY StepTypes DEF Inductive, TypeOK
<1>2. CASE UNCHANGED fetches
  BY <1>1, <1>2
<1>3. ASSUME NEW k \in Kinds, fetches' = [fetches EXCEPT ![k] = @ + 1]
      PROVE  \A l \in Kinds : fetches[l] <= fetches'[l]
  BY <1>1, <1>3
<1>4. UNCHANGED fetches \/ \E k \in Kinds : fetches' = [fetches EXCEPT ![k] = @ + 1]
  <2> USE DEF historyVars
  <2>1. CASE UNCHANGED vars
    BY <2>1 DEF vars
  <2>2. CASE DistrustClock \/ RefuseOnTime \/ Refuse \/ ExhaustBudget \/ ClaimWork \/ RequestPermit
    BY <2>2 DEF DistrustClock, RefuseOnTime, Refuse, ExhaustBudget, ClaimWork, Claim, ClaimMismatch,
       RequestPermit
  <2>3. CASE StartDispatch
    BY <2>3, NotNull DEF StartDispatch, DispatchLate, DispatchStarted, Dispatchable, PermitIs, Inductive,
       TypeOK, Permits
  <2>4. CASE ResultChunk \/ CommitResult \/ FailRequest \/ ReconcileDispatch
    BY <2>4 DEF ResultChunk, Chunk, ChunkConflict, CommitResult, CommitRejected, CommitAccepted,
       FailRequest, RequestFailed, ReconcileDispatch
  <2>5. CASE \E proof \in receipts : ReplayUnproven(proof)
    BY <2>5 DEF ReplayUnproven
  <2>6. CASE Interrupted \/ OpenRoot \/ Environment
    BY <2>6 DEF Interrupted, Halt, HaltDuringChunk, HaltDuringCommit, RolledBack, OpenRoot, Environment,
       Tick, Reboot, SetWall, LoseArtifact, ClockOnly
  <2> QED
    BY <2>1, <2>2, <2>3, <2>4, <2>5, <2>6 DEF Next, Serve
<1> QED
  BY <1>1, <1>2, <1>3, <1>4

\* A permit of the client's, and what became of it.
Granted == permit' # Null /\ permit'.kind = WorkUnit /\ permit'.status = "granted"
           /\ Reply(TRUE, WorkUnit, clock.wall + PermitMs)
Started == permit # Null /\ permit' # Null /\ permit'.kind = permit.kind /\ permit'.status = "started"
           /\ permit.kind \in Kinds /\ fetches' = [fetches EXCEPT ![permit.kind] = @ + 1]
Filled  == permit # Null /\ permit' # Null /\ permit'.kind = permit.kind
           /\ permit'.status = permit.status
Failed  == permit # Null /\ permit' # Null /\ permit'.kind = permit.kind
           /\ permit'.status = "failed" /\ blocker' # Null

\* A request that is denied changes neither permit nor count; one that is granted
\* does to the permit what its operation is for.
LEMMA HandleEffects ==
  ASSUME Inductive, RunInv, Handle
  PROVE  \/ UNCHANGED permit /\ (wire.op \in {"permit", "dispatch", "report"} => Deny)
         \/ /\ blocker = Null
            /\ \/ wire.op = "permit" /\ Granted
               \/ wire.op = "dispatch" /\ Started
               \/ wire.op = "chunk" /\ Filled
               \/ wire.op = "commit" /\ permit' = Null
               \/ wire.op = "report" /\ Failed
<1> USE DEF permitVars
<1>0. permit # Null => permit \in Permits
  BY DEF Inductive, TypeOK
<1>1. CASE ExhaustBudget /\ Deny
  BY <1>1 DEF ExhaustBudget
<1>2. CASE HandleHello \/ HandleClaim
  BY <1>2 DEF HandleHello, HandleClaim, Claim, ClaimMismatch, DistrustClock, DenyOnTime, RefuseOnTime, Refuse,
     vars
<1>3. CASE HandlePermit
  <2>1. CASE RequestPermit /\ Reply(TRUE, WorkUnit, clock.wall + PermitMs)
    <3>1. permit' # Null
      BY <2>1, StepTypes, NotNull, ClockTypes, ReceiverAssumption
      DEF RequestPermit, Permits, WorkUnit, Kinds, Inductive
    <3> QED
      BY <1>3, <2>1, <3>1 DEF HandlePermit, Granted, RequestPermit, ServedOnTime
  <2>2. CASE (DistrustClock /\ Deny) \/ DenyOnTime(MayPermit)
    BY <2>2 DEF DistrustClock, DenyOnTime, RefuseOnTime, Refuse, vars
  <2> QED
    BY <1>3, <2>1, <2>2 DEF HandlePermit
<1>4. CASE HandleDispatch
  <2>1. CASE DispatchStarted(Browser, Collector) /\ Grant
    <3>1. permit # Null /\ blocker = Null
      BY <2>1 DEF DispatchStarted, Dispatchable, PermitIs
    <3>2. permit' = [permit EXCEPT !.status = "started"]
          /\ fetches' = [fetches EXCEPT ![permit.kind] = @ + 1]
      BY <2>1 DEF DispatchStarted
    <3>3. permit' \in Permits /\ permit'.kind = permit.kind /\ permit'.status = "started"
          /\ permit.kind \in Kinds
      BY <1>0, <3>1, <3>2 DEF Permits
    <3> QED
      BY <1>4, <3>1, <3>2, <3>3, NotNull DEF HandleDispatch, Started
  <2>2. CASE UNCHANGED permit /\ Deny
    BY <2>2
  <2> QED
    BY <1>4, <2>1, <2>2 DEF HandleDispatch, DispatchLate, DistrustClock, DenyOnTime, RefuseOnTime, Refuse, vars
<1>5. CASE HandleChunk
  <2>1. CASE Chunk(wire.bytes[1])
    <3>1. permit # Null /\ blocker = Null /\ permit' = [permit EXCEPT !.next = @ + 1]
      BY <2>1 DEF Chunk, PermitIs
    <3>2. permit' \in Permits /\ permit'.kind = permit.kind /\ permit'.status = permit.status
      BY <1>0, <3>1 DEF Permits
    <3> QED
      BY <1>5, <3>1, <3>2, NotNull DEF HandleChunk, Filled
  <2> QED
    BY <1>5, <2>1 DEF HandleChunk, Refuse
<1>6. CASE HandleCommit
  BY <1>6 DEF HandleCommit, CommitAccepted, CommitRejected, MayCommit, PermitIs, Refuse
<1>7. CASE HandleReport
  <2>1. ASSUME NEW class \in FailureClasses, NEW delay \in RetryDelays, NEW overflow \in BOOLEAN,
               RequestFailed(class, delay, overflow)
        PROVE  blocker = Null /\ Failed
    <3>1. permit # Null /\ blocker = Null /\ permit' = [permit EXCEPT !.status = "failed"]
      BY <2>1 DEF RequestFailed, PermitIs
    <3>2. permit' \in Permits /\ permit'.kind = permit.kind /\ permit'.status = "failed"
      BY <1>0, <3>1 DEF Permits
    <3>3. blocker' # Null
      BY <2>1, BlockerTypes, NotNull DEF RequestFailed, Block
    <3> QED
      BY <3>1, <3>2, <3>3, NotNull DEF Failed
  <2> QED
    BY <1>7, <2>1 DEF HandleReport, Refuse
<1> QED
  BY <1>1, <1>2, <1>3, <1>4, <1>5, <1>6, <1>7 DEF Handle

\* A handled request leaves the run as it is, but for the reply.
LEMMA HandleReplies ==
  ASSUME RunInv, TypeOK, Handle
  PROVE  /\ wire # Null /\ wire' = Null
         /\ UNCHANGED <<runVars, step, outcome, sourceVars>>
         /\ answer' # Null => pending /\ wire.op = step
BY Replied DEF Reply, RunInv, RunSound

-----------------------------------------------------------------------------
(* Nothing is fetched uncounted *)

\* A run that ends, or a step of the environment, calls for nothing.
LEMMA CountKept ==
  ASSUME CountSound, RunInv, Inductive, [Next]_vars, UNCHANGED <<kind, calls>>,
         UNCHANGED step \/ step' \in {"ended", "dead"},
         answer' \in {answer, Null}, UNCHANGED permit \/ step' \in {"ended", "dead"}
  PROVE  CountSound'
<1>1. kind \in Kinds /\ calls \in [Kinds -> Nat]
  BY DEF RunInv, CaptureTypeOK
<1>2. \A k \in Kinds : fetches[k] \in Nat /\ fetches'[k] \in Nat /\ fetches[k] <= fetches'[k]
  BY FetchesGrow
<1>3. \A k \in Kinds : calls'[k] <= fetches'[k]
  BY <1>1, <1>2 DEF CountSound
<1>4. CASE UNCHANGED step /\ UNCHANGED permit
  BY <1>1, <1>2, <1>3, <1>4 DEF CountSound
<1>5. CASE step' \in {"ended", "dead"}
  BY <1>3, <1>5 DEF CountSound, Before
<1> QED
  BY <1>4, <1>5

\* What the receiver does for a request keeps the count ahead of the calls.
LEMMA CountHandled ==
  ASSUME CountSound, RunInv, Inductive, Handle
  PROVE  CountSound'
<1>1. [Next]_vars
  BY HandleServes
<1>2. /\ UNCHANGED <<kind, step, calls>> /\ wire # Null
      /\ answer' # Null => pending /\ wire.op = step
  BY HandleReplies DEF Inductive, runVars, sourceVars
<1>3. kind \in Kinds /\ calls \in [Kinds -> Nat] /\ (step = "dispatch" \/ step = "permit" => Running)
  BY DEF RunInv, CaptureTypeOK, Running
<1>4. step = "dispatch" /\ permit' # Null => permit'.kind = kind
  <2>1. step = "dispatch" => wire.op = "dispatch"
    BY <1>2, <1>3 DEF RunInv, RunSound
  <2> QED
    BY <2>1, HandleEffects DEF CountSound, Started
<1>5. step = "dispatch" /\ answer' # Null /\ answer'.ok => fetches'[kind] >= 1
  <2> SUFFICES ASSUME step = "dispatch", answer' # Null, answer'.ok PROVE fetches'[kind] >= 1
    OBVIOUS
  <2>1. ~Deny
    BY DEF Deny, Reply
  <2>2. Started
    BY <1>2, <2>1, HandleEffects
  <2>3. permit.kind = kind /\ fetches \in [Kinds -> Nat]
    BY <2>2 DEF Started, CountSound, Inductive, TypeOK
  <2> QED
    BY <1>3, <2>2, <2>3 DEF Started
<1>6. step = "permit" /\ answer' # Null /\ answer'.ok /\ permit' # Null => permit'.kind = answer'.kind
  <2> SUFFICES ASSUME step = "permit", answer' # Null, answer'.ok PROVE permit'.kind = answer'.kind
    OBVIOUS
  <2>1. ~Deny
    BY DEF Deny, Reply
  <2>2. Granted
    BY <1>2, <2>1, HandleEffects
  <2> QED
    BY <2>2 DEF Granted, Reply
<1> QED
  BY <1>1, <1>2, <1>3, <1>4, <1>5, <1>6, FetchesGrow DEF CountSound

\* An accepted reply leads no further than it says.
LEMMA CountAnswered ==
  ASSUME CountSound, RunInv, Answered
  PROVE  CountSound'
<1>1. UNCHANGED <<permit, fetches, calls>> /\ answer' = Null
  BY DEF Answered, Accepted, End, sourceVars, vars, permitVars, historyVars
<1>2. CASE \E o \in Outcomes : End(o)
  BY <1>1, <1>2 DEF End, runVars, CountSound, Before
<1>3. CASE Fits(answer) /\ Accepted(answer)
  <2>1. kind' = kind
    BY <1>3 DEF Accepted, runVars
  <2>2. CASE step = "hello" \/ step = "claim"
    BY <1>1, <1>3, <2>1, <2>2 DEF Accepted, GoOn, CountSound, Before
  <2>3. CASE step = "permit"
    <3>1. answer # Null /\ answer.ok /\ answer.kind = kind /\ step' = "dispatch"
      BY <1>3, <2>3 DEF Answered, Fits, Accepted, GoOn
    <3> QED
      BY <1>1, <2>1, <2>3, <3>1 DEF CountSound, Before
  <2>4. CASE step = "dispatch"
    <3>1. answer # Null /\ answer.ok /\ step' = "call"
      BY <1>3, <2>4 DEF Answered, Fits, Accepted, GoOn
    <3> QED
      BY <1>1, <2>1, <2>4, <3>1 DEF CountSound, Before
  <2>5. CASE step = "chunk" \/ step = "commit"
    <3>1. step' \in {"pull", "release", "commit"}
      BY <1>3, <2>5 DEF Accepted, GoOn, AfterChunk
    <3> QED
      BY <1>1, <2>1, <3>1 DEF CountSound, Before
  <2> QED
    BY <1>3, <2>2, <2>3, <2>4, <2>5 DEF Accepted
<1> QED
  BY <1>2, <1>3 DEF Outcomes, Answered

\* The collector calls once it may, and not again.
LEMMA CountCalled ==
  ASSUME CountSound, RunInv, Inductive, Fetch
  PROVE  CountSound'
<1>1. /\ step = "call" /\ calls' = [calls EXCEPT ![kind] = @ + 1]
      /\ step' \in {"pull", "persist"} /\ UNCHANGED <<kind, permit, fetches>>
  BY DEF Fetch, GoOn, runVars, vars, permitVars, historyVars
<1>2. kind \in Kinds /\ calls \in [Kinds -> Nat] /\ calls[kind] = 0 /\ fetches[kind] >= 1
  BY <1>1 DEF RunInv, CaptureTypeOK, CountSound, Before
<1>3. \A k \in Kinds : calls'[k] <= fetches[k]
  BY <1>1, <1>2 DEF CountSound
<1>4. kind = "session-check" => calls'["body"] = 0
  BY <1>1, <1>2 DEF CountSound, Kinds
<1> QED
  BY <1>1, <1>3, <1>4 DEF CountSound, Before

\* A second round is for what has not been called.
LEMMA CountReleased ==
  ASSUME CountSound, RunInv, Release
  PROVE  CountSound'
<1>1. UNCHANGED <<permit, fetches, calls>>
  BY DEF Release, vars, permitVars, historyVars
<1>2. CASE step' = "commit" /\ UNCHANGED kind
  BY <1>1, <1>2 DEF CountSound, Before
<1>3. CASE step' = "wait" /\ kind' = "body" /\ ~LastRound
  <2>1. calls["body"] = 0
    BY <1>3 DEF LastRound, RunInv, CaptureTypeOK, CountSound, Kinds
  <2> QED
    BY <1>1, <1>3, <2>1 DEF CountSound
<1> QED
  BY <1>2, <1>3 DEF Release, GoOn, runVars

\* Every step keeps the count ahead of the calls.
LEMMA StepCount ==
  ASSUME CountSound, RunInv, Inductive, [CaptureNext]_captureVars
  PROVE  CountSound'
<1>1. [Next]_vars
  BY StepServes
<1> USE DEF clientVars, runVars, sourceVars, portVars
<1>2. CASE UNCHANGED captureVars \/ Send \/ GiveUp \/ RefuseCall \/ Pull \/ Complete \/ LoseSource
  <2>1. UNCHANGED permit
    BY <1>2 DEF captureVars, Send, GiveUp, RefuseCall, Pull, Complete, LoseSource, vars, permitVars
  <2>2. CASE UNCHANGED captureVars \/ Send \/ GiveUp \/ Complete \/ LoseSource
    BY <1>1, <2>1, <2>2, CountKept DEF captureVars, Send, GiveUp, Complete, LoseSource, End, GoOn
  <2>3. CASE (RefuseCall \/ Pull) /\ UNCHANGED <<kind, calls>>
    <3>1. step' \in {"persist", "chunk", "ended"} /\ UNCHANGED fetches
      BY <2>3 DEF RefuseCall, Pull, GoOn, End, vars, historyVars
    <3> QED
      BY <2>3, <3>1 DEF CountSound, Before
  <2> QED
    BY <1>2, <2>2, <2>3 DEF RefuseCall, Pull, End
<1>3. CASE Wake \/ Persist
  <2>1. UNCHANGED <<kind, calls, permit, fetches>> /\ step' \in {"claim", "report", "ended"}
    BY <1>3 DEF Wake, Persist, GoOn, End, vars, permitVars, historyVars
  <2>2. step' = "claim" => step = "wait"
    BY <1>3 DEF Wake, Persist, GoOn, End
  <2> QED
    BY <2>1, <2>2 DEF CountSound, Before
<1>4. CASE LosePort \/ LoseRequest \/ Kill \/ StopReceiver
  BY <1>1, <1>4, CountKept
  DEF LosePort, LoseRequest, Kill, StopReceiver, Halt, HaltDuringChunk, HaltDuringCommit, RolledBack, vars,
      permitVars
<1>5. CASE Surroundings
  BY <1>1, <1>5, CountKept
  DEF Surroundings, OpenRoot, Tick, SetWall, LoseArtifact, ClockOnly, permitVars
<1> QED
  BY <1>2, <1>3, <1>4, <1>5, CountHandled, CountAnswered, CountCalled, CountReleased
  DEF CaptureNext, Progress

\* The count is ahead of the calls in every state of a run.
LEMMA CountInductive == CaptureSpec => []CountSound
<1>1. CaptureInit => CountSound
  BY DEF CaptureInit, Init, CountSound, Kinds
<1>2. CountSound /\ (Inductive /\ RunInv) /\ [CaptureNext]_captureVars => CountSound'
  BY StepCount
<1> QED
  BY <1>1, <1>2, CaptureInductive, PTL DEF CaptureSpec

\* Every upstream request was durably counted before it was made, and each kind is
\* counted once, so no run makes it twice.
THEOREM CountedFirstHolds == CaptureSpec => []CountedFirst
<1>1. CountSound /\ OneFetchPerKind => CountedFirst
  BY DEF CountSound, OneFetchPerKind, CountedFirst
<1> QED
  BY <1>1, CountInductive, RunServes, FetchedOnce, PTL

\* What the receiver promises of its own count carries over to the requests upstream:
\* a body is asked for only in a scope that admits it and after a committed session.
THEOREM UpstreamInOrderHolds == CaptureSpec => []UpstreamInOrder
<1>1. ASSUME CaptureTypeOK, CountedFirst, Abstract!Promised PROVE UpstreamInOrder
  <2> SUFFICES ASSUME calls["body"] > 0
               PROVE  scope \in BodyScopes /\ evidence["session-check"] # Null
    BY DEF UpstreamInOrder
  <2>1. calls["body"] \in Nat /\ calls["body"] <= fetches["body"]
    BY <1>1 DEF CaptureTypeOK, CountedFirst, Kinds
  <2>2. /\ fetches["body"] \in {0, 1}
        /\ fetches["body"] = 1 =>
             scope \in BodyScopes /\ "session-check" \in {k \in Kinds : evidence[k] # Null}
    BY <1>1 DEF Abstract!Promised, Abstract!ProbeKinds
  <2> QED
    BY <2>1, <2>2
<1> QED
  BY <1>1, CaptureTypes, CountedFirstHolds, RunServes, PromiseKept, PTL

-----------------------------------------------------------------------------
(* Failures *)

\* A recorded failure stays recorded.
LEMMA RecordKept ==
  ASSUME Inductive, RunInv, [CaptureNext]_captureVars, Recorded
  PROVE  Recorded'
<1>1. blocker' # Null
  BY StepServes, StepInductive, StepFenced DEF Recorded
<1>2. UNCHANGED permit
  <2>1. CASE Handle
    BY <2>1, HandleEffects DEF Recorded
  <2>2. CASE StopReceiver \/ Surroundings
    BY <2>2 DEF StopReceiver, Halt, HaltDuringChunk, HaltDuringCommit, RolledBack, Surroundings, OpenRoot,
       Tick, SetWall, LoseArtifact, ClockOnly, permitVars
  <2>3. CASE UNCHANGED vars
    BY <2>3 DEF vars, permitVars
  <2> QED
    BY <2>1, <2>2, <2>3, ProgressApart DEF CaptureNext, captureVars, LosePort, LoseRequest, Kill
<1> QED
  BY <1>1, <1>2 DEF Recorded

\* A receiver that is not asked to record a failure does not.
LEMMA FailureHandled ==
  ASSUME FailureSound, RunInv, Inductive, Handle
  PROVE  FailureSound'
<1>1. /\ UNCHANGED <<step, outcome, saved>> /\ wire # Null /\ wire' = Null
      /\ answer' # Null => pending /\ wire.op = step
  BY HandleReplies DEF Inductive, runVars
<1>2. permit' # Null /\ permit'.status = "failed" => saved
  BY <1>1, HandleEffects DEF FailureSound, Granted, Started, Filled, Failed
<1>3. step = "report" /\ answer' # Null /\ answer'.ok => Recorded'
  <2> SUFFICES ASSUME step = "report", answer' # Null, answer'.ok PROVE Recorded'
    OBVIOUS
  <2>1. ~Deny
    BY DEF Deny, Reply
  <2>2. Failed
    BY <1>1, <2>1, HandleEffects
  <2> QED
    BY <2>2 DEF Failed, Recorded
<1>4. outcome = "failed" => Recorded'
  BY RecordKept DEF FailureSound, CaptureNext
<1> QED
  BY <1>1, <1>2, <1>3, <1>4 DEF FailureSound

\* A run reports what it has saved, and ends as failed on a record.
LEMMA FailureProgresses ==
  ASSUME FailureSound, RunInv, Progress
  PROVE  FailureSound'
<1>1. UNCHANGED <<blocker, permit>>
  BY ProgressApart DEF vars, statusVars, permitVars
<1> USE DEF runVars, sourceVars, portVars, GoOn
<1>2. ASSUME NEW o \in {"complete", "uncertain"}, End(o) PROVE FailureSound'
  BY <1>1, <1>2 DEF End, FailureSound, Recorded
<1>3. CASE Send
  <2>1. CASE port
    BY <1>1, <1>3, <2>1 DEF Send, Message, FailureSound, Recorded
  <2> QED
    BY <1>2, <1>3, <2>1 DEF Send
<1>4. CASE Answered
  <2>1. CASE Fits(answer) /\ step = "report" /\ End("failed")
    <3>1. Recorded
      BY <1>4, <2>1 DEF Answered, Fits, FailureSound
    <3> QED
      BY <1>1, <2>1, <3>1 DEF End, FailureSound, Recorded
  <2>2. CASE Accepted(answer)
    <3>1. /\ step' \in {"claim", "permit", "dispatch", "call", "pull", "release", "commit"}
          /\ UNCHANGED <<outcome, saved, wire>> /\ answer' = Null
      BY <2>2 DEF Accepted, AfterChunk
    <3> QED
      BY <1>1, <3>1 DEF FailureSound, Recorded
  <2> QED
    BY <1>2, <1>4, <2>1, <2>2 DEF Answered
<1>5. CASE Persist
  <2>1. CASE saved' = TRUE
    <3>1. answer = Null
      BY <1>5 DEF Persist, RunInv, RunSound, RequestSteps
    <3>2. CASE step' = "report" /\ UNCHANGED <<outcome, wire, answer>>
      BY <1>1, <2>1, <3>1, <3>2 DEF FailureSound, Recorded
    <3> QED
      BY <1>2, <1>5, <3>2 DEF Persist
  <2> QED
    BY <1>2, <1>5, <2>1 DEF Persist
<1>6. CASE Fetch \/ RefuseCall \/ Pull \/ Release \/ Wake
  <2>1. CASE End("uncertain")
    BY <1>2, <2>1
  <2>2. CASE /\ step' \in {"pull", "persist", "chunk", "commit", "wait", "claim"}
             /\ UNCHANGED <<outcome, saved, wire, answer>>
    BY <1>1, <2>2 DEF FailureSound, Recorded
  <2> QED
    BY <1>6, <2>1, <2>2 DEF Fetch, RefuseCall, Pull, Release, Wake
<1>7. CASE GiveUp \/ Complete \/ LoseSource
  BY <1>2, <1>7 DEF GiveUp, Complete, LoseSource
<1> QED
  BY <1>3, <1>4, <1>5, <1>6, <1>7 DEF Progress

\* Every step keeps the two records of a failure in agreement.
LEMMA StepFailure ==
  ASSUME FailureSound, RunInv, Inductive, [CaptureNext]_captureVars
  PROVE  FailureSound'
<1> USE DEF clientVars, runVars, sourceVars, portVars
<1>1. CASE UNCHANGED captureVars
  BY <1>1 DEF captureVars, vars, statusVars, permitVars, FailureSound, Recorded
<1>2. CASE LosePort \/ LoseRequest \/ Kill \/ StopReceiver \/ Surroundings
  <2>1. /\ UNCHANGED <<saved, outcome, permit>> /\ step' \in {step, "dead"}
        /\ wire' \in {wire, Null} /\ answer' \in {answer, Null}
    BY <1>2 DEF LosePort, LoseRequest, Kill, StopReceiver, Surroundings, Halt, HaltDuringChunk,
       HaltDuringCommit, RolledBack, OpenRoot, Tick, SetWall, LoseArtifact, ClockOnly, vars, permitVars
  <2>2. outcome = "failed" \/ (step = "report" /\ answer # Null /\ answer.ok) => Recorded'
    BY RecordKept DEF FailureSound
  <2>3. step' = "report" => step = "report"
    BY <2>1
  <2>4. permit' # Null /\ permit'.status = "failed" => saved'
    BY <2>1 DEF FailureSound
  <2>5. outcome' = "failed" \/ (step' = "report" /\ answer' # Null /\ answer'.ok) => Recorded'
    BY <2>1, <2>2, <2>3
  <2>6. wire' # Null /\ wire'.op = "report" => saved'
    BY <2>1 DEF FailureSound
  <2> QED
    BY <2>1, <2>3, <2>4, <2>5, <2>6 DEF FailureSound
<1> QED
  BY <1>1, <1>2, FailureHandled, FailureProgresses DEF CaptureNext

\* A failure the run reports is recorded by the receiver, and what the receiver has
\* recorded was saved by the extension before.
THEOREM FailureSharedHolds == CaptureSpec => []FailureShared
<1>1. CaptureInit => FailureSound
  BY NullUnused DEF CaptureInit, Init, FailureSound, Outcomes
<1>2. FailureSound /\ (Inductive /\ RunInv) /\ [CaptureNext]_captureVars => FailureSound'
  BY StepFailure
<1>3. FailureSound => FailureShared
  BY DEF FailureSound, FailureShared, Recorded
<1> QED
  BY <1>1, <1>2, <1>3, CaptureInductive, PTL DEF CaptureSpec
-----------------------------------------------------------------------------
(* The pause *)

\* The interval the receiver demands before the next permit is over.
Due == nextPermit # Null => clock.mono >= nextPermit.mono

\* The pause is handed on from the release, after which the interval is covered by what
\* is left to wait, to the request for the second permit.
PauseSound ==
  /\ nextPermit # Null => clock.mono + WaitMs >= nextPermit.mono
  /\ step = "wait" /\ nextPermit # Null => wakeAt >= nextPermit.mono
  /\ step \in {"hello", "claim"} => Due
  /\ step = "permit" /\ (~pending \/ wire # Null) => Due
  /\ wire # Null /\ wire.op = "permit" => Due

\* The monotonic clock of a run only goes forward, and only a request for a permit moves
\* the time of the next one.
LEMMA PauseSteps ==
  ASSUME RunInv, TypeOK, [CaptureNext]_captureVars
  PROVE  /\ clock.mono \in Nat /\ clock'.mono \in Nat /\ clock.mono <= clock'.mono
         /\ nextPermit # Null => nextPermit.mono \in Nat
         /\ \/ UNCHANGED nextPermit
            \/ Handle /\ wire.op = "permit" /\ nextPermit' = PauseFromPermitEnd /\ UNCHANGED clock
<1> USE DEF permitVars
<1>1. clock \in Clocks /\ clock.mono \in Nat /\ (nextPermit # Null => nextPermit.mono \in Nat)
  BY DEF TypeOK, Clocks, Deadlines
<1>2. CASE UNCHANGED vars
  BY <1>1, <1>2 DEF vars
<1>3. CASE Handle
  <2>1. UNCHANGED clock
    BY <1>3 DEF Handle, ExhaustBudget, HandleHello, HandleClaim, HandlePermit, HandleDispatch, HandleChunk,
       HandleCommit, HandleReport, Claim, ClaimMismatch, DistrustClock, DenyOnTime, RefuseOnTime, Refuse,
       RequestPermit, DispatchStarted, DispatchLate, Chunk, CommitAccepted, CommitRejected, RequestFailed,
       ServedOnTime, ServedAnyTime, Served, vars
  <2>2. UNCHANGED nextPermit \/ (wire.op = "permit" /\ RequestPermit)
    BY <1>3 DEF Handle, ExhaustBudget, HandleHello, HandleClaim, HandlePermit, HandleDispatch, HandleChunk,
       HandleCommit, HandleReport, Claim, ClaimMismatch, DistrustClock, DenyOnTime, RefuseOnTime, Refuse,
       DispatchStarted, DispatchLate, Chunk, CommitAccepted, CommitRejected, RequestFailed, vars
  <2> QED
    BY <1>1, <1>3, <2>1, <2>2 DEF RequestPermit
<1>4. CASE StopReceiver
  <2>1. UNCHANGED <<clock, nextPermit>>
    BY <1>4 DEF StopReceiver, Halt, HaltDuringChunk, HaltDuringCommit, RolledBack
  <2> QED
    BY <1>1, <2>1
<1>5. CASE Surroundings
  <2>1. UNCHANGED nextPermit
    BY <1>5 DEF Surroundings, OpenRoot, Tick, SetWall, LoseArtifact, ClockOnly
  <2>2. clock' = clock \/ clock' = [clock EXCEPT !.wall = @ + 1, !.mono = @ + 1]
        \/ \E t \in Walls : clock' = [clock EXCEPT !.wall = t]
    BY <1>5 DEF Surroundings, OpenRoot, Tick, SetWall, LoseArtifact
  <2>3. clock'.mono = clock.mono \/ clock'.mono = clock.mono + 1
    BY <1>1, <2>2 DEF Clocks
  <2> QED
    BY <1>1, <2>1, <2>3
<1> QED
  BY <1>2, <1>3, <1>4, <1>5, ProgressApart
  DEF CaptureNext, captureVars, LosePort, LoseRequest, Kill

\* A step of the client takes the pause on.
LEMMA PauseProgresses ==
  ASSUME PauseSound, RunInv, TypeOK, Progress
  PROVE  PauseSound'
<1>1. UNCHANGED <<nextPermit, clock>> /\ (Due' <=> Due)
  BY ProgressApart DEF vars, permitVars, Due
<1> USE DEF GoOn, runVars, portVars
<1>2. ASSUME NEW o, End(o) PROVE PauseSound'
  BY <1>1, <1>2 DEF End, PauseSound
<1>3. CASE Send
  <2>1. CASE port
    BY <1>1, <1>3, <2>1 DEF Send, Message, PauseSound
  <2> QED
    BY <1>2, <1>3, <2>1 DEF Send
<1>4. CASE Answered
  <2>1. CASE Accepted(answer)
    <3>1. /\ pending' = FALSE /\ UNCHANGED wire
          /\ \/ step = "hello" /\ step' = "claim"
             \/ step = "claim" /\ step' = "permit"
             \/ step' \in {"dispatch", "call", "pull", "release", "commit"}
      BY <2>1 DEF Accepted, AfterChunk
    <3> QED
      BY <1>1, <3>1 DEF PauseSound
  <2> QED
    BY <1>2, <1>4, <2>1 DEF Answered
<1>5. CASE Release
  <2>1. CASE step' = "wait" /\ wakeAt' = Pause /\ UNCHANGED wire
    BY <1>1, <2>1 DEF PauseSound, Pause
  <2>2. CASE step' = "commit" /\ UNCHANGED wire
    BY <1>1, <2>2 DEF PauseSound
  <2> QED
    BY <1>5, <2>1, <2>2 DEF Release
<1>6. CASE Wake
  <2>1. step = "wait" /\ clock.mono >= wakeAt /\ step' = "claim" /\ UNCHANGED wire
        /\ wakeAt \in Nat /\ clock.mono \in Nat /\ (nextPermit # Null => nextPermit.mono \in Nat)
    BY <1>6 DEF Wake, RunInv, CaptureTypeOK, TypeOK, Clocks, Deadlines
  <2>2. Due
    BY <2>1 DEF PauseSound, Due
  <2> QED
    BY <1>1, <2>1, <2>2 DEF PauseSound
<1>7. CASE Fetch \/ RefuseCall \/ Pull \/ Persist
  <2>1. (\E o \in Outcomes : End(o))
        \/ (step' \in {"pull", "persist", "chunk", "report"} /\ UNCHANGED wire)
    BY <1>7 DEF Fetch, RefuseCall, Pull, Persist, Outcomes
  <2> QED
    BY <1>1, <1>2, <2>1 DEF PauseSound
<1>8. CASE GiveUp \/ Complete \/ LoseSource
  BY <1>2, <1>8 DEF GiveUp, Complete, LoseSource
<1> QED
  BY <1>3, <1>4, <1>5, <1>6, <1>7, <1>8 DEF Progress

\* Every step keeps the pause.
LEMMA StepPause ==
  ASSUME PauseSound, RunInv, TypeOK, [CaptureNext]_captureVars
  PROVE  PauseSound'
<1>1. /\ clock.mono \in Nat /\ clock'.mono \in Nat /\ clock.mono <= clock'.mono
      /\ nextPermit # Null => nextPermit.mono \in Nat
  BY PauseSteps
<1>2. /\ PermitMs \in Nat /\ SpacingMs \in Nat /\ WaitMs \in Nat /\ WaitMs >= PermitMs + SpacingMs
  BY ReceiverAssumption, CaptureAssumption
<1>3. ASSUME UNCHANGED <<nextPermit, wakeAt, pending>>, step' \in {step, "dead"},
             wire' \in {wire, Null}
      PROVE  PauseSound'
  <2>1. Due => Due'
    BY <1>1, <1>3 DEF Due
  <2>2. nextPermit' # Null => clock'.mono + WaitMs >= nextPermit'.mono
    BY <1>1, <1>2, <1>3 DEF PauseSound
  <2> QED
    BY <1>3, <2>1, <2>2 DEF PauseSound
<1>4. CASE Handle
  <2>1. wire # Null /\ wire' = Null /\ UNCHANGED <<step, wakeAt, pending>>
    BY <1>4, Replied DEF Reply, runVars
  <2>2. CASE UNCHANGED nextPermit
    BY <1>3, <2>1, <2>2
  <2>3. CASE wire.op = "permit" /\ nextPermit' = PauseFromPermitEnd /\ UNCHANGED clock
    <3>1. nextPermit'.mono = clock.mono + (PermitMs + SpacingMs)
      BY <2>3 DEF PauseFromPermitEnd, In
    <3>2. step \in {"ended", "dead"} \/ (pending /\ step = "permit")
      BY <2>1, <2>3 DEF RunInv, RunSound, Running
    <3> QED
      BY <1>1, <1>2, <2>1, <2>3, <3>1, <3>2 DEF PauseSound
  <2> QED
    BY <2>2, <2>3, PauseSteps
<1>5. CASE UNCHANGED captureVars \/ LosePort \/ LoseRequest \/ StopReceiver \/ Surroundings
  <2>1. UNCHANGED nextPermit
    BY <1>5 DEF captureVars, LosePort, LoseRequest, StopReceiver, Halt, HaltDuringChunk, HaltDuringCommit,
       RolledBack, Surroundings, OpenRoot, Tick, SetWall, LoseArtifact, ClockOnly, vars, permitVars
  <2> QED
    BY <1>3, <1>5, <2>1 DEF captureVars, clientVars, runVars, portVars, LosePort, LoseRequest, StopReceiver,
       Surroundings
<1>6. CASE Kill
  <2>1. UNCHANGED <<nextPermit, clock, wire>> /\ step' = "dead"
    BY <1>6 DEF Kill, vars, permitVars
  <2> QED
    BY <2>1 DEF PauseSound, Due
<1> QED
  BY <1>4, <1>5, <1>6, PauseProgresses DEF CaptureNext

\* The request for the second permit never comes before the interval is over, however
\* late the receiver handled the first and whatever is done to the wall clock.
THEOREM PauseIsEnough == CaptureSpec => []PauseSuffices
<1>1. CaptureInit => PauseSound
  BY DEF CaptureInit, Init, PauseSound, Due
<1>2. PauseSound /\ (Inductive /\ RunInv) /\ [CaptureNext]_captureVars => PauseSound'
  BY StepPause DEF Inductive
<1>3. PauseSound => PauseSuffices
  BY DEF PauseSound, PauseSuffices, Due
<1> QED
  BY <1>1, <1>2, <1>3, CaptureInductive, PTL DEF CaptureSpec
-----------------------------------------------------------------------------
(* Whose bytes are sent *)

Own(d) == WellFormed("session-check", <<d>>) /\ Accepts("session-check", <<d>>)

\* What is sent has been fetched, and as a session's only if it is the own one's.  That a
\* chunk of a body is never taken for one of a session needs the count of the fetches.
SentSound ==
  /\ \A i \in 1..Len(mem) : Own(mem[i])
  /\ step \in {"pull", "chunk", "release", "commit"} => calls[kind] >= 1
  /\ step = "chunk" /\ kind = "session-check" => Own(got[kind][sent + 1])
  /\ wire # Null /\ wire.op = "chunk" =>
       /\ calls[wire.kind] >= 1
       /\ wire.kind = "session-check" => Own(wire.bytes[1])

\* The session's bytes grow by what a chunk of a live session permit brings.
LEMMA MemSteps ==
  ASSUME RunInv, [CaptureNext]_captureVars
  PROVE  \/ mem' = mem \/ mem' = <<>>
         \/ /\ Handle /\ wire.op = "chunk" /\ PermitIs({"started"}) /\ permit.kind = "session-check"
            /\ mem' = Append(mem, wire.bytes[1])
<1>1. CASE UNCHANGED vars
  BY <1>1 DEF vars, processVars
<1>2. CASE Handle
  BY <1>2 DEF Handle, ExhaustBudget, HandleHello, HandleClaim, HandlePermit, HandleDispatch, HandleChunk,
     HandleCommit, HandleReport, Claim, ClaimMismatch, DistrustClock, DenyOnTime, RefuseOnTime, Refuse,
     RequestPermit, DispatchStarted, DispatchLate, Chunk, CommitAccepted, CommitRejected, RequestFailed,
     vars, processVars
<1>3. CASE StopReceiver \/ Surroundings
  BY <1>3 DEF StopReceiver, Halt, HaltDuringChunk, HaltDuringCommit, Stop, Surroundings, OpenRoot, Tick,
     SetWall, LoseArtifact, ClockOnly, processVars
<1> QED
  BY <1>1, <1>2, <1>3, ProgressApart DEF CaptureNext, captureVars, LosePort, LoseRequest, Kill

\* The memory of the receiver keeps holding the own session's bytes only.
LEMMA MemKept ==
  ASSUME SentSound, CountSound, RunInv, Inductive, [CaptureNext]_captureVars
  PROVE  \A i \in 1..Len(mem') : Own(mem'[i])
<1>1. mem \in Seq(Data)
  BY DEF Inductive, TypeOK
<1>2. CASE mem' = mem \/ mem' = <<>>
  BY <1>2 DEF SentSound
<1>3. CASE /\ Handle /\ wire.op = "chunk" /\ PermitIs({"started"}) /\ permit.kind = "session-check"
           /\ mem' = Append(mem, wire.bytes[1])
  <2>1. wire # Null /\ wire.kind \in Kinds /\ wire.bytes \in Seq(Data) /\ Len(wire.bytes) = 1
    BY <1>3 DEF Handle, RunInv, RunSound, CaptureTypeOK, Messages
  <2>2. fetches["body"] = 0
    BY <1>3, PermitStage DEF PermitIs, Inductive, StageAgrees, Phase
  <2>3. calls["body"] <= 0 /\ calls["body"] \in Nat
    BY <2>2 DEF CountSound, RunInv, CaptureTypeOK, Kinds
  <2>4. wire.kind # "body"
    BY <1>3, <2>1, <2>3 DEF SentSound
  <2>5. Own(wire.bytes[1]) /\ wire.bytes[1] \in Data
    BY <1>3, <2>1, <2>4 DEF SentSound, Kinds
  <2>6. ASSUME NEW i \in 1..Len(mem') PROVE Own(mem'[i])
    <3>1. Len(mem') = Len(mem) + 1
      BY <1>1, <1>3, <2>5
    <3>2. CASE i = Len(mem) + 1
      BY <1>1, <1>3, <2>5, <3>2
    <3>3. CASE i \in 1..Len(mem)
      <4>1. mem'[i] = mem[i]
        BY <1>1, <1>3, <2>5, <3>3
      <4> QED
        BY <3>3, <4>1 DEF SentSound
    <3> QED
      BY <1>1, <3>1, <3>2, <3>3
  <2> QED
    BY <2>6
<1> QED
  BY <1>2, <1>3, MemSteps

\* The client sends what its collector has, and a session's bytes after a look at them.
LEMMA SentProgresses ==
  ASSUME SentSound, CountSound, RunInv, Inductive, Progress
  PROVE  SentSound'
<1>0. \A i \in 1..Len(mem') : Own(mem'[i])
  BY MemKept DEF CaptureNext
<1> USE DEF GoOn, runVars, sourceVars, portVars
<1>1. ASSUME NEW o, End(o) PROVE SentSound'
  BY <1>0, <1>1 DEF End, SentSound
<1>2. CASE Send
  <2>1. CASE port
    <3>1. UNCHANGED <<step, kind, sent, calls, got>> /\ (wire' = Null \/ wire' = Message)
      BY <1>2, <2>1 DEF Send
    <3>2. Message.op = step /\ Message.kind = kind
          /\ (step = "chunk" => Message.bytes = <<got[kind][sent + 1]>>)
      BY DEF Message
    <3> HIDE DEF Message
    <3> QED
      BY <1>0, <3>1, <3>2 DEF SentSound
  <2> QED
    BY <1>1, <1>2, <2>1 DEF Send
<1>3. CASE Answered
  <2>1. CASE Accepted(answer)
    <3>1. /\ UNCHANGED <<kind, calls, got, wire>> /\ step' # "chunk"
          /\ step' \in {"pull", "release", "commit"} => step \in {"chunk", "commit"}
      BY <2>1 DEF Accepted, AfterChunk
    <3> QED
      BY <1>0, <3>1 DEF SentSound
  <2> QED
    BY <1>1, <1>3, <2>1 DEF Answered
<1>4. CASE Fetch
  <2>1. /\ step = "call" /\ step' \in {"pull", "persist"} /\ UNCHANGED <<kind, wire>>
        /\ calls' = [calls EXCEPT ![kind] = @ + 1]
    BY <1>4 DEF Fetch
  <2>2. kind \in Kinds /\ calls \in [Kinds -> Nat] /\ (wire # Null => wire.kind \in Kinds)
    BY DEF RunInv, CaptureTypeOK, Messages
  <2>3. \A k \in Kinds : calls'[k] >= calls[k]
    BY <2>1, <2>2
  <2>4. calls'[kind] >= 1
    BY <2>1, <2>2
  <2>5. wire # Null /\ wire.op = "chunk" => calls'[wire.kind] >= 1
    BY <2>1, <2>2, <2>3 DEF SentSound
  <2> QED
    BY <1>0, <2>1, <2>4, <2>5 DEF SentSound
<1>5. CASE Pull
  <2>1. CASE Forward(got[kind][sent + 1])
    <3>1. step = "pull" /\ step' = "chunk" /\ UNCHANGED <<kind, sent, calls, got, wire>>
      BY <1>5, <2>1 DEF Pull
    <3>2. kind = "session-check" => Own(got[kind][sent + 1])
      BY <2>1 DEF Forward, Own
    <3> QED
      BY <1>0, <3>1, <3>2 DEF SentSound
  <2> QED
    BY <1>1, <1>5, <2>1 DEF Pull
<1>6. CASE RefuseCall \/ Release \/ Wake \/ Persist
  <2>1. \/ \E o \in Outcomes : End(o)
        \/ /\ step' \in {"persist", "claim", "report", "wait"} /\ UNCHANGED <<calls, got, wire>>
        \/ step = "release" /\ step' = "commit" /\ UNCHANGED <<kind, calls, got, wire>>
    BY <1>6 DEF RefuseCall, Release, Wake, Persist, Outcomes
  <2> QED
    BY <1>0, <1>1, <2>1 DEF SentSound
<1>7. CASE GiveUp \/ Complete \/ LoseSource
  BY <1>1, <1>7 DEF GiveUp, Complete, LoseSource
<1> QED
  BY <1>2, <1>3, <1>4, <1>5, <1>6, <1>7 DEF Progress

\* Every step sends own bytes only.
LEMMA StepSent ==
  ASSUME SentSound, CountSound, RunInv, Inductive, [CaptureNext]_captureVars
  PROVE  SentSound'
<1>1. CASE /\ UNCHANGED <<kind, sent, calls, got>> /\ step' \in {step, "dead"}
           /\ wire' \in {wire, Null}
  BY <1>1, MemKept DEF SentSound
<1>2. CASE Handle
  BY <1>1, <1>2, Replied DEF Inductive, Reply, runVars, sourceVars
<1>3. CASE UNCHANGED captureVars \/ LosePort \/ LoseRequest \/ Kill \/ StopReceiver \/ Surroundings
  BY <1>1, <1>3 DEF captureVars, clientVars, runVars, sourceVars, portVars, LosePort, LoseRequest, Kill,
     StopReceiver, Surroundings
<1> QED
  BY <1>2, <1>3, SentProgresses DEF CaptureNext

LEMMA SentInductive == CaptureSpec => []SentSound
<1>1. CaptureInit => SentSound
  BY DEF CaptureInit, Init, SentSound
<1>2. SentSound /\ CountSound /\ (Inductive /\ RunInv) /\ [CaptureNext]_captureVars => SentSound'
  BY StepSent
<1> QED
  BY <1>1, <1>2, CaptureInductive, CountInductive, PTL DEF CaptureSpec

\* The receiver never holds a session's bytes that are not the configured identity's.
THEOREM ForeignBytesKeptOut == CaptureSpec => []ForeignBytesStay
<1>1. SentSound => ForeignBytesStay
  BY DEF SentSound, ForeignBytesStay, Own
<1> QED
  BY <1>1, SentInductive, PTL
-----------------------------------------------------------------------------
(* Completion *)

\* The receiver has committed what the collector fetched.
Shared(k) == evidence[k] # Null /\ evidence[k].content = got[k] /\ calls[k] >= 1

\* Before its commit the session has no evidence, so that the permit of its round is
\* its own; what a commit carries is the result of the round, and what is acknowledged
\* is committed; the second round begins on a committed session.
SharedSound ==
  /\ want \notin BodyScopes => kind = "session-check"
  /\ kind = "body" => Shared("session-check")
  /\ kind = "session-check" /\ step \in Before \cup {"pull", "chunk"} =>
       evidence["session-check"] = Null
  /\ kind = "session-check" /\ Running /\ permit # Null => permit.kind = "session-check"
  /\ wire # Null /\ wire.op = "commit" /\ pending => wire.bytes = got[kind]
  /\ step = "release" /\ want \notin SetupScopes => Shared(kind)
  /\ step = "commit" /\ answer # Null /\ answer.ok => Shared(kind)
  /\ outcome = "complete" =>
       Shared("session-check") /\ (want \in BodyScopes => Shared("body"))

RunKept == CountSound /\ SentSound /\ SharedSound /\ RunInv /\ Inductive

\* What is shared stays shared.
LEMMA SharedStays ==
  ASSUME RunKept, [CaptureNext]_captureVars, NEW k \in Kinds, Shared(k)
  PROVE  Shared(k)'
<1>1. evidence'[k] = evidence[k]
  BY StepServes, EvidenceStays DEF RunKept, Shared
<1>2. UNCHANGED <<got, calls>> \/ Fetch
  BY Replied DEF RunKept, Inductive, Reply, CaptureNext, captureVars, clientVars, sourceVars, Progress, Send,
     Answered, Accepted, End, GiveUp, RefuseCall, Pull, Release, Complete, LoseSource, Wake, Persist,
     LosePort, LoseRequest, Kill, StopReceiver, Surroundings
<1>3. CASE UNCHANGED <<got, calls>>
  BY <1>1, <1>3 DEF Shared
<1>4. CASE Fetch
  <2>1. step = "call" /\ calls[kind] = 0 /\ kind \in Kinds /\ calls \in [Kinds -> Nat]
        /\ got \in [Kinds -> Seq(Data)]
    BY <1>4 DEF Fetch, RunKept, CountSound, RunInv, CaptureTypeOK, Before
  <2>2. k # kind
    BY <2>1 DEF Shared
  <2>3. got'[k] = got[k] /\ calls'[k] = calls[k]
    BY <1>4, <2>1, <2>2 DEF Fetch
  <2> QED
    BY <1>1, <2>3 DEF Shared
<1> QED
  BY <1>2, <1>3, <1>4

\* The permit under which a run commits is for the kind of its round.
LEMMA CommitsOwn ==
  ASSUME RunKept, step = "commit", PermitIs({"started"})
  PROVE  permit.kind = kind
<1>1. permit # Null /\ blocker = Null /\ permit.kind \in Kinds /\ kind \in Kinds
  BY PermitStage DEF RunKept, PermitIs, Permits, RunInv, CaptureTypeOK
<1>2. CASE kind = "session-check"
  BY <1>1, <1>2 DEF RunKept, SharedSound, Running
<1>3. CASE kind = "body"
  <2>1. calls["body"] >= 1 /\ calls["body"] <= fetches["body"] /\ calls["body"] \in Nat
        /\ fetches["body"] \in Nat
    BY <1>3 DEF RunKept, SentSound, CountSound, Inductive, TypeOK, RunInv, CaptureTypeOK, Kinds
  <2>2. permit.kind = "session-check" => fetches["body"] = 0
    BY <1>1, PermitStage DEF PermitIs, RunKept, Inductive, StageAgrees, Phase
  <2> QED
    BY <1>1, <1>3, <2>1, <2>2 DEF Kinds
<1> QED
  BY <1>1, <1>2, <1>3 DEF Kinds

\* A commit that is acknowledged is of the round's result.
LEMMA CommitShares ==
  ASSUME RunKept, Handle, step = "commit", answer' # Null, answer'.ok
  PROVE  Shared(kind)'
<1>1. wire # Null /\ pending /\ wire.op = "commit" /\ UNCHANGED <<kind, got, calls>>
  BY HandleReplies DEF RunKept, Inductive, runVars, sourceVars
<1>2. ~Deny
  BY DEF Deny, Reply
<1>3. PICK a \in ArtifactIds : Received = wire.bytes /\ CommitAccepted(Len(wire.bytes), a)
  BY <1>1, <1>2 DEF Handle, HandleCommit, HandleHello, HandleClaim, HandlePermit, HandleDispatch, HandleChunk,
     HandleReport
<1>4. permit.kind = kind /\ kind \in Kinds
  BY <1>3, CommitsOwn DEF CommitAccepted, MayCommit, RunKept, RunInv, CaptureTypeOK
<1>5. evidence' = [evidence EXCEPT ![kind] = [artifact |-> a, content |-> Received]]
  BY <1>3, <1>4 DEF CommitAccepted
<1>6. [artifact |-> a, content |-> Received] # Null
  BY ReceivedTypes, NotNull DEF RunKept, Inductive, Evidence
<1>7. Received = got[kind] /\ calls[kind] >= 1
  BY <1>1, <1>3 DEF RunKept, SharedSound, SentSound
<1> QED
  BY <1>1, <1>4, <1>5, <1>6, <1>7 DEF Shared, RunKept, Inductive, TypeOK

\* What the receiver does for a request keeps the two in step.
LEMMA SharedHandled ==
  ASSUME RunKept, Handle
  PROVE  SharedSound'
<1>1. /\ UNCHANGED <<step, want, kind, got, calls, outcome, pending>> /\ wire # Null /\ wire' = Null
      /\ answer' # Null => pending /\ wire.op = step
  BY HandleReplies, Replied DEF RunKept, Inductive, runVars, sourceVars, Reply
<1>2. \A k \in Kinds : Shared(k) => Shared(k)'
  BY SharedStays DEF CaptureNext
<1>3. kind \in Kinds /\ (Running => pending /\ wire.op = step)
  BY <1>1 DEF RunKept, RunInv, RunSound, CaptureTypeOK
<1>4. ASSUME kind = "session-check", step \in Before \cup {"pull", "chunk"}
      PROVE  evidence'["session-check"] = Null
  <2>1. wire.op # "commit"
    BY <1>3, <1>4 DEF Before, Running
  <2>2. UNCHANGED evidence
    BY <2>1 DEF Handle, ExhaustBudget, HandleHello, HandleClaim, HandlePermit, HandleDispatch, HandleChunk,
       HandleCommit, HandleReport, Claim, ClaimMismatch, DistrustClock, DenyOnTime, RefuseOnTime, Refuse,
       RequestPermit, DispatchStarted, DispatchLate, Chunk, RequestFailed, vars, proofVars
  <2> QED
    BY <1>4, <2>2 DEF RunKept, SharedSound
<1>5. ASSUME kind = "session-check", Running, permit' # Null
      PROVE  permit'.kind = "session-check"
  <2>1. CASE permit # Null /\ permit'.kind = permit.kind
    BY <1>5, <2>1 DEF RunKept, SharedSound
  <2>2. CASE wire.op = "permit" /\ Granted /\ blocker = Null
    <3>1. evidence["session-check"] = Null
      BY <1>3, <1>5, <2>2 DEF RunKept, SharedSound, Before
    <3>2. ~BodyReady
      BY <3>1, Zenon DEF RunKept, Inductive, StageAgrees
    <3> QED
      BY <2>2, <3>2 DEF Granted, WorkUnit
  <2> QED
    BY <1>5, <2>1, <2>2, HandleEffects DEF RunKept, Started, Filled, Failed
<1>6. step = "commit" /\ answer' # Null /\ answer'.ok => Shared(kind)'
  BY CommitShares
<1> QED
  BY <1>1, <1>2, <1>3, <1>4, <1>5, <1>6 DEF RunKept, SharedSound, Running, Kinds

\* A run ends as complete after the commit of its last round only.
LEMMA SharedEnds ==
  ASSUME RunKept, Progress, NEW o \in Outcomes, End(o),
         o = "complete" => Shared("session-check") /\ (want \in BodyScopes => Shared("body"))
  PROVE  SharedSound'
<1>1. step' = "ended" /\ outcome' = o /\ UNCHANGED <<want, kind, got, calls>> /\ pending' = FALSE
      /\ answer' = Null
  BY DEF End, runVars
<1>2. \A k \in Kinds : Shared(k) => Shared(k)'
  BY SharedStays DEF CaptureNext
<1> QED
  BY <1>1, <1>2 DEF RunKept, SharedSound, Running, Before, Kinds

\* The steps of the client and the collector.
LEMMA SharedProgresses ==
  ASSUME RunKept, Progress
  PROVE  SharedSound'
<1>1. UNCHANGED <<permit, evidence>>
  BY ProgressApart DEF vars, permitVars, proofVars
<1>2. \A k \in Kinds : Shared(k) => Shared(k)'
  BY SharedStays DEF CaptureNext
<1>3. kind \in Kinds /\ calls \in [Kinds -> Nat] /\ got \in [Kinds -> Seq(Data)] /\ want \in AllScopes
  BY CaptureAssumption DEF RunKept, RunInv, CaptureTypeOK
<1> USE DEF GoOn, runVars, sourceVars, portVars
<1>4. ASSUME End("uncertain") \/ End("failed") PROVE SharedSound'
  BY <1>4, SharedEnds DEF Outcomes
<1>5. CASE Send
  <2>1. CASE port
    <3>1. UNCHANGED <<want, kind, step, outcome, got, calls, answer>> /\ (wire' = Null \/ wire' = Message)
      BY <1>5, <2>1 DEF Send
    <3>2. Message.op = step /\ (step = "commit" => Message.bytes = got[kind])
      BY DEF Message
    <3> HIDE DEF Message
    <3> QED
      BY <1>1, <1>2, <1>3, <3>1, <3>2 DEF RunKept, SharedSound, Running, Kinds
  <2> QED
    BY <1>4, <1>5, <2>1 DEF Send
<1>6. CASE Answered
  <2>1. CASE Fits(answer) /\ Accepted(answer)
    <3>1. /\ UNCHANGED <<want, kind, outcome, got, calls>> /\ pending' = FALSE /\ answer' = Null
          /\ \/ step \in Before /\ step' \in Before
             \/ step = "chunk" /\ step' \in {"pull", "release", "commit"}
                /\ (step' = "release" => want \in SetupScopes)
             \/ step = "commit" /\ step' = "release"
      BY <2>1 DEF Accepted, AfterChunk, Before
    <3>2. step = "commit" => Shared(kind)
      BY <1>6, <2>1 DEF Answered, Fits, RunKept, SharedSound
    <3>3. Running
      BY <3>1 DEF Running, Before
    <3> QED
      BY <1>1, <1>2, <1>3, <3>1, <3>2, <3>3 DEF RunKept, SharedSound, Before, Kinds
  <2>2. CASE Fits(answer) /\ step = "commit" /\ want \in SetupScopes /\ End("complete")
    <3>1. Shared("session-check") /\ want \notin BodyScopes
      BY <1>6, <2>2 DEF Answered, Fits, RunKept, SharedSound, SetupScopes, BodyScopes
    <3> QED
      BY <2>2, <3>1, SharedEnds DEF Outcomes
  <2> QED
    BY <1>4, <1>6, <2>1, <2>2 DEF Answered
<1>7. CASE Fetch
  <2>1. /\ step = "call" /\ step' \in {"pull", "persist"}
        /\ UNCHANGED <<want, kind, outcome, pending, wire, answer>>
    BY <1>7 DEF Fetch
  <2>2. wire = Null
    BY <2>1 DEF RunKept, RunInv, RunSound, Running, RequestSteps
  <2> QED
    BY <1>1, <1>2, <1>3, <2>1, <2>2 DEF RunKept, SharedSound, Before, Running, Kinds
<1>8. CASE Release
  <2>1. UNCHANGED <<want, outcome, got, calls, pending, wire, answer>> /\ step = "release"
    BY <1>8 DEF Release
  <2>2. wire = Null /\ answer = Null
    BY <2>1 DEF RunKept, RunInv, RunSound, Running, RequestSteps
  <2>3. CASE step' = "commit" /\ UNCHANGED kind
    BY <1>1, <1>2, <1>3, <2>1, <2>2, <2>3 DEF RunKept, SharedSound, Before, Running, Kinds
  <2>4. CASE want \notin SetupScopes /\ ~LastRound /\ step' = "wait" /\ kind' = "body"
    <3>1. kind = "session-check" /\ Shared("session-check") /\ want \in BodyScopes
      BY <1>3, <2>1, <2>4 DEF LastRound, RunKept, SharedSound, Kinds
    <3> QED
      BY <1>1, <1>2, <2>1, <2>2, <2>4, <3>1 DEF RunKept, SharedSound, Before, Running, Kinds
  <2> QED
    BY <1>8, <2>3, <2>4 DEF Release
<1>9. CASE Complete
  <2>1. Shared(kind) /\ (kind = "body" \/ want \notin BodyScopes) /\ End("complete")
    BY <1>9 DEF Complete, LastRound, RunKept, SharedSound
  <2>2. Shared("session-check") /\ (want \in BodyScopes => Shared("body"))
    BY <1>3, <2>1 DEF RunKept, SharedSound, Kinds
  <2> QED
    BY <2>1, <2>2, SharedEnds DEF Outcomes
<1>10. CASE RefuseCall \/ Pull \/ Wake \/ Persist
  <2>1. \/ End("uncertain")
        \/ /\ UNCHANGED <<want, kind, outcome, got, calls, pending, wire, answer>>
           /\ \/ step \in Before \cup {"pull"} /\ step' \in {"chunk", "claim", "persist"}
              \/ step = "persist" /\ step' = "report"
    BY <1>10 DEF RefuseCall, Pull, Wake, Persist, Before
  <2> QED
    BY <1>1, <1>2, <1>3, <1>4, <2>1 DEF RunKept, SharedSound, Before, Running, Kinds
<1>11. CASE GiveUp \/ LoseSource
  BY <1>4, <1>11 DEF GiveUp, LoseSource
<1> QED
  BY <1>5, <1>6, <1>7, <1>8, <1>9, <1>10, <1>11 DEF Progress

\* Every step keeps client and receiver in step.
LEMMA StepShared ==
  ASSUME RunKept, [CaptureNext]_captureVars
  PROVE  SharedSound'
<1>1. \A k \in Kinds : Shared(k) => Shared(k)'
  BY SharedStays
<1>2. kind \in Kinds
  BY DEF RunKept, RunInv, CaptureTypeOK
<1>3. CASE UNCHANGED captureVars \/ LosePort \/ LoseRequest \/ Kill \/ StopReceiver \/ Surroundings
  <2>1. UNCHANGED <<permit, evidence>>
    BY <1>3 DEF captureVars, LosePort, LoseRequest, Kill, StopReceiver, Halt, HaltDuringChunk, HaltDuringCommit,
       RolledBack, Surroundings, OpenRoot, Tick, SetWall, LoseArtifact, ClockOnly, vars, permitVars, proofVars
  <2>2. /\ UNCHANGED <<want, kind, outcome, got, calls>>
        /\ UNCHANGED <<step, pending>> \/ (step' = "dead" /\ pending' = FALSE)
        /\ wire' \in {wire, Null} /\ answer' \in {answer, Null}
    BY <1>3 DEF captureVars, clientVars, runVars, sourceVars, portVars, LosePort, LoseRequest, Kill, StopReceiver,
       Surroundings
  <2> QED
    BY <1>1, <1>2, <2>1, <2>2 DEF RunKept, SharedSound, Before, Running, Kinds
<1> QED
  BY <1>3, SharedHandled, SharedProgresses DEF CaptureNext

\* A run that reports completion has left the receiver with the bytes its collector
\* fetched, whatever was lost, late or restarted on the way.
THEOREM CompletionIsShared == CaptureSpec => []CompletionShared
<1>1. CaptureInit => SharedSound
  BY NullUnused DEF CaptureInit, Init, SharedSound, Kinds, Outcomes
<1>2. SharedSound /\ CountSound /\ SentSound /\ (Inductive /\ RunInv) /\ [CaptureNext]_captureVars
        => SharedSound'
  BY StepShared DEF RunKept
<1>3. SharedSound /\ CountSound /\ OneFetchPerKind /\ (Inductive /\ RunInv) => CompletionShared
  <2> SUFFICES ASSUME SharedSound, CountSound, OneFetchPerKind, Inductive, RunInv,
                      outcome = "complete",
                      NEW k \in (IF want \in BodyScopes THEN Kinds ELSE {"session-check"})
               PROVE  evidence[k] # Null /\ evidence[k].content = got[k] /\ calls[k] = 1
    BY DEF CompletionShared
  <2>1. k \in Kinds /\ Shared(k)
    BY DEF SharedSound, Kinds
  <2>2. calls[k] <= fetches[k] /\ fetches[k] <= 1 /\ calls[k] \in Nat /\ fetches[k] \in Nat
    BY <2>1 DEF CountSound, OneFetchPerKind, Inductive, TypeOK, RunInv, CaptureTypeOK
  <2> QED
    BY <2>1, <2>2 DEF Shared
<1> QED
  BY <1>1, <1>2, <1>3, CaptureInductive, CountInductive, SentInductive, RunServes, FetchedOnce, PTL
  DEF CaptureSpec
=============================================================================
