------------------------ MODULE ProbeReceiverProofs ------------------------
(***************************************************************************)
(* The types of the receiver, the phase of the probe, its fence, its       *)
(* evidence and its cooldown, and who fetched, in which opening of the     *)
(* root and at what time, for every value of the constants.                *)
(***************************************************************************)
EXTENDS ProbeReceiverProps, TLAPS

-----------------------------------------------------------------------------
(* Typing *)

\* Deadlines computed from a clock reading are deadlines.
LEMMA ClockTypes ==
  ASSUME TypeOK, NEW ms \in Nat
  PROVE  In(ms) \in Deadlines
BY DEF TypeOK, In, Clocks, Deadlines

\* Every reported failure class leaves a known blocker.
LEMMA BlockerTypes ==
  ASSUME NEW class
  PROVE  BlockerOf(class) \in Blockers
BY DEF BlockerOf, Blockers

\* A rejected result leaves a known blocker.
LEMMA VerdictTypes ==
  ASSUME NEW exact, CommitVerdict(exact) # "valid"
  PROVE  CommitVerdict(exact) \in Blockers
BY DEF CommitVerdict, Blockers

\* The cooldown computed from a failure is a time and a flag.
LEMMA CooldownTypes ==
  ASSUME TypeOK, NEW delay \in RetryDelays, NEW overflow \in BOOLEAN
  PROVE  CooldownFrom(delay, overflow) \in [until : Nat, unbounded : BOOLEAN]
<1> DEFINE at == LatestReading
           floor == Later(at + CooldownMs, IF cooldown = Null THEN 0 ELSE cooldown.until)
<1>1. at \in Nat
  BY DEF TypeOK, Clocks, LatestReading, Later
<1>2. floor \in Nat
  BY <1>1, ReceiverAssumption DEF TypeOK, Later
<1>3. Later(floor, at + delay) \in Nat
  BY <1>1, <1>2, ReceiverAssumption DEF Later
<1>4. (overflow \/ (cooldown # Null /\ cooldown.unbounded)) \in BOOLEAN
  BY DEF TypeOK
<1> QED
  BY <1>2, <1>3, <1>4 DEF CooldownFrom

\* The bytes of a transfer are a sequence of chunks.
LEMMA ReceivedTypes ==
  ASSUME TypeOK
  PROVE  Received \in Seq(Data)
BY DEF TypeOK, Received

\* A process that stops leaves a known mode and memory.
LEMMA StopTypes ==
  ASSUME TypeOK, Stop
  PROVE  mem' \in Seq(Data) /\ mode' \in {"up", "faulted", "down"}
<1>1. CASE mode = "up" /\ mode' = "faulted" /\ UNCHANGED mem
  BY <1>1 DEF TypeOK
<1>2. CASE mode # "down" /\ mode' = "down" /\ mem' = <<>>
  BY <1>2
<1> QED
  BY <1>1, <1>2 DEF Stop

\* A fresh root is well typed.
LEMMA InitTypes == Init => TypeOK
<1> SUFFICES ASSUME Init PROVE TypeOK
  OBVIOUS
<1>1. /\ scope \in Scopes /\ stage \in Stages /\ blocker \in Blockers \cup {Null}
      /\ claimed \in BOOLEAN /\ attested \in BOOLEAN /\ bodyReady \in BOOLEAN
      /\ mode \in {"up", "faulted", "down"}
  BY DEF Init, Stages
<1>2. /\ browser \in Browsers \cup {Null} /\ collector \in Collectors \cup {Null}
      /\ leaseUntil \in Deadlines \cup {Null} /\ permit \in Permits \cup {Null}
      /\ nextPermit \in Deadlines \cup {Null}
      /\ cooldown \in [until : Nat, unbounded : BOOLEAN] \cup {Null}
  BY DEF Init
<1>3. clock \in Clocks /\ lastClock \in Clocks
  BY DEF Init, Clocks
<1>4. /\ evidence \in [Kinds -> Evidence \cup {Null}] /\ receipts \subseteq Evidence
      /\ disk \in [ArtifactIds -> Seq(Data) \cup {Null, Lost}]
      /\ fetches \in [Kinds -> Nat] /\ origin \in [Kinds -> Origins \cup {Null}]
  BY DEF Init
<1>5. part \in Seq(Data) /\ mem \in Seq(Data) /\ requestCount \in Nat /\ opens \in Nat
  BY DEF Init
<1> QED
  BY <1>1, <1>2, <1>3, <1>4, <1>5 DEF TypeOK

\* A step of any action keeps every variable in its type.
LEMMA StepTypes == TypeOK /\ [Next]_vars => TypeOK'
<1> SUFFICES ASSUME TypeOK, [Next]_vars PROVE TypeOK'
  OBVIOUS
<1> USE DEF statusVars, claimVars, permitVars, proofVars, fileVars, processVars, historyVars
<1>0. CASE UNCHANGED vars
  BY <1>0 DEF TypeOK, vars
<1>1. CASE DistrustClock
  BY <1>1 DEF TypeOK, DistrustClock, Served, Block, Blockers, Stages
<1>2. CASE RefuseOnTime
  BY <1>2 DEF TypeOK, RefuseOnTime, ServedOnTime, Served
<1>3. CASE Refuse
  BY <1>3 DEF TypeOK, Refuse, ServedAnyTime, Served
<1>4. CASE ExhaustBudget
  BY <1>4 DEF TypeOK, ExhaustBudget, Block, Blockers, Stages
<1>5. ASSUME NEW b \in Browsers, NEW who \in Principals, Claim(b, who) PROVE TypeOK'
  <2>1. In(PermitMs) \in Deadlines
    BY ClockTypes, ReceiverAssumption
  <2> QED
    BY <1>5, <2>1 DEF TypeOK, Claim, ServedOnTime, Served, Stages
<1>6. ASSUME NEW b \in Browsers, NEW who \in Principals, ClaimMismatch(b, who) PROVE TypeOK'
  BY <1>6 DEF TypeOK, ClaimMismatch, ServedOnTime, Served
<1>7. CASE RequestPermit
  <2>1. In(PermitMs) \in Deadlines /\ PauseFromPermitEnd \in Deadlines
    BY ClockTypes, ReceiverAssumption DEF PauseFromPermitEnd
  <2>2. permit' \in Permits
    BY <1>7, <2>1 DEF RequestPermit, Permits, Kinds, WorkUnit
  <2>3. part' \in Seq(Data) /\ mem' \in Seq(Data)
    BY <1>7 DEF RequestPermit
  <2> QED
    BY <1>7, <2>1, <2>2, <2>3 DEF TypeOK, RequestPermit, ServedOnTime, Served, Stages
<1>8. CASE DispatchLate
  BY <1>8 DEF TypeOK, DispatchLate, ServedOnTime, Served, Block, Blockers, Stages
<1>9. ASSUME NEW b \in Browsers, NEW c \in Collectors, DispatchStarted(b, c) PROVE TypeOK'
  <2>1. permit \in Permits
    BY <1>9 DEF DispatchStarted, Dispatchable, PermitIs, TypeOK
  <2>2. permit' \in Permits
    BY <1>9, <2>1 DEF DispatchStarted, Permits
  <2>3. fetches' \in [Kinds -> Nat]
    BY <1>9, <2>1 DEF DispatchStarted, TypeOK, Permits
  <2>4. [at |-> clock, browser |-> b, collector |-> c, opening |-> opens] \in Origins
    BY DEF TypeOK, Origins
  <2>5. origin' \in [Kinds -> Origins \cup {Null}]
    BY <1>9, <2>1, <2>4 DEF DispatchStarted, TypeOK, Permits
  <2> QED
    BY <1>9, <2>2, <2>3, <2>5 DEF TypeOK, DispatchStarted, ServedOnTime, Served, Stages
<1>10. ASSUME NEW x \in Data, Chunk(x) PROVE TypeOK'
  <2>1. permit \in Permits
    BY <1>10 DEF Chunk, PermitIs, TypeOK
  <2>2. permit' \in Permits
    BY <1>10, <2>1 DEF Chunk, Permits
  <2>3. mem' \in Seq(Data) /\ part' \in Seq(Data)
    <3>1. part \in Seq(Data) /\ mem \in Seq(Data)
      BY DEF TypeOK
    <3>2. Append(part, x) \in Seq(Data) /\ Append(mem, x) \in Seq(Data)
      BY <3>1
    <3> QED
      BY <1>10, <3>1, <3>2 DEF Chunk
  <2> QED
    BY <1>10, <2>2, <2>3 DEF TypeOK, Chunk, ServedAnyTime, Served, Stages
<1>11. ASSUME NEW x \in Data, NEW sequence \in 0..MaxChunks, ChunkConflict(sequence, x)
       PROVE  TypeOK'
  BY <1>11 DEF TypeOK, ChunkConflict, ServedAnyTime, Served, Block, Blockers, Stages
<1>12. ASSUME NEW count \in 1..MaxChunks, NEW exact \in BOOLEAN, CommitRejected(count, exact)
       PROVE  TypeOK'
  <2>1. CommitVerdict(exact) \in Blockers
    BY <1>12, VerdictTypes DEF CommitRejected
  <2> QED
    BY <1>12, <2>1 DEF TypeOK, CommitRejected, ServedAnyTime, Served, Block, Stages
<1>13. ASSUME NEW count \in 1..MaxChunks, NEW a \in ArtifactIds, CommitAccepted(count, a)
       PROVE  TypeOK'
  <2> DEFINE proof == [artifact |-> a, content |-> Received]
  <2>1. proof \in Evidence
    BY ReceivedTypes DEF Evidence
  <2>2. disk' \in [ArtifactIds -> Seq(Data) \cup {Null, Lost}]
    BY <1>13, ReceivedTypes DEF CommitAccepted, WriteArtifact, TypeOK
  <2>3. evidence' \in [Kinds -> Evidence \cup {Null}] /\ receipts' \subseteq Evidence
    BY <1>13, <2>1 DEF CommitAccepted, TypeOK
  <2>4. attested' \in BOOLEAN /\ bodyReady' \in BOOLEAN /\ permit' = Null
    <3>1. permit' = Null
      BY <1>13 DEF CommitAccepted
    <3>2. attested' \in BOOLEAN
      <4>1. CASE permit.kind = "session-check"
        <5>1. attested' = Attests
          BY <1>13, <4>1 DEF CommitAccepted
        <5> QED
          BY <5>1 DEF Attests
      <4>2. CASE permit.kind # "session-check"
        <5>1. attested' = (attested /\ scope \notin BackgroundScopes)
          BY <1>13, <4>2 DEF CommitAccepted
        <5> QED
          BY <5>1
      <4> QED
        BY <4>1, <4>2
    <3>3. bodyReady' \in BOOLEAN
      BY <1>13, ZenonT(30) DEF CommitAccepted
    <3> QED
      BY <3>1, <3>2, <3>3
  <2>5. stage' \in Stages
    BY <1>13 DEF CommitAccepted, CommittedStage, SetupTerminal, Stages, TerminalStages,
                 SetupStages, BodyStages
  <2> HIDE DEF proof
  <2> QED
    BY <1>13, <2>2, <2>3, <2>4, <2>5 DEF TypeOK, CommitAccepted, ServedAnyTime, Served
<1>14. ASSUME NEW class \in FailureClasses, NEW delay \in RetryDelays,
              NEW overflow \in BOOLEAN, RequestFailed(class, delay, overflow)
       PROVE  TypeOK'
  <2>1. permit' \in Permits
    BY <1>14 DEF RequestFailed, PermitIs, TypeOK, Permits
  <2>2. cooldown' \in [until : Nat, unbounded : BOOLEAN] \cup {Null}
    BY <1>14, CooldownTypes DEF RequestFailed, TypeOK
  <2>3. blocker' \in Blockers /\ stage' \in Stages
    BY <1>14, BlockerTypes DEF RequestFailed, Block, Stages
  <2> QED
    BY <1>14, <2>1, <2>2, <2>3 DEF TypeOK, RequestFailed, ServedAnyTime, Served
<1>15. CASE ReconcileDispatch
  <2>1. permit' \in Permits
    BY <1>15 DEF ReconcileDispatch, PermitIs, TypeOK, Permits
  <2> QED
    BY <1>15, <2>1 DEF TypeOK, ReconcileDispatch, ServedAnyTime, Served, Block, Blockers,
                       Stages
<1>16. ASSUME NEW proof \in receipts, ReplayUnproven(proof) PROVE TypeOK'
  BY <1>16 DEF TypeOK, ReplayUnproven, Block, Blockers, Stages
<1>17. CASE Halt
  <2>1. mem' \in Seq(Data) /\ mode' \in {"up", "faulted", "down"}
    BY <1>17, StopTypes DEF Halt
  <2> QED
    BY <1>17, <2>1 DEF TypeOK, Halt, RolledBack
<1>18. ASSUME NEW x \in Data, HaltDuringChunk(x) PROVE TypeOK'
  <2>1. part' \in Seq(Data)
    <3>1. part \in Seq(Data)
      BY DEF TypeOK
    <3> QED
      BY <1>18, <3>1 DEF HaltDuringChunk
  <2>2. mem' \in Seq(Data) /\ mode' \in {"up", "faulted", "down"}
    BY <1>18, StopTypes DEF HaltDuringChunk
  <2> QED
    BY <1>18, <2>1, <2>2 DEF TypeOK, HaltDuringChunk, RolledBack
<1>19. ASSUME NEW count \in 1..MaxChunks, NEW a \in ArtifactIds, HaltDuringCommit(count, a)
       PROVE  TypeOK'
  <2>1. disk' \in [ArtifactIds -> Seq(Data) \cup {Null, Lost}]
    BY <1>19, ReceivedTypes DEF HaltDuringCommit, WriteArtifact, TypeOK
  <2>2. mem' \in Seq(Data) /\ mode' \in {"up", "faulted", "down"}
    BY <1>19, StopTypes DEF HaltDuringCommit
  <2> QED
    BY <1>19, <2>1, <2>2 DEF TypeOK, HaltDuringCommit, RolledBack
<1>20. CASE OpenRoot
  <2>1. blocker' \in Blockers \cup {Null} /\ stage' \in Stages
    BY <1>20 DEF OpenRoot, RecoveredBlocker, TypeOK, Blockers, Stages
  <2> QED
    BY <1>20, <2>1 DEF TypeOK, OpenRoot
<1>21. CASE Tick \/ Reboot \/ \E t \in 0..MaxTime : SetWall(t)
  <2>1. clock \in Clocks /\ clock.wall + 1 \in Nat /\ clock.mono + 1 \in Nat
        /\ clock.boot + 1 \in Nat
    BY DEF TypeOK, Clocks
  <2>2. Tick => clock' \in Clocks
    BY <2>1 DEF Tick, Clocks
  <2>3. Reboot => clock' \in Clocks
    BY <2>1 DEF Reboot, Clocks
  <2>4. ASSUME NEW t \in 0..MaxTime, SetWall(t) PROVE clock' \in Clocks
    BY <2>1, <2>4, ReceiverAssumption DEF SetWall, Clocks
  <2>5. clock' \in Clocks
    BY <1>21, <2>2, <2>3, <2>4
  <2> QED
    BY <1>21, <2>5 DEF TypeOK, Tick, Reboot, SetWall, ClockOnly
<1>22. ASSUME NEW a \in ArtifactIds, LoseArtifact(a) PROVE TypeOK'
  <2>1. disk' \in [ArtifactIds -> Seq(Data) \cup {Null, Lost}]
    BY <1>22 DEF LoseArtifact, TypeOK
  <2> QED
    BY <1>22, <2>1 DEF TypeOK, LoseArtifact
<1> QED
  BY <1>0, <1>1, <1>2, <1>3, <1>4, <1>5, <1>6, <1>7, <1>8, <1>9, <1>10, <1>11, <1>12, <1>13,
     <1>14, <1>15, <1>16, <1>17, <1>18, <1>19, <1>20, <1>21, <1>22
  DEF Next, Serve, Interrupted, Environment, ClaimWork, StartDispatch, ResultChunk,
      CommitResult, FailRequest

\* The row, the files and the process always hold values of their types: every
\* request handler, crash, recovery and clock change keeps them.
THEOREM TypeCorrect == Spec => []TypeOK
BY InitTypes, StepTypes, PTL DEF Spec

-----------------------------------------------------------------------------
(* What the safety properties rest on *)

\* None of the four is inductive alone: that a fetch happens at most once rests on
\* the stage knowing what has been fetched, and the stage's choice of the next unit
\* of work on which scope may prove what.
Inductive == TypeOK /\ StageAgrees /\ OneFetchPerKind /\ ScopeConfined

phaseVars == <<scope, stage, blocker, claimed, attested, bodyReady, permit, evidence, fetches>>

-----------------------------------------------------------------------------
(* Constants *)

\* A blocker, a permit and a piece of evidence are distinct from null.
LEMMA NotNull ==
  /\ \A b \in Blockers : b # Null
  /\ \A p \in Permits : p # Null
  /\ \A e \in Evidence : e # Null
BY NullAssumption

\* A root has one of the five scopes.
LEMMA ScopesKnown == TypeOK => scope \in AllScopes
BY ReceiverAssumption DEF TypeOK

-----------------------------------------------------------------------------
(* The inductive invariant *)

\* A fresh root satisfies the invariant.
LEMMA InitInductive == Init => Inductive
<1> SUFFICES ASSUME Init PROVE Inductive
  OBVIOUS
<1>1. TypeOK
  BY InitTypes
<1>2. OneFetchPerKind
  BY DEF Init, OneFetchPerKind
<1>3. {k \in Kinds : evidence[k] # Null} = {}
  BY DEF Init
<1>4. StageAgrees
  BY <1>3 DEF Init, StageAgrees, Phase, BodyReady, SetupStages, BodyStages, Kinds
<1>5. ScopeConfined
  BY DEF Init, ScopeConfined, TerminalStages, SetupStages, BodyStages, Kinds
<1> QED
  BY <1>1, <1>2, <1>4, <1>5 DEF Inductive

\* Whatever leaves the phase alone keeps the invariant.
LEMMA PhaseKept ==
  ASSUME Inductive, TypeOK', UNCHANGED phaseVars
  PROVE  Inductive'
BY DEF Inductive, phaseVars, StageAgrees, Phase, BodyReady, OneFetchPerKind, ScopeConfined

\* Whatever only blocks the root keeps the invariant.
LEMMA BlockKeeps ==
  ASSUME Inductive, TypeOK', NEW b \in Blockers, Block(b),
         UNCHANGED <<scope, claimed, attested, bodyReady, evidence, fetches>>
  PROVE  Inductive'
<1>1. blocker' # Null /\ stage' = "blocked"
  BY NotNull DEF Block
<1>2. StageAgrees'
  BY <1>1 DEF Inductive, StageAgrees, BodyReady, SetupStages, BodyStages
<1>3. OneFetchPerKind'
  BY DEF Inductive, OneFetchPerKind
<1>4. ScopeConfined'
  BY <1>1 DEF Inductive, ScopeConfined, TerminalStages, SetupStages, BodyStages
<1> QED
  BY <1>2, <1>3, <1>4 DEF Inductive

\* In an unblocked root the permit tells the stage.
LEMMA PermitStage ==
  ASSUME Inductive, blocker = Null, permit # Null
  PROVE  /\ permit \in Permits
         /\ permit.status \in {"granted", "started"}
         /\ claimed
         /\ permit.kind = "session-check" /\ permit.status = "granted" => stage = "session_permit"
         /\ permit.kind = "body" /\ permit.status = "granted" => stage = "body_permit"
         /\ permit.kind = "session-check" /\ permit.status = "started" =>
              stage \in {"session_started", "session_partial"}
         /\ permit.kind = "body" /\ permit.status = "started" =>
              stage \in {"body_started", "body_partial"}
<1>1. stage \in Stages /\ stage # "blocked" /\ permit \in Permits
  BY DEF Inductive, TypeOK, StageAgrees
<1>2. stage \notin {"new", "session_claimed", "session_committed"} \cup SetupStages \cup BodyStages
  BY DEF Inductive, StageAgrees, Phase
<1>3. stage \in {"session_permit", "session_started", "session_partial", "body_permit",
                 "body_started", "body_partial"}
  BY <1>1, <1>2 DEF Stages, TerminalStages
<1> QED
  BY <1>1, <1>3 DEF Inductive, StageAgrees, Phase

\* A first claim makes the stage session_claimed, a renewed one keeps it.
LEMMA ClaimKeeps ==
  ASSUME Inductive, TypeOK', NEW b, NEW who, Claim(b, who)
  PROVE  Inductive'
<1> USE DEF proofVars, permitVars, historyVars
<1>1. blocker = Null /\ blocker' = Null /\ stage \notin TerminalStages /\ claimed'
      /\ UNCHANGED <<scope, attested, bodyReady, permit, evidence, fetches>>
  BY DEF Claim, ServedOnTime, Served, ClaimAdmitted, Open4Work
<1>2. CASE claimed
  <2>1. UNCHANGED phaseVars
    BY <1>1, <1>2 DEF Claim, phaseVars, Inductive, TypeOK
  <2> QED
    BY <2>1, PhaseKept
<1>3. CASE ~claimed
  <2>1. stage = "new" /\ stage' = "session_claimed"
    BY <1>1, <1>3 DEF Claim, Inductive, StageAgrees
  <2>2. StageAgrees'
    BY <1>1, <1>3, <2>1 DEF Inductive, StageAgrees, Phase, BodyReady, SetupStages, BodyStages
  <2> QED
    BY <1>1, <2>1, <2>2 DEF Inductive, OneFetchPerKind, ScopeConfined, TerminalStages,
                            SetupStages, BodyStages
<1> QED
  BY <1>2, <1>3

\* A permit is granted for the session in a fresh lease, and for the body only in
\* the stage and the scopes that follow a proven session.
LEMMA PermitKeeps ==
  ASSUME Inductive, TypeOK', RequestPermit
  PROVE  Inductive'
<1> USE DEF proofVars, claimVars, historyVars
<1>1. blocker = Null /\ blocker' = Null /\ stage \notin TerminalStages /\ claimed
      /\ UNCHANGED <<scope, claimed, attested, bodyReady, evidence, fetches>>
  BY DEF RequestPermit, ServedOnTime, Served, MayPermit, Open4Work
<1>2. permit = Null
  BY <1>1, PermitStage DEF RequestPermit, MayPermit
<1>3. stage \in Stages \ (TerminalStages \cup {"blocked", "new"})
  BY <1>1 DEF Inductive, TypeOK, StageAgrees
<1>4. stage \in {"session_claimed", "session_committed"}
  BY <1>2, <1>3 DEF Inductive, StageAgrees, Phase, Stages
<1>5. permit' = [kind |-> WorkUnit, status |-> "granted", until |-> In(PermitMs), next |-> 0]
  BY DEF RequestPermit
<1>6. permit' # Null
  BY <1>1, <1>5, NotNull, ClockTypes, ReceiverAssumption
  DEF Inductive, Permits, Kinds, WorkUnit
<1>7. CASE stage = "session_claimed"
  <2>1. Phase(FALSE, "", "", 0, 0, {}) /\ evidence["session-check"] = Null
    BY <1>7 DEF Inductive, StageAgrees, Phase, Kinds
  <2>2. ~BodyReady
    BY <2>1 DEF Inductive, StageAgrees
  <2>3. stage' = "session_permit" /\ permit'.kind = "session-check" /\ permit'.status = "granted"
    BY <1>5, <2>2 DEF RequestPermit, WorkUnit
  <2>4. StageAgrees'
    BY <1>1, <1>6, <2>1, <2>2, <2>3 DEF StageAgrees, Phase, BodyReady, SetupStages, BodyStages
  <2>5. ScopeConfined'
    BY <1>1, <2>3 DEF Inductive, ScopeConfined, TerminalStages, SetupStages, BodyStages
  <2> QED
    BY <1>1, <2>4, <2>5 DEF Inductive, OneFetchPerKind
<1>8. CASE stage = "session_committed"
  <2>1. Phase(FALSE, "", "", 1, 0, SessionOnly) /\ BodyReady
    BY <1>8 DEF Inductive, StageAgrees
  <2>2. stage' = "body_permit" /\ permit'.kind = "body" /\ permit'.status = "granted"
    <3>1. WorkUnit = "body"
      BY <2>1 DEF WorkUnit
    <3> QED
      BY <1>5, <3>1 DEF RequestPermit
  <2>3. scope \in BodyScopes
    BY <2>1 DEF Inductive, ScopeConfined, BodyReady, BodyScopes, RequestPermit, MayPermit,
                SessionDone
  <2>4. StageAgrees'
    BY <1>1, <1>6, <2>1, <2>2
    DEF Inductive, StageAgrees, Phase, BodyReady, SetupStages, BodyStages
  <2>5. ScopeConfined'
    BY <1>1, <2>2, <2>3 DEF Inductive, ScopeConfined, TerminalStages, SetupStages, BodyStages
  <2> QED
    BY <1>1, <2>4, <2>5 DEF Inductive, OneFetchPerKind
<1> QED
  BY <1>4, <1>7, <1>8

\* A dispatch is the first of its kind: the permit it uses is granted, and the stage
\* of a granted permit has seen no fetch of that kind.
LEMMA DispatchKeeps ==
  ASSUME Inductive, TypeOK', NEW b \in Browsers, NEW c \in Collectors, DispatchStarted(b, c)
  PROVE  Inductive'
<1> USE DEF proofVars, claimVars
<1>1. blocker = Null /\ blocker' = Null /\ permit # Null /\ permit.status = "granted"
      /\ UNCHANGED <<scope, claimed, attested, bodyReady, evidence>>
  BY DEF DispatchStarted, ServedOnTime, Served, Dispatchable, PermitIs
<1>2. permit \in Permits /\ permit' \in Permits /\ permit' # Null /\ claimed
      /\ permit'.kind = permit.kind /\ permit'.status = "started"
  BY <1>1, PermitStage, NotNull DEF DispatchStarted, Permits
<1>3. fetches \in [Kinds -> Nat] /\ fetches' = [fetches EXCEPT ![permit.kind] = @ + 1]
  BY DEF Inductive, TypeOK, DispatchStarted
<1>4. CASE permit.kind = "session-check"
  <2>1. stage = "session_permit" /\ stage' = "session_started"
    BY <1>1, <1>4, PermitStage DEF DispatchStarted
  <2>2. Phase(TRUE, "session-check", "granted", 0, 0, {})
    BY <2>1 DEF Inductive, StageAgrees
  <2>3. fetches'["session-check"] = 1 /\ fetches'["body"] = 0
    BY <1>3, <1>4, <2>2 DEF Phase, Kinds
  <2>4. StageAgrees'
    BY <1>1, <1>2, <1>4, <2>1, <2>2, <2>3
    DEF Inductive, StageAgrees, Phase, BodyReady, SetupStages, BodyStages
  <2>5. OneFetchPerKind'
    BY <2>3 DEF OneFetchPerKind, Kinds
  <2>6. ScopeConfined'
    BY <1>1, <2>1, <2>3
    DEF Inductive, ScopeConfined, TerminalStages, SetupStages, BodyStages
  <2> QED
    BY <2>4, <2>5, <2>6 DEF Inductive
<1>5. CASE permit.kind = "body"
  <2>1. stage = "body_permit" /\ stage' = "body_started"
    BY <1>1, <1>5, PermitStage DEF DispatchStarted
  <2>2. Phase(TRUE, "body", "granted", 1, 0, SessionOnly) /\ BodyReady /\ scope \in BodyScopes
    BY <2>1 DEF Inductive, StageAgrees, ScopeConfined
  <2>3. fetches'["session-check"] = 1 /\ fetches'["body"] = 1
    BY <1>3, <1>5, <2>2 DEF Phase, Kinds
  <2>4. StageAgrees'
    BY <1>1, <1>2, <1>5, <2>1, <2>2, <2>3
    DEF Inductive, StageAgrees, Phase, BodyReady, SetupStages, BodyStages
  <2>5. OneFetchPerKind'
    BY <2>3 DEF OneFetchPerKind, Kinds
  <2>6. ScopeConfined'
    BY <1>1, <2>1, <2>2
    DEF Inductive, ScopeConfined, TerminalStages, SetupStages, BodyStages
  <2> QED
    BY <2>4, <2>5, <2>6 DEF Inductive
<1> QED
  BY <1>2, <1>4, <1>5 DEF Permits, Kinds

\* A chunk moves a started transfer to its partial stage.
LEMMA ChunkKeeps ==
  ASSUME Inductive, TypeOK', NEW x \in Data, Chunk(x)
  PROVE  Inductive'
<1> USE DEF proofVars, claimVars, historyVars
<1>1. blocker = Null /\ blocker' = Null /\ permit # Null /\ permit.status = "started"
      /\ UNCHANGED <<scope, claimed, attested, bodyReady, evidence, fetches>>
  BY DEF Chunk, ServedAnyTime, Served, PermitIs
<1>2. permit \in Permits /\ permit' \in Permits /\ permit' # Null /\ claimed
      /\ permit'.kind = permit.kind /\ permit'.status = "started"
  BY <1>1, PermitStage, NotNull DEF Chunk, Permits
<1>3. CASE permit.kind = "session-check"
  <2>1. stage \in {"session_started", "session_partial"} /\ stage' = "session_partial"
    BY <1>1, <1>3, PermitStage DEF Chunk
  <2>2. StageAgrees'
    BY <1>1, <1>2, <1>3, <2>1 DEF Inductive, StageAgrees, Phase, BodyReady, SetupStages, BodyStages
  <2> QED
    BY <1>1, <2>1, <2>2 DEF Inductive, OneFetchPerKind, ScopeConfined, TerminalStages,
                            SetupStages, BodyStages
<1>4. CASE permit.kind = "body"
  <2>1. stage \in {"body_started", "body_partial"} /\ stage' = "body_partial"
    BY <1>1, <1>4, PermitStage DEF Chunk
  <2>2. StageAgrees'
    BY <1>1, <1>2, <1>4, <2>1 DEF Inductive, StageAgrees, Phase, BodyReady, SetupStages, BodyStages
  <2> QED
    BY <1>1, <2>1, <2>2 DEF Inductive, OneFetchPerKind, ScopeConfined, TerminalStages,
                            SetupStages, BodyStages
<1> QED
  BY <1>2, <1>3, <1>4 DEF Permits, Kinds

\* A committed session leads to the final stage of a setup scope and, in the other
\* scopes, to the body; a committed body leads to the final stage of its scope.
LEMMA CommitKeeps ==
  ASSUME Inductive, TypeOK', NEW count, NEW a \in ArtifactIds, CommitAccepted(count, a)
  PROVE  Inductive'
<1> DEFINE proof == [artifact |-> a, content |-> Received]
<1> USE DEF claimVars, historyVars
<1>1. blocker = Null /\ blocker' = Null /\ permit # Null /\ permit.status = "started"
      /\ permit' = Null /\ UNCHANGED <<scope, claimed, fetches>>
  BY DEF CommitAccepted, ServedAnyTime, Served, MayCommit, PermitIs
<1>2. permit \in Permits /\ claimed /\ scope \in AllScopes
  BY <1>1, PermitStage, ScopesKnown DEF Inductive
<1>3. evidence \in [Kinds -> Evidence \cup {Null}] /\ proof # Null
  BY ReceivedTypes, NotNull DEF Inductive, TypeOK, Evidence
<1>4. evidence' = [evidence EXCEPT ![permit.kind] = proof]
  BY DEF CommitAccepted
<1> HIDE DEF proof
<1>5. CASE permit.kind = "session-check"
  <2>1. stage \in {"session_started", "session_partial"}
    BY <1>1, <1>5, PermitStage
  <2>2. Phase(TRUE, "session-check", "started", 1, 0, {}) /\ ~BodyReady
    BY <2>1 DEF Inductive, StageAgrees, Phase, Kinds
  <2>3. evidence'["session-check"] # Null /\ evidence'["body"] = Null
    BY <1>3, <1>4, <1>5, <2>2 DEF Phase, Kinds
  <2>4. Phase(FALSE, "", "", 1, 0, SessionOnly)'
    BY <1>1, <2>2, <2>3 DEF Phase, Kinds, SessionOnly
  <2>5. stage' = (IF scope \in SetupScopes THEN SetupTerminal ELSE "session_committed")
        /\ attested' = Attests
        /\ bodyReady' = (scope = "background-selected-conversation")
    BY <1>5, <2>2 DEF CommitAccepted, CommittedStage, BodyReady
  <2>6. StageAgrees'
    BY <1>1, <1>2, <2>3, <2>4, <2>5
    DEF StageAgrees, BodyReady, Attests, SetupTerminal, SetupStages, BodyStages, AllScopes,
        SetupScopes, BackgroundScopes
  <2>7. ScopeConfined'
    BY <1>1, <1>2, <2>2, <2>5
    DEF Inductive, ScopeConfined, Phase, Attests, SetupTerminal, TerminalStages, SetupStages,
        BodyStages, SetupScopes, BackgroundScopes, AllScopes
  <2> QED
    BY <1>1, <2>6, <2>7 DEF Inductive, OneFetchPerKind
<1>6. CASE permit.kind = "body"
  <2>1. stage \in {"body_started", "body_partial"}
    BY <1>1, <1>6, PermitStage
  <2>2. Phase(TRUE, "body", "started", 1, 1, SessionOnly) /\ BodyReady
    BY <2>1 DEF Inductive, StageAgrees
  <2>3. evidence'["session-check"] # Null /\ evidence'["body"] # Null
    BY <1>3, <1>4, <1>6, <2>2 DEF Phase, Kinds, SessionOnly
  <2>4. Phase(FALSE, "", "", 1, 1, Kinds)'
    BY <1>1, <2>2, <2>3 DEF Phase, Kinds
  <2>5. scope \in BodyScopes
    BY <2>2 DEF Inductive, ScopeConfined, Phase
  <2>6. stage' = (IF scope \in BackgroundScopes THEN "background_probe_complete"
                                                ELSE "probe_complete")
        /\ (attested' => attested) /\ (bodyReady' => bodyReady)
    BY <1>6 DEF CommitAccepted, CommittedStage
  <2>7. StageAgrees'
    BY <1>1, <1>2, <2>2, <2>3, <2>4, <2>6 DEF StageAgrees, BodyReady, SetupStages, BodyStages
  <2>8. ScopeConfined'
    BY <1>1, <2>5, <2>6
    DEF Inductive, ScopeConfined, TerminalStages, SetupStages, BodyStages, BodyScopes,
        BackgroundScopes
  <2> QED
    BY <1>1, <2>7, <2>8 DEF Inductive, OneFetchPerKind
<1> QED
  BY <1>2, <1>5, <1>6 DEF Permits, Kinds

\* A reopened root keeps its stage or is blocked, and a blocked one stays so.
LEMMA OpenKeeps ==
  ASSUME Inductive, TypeOK', OpenRoot
  PROVE  Inductive'
<1> USE DEF proofVars, claimVars, permitVars, historyVars
<1>1. UNCHANGED <<scope, claimed, attested, bodyReady, permit, evidence, fetches>>
  BY DEF OpenRoot
<1>2. CASE RecoveredBlocker = Null
  <2>1. blocker = Null
    BY <1>2, NotNull DEF RecoveredBlocker, Blockers
  <2> QED
    BY <1>1, <1>2, <2>1, PhaseKept DEF OpenRoot, phaseVars
<1>3. CASE RecoveredBlocker # Null
  <2>1. blocker' \in Blockers /\ Block(blocker')
    BY <1>3 DEF OpenRoot, Inductive, TypeOK, Block
  <2> QED
    BY <1>1, <2>1, BlockKeeps
<1> QED
  BY <1>2, <1>3

\* Every step of the receiver keeps the invariant.
LEMMA StepInductive == Inductive /\ [Next]_vars => Inductive'
<1> SUFFICES ASSUME Inductive, [Next]_vars PROVE Inductive'
  OBVIOUS
<1>0. TypeOK'
  BY StepTypes DEF Inductive
<1> USE DEF statusVars, claimVars, permitVars, proofVars, historyVars
<1>1. CASE UNCHANGED vars
  BY <1>0, <1>1, PhaseKept DEF vars, phaseVars
<1>2. CASE RefuseOnTime \/ Refuse
  BY <1>0, <1>2, PhaseKept
  DEF RefuseOnTime, Refuse, ServedOnTime, ServedAnyTime, Served, phaseVars
<1>3. CASE DistrustClock \/ ExhaustBudget \/ DispatchLate
  <2>1. PICK b \in Blockers : Block(b)
    BY <1>3 DEF DistrustClock, ExhaustBudget, DispatchLate, Blockers
  <2> QED
    BY <1>0, <1>3, <2>1, BlockKeeps
    DEF DistrustClock, ExhaustBudget, DispatchLate, ServedOnTime, Served
<1>4. ASSUME NEW b \in Browsers, NEW who \in Principals, Claim(b, who) PROVE Inductive'
  BY <1>0, <1>4, ClaimKeeps
<1>5. ASSUME NEW b \in Browsers, NEW who \in Principals, ClaimMismatch(b, who)
      PROVE  Inductive'
  BY <1>0, <1>5, PhaseKept DEF ClaimMismatch, ServedOnTime, Served, phaseVars
<1>6. CASE RequestPermit
  BY <1>0, <1>6, PermitKeeps
<1>7. ASSUME NEW b \in Browsers, NEW c \in Collectors, DispatchStarted(b, c)
      PROVE  Inductive'
  BY <1>0, <1>7, DispatchKeeps
<1>8. ASSUME NEW x \in Data, Chunk(x) PROVE Inductive'
  BY <1>0, <1>8, ChunkKeeps
<1>9. ASSUME NEW x \in Data, NEW sequence \in 0..MaxChunks, ChunkConflict(sequence, x)
      PROVE  Inductive'
  <2>1. Block("local_conflict") /\ "local_conflict" \in Blockers
    BY <1>9 DEF ChunkConflict, Blockers
  <2> QED
    BY <1>0, <1>9, <2>1, BlockKeeps DEF ChunkConflict, ServedAnyTime, Served
<1>10. ASSUME NEW count \in 1..MaxChunks, NEW exact \in BOOLEAN, CommitRejected(count, exact)
       PROVE  Inductive'
  <2>1. Block(CommitVerdict(exact)) /\ CommitVerdict(exact) \in Blockers
    BY <1>10, VerdictTypes DEF CommitRejected
  <2> QED
    BY <1>0, <1>10, <2>1, BlockKeeps DEF CommitRejected, ServedAnyTime, Served
<1>11. ASSUME NEW count \in 1..MaxChunks, NEW a \in ArtifactIds, CommitAccepted(count, a)
       PROVE  Inductive'
  BY <1>0, <1>11, CommitKeeps
<1>12. ASSUME NEW class \in FailureClasses, NEW delay \in RetryDelays,
              NEW overflow \in BOOLEAN, RequestFailed(class, delay, overflow)
       PROVE  Inductive'
  <2>1. Block(BlockerOf(class)) /\ BlockerOf(class) \in Blockers
    BY <1>12, BlockerTypes DEF RequestFailed
  <2> QED
    BY <1>0, <1>12, <2>1, BlockKeeps DEF RequestFailed, ServedAnyTime, Served
<1>13. CASE ReconcileDispatch
  <2>1. Block("dispatch_uncertain") /\ "dispatch_uncertain" \in Blockers
    BY <1>13 DEF ReconcileDispatch, Blockers
  <2> QED
    BY <1>0, <1>13, <2>1, BlockKeeps DEF ReconcileDispatch, ServedAnyTime, Served
<1>14. ASSUME NEW proof \in receipts, ReplayUnproven(proof) PROVE Inductive'
  <2>1. Block("recovery_evidence_missing") /\ "recovery_evidence_missing" \in Blockers
    BY <1>14 DEF ReplayUnproven, Blockers
  <2> QED
    BY <1>0, <1>14, <2>1, BlockKeeps DEF ReplayUnproven
<1>15. CASE Interrupted
  BY <1>0, <1>15, PhaseKept
  DEF Interrupted, Halt, HaltDuringChunk, HaltDuringCommit, RolledBack, phaseVars
<1>16. CASE OpenRoot
  BY <1>0, <1>16, OpenKeeps
<1>17. CASE Environment
  BY <1>0, <1>17, PhaseKept
  DEF Environment, Tick, Reboot, SetWall, LoseArtifact, ClockOnly, phaseVars
<1> QED
  BY <1>1, <1>2, <1>3, <1>4, <1>5, <1>6, <1>7, <1>8, <1>9, <1>10, <1>11, <1>12, <1>13, <1>14,
     <1>15, <1>16, <1>17
  DEF Next, Serve, ClaimWork, StartDispatch, ResultChunk, CommitResult, FailRequest

\* Types, stages, fetch counts and scopes agree in every state of the receiver.
THEOREM InductiveHolds == Spec => []Inductive
BY InitInductive, StepInductive, PTL DEF Spec

\* A root never authorises a kind of upstream request twice.
THEOREM FetchedOnce == Spec => []OneFetchPerKind
BY InductiveHolds, PTL DEF Inductive

\* The stage of an unblocked root agrees with its permit, fetches and evidence.
THEOREM StagesAgree == Spec => []StageAgrees
BY InductiveHolds, PTL DEF Inductive

\* No scope permits, fetches, attests or ends as what belongs to another.
THEOREM ScopesConfined == Spec => []ScopeConfined
BY InductiveHolds, PTL DEF Inductive

-----------------------------------------------------------------------------
(* The fence *)

\* A blocked root takes only steps that leave it blocked, with the fetches and the
\* results it had.
LEMMA StepFenced ==
  ASSUME Inductive, Inductive', [Next]_vars, blocker # Null
  PROVE  blocker' # Null /\ stage' = "blocked" /\ UNCHANGED <<fetches, evidence, receipts>>
<1> USE DEF statusVars, claimVars, permitVars, proofVars, historyVars
<1>1. stage = "blocked"
  BY DEF Inductive, StageAgrees
<1>2. SUFFICES blocker' # Null /\ UNCHANGED <<fetches, evidence, receipts>>
  BY DEF Inductive, StageAgrees
<1>3. CASE UNCHANGED vars
  BY <1>3 DEF vars
<1>4. CASE Refuse
  BY <1>4 DEF Refuse
<1>5. CASE ExhaustBudget
  BY <1>5, NotNull DEF ExhaustBudget, Block, Blockers
<1>6. ASSUME NEW proof \in receipts, ReplayUnproven(proof)
      PROVE  blocker' # Null /\ UNCHANGED <<fetches, evidence, receipts>>
  BY <1>6, NotNull DEF ReplayUnproven, Block, Blockers
<1>7. CASE Interrupted
  BY <1>7 DEF Interrupted, Halt, HaltDuringChunk, HaltDuringCommit, RolledBack
<1>8. CASE OpenRoot
  <2>1. Unfinished
    BY <1>1 DEF Unfinished, TerminalStages, SetupStages, BodyStages
  <2> QED
    BY <1>8, <2>1 DEF OpenRoot, RecoveredBlocker
<1>9. CASE Environment
  BY <1>9 DEF Environment, Tick, Reboot, SetWall, LoseArtifact, ClockOnly
<1>10. ~DistrustClock /\ ~RefuseOnTime /\ ~ClaimWork /\ ~RequestPermit /\ ~StartDispatch
  BY DEF DistrustClock, RefuseOnTime, ServedOnTime, ClaimWork, Claim, ClaimMismatch,
         RequestPermit, StartDispatch, DispatchLate, DispatchStarted
<1>11. ~ResultChunk /\ ~CommitResult /\ ~FailRequest /\ ~ReconcileDispatch
  BY DEF ResultChunk, Chunk, ChunkConflict, CommitResult, CommitRejected, CommitAccepted,
         MayCommit, FailRequest, RequestFailed, ReconcileDispatch, PermitIs
<1> QED
  BY <1>3, <1>4, <1>5, <1>6, <1>7, <1>8, <1>9, <1>10, <1>11 DEF Next, Serve

\* A blocker is final, over requests, crashes and reopenings.
THEOREM Fenced == Spec => FencedForever
<1>1. Inductive /\ Inductive' /\ [Next]_vars =>
        [blocker # Null => /\ blocker' # Null /\ stage' = "blocked"
                           /\ UNCHANGED <<fetches, evidence, receipts>>]_vars
  BY StepFenced
<1> QED
  BY <1>1, InductiveHolds, PTL DEF Spec, FencedForever

-----------------------------------------------------------------------------
(* The one-shot probe *)

\* Only a dispatch counts a fetch and only a commit records evidence.
LEMMA OnlyThese ==
  ASSUME [Next]_vars
  PROVE  \/ UNCHANGED <<scope, fetches, evidence, receipts>>
         \/ \E b \in Browsers, c \in Collectors : DispatchStarted(b, c)
         \/ \E count \in 1..MaxChunks, a \in ArtifactIds : CommitAccepted(count, a)
<1> USE DEF statusVars, claimVars, permitVars, proofVars, historyVars
<1>1. CASE UNCHANGED vars \/ OpenRoot \/ Interrupted \/ Environment
  BY <1>1 DEF vars, OpenRoot, Interrupted, Halt, HaltDuringChunk, HaltDuringCommit, RolledBack,
              Environment, Tick, Reboot, SetWall, LoseArtifact, ClockOnly
<1>2. CASE DistrustClock \/ RefuseOnTime \/ Refuse \/ ExhaustBudget \/ ClaimWork \/ RequestPermit
  BY <1>2 DEF DistrustClock, RefuseOnTime, Refuse, ExhaustBudget, ClaimWork, Claim,
              ClaimMismatch, RequestPermit, ServedOnTime, ServedAnyTime, Served
<1>3. CASE StartDispatch \/ ResultChunk \/ CommitResult
  BY <1>3 DEF StartDispatch, DispatchLate, ResultChunk, Chunk, ChunkConflict,
              CommitResult, CommitRejected, ServedOnTime, ServedAnyTime, Served
<1>4. CASE FailRequest \/ ReconcileDispatch \/ \E proof \in receipts : ReplayUnproven(proof)
  BY <1>4 DEF FailRequest, RequestFailed, ReconcileDispatch, ReplayUnproven, ServedAnyTime,
              Served
<1> QED
  BY <1>1, <1>2, <1>3, <1>4 DEF Next, Serve

\* A fresh root is a fresh one-shot probe.
LEMMA InitOneShot == Init => Abstract!ProbeInit
BY DEF Init, Abstract!ProbeInit, Abstract!ProbeKinds, Kinds

\* A step that changes neither scope, fetches, evidence nor fence is a stutter.
LEMMA AbstractStutters ==
  ASSUME UNCHANGED <<scope, fetches, evidence>>, (blocker # Null) <=> (blocker' # Null)
  PROVE  UNCHANGED Abstract!probeVars
BY DEF Abstract!probeVars

\* Blocking an unblocked root is the fence of the one-shot probe.
LEMMA AbstractFences ==
  ASSUME Inductive, Inductive', UNCHANGED <<scope, fetches, evidence>>,
         blocker # Null => blocker' # Null
  PROVE  [Abstract!ProbeNext]_Abstract!probeVars
<1>1. CASE blocker = Null /\ blocker' # Null
  BY <1>1 DEF Abstract!ProbeNext, Abstract!Fence
<1>2. CASE ~(blocker = Null /\ blocker' # Null)
  BY <1>2, AbstractStutters
<1> QED
  BY <1>1, <1>2

\* An accepted dispatch is a fetch of the one-shot probe.
LEMMA AbstractFetches ==
  ASSUME Inductive, NEW b \in Browsers, NEW c \in Collectors, DispatchStarted(b, c)
  PROVE  Abstract!ProbeNext
<1> USE DEF proofVars, claimVars
<1>1. blocker = Null /\ blocker' = Null /\ permit # Null /\ permit.status = "granted"
      /\ UNCHANGED <<scope, evidence>>
  BY DEF DispatchStarted, ServedOnTime, Served, Dispatchable, PermitIs
<1>2. permit.kind \in Kinds
  BY <1>1, PermitStage DEF Permits
<1>3. fetches \in [Kinds -> Nat] /\ fetches' = [fetches EXCEPT ![permit.kind] = @ + 1]
  BY DEF Inductive, TypeOK, DispatchStarted
<1>4. fetches[permit.kind] = 0
      /\ (permit.kind = "body" => scope \in BodyScopes /\ evidence["session-check"] # Null)
  BY <1>1, <1>2, PermitStage DEF Inductive, StageAgrees, ScopeConfined, Phase, Kinds, SessionOnly
<1>5. Abstract!Fetch(permit.kind)
  BY <1>1, <1>2, <1>3, <1>4 DEF Abstract!Fetch, Kinds
<1> QED
  BY <1>2, <1>5 DEF Abstract!ProbeNext, Abstract!ProbeKinds, Kinds

\* A commit of the receiver is a commit of the one-shot probe.
LEMMA AbstractCommits ==
  ASSUME Inductive, NEW count, NEW a \in ArtifactIds, CommitAccepted(count, a)
  PROVE  Abstract!ProbeNext
<1> DEFINE proof == [artifact |-> a, content |-> Received]
<1> USE DEF claimVars, historyVars
<1>1. blocker = Null /\ blocker' = Null /\ permit # Null /\ permit.status = "started"
      /\ UNCHANGED <<scope, fetches>>
  BY DEF CommitAccepted, ServedAnyTime, Served, MayCommit, PermitIs
<1>2. permit.kind \in Kinds
  BY <1>1, PermitStage DEF Permits
<1>3. evidence \in [Kinds -> Evidence \cup {Null}] /\ proof # Null
  BY ReceivedTypes, NotNull DEF Inductive, TypeOK, Evidence
<1>4. evidence' = [evidence EXCEPT ![permit.kind] = proof]
  BY DEF CommitAccepted
<1> HIDE DEF proof
<1>5. fetches[permit.kind] = 1 /\ evidence[permit.kind] = Null
  BY <1>1, <1>2, PermitStage DEF Inductive, StageAgrees, Phase, Kinds, SessionOnly
<1>6. {k \in Kinds : evidence'[k] # Null} = {k \in Kinds : evidence[k] # Null} \cup {permit.kind}
  BY <1>2, <1>3, <1>4
<1>7. PICK kind \in Kinds : kind = permit.kind
  BY <1>2
<1>8. Abstract!Commit(kind)
  BY <1>1, <1>5, <1>6, <1>7 DEF Abstract!Commit
<1> QED
  BY <1>8 DEF Abstract!ProbeNext, Abstract!ProbeKinds, Kinds

\* Every step of the receiver is a step of the one-shot probe or a stutter.
LEMMA StepOneShot ==
  ASSUME Inductive, Inductive', [Next]_vars
  PROVE  [Abstract!ProbeNext]_Abstract!probeVars
<1> USE DEF statusVars, claimVars, permitVars, proofVars, historyVars
<1>1. blocker # Null => blocker' # Null
  BY StepFenced
<1>2. ASSUME NEW b \in Browsers, NEW c \in Collectors, DispatchStarted(b, c)
      PROVE  Abstract!ProbeNext
  BY <1>2, AbstractFetches
<1>3. ASSUME NEW count \in 1..MaxChunks, NEW a \in ArtifactIds, CommitAccepted(count, a)
      PROVE  Abstract!ProbeNext
  BY <1>3, AbstractCommits
<1>4. \/ UNCHANGED <<scope, fetches, evidence>>
      \/ \E b \in Browsers, c \in Collectors : DispatchStarted(b, c)
      \/ \E count \in 1..MaxChunks, a \in ArtifactIds : CommitAccepted(count, a)
  BY OnlyThese
<1> QED
  BY <1>1, <1>2, <1>3, <1>4, AbstractFences

\* The receiver implements the one-shot probe: every request, crash and recovery is
\* a step the account owner was promised, or none at all.
THEOREM ImplementsOneShot == Spec => OneShot
<1>1. Inductive /\ Inductive' /\ [Next]_vars => [Abstract!ProbeNext]_Abstract!probeVars
  BY StepOneShot
<1> QED
  BY <1>1, InitOneShot, InductiveHolds, PTL DEF Spec, OneShot, Abstract!ProbeSpec

\* The one-shot probe keeps its promise, and hence does the receiver: a body is fetched
\* only in a scope that admits it, once its session has been committed.
THEOREM PromiseKept == Spec => []Abstract!Promised
<1> USE DEF Abstract!ProbeKinds, Kinds
<1>1. Abstract!ProbeInit => Abstract!Promised
  BY DEF Abstract!ProbeInit, Abstract!Promised
<1>2. Inductive /\ Abstract!Promised /\ [Abstract!ProbeNext]_Abstract!probeVars
        => Abstract!Promised'
  <2> SUFFICES ASSUME Inductive, Abstract!Promised, [Abstract!ProbeNext]_Abstract!probeVars
               PROVE  Abstract!Promised'
    OBVIOUS
  <2>1. fetches \in [Kinds -> Nat]
    BY DEF Inductive, TypeOK
  <2>2. CASE UNCHANGED Abstract!probeVars \/ Abstract!Fence
    BY <2>2 DEF Abstract!Promised, Abstract!probeVars, Abstract!Fence
  <2>3. ASSUME NEW k \in Kinds, Abstract!Fetch(k) PROVE Abstract!Promised'
    BY <2>1, <2>3 DEF Abstract!Promised, Abstract!Fetch
  <2>4. ASSUME NEW k \in Kinds, Abstract!Commit(k) PROVE Abstract!Promised'
    BY <2>1, <2>4 DEF Abstract!Promised, Abstract!Commit
  <2> QED
    BY <2>2, <2>3, <2>4 DEF Abstract!ProbeNext
<1> QED
  BY <1>1, <1>2, ImplementsOneShot, InductiveHolds, PTL DEF OneShot, Abstract!ProbeSpec

-----------------------------------------------------------------------------
(* Evidence *)

\* The artifacts on disk are those the evidence names.
Filed ==
  \A a \in ArtifactIds :
    disk[a] # Null <=> \E k \in Kinds : evidence[k] # Null /\ evidence[k].artifact = a

\* A crash during a commit leaves an artifact that no evidence names: in a root that
\* is at work, fresh or complete there is none.  That a reopened root cannot be taken
\* for one at work needs its stage.
EvidenceSound ==
  /\ \A k \in Kinds : evidence[k] # Null =>
       /\ evidence[k] \in receipts
       /\ WellFormed(k, evidence[k].content) /\ Accepts(k, evidence[k].content)
       /\ disk[evidence[k].artifact] \in {evidence[k].content, Lost} \ {Null}
  /\ (mode = "up" /\ blocker = Null) \/ stage \in {"new"} \cup TerminalStages => Filed

\* Whatever leaves evidence and artifacts alone keeps the invariant, unless it opens the
\* root or leads into a stage that is fresh or final.
LEMMA EvidenceKept ==
  ASSUME EvidenceSound, UNCHANGED <<evidence, receipts, disk>>,
         mode' = "up" /\ blocker' = Null => mode = "up" /\ blocker = Null,
         stage' \in {"new"} \cup TerminalStages =>
           stage' = stage \/ (mode = "up" /\ blocker = Null)
  PROVE  EvidenceSound'
BY DEF EvidenceSound, Filed

\* Bytes that are committed are no null: they are as many chunks as the permit counts.
LEMMA CommittedBytes ==
  ASSUME TypeOK, NEW count \in 1..MaxChunks, MayCommit(count), CommitVerdict(TRUE) = "valid"
  PROVE  /\ Received \in Seq(Data) /\ Received # Null
         /\ WellFormed(permit.kind, Received) /\ Accepts(permit.kind, Received)
<1>1. Received \in Seq(Data) /\ Len(Received) = count
  BY ReceivedTypes DEF MayCommit, CommitVerdict
<1>2. Received \in [1..count -> Data]
  BY <1>1
<1>3. count \in 0..MaxChunks
  BY ReceiverAssumption
<1> QED
  BY <1>1, <1>2, <1>3, NullAssumption DEF CommitVerdict

\* A permit that has been started is for a kind that has no evidence yet.
LEMMA CommitsNew ==
  ASSUME Inductive, blocker = Null, permit # Null, permit.status = "started"
  PROVE  permit.kind \in Kinds /\ evidence[permit.kind] = Null
<1>1. permit.kind \in Kinds
  BY PermitStage DEF Permits
<1>2. evidence["session-check"] = Null \/ permit.kind = "body"
  BY <1>1, PermitStage DEF Inductive, StageAgrees, Phase, Kinds
<1>3. evidence["body"] = Null
  BY <1>1, PermitStage DEF Inductive, StageAgrees, Phase, Kinds, SessionOnly
<1> QED
  BY <1>1, <1>2, <1>3 DEF Kinds

\* Evidence is never replaced.
LEMMA EvidenceStays ==
  ASSUME Inductive, [Next]_vars, NEW k \in Kinds, evidence[k] # Null
  PROVE  evidence'[k] = evidence[k]
<1>1. ASSUME NEW count \in 1..MaxChunks, NEW a \in ArtifactIds, CommitAccepted(count, a)
      PROVE  evidence'[k] = evidence[k]
  <2>1. permit.kind # k
    BY <1>1, CommitsNew DEF CommitAccepted, MayCommit, PermitIs
  <2>2. evidence \in [Kinds -> Evidence \cup {Null}]
    BY DEF Inductive, TypeOK
  <2> QED
    BY <1>1, <2>1, <2>2 DEF CommitAccepted
<1>2. ASSUME NEW b, NEW c, DispatchStarted(b, c) PROVE UNCHANGED evidence
  BY <1>2 DEF DispatchStarted, proofVars
<1> QED
  BY <1>1, <1>2, OnlyThese

\* A commit adds the one artifact it wrote and the evidence that names it.
LEMMA EvidenceCommitted ==
  ASSUME Inductive, Inductive', EvidenceSound,
         NEW count \in 1..MaxChunks, NEW a \in ArtifactIds, CommitAccepted(count, a)
  PROVE  EvidenceSound'
<1> DEFINE proof == [artifact |-> a, content |-> Received]
<1>1. mode = "up" /\ blocker = Null /\ permit # Null /\ permit.status = "started"
      /\ MayCommit(count) /\ CommitVerdict(TRUE) = "valid"
  BY DEF CommitAccepted, ServedAnyTime, Served, MayCommit, PermitIs
<1>2. permit.kind \in Kinds /\ evidence[permit.kind] = Null
  BY <1>1, CommitsNew
<1>3. Received \in Seq(Data) /\ Received # Null
      /\ WellFormed(permit.kind, Received) /\ Accepts(permit.kind, Received)
  BY <1>1, CommittedBytes DEF Inductive
<1>4. /\ evidence' = [evidence EXCEPT ![permit.kind] = proof]
      /\ receipts' = receipts \cup {proof}
      /\ disk[a] = Null /\ disk' = [disk EXCEPT ![a] = Received]
  BY DEF CommitAccepted, WriteArtifact
<1>5. /\ evidence \in [Kinds -> Evidence \cup {Null}]
      /\ disk \in [ArtifactIds -> Seq(Data) \cup {Null, Lost}]
  BY DEF Inductive, TypeOK
<1>6. proof # Null /\ proof.artifact = a /\ proof.content = Received
  BY <1>3, NotNull DEF Evidence
<1> HIDE DEF proof
<1>7. ASSUME NEW k \in Kinds, evidence'[k] # Null
      PROVE  /\ evidence'[k] \in receipts'
             /\ WellFormed(k, evidence'[k].content) /\ Accepts(k, evidence'[k].content)
             /\ disk'[evidence'[k].artifact] \in {evidence'[k].content, Lost} \ {Null}
  <2>1. CASE k = permit.kind
    BY <1>3, <1>4, <1>5, <1>6, <2>1
  <2>2. CASE k # permit.kind
    <3>1. evidence'[k] = evidence[k] /\ evidence[k] \in Evidence
      BY <1>4, <1>5, <1>7, <2>2
    <3>2. evidence[k].artifact # a /\ evidence[k].artifact \in ArtifactIds
      BY <1>4, <1>7, <3>1 DEF EvidenceSound, Evidence
    <3> QED
      BY <1>4, <1>5, <1>7, <3>1, <3>2 DEF EvidenceSound
  <2> QED
    BY <2>1, <2>2
<1>8. Filed'
  <2>1. Filed
    BY <1>1 DEF EvidenceSound
  <2>2. ASSUME NEW b \in ArtifactIds
        PROVE  disk'[b] # Null <=> \E k \in Kinds : evidence'[k] # Null /\ evidence'[k].artifact = b
    <3>1. CASE b = a
      BY <1>2, <1>3, <1>4, <1>5, <1>6, <3>1
    <3>2. CASE b # a
      <4>1. disk'[b] = disk[b]
        BY <1>4, <1>5, <3>2
      <4>2. \A k \in Kinds : evidence'[k] # Null /\ evidence'[k].artifact = b
                             <=> evidence[k] # Null /\ evidence[k].artifact = b
        BY <1>2, <1>4, <1>5, <1>6, <3>2
      <4> QED
        BY <2>1, <4>1, <4>2 DEF Filed
    <3> QED
      BY <3>1, <3>2
  <2> QED
    BY <2>2 DEF Filed
<1> QED
  BY <1>7, <1>8 DEF EvidenceSound

\* A commit that is interrupted leaves an artifact in a root that is at work no more.
LEMMA EvidenceInterrupted ==
  ASSUME Inductive, EvidenceSound,
         NEW count \in 1..MaxChunks, NEW a \in ArtifactIds, HaltDuringCommit(count, a)
  PROVE  EvidenceSound'
<1>1. blocker = Null /\ permit # Null /\ permit.status = "started" /\ mode = "up"
      /\ mode' # "up" /\ UNCHANGED <<evidence, receipts, stage>>
      /\ disk[a] = Null /\ disk' = [disk EXCEPT ![a] = Received]
  BY DEF HaltDuringCommit, MayCommit, PermitIs, Stop, RolledBack, proofVars, statusVars,
         WriteArtifact
<1>2. stage \notin {"new"} \cup TerminalStages
  BY <1>1, PermitStage DEF Permits, Kinds, TerminalStages, SetupStages, BodyStages
<1>3. ASSUME NEW k \in Kinds, evidence[k] # Null
      PROVE  disk'[evidence[k].artifact] = disk[evidence[k].artifact]
  <2>1. evidence[k].artifact \in ArtifactIds /\ evidence[k].artifact # a
    BY <1>1, <1>3 DEF EvidenceSound, Inductive, TypeOK, Evidence
  <2> QED
    BY <1>1, <2>1 DEF Inductive, TypeOK
<1> QED
  BY <1>1, <1>2, <1>3 DEF EvidenceSound

\* An artifact that is lost is still the one the evidence names.
LEMMA EvidenceLost ==
  ASSUME Inductive, EvidenceSound, NEW a \in ArtifactIds, LoseArtifact(a)
  PROVE  EvidenceSound'
<1>1. UNCHANGED <<evidence, receipts, stage, blocker, mode>>
      /\ disk[a] # Null /\ disk' = [disk EXCEPT ![a] = Lost]
  BY DEF LoseArtifact, proofVars, statusVars, processVars
<1>2. /\ disk \in [ArtifactIds -> Seq(Data) \cup {Null, Lost}]
      /\ \A k \in Kinds : evidence[k] # Null => evidence[k].artifact \in ArtifactIds
  BY DEF Inductive, TypeOK, Evidence
<1>3. \A b \in ArtifactIds : /\ disk'[b] # Null <=> disk[b] # Null
                             /\ disk'[b] \in {disk[b], Lost}
  BY <1>1, <1>2, NullAssumption
<1> QED
  BY <1>1, <1>2, <1>3 DEF EvidenceSound, Filed

\* A root that is opened and not blocked is fresh or complete.
LEMMA EvidenceReopened ==
  ASSUME EvidenceSound, OpenRoot
  PROVE  EvidenceSound'
<1>1. UNCHANGED <<evidence, receipts, disk>>
  BY DEF OpenRoot, proofVars, fileVars
<1>2. CASE RecoveredBlocker = Null
  <2>1. stage' = stage /\ stage \in {"new"} \cup TerminalStages
    BY <1>2, NotNull DEF OpenRoot, RecoveredBlocker, Blockers, Unfinished
  <2> QED
    BY <1>1, <2>1 DEF EvidenceSound, Filed
<1>3. CASE RecoveredBlocker # Null
  BY <1>1, <1>3 DEF OpenRoot, EvidenceSound, TerminalStages, SetupStages, BodyStages
<1> QED
  BY <1>2, <1>3

\* Every step of the receiver keeps evidence and artifacts together.
LEMMA StepEvidence == Inductive /\ EvidenceSound /\ [Next]_vars => EvidenceSound'
<1> SUFFICES ASSUME Inductive, EvidenceSound, [Next]_vars PROVE EvidenceSound'
  OBVIOUS
<1>0. Inductive' /\ (blocker # Null => blocker' # Null /\ stage' = "blocked")
  BY StepInductive, StepFenced
<1>00. stage' \in {"new"} \cup TerminalStages => blocker = Null
  BY <1>0 DEF TerminalStages, SetupStages, BodyStages
<1> USE DEF statusVars, claimVars, permitVars, proofVars, fileVars, processVars
<1>1. CASE UNCHANGED vars
  BY <1>1, EvidenceKept DEF vars
<1>2. CASE DistrustClock \/ RefuseOnTime \/ Refuse \/ ExhaustBudget \/ ClaimWork
           \/ RequestPermit \/ StartDispatch
  <2>1. mode = "up" /\ UNCHANGED <<evidence, receipts, disk>>
    BY <1>2 DEF DistrustClock, RefuseOnTime, Refuse, ExhaustBudget, ClaimWork, Claim,
                ClaimMismatch, RequestPermit, StartDispatch, DispatchLate, DispatchStarted,
                ServedOnTime, ServedAnyTime, Served
  <2> QED
    BY <1>0, <1>00, <2>1, EvidenceKept
<1>3. CASE ResultChunk \/ FailRequest \/ ReconcileDispatch
           \/ \E proof \in receipts : ReplayUnproven(proof)
  <2>1. mode = "up" /\ UNCHANGED <<evidence, receipts, disk>>
    BY <1>3 DEF ResultChunk, Chunk, ChunkConflict, FailRequest, RequestFailed,
                ReconcileDispatch, ReplayUnproven, ServedAnyTime, Served
  <2> QED
    BY <1>0, <1>00, <2>1, EvidenceKept
<1>4. ASSUME NEW count \in 1..MaxChunks, NEW exact \in BOOLEAN, CommitRejected(count, exact)
      PROVE  EvidenceSound'
  <2>1. mode = "up" /\ UNCHANGED <<evidence, receipts, disk>>
    BY <1>4 DEF CommitRejected, ServedAnyTime, Served
  <2> QED
    BY <1>0, <1>00, <2>1, EvidenceKept
<1>5. ASSUME NEW count \in 1..MaxChunks, NEW a \in ArtifactIds, CommitAccepted(count, a)
      PROVE  EvidenceSound'
  BY <1>0, <1>5, EvidenceCommitted
<1>6. ASSUME NEW count \in 1..MaxChunks, NEW a \in ArtifactIds, HaltDuringCommit(count, a)
      PROVE  EvidenceSound'
  BY <1>6, EvidenceInterrupted
<1>7. CASE Halt \/ \E x \in Data : HaltDuringChunk(x)
  BY <1>7, EvidenceKept DEF Halt, HaltDuringChunk, Stop, RolledBack
<1>8. CASE OpenRoot
  BY <1>8, EvidenceReopened
<1>9. ASSUME NEW a \in ArtifactIds, LoseArtifact(a) PROVE EvidenceSound'
  BY <1>9, EvidenceLost
<1>10. CASE Tick \/ Reboot \/ \E t \in 0..MaxTime : SetWall(t)
  BY <1>10, EvidenceKept DEF Tick, Reboot, SetWall, ClockOnly
<1> QED
  BY <1>1, <1>2, <1>3, <1>4, <1>5, <1>6, <1>7, <1>8, <1>9, <1>10
  DEF Next, Serve, CommitResult, Interrupted, Environment

LEMMA InitEvidence == Init => EvidenceSound
BY DEF Init, EvidenceSound, Filed

LEMMA EvidenceHolds == Spec => []EvidenceSound
BY InductiveHolds, InitEvidence, StepEvidence, PTL DEF Spec

\* Whatever was committed was valid, has its receipt, and its file was not taken back by
\* the receiver; a complete root has the artifacts of its scope and no other.
THEOREM CompletionIsProven == Spec => []CompletionProven
<1>1. Inductive /\ EvidenceSound => CompletionProven
  <2> SUFFICES ASSUME Inductive, EvidenceSound, stage \in TerminalStages
               PROVE  {a \in ArtifactIds : disk[a] # Null} =
                      {evidence[k].artifact : k \in TerminalKinds}
    BY DEF EvidenceSound, CompletionProven
  <2>1. TerminalKinds = {k \in Kinds : evidence[k] # Null}
    BY DEF Inductive, StageAgrees, Phase, TerminalKinds, TerminalStages, SetupStages,
           BodyStages, SessionOnly, Kinds
  <2>2. Filed /\ \A k \in Kinds : evidence[k] # Null => evidence[k].artifact \in ArtifactIds
    BY DEF EvidenceSound, Inductive, TypeOK, Evidence
  <2> QED
    BY <2>1, <2>2 DEF Filed
<1> QED
  BY <1>1, InductiveHolds, EvidenceHolds, PTL

\* Only opening it brings a process up that was down.
LEMMA OnlyOpens ==
  ASSUME [Next]_vars, mode = "down", mode' = "up"
  PROVE  OpenRoot
<1> USE DEF processVars
<1>1. ~UNCHANGED vars /\ ~Interrupted /\ ~Environment
  BY DEF vars, Interrupted, Halt, HaltDuringChunk, HaltDuringCommit, Stop, Environment, Tick,
         Reboot, SetWall, LoseArtifact, ClockOnly
<1>2. ~DistrustClock /\ ~RefuseOnTime /\ ~Refuse /\ ~ExhaustBudget /\ ~ClaimWork
      /\ ~RequestPermit /\ ~StartDispatch
  BY DEF DistrustClock, RefuseOnTime, Refuse, ExhaustBudget, ClaimWork, Claim, ClaimMismatch,
         RequestPermit, StartDispatch, DispatchLate, DispatchStarted, ServedOnTime,
         ServedAnyTime, Served
<1>3. ~ResultChunk /\ ~CommitResult /\ ~FailRequest /\ ~ReconcileDispatch
      /\ ~\E proof \in receipts : ReplayUnproven(proof)
  BY DEF ResultChunk, Chunk, ChunkConflict, CommitResult, CommitRejected, CommitAccepted,
         FailRequest, RequestFailed, ReconcileDispatch, ReplayUnproven, ServedAnyTime, Served
<1> QED
  BY <1>1, <1>2, <1>3 DEF Next, Serve

\* A root that opens as complete still has every artifact its scope asks for.
THEOREM CompletionReopened == Spec => ReopenedCompletion
<1>1. ASSUME Inductive, [Next]_vars, mode = "down", mode' = "up", stage' \in TerminalStages
      PROVE  /\ evidence["session-check"] # Null /\ Intact(evidence["session-check"])
             /\ scope \in BodyScopes => evidence["body"] # Null /\ Intact(evidence["body"])
  <2>1. OpenRoot
    BY <1>1, OnlyOpens
  <2>2. RecoveredBlocker = Null /\ stage \in TerminalStages
    BY <1>1, <2>1 DEF OpenRoot, TerminalStages, SetupStages, BodyStages
  <2>3. EvidenceStands
    BY <2>2, NotNull DEF RecoveredBlocker, Blockers, Unfinished, TerminalStages, SetupStages,
       BodyStages
  <2>4. ASSUME scope \in BodyScopes PROVE stage \in BodyStages
    <3>1. stage = "setup_complete" => scope = "setup-inspection"
      BY <1>1 DEF Inductive, ScopeConfined, TerminalStages, SetupStages, BodyStages
    <3>2. stage = "background_setup_complete" => scope = "background-setup-inspection"
      BY <1>1 DEF Inductive, ScopeConfined, TerminalStages, SetupStages, BodyStages
    <3> QED
      BY <2>2, <2>4, <3>1, <3>2 DEF TerminalStages, SetupStages, BodyScopes
  <2>5. "session-check" \in TerminalKinds /\ (scope \in BodyScopes => "body" \in TerminalKinds)
    BY <2>2, <2>4 DEF TerminalKinds, TerminalStages, SetupStages, BodyStages, Kinds
  <2> QED
    BY <2>3, <2>5 DEF EvidenceStands
<1>2. Inductive /\ [Next]_vars =>
        [mode = "down" /\ mode' = "up" /\ stage' \in TerminalStages =>
           /\ evidence["session-check"] # Null /\ Intact(evidence["session-check"])
           /\ scope \in BodyScopes => evidence["body"] # Null /\ Intact(evidence["body"])]_vars
  BY <1>1
<1> QED
  BY <1>2, InductiveHolds, PTL DEF Spec, ReopenedCompletion

\* Only a commit, an interrupted one and whoever spoils a file touch the artifacts.
LEMMA OnlyTheseFiles ==
  ASSUME [Next]_vars
  PROVE  \/ UNCHANGED disk
         \/ \E a \in ArtifactIds : LoseArtifact(a)
         \/ \E count \in 1..MaxChunks, a \in ArtifactIds :
              CommitAccepted(count, a) \/ HaltDuringCommit(count, a)
<1> USE DEF fileVars
<1>1. CASE UNCHANGED vars \/ OpenRoot \/ Interrupted \/ Environment
  BY <1>1 DEF vars, OpenRoot, Interrupted, Halt, HaltDuringChunk, Environment, Tick, Reboot,
              SetWall, ClockOnly
<1>2. CASE DistrustClock \/ RefuseOnTime \/ Refuse \/ ExhaustBudget \/ ClaimWork \/ RequestPermit
  BY <1>2 DEF DistrustClock, RefuseOnTime, Refuse, ExhaustBudget, ClaimWork, Claim,
              ClaimMismatch, RequestPermit
<1>3. CASE StartDispatch \/ ResultChunk \/ CommitResult
  BY <1>3 DEF StartDispatch, DispatchLate, DispatchStarted, ResultChunk, Chunk, ChunkConflict,
              CommitResult, CommitRejected
<1>4. CASE FailRequest \/ ReconcileDispatch \/ \E proof \in receipts : ReplayUnproven(proof)
  BY <1>4 DEF FailRequest, RequestFailed, ReconcileDispatch, ReplayUnproven
<1> QED
  BY <1>1, <1>2, <1>3, <1>4 DEF Next, Serve

\* What is acknowledged is evidence, and stays it.
ReceiptsStand == \A proof \in receipts : \E k \in Kinds : evidence[k] = proof

LEMMA StepReceipts == Inductive /\ ReceiptsStand /\ [Next]_vars => ReceiptsStand'
<1> SUFFICES ASSUME Inductive, ReceiptsStand, [Next]_vars, NEW proof \in receipts'
             PROVE  \E k \in Kinds : evidence'[k] = proof
  BY DEF ReceiptsStand
<1>1. CASE proof \in receipts
  <2>1. PICK k \in Kinds : evidence[k] = proof
    BY <1>1 DEF ReceiptsStand
  <2>2. proof # Null
    BY <1>1, NotNull DEF Inductive, TypeOK
  <2> QED
    BY <2>1, <2>2, EvidenceStays
<1>2. CASE proof \notin receipts
  <2>1. PICK count \in 1..MaxChunks, a \in ArtifactIds : CommitAccepted(count, a)
    <3>1. ASSUME NEW b \in Browsers, NEW c \in Collectors, DispatchStarted(b, c)
          PROVE  UNCHANGED receipts
      BY <3>1 DEF DispatchStarted, proofVars
    <3> QED
      BY <1>2, <3>1, OnlyThese
  <2>2. permit.kind \in Kinds
    BY <2>1, CommitsNew DEF CommitAccepted, MayCommit, PermitIs
  <2>3. evidence \in [Kinds -> Evidence \cup {Null}]
    BY DEF Inductive, TypeOK
  <2> QED
    BY <1>2, <2>1, <2>2, <2>3 DEF CommitAccepted
<1> QED
  BY <1>1, <1>2

\* What a repeated commit is told is true of the disk at that moment, and what was
\* acknowledged is a success until somebody else has spoilt a file.
THEOREM ReplaysTrue == Spec => []ReplayTrue
<1>1. Init => ReceiptsStand
  BY DEF Init, ReceiptsStand
<1>2. Inductive /\ EvidenceSound /\ ReceiptsStand => ReplayTrue
  <2> SUFFICES ASSUME Inductive, EvidenceSound, ReceiptsStand, NEW proof \in receipts
               PROVE  /\ Replayable(proof) =>
                           \E k \in Kinds :
                             /\ evidence[k] = proof /\ disk[proof.artifact] = proof.content
                             /\ WellFormed(k, proof.content) /\ Accepts(k, proof.content)
                      /\ \/ Replayable(proof)
                         \/ blocker = "recovery_evidence_missing"
                         \/ disk[proof.artifact] = Lost
    BY DEF ReplayTrue
  <2>1. PICK k \in Kinds : evidence[k] = proof
    BY DEF ReceiptsStand
  <2>2. evidence[k] # Null
    BY <2>1, NotNull DEF Inductive, TypeOK
  <2>3. /\ WellFormed(k, proof.content) /\ Accepts(k, proof.content)
        /\ disk[proof.artifact] \in {proof.content, Lost}
    BY <2>1, <2>2 DEF EvidenceSound
  <2>4. Replayable(proof) => disk[proof.artifact] = proof.content
    BY DEF Replayable, Intact
  <2>5. disk[proof.artifact] = proof.content /\ blocker # "recovery_evidence_missing"
          => Replayable(proof)
    BY <2>1, <2>2 DEF Replayable, Intact
  <2> QED
    BY <2>1, <2>3, <2>4, <2>5
<1> QED
  BY <1>1, <1>2, InductiveHolds, EvidenceHolds, StepReceipts, PTL DEF Spec

\* Committed evidence and its file are final: a new artifact is only written where there
\* is none.
THEOREM CommittedIsFinal == Spec => CommittedStays
<1>1. ASSUME Inductive, EvidenceSound, [Next]_vars, NEW k \in Kinds, evidence[k] # Null
      PROVE  /\ evidence'[k] = evidence[k]
             /\ disk'[evidence[k].artifact] \in {disk[evidence[k].artifact], Lost}
  <2> DEFINE own == evidence[k].artifact
  <2>1. own \in ArtifactIds /\ disk[own] # Null
    BY <1>1 DEF Inductive, TypeOK, Evidence, EvidenceSound
  <2>2. disk \in [ArtifactIds -> Seq(Data) \cup {Null, Lost}]
    BY <1>1 DEF Inductive, TypeOK
  <2> HIDE DEF own
  <2>3. ASSUME NEW a \in ArtifactIds, LoseArtifact(a) PROVE disk'[own] \in {disk[own], Lost}
    BY <2>1, <2>2, <2>3 DEF LoseArtifact
  <2>4. ASSUME NEW count, NEW a \in ArtifactIds,
               CommitAccepted(count, a) \/ HaltDuringCommit(count, a)
        PROVE  disk'[own] = disk[own]
    BY <2>1, <2>2, <2>4 DEF CommitAccepted, HaltDuringCommit, WriteArtifact
  <2>5. disk'[own] \in {disk[own], Lost}
    BY <1>1, <2>3, <2>4, OnlyTheseFiles
  <2> QED
    BY <1>1, <2>5, EvidenceStays DEF own
<1>2. Inductive /\ EvidenceSound /\ [Next]_vars =>
        [\A k \in Kinds : evidence[k] # Null =>
           /\ evidence'[k] = evidence[k]
           /\ disk'[evidence[k].artifact] \in {disk[evidence[k].artifact], Lost}]_vars
  BY <1>1
<1> QED
  BY <1>2, InductiveHolds, EvidenceHolds, PTL DEF Spec, CommittedStays

-----------------------------------------------------------------------------
(* Transfers *)

\* What is not a chunk, a permit or the end of one leaves a transfer as it is, or blocks
\* or stops the receiver.
LEMMA TransferKept ==
  ASSUME TransferWhole, UNCHANGED <<permit, mem, part>>,
         mode' = "up" /\ blocker' = Null => mode = "up" /\ blocker = Null
  PROVE  TransferWhole'
BY DEF TransferWhole, Received

\* An acknowledged chunk is one more on both sides of the count.
LEMMA ChunkCounted ==
  ASSUME TypeOK, TransferWhole, NEW x \in Data, Chunk(x)
  PROVE  TransferWhole'
<1>1. mode = "up" /\ blocker = Null /\ permit # Null
  BY DEF Chunk, ServedAnyTime, Served, PermitIs
<1>2. permit \in Permits /\ mem \in Seq(Data) /\ part \in Seq(Data) /\ Len(Received) = permit.next
  BY <1>1 DEF TypeOK, TransferWhole
<1>3. permit' = [permit EXCEPT !.next = @ + 1]
  BY DEF Chunk
<1>4. permit'.kind = permit.kind /\ permit'.next = permit.next + 1
  BY <1>2, <1>3 DEF Permits
<1>5. CASE permit.kind = "session-check"
  <2>1. mem' = Append(mem, x)
    BY <1>5 DEF Chunk
  <2> QED
    BY <1>2, <1>4, <1>5, <2>1 DEF TransferWhole, Received
<1>6. CASE permit.kind = "body"
  <2>1. part' = Append(part, x)
    BY <1>6 DEF Chunk
  <2> QED
    BY <1>2, <1>4, <1>6, <2>1 DEF TransferWhole, Received
<1> QED
  BY <1>2, <1>5, <1>6 DEF Permits, Kinds

\* Every step keeps the count of an unblocked transfer that of its bytes.  A reopened root
\* that is not blocked has no permit, by its stage.
LEMMA StepTransfer == Inductive /\ TransferWhole /\ [Next]_vars => TransferWhole'
<1> SUFFICES ASSUME Inductive, TransferWhole, [Next]_vars PROVE TransferWhole'
  OBVIOUS
<1>0. Inductive' /\ (blocker # Null => blocker' # Null)
  BY StepInductive, StepFenced
<1> USE DEF statusVars, claimVars, permitVars, proofVars, fileVars, processVars
<1>1. CASE UNCHANGED vars
  BY <1>1, TransferKept DEF vars
<1>2. CASE DistrustClock \/ RefuseOnTime \/ Refuse \/ ExhaustBudget \/ ClaimWork
           \/ (\E proof \in receipts : ReplayUnproven(proof))
  <2>1. UNCHANGED <<mode, permit, mem, part>>
    BY <1>2 DEF DistrustClock, RefuseOnTime, Refuse, ExhaustBudget, ClaimWork, Claim,
                ClaimMismatch, ReplayUnproven, ServedOnTime, ServedAnyTime, Served
  <2> QED
    BY <1>0, <2>1, TransferKept
<1>3. CASE RequestPermit
  BY <1>3 DEF RequestPermit, TransferWhole, Received
<1>4. ASSUME NEW b \in Browsers, NEW c \in Collectors, DispatchStarted(b, c)
      PROVE  TransferWhole'
  <2>1. permit \in Permits /\ permit' = [permit EXCEPT !.status = "started"]
        /\ UNCHANGED <<mode, blocker, mem, part>> /\ permit # Null
    BY <1>4 DEF DispatchStarted, Dispatchable, PermitIs, ServedOnTime, Served, Inductive, TypeOK
  <2> QED
    BY <2>1 DEF TransferWhole, Received, Permits
<1>5. ASSUME NEW x \in Data, Chunk(x) PROVE TransferWhole'
  BY <1>5, ChunkCounted DEF Inductive
<1>6. CASE DispatchLate \/ (\E x \in Data, sequence \in 0..MaxChunks : ChunkConflict(sequence, x))
           \/ FailRequest \/ ReconcileDispatch
           \/ (\E count \in 1..MaxChunks, exact \in BOOLEAN : CommitRejected(count, exact))
  <2>1. blocker' # Null
    BY <1>6, BlockerTypes, VerdictTypes, NotNull
    DEF DispatchLate, ChunkConflict, FailRequest, RequestFailed, ReconcileDispatch,
        CommitRejected, Block, Blockers
  <2> QED
    BY <2>1 DEF TransferWhole
<1>7. ASSUME NEW count \in 1..MaxChunks, NEW a \in ArtifactIds, CommitAccepted(count, a)
      PROVE  TransferWhole'
  BY <1>7 DEF CommitAccepted, TransferWhole
<1>8. CASE Interrupted
  <2>1. mode' # "up"
    BY <1>8 DEF Interrupted, Halt, HaltDuringChunk, HaltDuringCommit, Stop
  <2> QED
    BY <2>1 DEF TransferWhole
<1>9. CASE OpenRoot
  <2> SUFFICES ASSUME blocker' = Null, permit # Null PROVE FALSE
    BY <1>9 DEF OpenRoot, TransferWhole
  <2>1. blocker = Null /\ ~Unfinished
    BY <1>0, <1>9, NotNull DEF OpenRoot, RecoveredBlocker, Blockers
  <2> QED
    BY <2>1, PermitStage DEF Unfinished, TerminalStages, SetupStages, BodyStages, Permits, Kinds
<1>10. CASE Environment
  <2>1. UNCHANGED <<mode, blocker, permit, mem, part>>
    BY <1>10 DEF Environment, Tick, Reboot, SetWall, LoseArtifact, ClockOnly
  <2> QED
    BY <2>1, TransferKept
<1> QED
  BY <1>1, <1>2, <1>3, <1>4, <1>5, <1>6, <1>7, <1>8, <1>9, <1>10
  DEF Next, Serve, StartDispatch, ResultChunk, CommitResult

\* Whatever stops and is reopened: a receiver that serves an unblocked root has the chunks
\* it has acknowledged, as many as it counts.
THEOREM TransfersWhole == Spec => []TransferWhole
<1>1. Init => TransferWhole
  BY DEF Init, TransferWhole
<1> QED
  BY <1>1, StepTransfer, InductiveHolds, PTL DEF Spec

-----------------------------------------------------------------------------
(* The cooldown *)

\* A request that moves the trusted clock finds the root unblocked, hence without a
\* cooldown; the failure that sets one counts from the later of both readings.
LEMMA StepCooldown ==
  ASSUME Inductive, Inductive', CooldownConservative, [Next]_vars
  PROVE  CooldownConservative'
<1> USE DEF statusVars, claimVars, permitVars, proofVars
<1>1. CASE UNCHANGED <<lastClock, cooldown>>
  BY <1>1, StepFenced DEF CooldownConservative
<1>2. CASE blocker = Null /\ UNCHANGED cooldown
  BY <1>2 DEF CooldownConservative
<1>3. ASSUME NEW class \in FailureClasses, NEW delay \in RetryDelays,
             NEW overflow \in BOOLEAN, RequestFailed(class, delay, overflow),
             class = "rate_limited"
      PROVE  CooldownConservative'
  <2>1. blocker' # Null /\ lastClock' = lastClock /\ cooldown = Null
        /\ cooldown' = CooldownFrom(delay, overflow)
    BY <1>3, NotNull, BlockerTypes
    DEF RequestFailed, PermitIs, Block, ServedAnyTime, CooldownConservative
  <2>2. LatestReading \in Nat /\ LatestReading >= lastClock.wall /\ lastClock.wall \in Nat
    BY DEF LatestReading, Later, Inductive, TypeOK, Clocks
  <2>3. CooldownFrom(delay, overflow).until >= LatestReading + CooldownMs
    BY <2>1, <2>2, ReceiverAssumption DEF CooldownFrom, Later
  <2>4. CooldownFrom(delay, overflow).until \in Nat
    BY CooldownTypes DEF Inductive
  <2> QED
    BY <2>1, <2>2, <2>3, <2>4, ReceiverAssumption DEF CooldownConservative
<1>4. \/ UNCHANGED <<lastClock, cooldown>>
      \/ blocker = Null /\ UNCHANGED cooldown
      \/ \E class \in FailureClasses, delay \in RetryDelays, overflow \in BOOLEAN :
           class = "rate_limited" /\ RequestFailed(class, delay, overflow)
  <2>1. CASE UNCHANGED vars \/ OpenRoot \/ Interrupted \/ Environment \/ ExhaustBudget
             \/ \E proof \in receipts : ReplayUnproven(proof)
    BY <2>1 DEF vars, OpenRoot, Interrupted, Halt, HaltDuringChunk, HaltDuringCommit,
                RolledBack, Environment, Tick, Reboot, SetWall, LoseArtifact, ClockOnly,
                ExhaustBudget, ReplayUnproven
  <2>2. CASE DistrustClock \/ Refuse \/ ResultChunk \/ CommitResult \/ ReconcileDispatch
    BY <2>2 DEF DistrustClock, Refuse, ResultChunk, Chunk, ChunkConflict, CommitResult,
                CommitRejected, CommitAccepted, ReconcileDispatch, ServedAnyTime
  <2>3. CASE RefuseOnTime \/ ClaimWork \/ RequestPermit \/ StartDispatch
    BY <2>3 DEF RefuseOnTime, ClaimWork, Claim, ClaimMismatch, RequestPermit, StartDispatch,
                DispatchLate, DispatchStarted, ServedOnTime
  <2>4. CASE FailRequest
    BY <2>4 DEF FailRequest, RequestFailed, ServedAnyTime
  <2> QED
    BY <2>1, <2>2, <2>3, <2>4 DEF Next, Serve
<1> QED
  BY <1>1, <1>2, <1>3, <1>4

\* The cooldown never ends earlier than CooldownMs after the last reading the receiver
\* has trusted, whatever is done to the wall clock before or after.
THEOREM CooldownKept == Spec => []CooldownConservative
<1>1. Init => CooldownConservative
  BY DEF Init, CooldownConservative
<1>2. Inductive /\ Inductive' /\ CooldownConservative /\ [Next]_vars => CooldownConservative'
  BY StepCooldown
<1> QED
  BY <1>1, <1>2, InductiveHolds, PTL DEF Spec

-----------------------------------------------------------------------------
(* Origins: the two fetches of a root related with each other *)

\* Every fetch has an origin, of the pinned browser and collector, and as long as
\* more may happen all of it is of the present opening.
OriginsAgree ==
  /\ \A k \in Kinds : origin[k] = Null <=> fetches[k] = 0
  /\ \A k \in Kinds : origin[k] # Null => /\ origin[k].browser = browser
                                         /\ origin[k].collector = collector
  /\ fetches["body"] > 0 => fetches["session-check"] > 0
  /\ blocker = Null /\ stage \notin TerminalStages =>
       \A k \in Kinds : origin[k] # Null => origin[k].opening = opens

AtLeast(t, u, ms) == t.wall >= u.wall + ms /\ t.mono >= u.mono + ms

\* The pause is handed on: from the session permit to the next permit's earliest
\* time, from there to the last trusted clock, and from there to the body's fetch.
SpacingKept ==
  /\ stage = "session_permit" =>
       nextPermit # Null /\ AtLeast(nextPermit, permit.until, SpacingMs)
  /\ stage \in {"session_started", "session_partial", "session_committed"} =>
       nextPermit # Null /\ AtLeast(nextPermit, origin["session-check"].at, SpacingMs)
  /\ stage = "body_permit" => AtLeast(lastClock, origin["session-check"].at, SpacingMs)
  /\ SpacedFetches

OriginInv == OriginsAgree /\ SpacingKept

-----------------------------------------------------------------------------
(* Steps *)

\* A trusted request never turns the trusted clock back.
LEMMA ClockForward ==
  ASSUME TypeOK, ServedOnTime
  PROVE  lastClock' = clock /\ AtLeast(lastClock', lastClock, 0)
BY DEF TypeOK, ServedOnTime, ClockTrusted, Clocks, AtLeast

\* A deadline that the trusted clock has reached stays reached.
LEMMA LaterStill ==
  ASSUME NEW t \in Clocks, NEW u \in Clocks, NEW v \in Clocks,
         AtLeast(t, u, 0), AtLeast(u, v, SpacingMs)
  PROVE  AtLeast(t, v, SpacingMs)
BY ReceiverAssumption DEF AtLeast, Clocks

\* A fetch that has an origin has one with a clock, a browser and a collector.
LEMMA OriginTypes ==
  ASSUME TypeOK, NEW k \in Kinds, origin[k] # Null
  PROVE  /\ origin[k] \in Origins
         /\ origin[k].at \in Clocks
         /\ origin[k].browser # Null /\ origin[k].collector # Null
BY NullAssumption DEF TypeOK, Origins

\* A fresh root has fetched nothing.
LEMMA InitOrigin == Init => OriginInv
BY DEF Init, OriginInv, OriginsAgree, SpacingKept, SpacedFetches, Kinds

\* A step that authorises nothing and changes no stage keeps the invariant, also
\* when it pins the browser or moves the trusted clock forward.
LEMMA OriginKept ==
  ASSUME Inductive, OriginInv, TypeOK',
         UNCHANGED <<stage, blocker, permit, nextPermit, collector, opens, fetches, origin>>,
         browser # Null => browser' = browser,
         AtLeast(lastClock', lastClock, 0)
  PROVE  OriginInv'
<1>1. OriginsAgree'
  BY OriginTypes DEF Inductive, OriginInv, OriginsAgree
<1>2. ASSUME stage = "body_permit"
      PROVE  AtLeast(lastClock', origin["session-check"].at, SpacingMs)
  <2>1. origin["session-check"] # Null
    BY <1>2 DEF Inductive, StageAgrees, Phase, OriginInv, OriginsAgree, Kinds
  <2>2. origin["session-check"].at \in Clocks /\ lastClock \in Clocks /\ lastClock' \in Clocks
    BY <2>1, OriginTypes DEF Inductive, TypeOK, Kinds
  <2> QED
    BY <1>2, <2>2, LaterStill DEF OriginInv, SpacingKept
<1>3. SpacingKept'
  BY <1>2 DEF OriginInv, SpacingKept, SpacedFetches, AtLeast
<1> QED
  BY <1>1, <1>3 DEF OriginInv

\* Blocking ends all obligations but those between the fetches there were.
LEMMA OriginBlocked ==
  ASSUME Inductive, OriginInv, NEW b \in Blockers, Block(b),
         UNCHANGED <<browser, collector, fetches, origin>>
  PROVE  OriginInv'
<1>1. blocker' # Null /\ stage' = "blocked"
  BY NotNull DEF Block
<1> QED
  BY <1>1 DEF OriginInv, OriginsAgree, SpacingKept, SpacedFetches

\* A claim pins the browser once and leaves every fetch as it is.
LEMMA OriginClaimed ==
  ASSUME Inductive, OriginInv, TypeOK', NEW b, NEW who, Claim(b, who)
  PROVE  OriginInv'
<1> USE DEF proofVars, permitVars, processVars, historyVars
<1>1. blocker = Null /\ UNCHANGED <<blocker, permit, nextPermit, collector, opens, fetches, origin>>
      /\ (browser # Null => browser' = browser) /\ AtLeast(lastClock', lastClock, 0)
  BY ClockForward
  DEF Inductive, Claim, ClaimAdmitted, Open4Work, ServedOnTime, Served
<1>2. CASE claimed
  <2>1. stage' = stage
    BY <1>2 DEF Claim
  <2> QED
    BY <1>1, <2>1, OriginKept
<1>3. CASE ~claimed
  <2>1. stage = "new" /\ stage' = "session_claimed"
    BY <1>1, <1>3 DEF Claim, Inductive, StageAgrees
  <2>2. \A k \in Kinds : origin[k] = Null
    BY <2>1 DEF Inductive, StageAgrees, Phase, OriginInv, OriginsAgree, Kinds
  <2> QED
    BY <1>1, <2>1, <2>2 DEF OriginInv, OriginsAgree, SpacingKept, SpacedFetches, Kinds
<1> QED
  BY <1>2, <1>3

\* A permit is granted only when the pause before it has ended.
LEMMA OriginPermitted ==
  ASSUME Inductive, OriginInv, Inductive', RequestPermit
  PROVE  OriginInv'
<1> USE DEF proofVars, claimVars, processVars, historyVars
<1>1. blocker = Null /\ stage \notin TerminalStages
      /\ UNCHANGED <<blocker, browser, collector, opens, fetches, origin>>
  BY DEF RequestPermit, MayPermit, Open4Work, ServedOnTime, Served
<1>2. stage' \in {"session_permit", "body_permit"} /\ stage' \notin TerminalStages
      /\ (stage' = "body_permit" <=> WorkUnit = "body")
  BY DEF RequestPermit, TerminalStages, SetupStages, BodyStages
<1>3. OriginsAgree'
  BY <1>1, <1>2 DEF OriginInv, OriginsAgree
<1>4. ASSUME stage' = "session_permit"
      PROVE  nextPermit' # Null /\ AtLeast(nextPermit', permit'.until, SpacingMs)
  <2>1. permit'.until = In(PermitMs) /\ nextPermit' = In(PermitMs + SpacingMs)
    BY DEF RequestPermit, PauseFromPermitEnd
  <2>2. In(PermitMs + SpacingMs) \in Deadlines /\ clock \in Clocks
    BY ClockTypes, ReceiverAssumption DEF Inductive, TypeOK
  <2> QED
    BY <2>1, <2>2, NullAssumption, ReceiverAssumption DEF In, AtLeast, Clocks
<1>5. ASSUME stage' = "body_permit"
      PROVE  AtLeast(lastClock', origin["session-check"].at, SpacingMs)
  <2>1. stage = "session_committed"
    <3>1. BodyReady /\ permit = Null
      BY <1>1, <1>2, <1>5, PermitStage DEF RequestPermit, MayPermit, WorkUnit
    <3>2. stage \in Stages \ (TerminalStages \cup {"blocked", "new"})
      BY <1>1, <3>1 DEF Inductive, TypeOK, StageAgrees
    <3> QED
      BY <3>1, <3>2 DEF Inductive, StageAgrees, Phase, Stages, Kinds
  <2>2. nextPermit # Null /\ AtLeast(nextPermit, origin["session-check"].at, SpacingMs)
    BY <2>1 DEF OriginInv, SpacingKept
  <2>3. origin["session-check"].at \in Clocks /\ clock \in Clocks /\ nextPermit \in Deadlines
    BY <2>1, <2>2, OriginTypes
    DEF Inductive, StageAgrees, Phase, OriginInv, OriginsAgree, TypeOK, Kinds
  <2>4. clock.wall >= nextPermit.wall /\ clock.mono >= nextPermit.mono
    BY <2>2, <2>3 DEF RequestPermit, MayPermit, Ahead, Clocks, Deadlines
  <2>5. lastClock' = clock
    BY ClockForward DEF Inductive, RequestPermit
  <2> QED
    BY <2>2, <2>3, <2>4, <2>5, ReceiverAssumption DEF AtLeast, Clocks, Deadlines
<1>6. SpacingKept'
  BY <1>1, <1>2, <1>4, <1>5 DEF OriginInv, SpacingKept, SpacedFetches
<1> QED
  BY <1>3, <1>6 DEF OriginInv

\* A dispatch in its permit's time: the session's ends before the pause begins, the
\* body's starts after the pause has ended.
LEMMA OriginDispatched ==
  ASSUME Inductive, OriginInv, Inductive', NEW b \in Browsers, NEW c \in Collectors,
         DispatchStarted(b, c)
  PROVE  OriginInv'
<1> USE DEF proofVars, claimVars, processVars
<1> DEFINE here == [at |-> clock, browser |-> b, collector |-> c, opening |-> opens]
<1>1. blocker = Null /\ permit # Null /\ permit.status = "granted" /\ ~Passed(permit.until)
      /\ browser = b /\ collector \in {Null, c} /\ collector' = c
      /\ UNCHANGED <<blocker, browser, opens, nextPermit>>
  BY DEF DispatchStarted, ServedOnTime, Served, Dispatchable, PermitIs, SameCollector
<1>2. permit \in Permits /\ permit.kind \in Kinds
      /\ (permit.kind = "session-check" => stage = "session_permit")
      /\ (permit.kind = "body" => stage = "body_permit")
  BY <1>1, PermitStage DEF Permits
<1>3. /\ fetches \in [Kinds -> Nat] /\ fetches' = [fetches EXCEPT ![permit.kind] = @ + 1]
      /\ origin \in [Kinds -> Origins \cup {Null}]
      /\ origin' = [origin EXCEPT ![permit.kind] = here]
  BY DEF Inductive, TypeOK, DispatchStarted
<1>4. here \in Origins /\ here # Null /\ clock \in Clocks
  BY NullAssumption DEF Inductive, TypeOK, Origins
<1>5. here.at = clock /\ here.browser = b /\ here.collector = c /\ here.opening = opens
  OBVIOUS
<1> HIDE DEF here
<1>6. stage \notin TerminalStages
  BY <1>2 DEF Kinds, TerminalStages, SetupStages, BodyStages
<1>7. OriginsAgree'
  <2>1. \A k \in Kinds : origin'[k] = Null <=> fetches'[k] = 0
    BY <1>2, <1>3, <1>4 DEF OriginInv, OriginsAgree
  <2>2. ASSUME NEW k \in Kinds, origin'[k] # Null
        PROVE  origin'[k].browser = browser' /\ origin'[k].collector = collector'
               /\ origin'[k].opening = opens'
    <3>1. CASE k = permit.kind
      BY <1>1, <1>3, <1>5, <3>1
    <3>2. CASE k # permit.kind
      BY <1>1, <1>3, <1>6, <2>2, <3>2, OriginTypes DEF Inductive, OriginInv, OriginsAgree
    <3> QED
      BY <3>1, <3>2
  <2>3. fetches'["body"] > 0 => fetches'["session-check"] > 0
    BY <1>2, <1>3 DEF Inductive, StageAgrees, Phase, Kinds
  <2> QED
    BY <2>1, <2>2, <2>3 DEF OriginsAgree
<1>8. CASE permit.kind = "session-check"
  <2>1. stage = "session_permit" /\ stage' = "session_started"
    BY <1>2, <1>8 DEF DispatchStarted
  <2>2. origin'["session-check"] = here /\ origin'["body"] = Null
    BY <1>3, <1>8, <2>1 DEF Inductive, StageAgrees, Phase, OriginInv, OriginsAgree, Kinds
  <2>3. nextPermit # Null /\ AtLeast(nextPermit, permit.until, SpacingMs)
    BY <2>1 DEF OriginInv, SpacingKept
  <2>4. nextPermit \in Deadlines /\ permit.until \in Deadlines
    BY <1>2, <2>3 DEF Inductive, TypeOK, Permits
  <2>5. AtLeast(nextPermit, clock, SpacingMs)
    BY <1>1, <1>4, <2>3, <2>4, ReceiverAssumption DEF Passed, AtLeast, Clocks, Deadlines
  <2>6. SpacingKept'
    BY <1>1, <1>5, <2>1, <2>2, <2>3, <2>5 DEF SpacingKept, SpacedFetches
  <2> QED
    BY <1>7, <2>6 DEF OriginInv
<1>9. CASE permit.kind = "body"
  <2>1. stage = "body_permit" /\ stage' = "body_started"
    BY <1>2, <1>9 DEF DispatchStarted
  <2>2. origin'["session-check"] = origin["session-check"] /\ origin'["body"] = here
    BY <1>3, <1>9 DEF Kinds
  <2>3. origin["session-check"].at \in Clocks /\ lastClock \in Clocks
    BY <2>1, OriginTypes
    DEF Inductive, StageAgrees, Phase, OriginInv, OriginsAgree, TypeOK, Kinds
  <2>4. AtLeast(clock, lastClock, 0)
    BY ClockForward DEF Inductive, DispatchStarted
  <2>5. AtLeast(clock, origin["session-check"].at, SpacingMs)
    BY <1>4, <2>1, <2>3, <2>4, LaterStill DEF OriginInv, SpacingKept
  <2>6. SpacingKept'
    BY <1>5, <2>1, <2>2, <2>5 DEF SpacingKept, SpacedFetches, AtLeast
  <2> QED
    BY <1>7, <2>6 DEF OriginInv
<1> QED
  BY <1>2, <1>8, <1>9 DEF Kinds

\* Receiving and committing a result moves on in the stages after the dispatch.
LEMMA OriginReceived ==
  ASSUME Inductive, OriginInv, blocker = Null, permit # Null, permit.status = "started",
         stage' \in {IF permit.kind = "body" THEN "body_partial" ELSE "session_partial",
                     CommittedStage},
         UNCHANGED <<blocker, browser, collector, opens, nextPermit, fetches, origin>>
  PROVE  OriginInv'
<1>1. permit.kind \in Kinds
      /\ (permit.kind = "session-check" => stage \in {"session_started", "session_partial"})
      /\ (permit.kind = "body" => stage \in {"body_started", "body_partial"})
  BY PermitStage DEF Permits
<1>2. stage \notin TerminalStages
  BY <1>1 DEF Kinds, TerminalStages, SetupStages, BodyStages
<1>3. OriginsAgree'
  BY <1>2 DEF OriginInv, OriginsAgree
<1>4. CASE permit.kind = "session-check"
  <2>1. stage' \in {"session_partial", "session_committed"} \cup SetupStages
    BY <1>4 DEF CommittedStage, SetupTerminal, SetupStages
  <2> QED
    BY <1>1, <1>3, <1>4, <2>1
    DEF OriginInv, SpacingKept, SpacedFetches, SetupStages
<1>5. CASE permit.kind = "body"
  <2>1. stage' \in {"body_partial"} \cup BodyStages
    BY <1>5 DEF CommittedStage, BodyStages
  <2> QED
    BY <1>3, <2>1 DEF OriginInv, SpacingKept, SpacedFetches, BodyStages
<1> QED
  BY <1>1, <1>4, <1>5 DEF Kinds

\* A root that is opened again has nothing left to do, or has done nothing yet.
LEMMA OriginReopened ==
  ASSUME Inductive, OriginInv, Inductive', OpenRoot
  PROVE  OriginInv'
<1> USE DEF proofVars, claimVars, permitVars, historyVars
<1>1. UNCHANGED <<permit, browser, collector, lastClock, nextPermit, fetches, origin>>
  BY DEF OpenRoot
<1>2. CASE RecoveredBlocker # Null
  <2>1. blocker' \in Blockers /\ Block(blocker')
    BY <1>2 DEF OpenRoot, Inductive, TypeOK, Block
  <2> QED
    BY <1>1, <2>1, OriginBlocked
<1>3. CASE RecoveredBlocker = Null
  <2>1. blocker = Null /\ UNCHANGED <<stage, blocker>> /\ stage \in {"new"} \cup TerminalStages
    BY <1>3, NotNull DEF OpenRoot, RecoveredBlocker, Blockers, Unfinished
  <2>2. stage = "new" => \A k \in Kinds : origin[k] = Null
    BY DEF Inductive, StageAgrees, Phase, OriginInv, OriginsAgree, Kinds
  <2>3. stage \notin {"session_permit", "session_started", "session_partial",
                     "session_committed", "body_permit"}
    BY <2>1 DEF TerminalStages, SetupStages, BodyStages
  <2> QED
    BY <1>1, <2>1, <2>2, <2>3 DEF OriginInv, OriginsAgree, SpacingKept, SpacedFetches
<1> QED
  BY <1>2, <1>3

\* Every step of the receiver keeps the origins and the spacing.
LEMMA StepOrigin == Inductive /\ OriginInv /\ [Next]_vars => OriginInv'
<1> SUFFICES ASSUME Inductive, OriginInv, [Next]_vars PROVE OriginInv'
  OBVIOUS
<1>0. Inductive' /\ TypeOK' /\ TypeOK /\ AtLeast(lastClock, lastClock, 0)
  <2>1. Inductive'
    BY StepInductive
  <2>2. TypeOK /\ TypeOK'
    BY <2>1 DEF Inductive
  <2>3. lastClock \in Clocks
    BY <2>2 DEF TypeOK
  <2> QED
    BY <2>1, <2>2, <2>3 DEF AtLeast, Clocks
<1> USE DEF statusVars, claimVars, permitVars, proofVars, processVars, historyVars
<1>1. CASE UNCHANGED vars
  BY <1>0, <1>1, OriginKept DEF vars
<1>2. CASE RefuseOnTime
  BY <1>0, <1>2, OriginKept, ClockForward DEF RefuseOnTime, ServedOnTime, Served
<1>3. CASE Refuse
  BY <1>0, <1>3, OriginKept DEF Refuse, ServedAnyTime, Served
<1>4. CASE DistrustClock \/ ExhaustBudget \/ DispatchLate \/ ReconcileDispatch
  <2>1. PICK b \in Blockers : Block(b)
    BY <1>4 DEF DistrustClock, ExhaustBudget, DispatchLate, ReconcileDispatch, Blockers
  <2> QED
    BY <1>4, <2>1, OriginBlocked
    DEF DistrustClock, ExhaustBudget, DispatchLate, ReconcileDispatch
<1>5. ASSUME NEW b \in Browsers, NEW who \in Principals, Claim(b, who) PROVE OriginInv'
  BY <1>0, <1>5, OriginClaimed
<1>6. ASSUME NEW b \in Browsers, NEW who \in Principals, ClaimMismatch(b, who)
      PROVE  OriginInv'
  <2>1. browser # Null => browser' = browser
    BY <1>6 DEF ClaimMismatch, ClaimAdmitted
  <2> QED
    BY <1>0, <1>6, <2>1, OriginKept, ClockForward DEF ClaimMismatch, ServedOnTime, Served
<1>7. CASE RequestPermit
  BY <1>0, <1>7, OriginPermitted
<1>8. ASSUME NEW b \in Browsers, NEW c \in Collectors, DispatchStarted(b, c)
      PROVE  OriginInv'
  BY <1>0, <1>8, OriginDispatched
<1>9. ASSUME NEW x \in Data, Chunk(x) PROVE OriginInv'
  BY <1>9, OriginReceived DEF Chunk, ServedAnyTime, Served, PermitIs
<1>10. ASSUME NEW x \in Data, NEW sequence \in 0..MaxChunks, ChunkConflict(sequence, x)
       PROVE  OriginInv'
  <2>1. Block("local_conflict") /\ "local_conflict" \in Blockers
    BY <1>10 DEF ChunkConflict, Blockers
  <2> QED
    BY <1>10, <2>1, OriginBlocked DEF ChunkConflict
<1>11. ASSUME NEW count \in 1..MaxChunks, NEW exact \in BOOLEAN, CommitRejected(count, exact)
       PROVE  OriginInv'
  BY <1>11, VerdictTypes, OriginBlocked DEF CommitRejected
<1>12. ASSUME NEW count \in 1..MaxChunks, NEW a \in ArtifactIds, CommitAccepted(count, a)
       PROVE  OriginInv'
  BY <1>12, OriginReceived DEF CommitAccepted, ServedAnyTime, Served, MayCommit, PermitIs
<1>13. ASSUME NEW class \in FailureClasses, NEW delay \in RetryDelays,
              NEW overflow \in BOOLEAN, RequestFailed(class, delay, overflow)
       PROVE  OriginInv'
  BY <1>13, BlockerTypes, OriginBlocked DEF RequestFailed
<1>14. ASSUME NEW proof \in receipts, ReplayUnproven(proof) PROVE OriginInv'
  <2>1. Block("recovery_evidence_missing") /\ "recovery_evidence_missing" \in Blockers
    BY <1>14 DEF ReplayUnproven, Blockers
  <2> QED
    BY <1>14, <2>1, OriginBlocked DEF ReplayUnproven
<1>15. CASE Interrupted
  BY <1>0, <1>15, OriginKept
  DEF Interrupted, Halt, HaltDuringChunk, HaltDuringCommit, RolledBack
<1>16. CASE OpenRoot
  BY <1>0, <1>16, OriginReopened
<1>17. CASE Environment
  BY <1>0, <1>17, OriginKept DEF Environment, Tick, Reboot, SetWall, LoseArtifact, ClockOnly
<1> QED
  BY <1>1, <1>2, <1>3, <1>4, <1>5, <1>6, <1>7, <1>8, <1>9, <1>10, <1>11, <1>12, <1>13, <1>14,
     <1>15, <1>16, <1>17
  DEF Next, Serve, ClaimWork, StartDispatch, ResultChunk, CommitResult, FailRequest

\* The origins agree and the pause is kept in every state of the receiver:
\* what dispatchStarted and permit() rest on when they compare with earlier requests.
THEOREM OriginHolds == Spec => []OriginInv
BY InductiveHolds, InitOrigin, StepOrigin, PTL DEF Spec

\* The body is never fetched earlier than SpacingMs after the session, on either clock.
THEOREM FetchesSpaced == Spec => []SpacedFetches
BY OriginHolds, PTL DEF OriginInv, SpacingKept

\* The body is fetched by the browser and the collector that proved the session.
THEOREM CollectorUnique == Spec => []OneCollector
<1>1. Inductive /\ OriginInv => OneCollector
  BY DEF Inductive, TypeOK, OriginInv, OriginsAgree, OneCollector, Kinds
<1> QED
  BY <1>1, InductiveHolds, OriginHolds, PTL

\* Only a dispatch changes the fetches and only a commit the evidence; both happen in
\* a root that has not been reopened since the first fetch.
LEMMA StepOpening ==
  ASSUME Inductive, OriginInv, [Next]_vars
  PROVE  /\ \A k \in Kinds : evidence'[k] # evidence[k] => origin[k].opening = opens
         /\ fetches'["body"] # fetches["body"] => origin["session-check"].opening = opens
<1> USE DEF statusVars, claimVars, permitVars, proofVars, historyVars
<1>1. CASE UNCHANGED <<fetches, evidence>>
  BY <1>1
<1>2. ASSUME NEW b \in Browsers, NEW c \in Collectors, DispatchStarted(b, c),
             fetches'["body"] # fetches["body"]
      PROVE  origin["session-check"].opening = opens
  <2>1. blocker = Null /\ permit # Null /\ permit.status = "granted"
    BY <1>2 DEF DispatchStarted, ServedOnTime, Dispatchable, PermitIs
  <2>2. permit.kind = "body"
    BY <1>2, <2>1, PermitStage DEF DispatchStarted, Inductive, TypeOK, Permits, Kinds
  <2>3. stage = "body_permit" /\ fetches["session-check"] = 1
    BY <2>1, <2>2, PermitStage DEF Inductive, StageAgrees, Phase
  <2> QED
    BY <2>1, <2>3 DEF OriginInv, OriginsAgree, Kinds, TerminalStages, SetupStages, BodyStages
<1>3. ASSUME NEW b \in Browsers, NEW c \in Collectors, DispatchStarted(b, c)
      PROVE  UNCHANGED evidence
  BY <1>3 DEF DispatchStarted
<1>4. ASSUME NEW count, NEW a, CommitAccepted(count, a)
      PROVE  UNCHANGED fetches
  BY <1>4 DEF CommitAccepted
<1>5. ASSUME NEW count, NEW a, CommitAccepted(count, a), NEW k \in Kinds,
             evidence'[k] # evidence[k]
      PROVE  origin[k].opening = opens
  <2>1. blocker = Null /\ permit # Null /\ permit.status = "started"
    BY <1>5 DEF CommitAccepted, MayCommit, PermitIs
  <2>2. permit.kind = k
    BY <1>5, <2>1, PermitStage DEF CommitAccepted, Inductive, TypeOK, Permits
  <2>3. fetches[k] = 1 /\ stage \notin TerminalStages
    BY <2>1, <2>2, PermitStage
    DEF Inductive, StageAgrees, Phase, Kinds, TerminalStages, SetupStages, BodyStages
  <2> QED
    BY <2>1, <2>3 DEF OriginInv, OriginsAgree
<1>6. \/ UNCHANGED <<fetches, evidence>>
      \/ \E b \in Browsers, c \in Collectors : DispatchStarted(b, c)
      \/ \E count \in 1..MaxChunks, a \in ArtifactIds : CommitAccepted(count, a)
  BY OnlyThese
<1> QED
  BY <1>1, <1>2, <1>3, <1>4, <1>5, <1>6

\* A result is committed, and a body fetched, in the opening of the root in which what
\* precedes it was fetched: no earlier opening's work is carried on.
THEOREM OpeningUnique == Spec => OneOpening
<1>1. Inductive /\ OriginInv /\ [Next]_vars =>
        [/\ \A k \in Kinds : evidence'[k] # evidence[k] => origin[k].opening = opens
         /\ fetches'["body"] # fetches["body"] =>
              origin["session-check"].opening = opens]_vars
  BY StepOpening
<1> QED
  BY <1>1, InductiveHolds, OriginHolds, PTL DEF Spec, OneOpening
=============================================================================
