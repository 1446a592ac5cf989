----------------------- MODULE SetupCollectorProofs -----------------------
(***************************************************************************)
(* The collector of a setup inspection, for every deadline, response and   *)
(* limit: what it holds was reported in time, and it is a collector of     *)
(* CollectorContract.                                                      *)
(***************************************************************************)
EXTENDS SetupCollector, TLAPS

UnderWay == phase \in Awaits \cup {"done"}
Cut == {"timeout", "aborted"}

\* A request under way whose result is open has been cut short by nobody; once the
\* result is settled the signal is there to end it.
RequestSound ==
  /\ phase = "fetch" => wake \in Responses \cup Failures \cup {Null}
  /\ phase \in {"read", "digest", "done"} => invoked
  /\ UnderWay /\ gate = Null =>
       /\ ~expired /\ ~closed /\ wake \notin Cut /\ outcome \notin Cut
       /\ phase \in Awaits => ~signal
       /\ invoked => asked = 1
  /\ phase \in Awaits /\ gate # Null => signal
  /\ UnderWay => gate \in Cut \cup {Null}
  /\ phase = "fetch" /\ ~invoked => asked = 0
  /\ phase = "done" => outcome # Null
  /\ phase = "over" => gate # Null

CollectorSound ==
  /\ active <=> UnderWay
  /\ timer => UnderWay
  /\ phase = "idle" => ~dispatchUsed
  /\ ~dispatchUsed => phase = "idle" /\ gate = Null /\ asked = 0
  /\ released => gate = "ok"
  /\ disposer \in {"waits", "returned"} => closed

Inductive == SetupTypeOK /\ RequestSound /\ CollectorSound /\ HoldsWhatWasReported
-----------------------------------------------------------------------------
(* The parts of a step *)

\* A failure, and what a task returns, is not nothing.
LEMMA NotNull ==
  /\ Null \notin Failures /\ Null # "ok" /\ Null # "held" /\ Null # "pulled"
  /\ Null # "timeout" /\ Null # "aborted" /\ Null # "waits" /\ Null # "returned"
  /\ "ok" \notin Failures /\ {"timeout", "aborted"} \subseteq Failures
BY FetchAssumption, SetupAssumption DEF Wakes, Failures

\* What upstream answers is none of the failures.
LEMMA ResponsesApart == \A r \in Responses : r \notin Failures
BY FetchAssumption DEF Refused, Failures

\* Whatever an await is settled with by upstream fits it, and cuts nothing short.
LEMMA Arrives ==
  ASSUME Arrive
  PROVE  /\ phase \in Awaits /\ wake' \in Wakes \ Cut
         /\ phase = "fetch" => wake' \in Responses \cup Failures
<1>1. {"network", "schema_changed"} \subseteq Failures \ Cut
  BY DEF Failures, Cut
<1>2. Cut \subseteq Failures
  BY DEF Failures, Cut
<1> QED
  BY <1>1, <1>2, ResponsesApart DEF Arrive, Pending, Wakes, Cut

\* Reading the head of a response ends in a failure or goes on.
LEMMA HeadVerdicts ==
  ASSUME wake \in Responses
  PROVE  /\ HeadVerdict \in Failures \cup {"more"}
         /\ HeadVerdict \in Cut => signal
BY FetchAssumption DEF HeadVerdict, Refused, Reason, Failures, Cut

\* So does reading a piece of its body, unless it is the last.
LEMMA PieceVerdicts ==
  ASSUME NEW n \in PartSizes, NEW limit \in Nat
  PROVE  /\ PieceVerdict(n, limit) \in Failures \cup {"more", "whole"}
         /\ PieceVerdict(n, limit) \in Cut => signal \/ wake \in Cut
BY DEF PieceVerdict, Reason, Failures, Cut

\* The next await keeps the invariant.
LEMMA AwaitKeeps ==
  ASSUME Inductive, NEW p \in Awaits \ {"fetch"}, NEW bytes \in Nat, Await(p, bytes),
         phase \in Awaits, invoked, phase = "fetch" => wake \in Responses,
         UNCHANGED <<timer, closed, dispatchUsed, active, buffer, gate, reported, disposer,
                     asked, released>>
  PROVE  Inductive'
BY DEF Inductive, SetupTypeOK, FetchTypeOK, RequestSound, CollectorSound, HoldsWhatWasReported,
       Await, UnderWay, Cut, Awaits, Wakes

\* The end of the task keeps it, too: with an open result it was not cut short.
LEMMA ReturnKeeps ==
  ASSUME Inductive, NEW o \in Failures \cup {"ok"}, Return(o),
         phase \in Awaits, invoked, gate = Null => o \notin Cut,
         UNCHANGED <<timer, closed, dispatchUsed, active, buffer, gate, reported, disposer,
                     asked, released>>
  PROVE  Inductive'
<1> USE NotNull DEF Inductive, SetupTypeOK, FetchTypeOK, RequestSound, CollectorSound,
        HoldsWhatWasReported, Return, UnderWay, Cut, Awaits, Wakes
<1>1. SetupTypeOK'
  OBVIOUS
<1>2. RequestSound'
  OBVIOUS
<1>3. CollectorSound' /\ HoldsWhatWasReported'
  OBVIOUS
<1> QED
  BY <1>1, <1>2, <1>3 DEF Inductive

-----------------------------------------------------------------------------
(* The invariant *)

LEMMA InitInductive == SetupInit => Inductive
<1> SUFFICES ASSUME SetupInit PROVE Inductive
  OBVIOUS
<1> USE NotNull DEF SetupInit, FetchInit
<1>1. SetupTypeOK
  BY DEF SetupTypeOK, FetchTypeOK
<1>2. RequestSound
  BY DEF RequestSound, UnderWay, Awaits
<1>3. CollectorSound
  BY DEF CollectorSound, UnderWay, Awaits
<1>4. HoldsWhatWasReported
  BY DEF HoldsWhatWasReported
<1> QED
  BY <1>1, <1>2, <1>3, <1>4 DEF Inductive

LEMMA StepInductive == Inductive /\ [SetupNext]_setupVars => Inductive'
<1> SUFFICES ASSUME Inductive, [SetupNext]_setupVars PROVE Inductive'
  OBVIOUS
<1> USE NotNull DEF Inductive, SetupTypeOK, FetchTypeOK, RequestSound, CollectorSound,
        HoldsWhatWasReported, UnderWay, Cut, Awaits, fetchVars
<1>1. CASE Dispatch
  BY <1>1 DEF Dispatch, MayDispatch, Begin
<1>2. CASE Invoke
  BY <1>2 DEF Invoke
<1>3. CASE Upstream
  <2>1. SetupTypeOK'
    BY <1>3, Arrives DEF Upstream, Arrive
  <2>2. RequestSound'
    BY <1>3, Arrives DEF Upstream, Arrive
  <2>3. CollectorSound'
    BY <1>3, Arrives DEF Upstream, Arrive
  <2>4. HoldsWhatWasReported'
    BY <1>3, Arrives DEF Upstream, Arrive
  <2> QED
    BY <2>1, <2>2, <2>3, <2>4 DEF Inductive
<1>4. CASE Expire
  <2>1. SetupTypeOK'
    BY <1>4 DEF Expire, Abort, Pending, Reason, Settled, Wakes
  <2>2. RequestSound'
    BY <1>4 DEF Expire, Abort, Pending, Reason, Settled, Wakes
  <2>3. CollectorSound'
    BY <1>4 DEF Expire, Abort, Pending, Reason, Settled, Wakes
  <2>4. HoldsWhatWasReported'
    BY <1>4 DEF Expire, Abort, Pending, Reason, Settled, Wakes
  <2> QED
    BY <2>1, <2>2, <2>3, <2>4 DEF Inductive
<1>5. CASE AfterFetch
  <2> DEFINE v == IF wake \notin Failures THEN HeadVerdict
                  ELSE IF expired THEN "timeout"
                  ELSE IF closed \/ signal THEN "aborted" ELSE wake
  <2>1. invoked /\ phase = "fetch" /\ wake \in Responses \cup Failures
    BY <1>5 DEF AfterFetch, Resumes
  <2>2. v \in Failures \cup {"more"} /\ (gate = Null => v \notin Cut)
    BY <2>1, HeadVerdicts DEF Failures
  <2>3. CASE v = "more"
    <3>1. Await("read", 0) /\ wake \in Responses
      BY <1>5, <2>1, <2>3 DEF AfterFetch, Failures
    <3> QED
      BY <3>1, <2>1, <1>5, AwaitKeeps DEF AfterFetch, Await
  <2>4. CASE v # "more"
    <3>1. Return(v) /\ UNCHANGED timer
      BY <1>5, <2>4 DEF AfterFetch
    <3> QED
      BY <3>1, <2>1, <2>2, <2>4, <1>5, ReturnKeeps DEF AfterFetch
  <2> QED
    BY <2>3, <2>4
<1>6. CASE AfterPiece
  <2> PICK n \in PartSizes :
        LET v == PieceVerdict(n, MaxSessionBytes)
        IN \/ v = "more" /\ Await("read", n)
           \/ v = "whole" /\ ParseSession = "ok" /\ Await("digest", 0)
           \/ v = "whole" /\ ParseSession # "ok" /\ Return(ParseSession) /\ UNCHANGED timer
           \/ v \in Failures /\ Return(v) /\ UNCHANGED timer
    BY <1>6 DEF AfterPiece
  <2> DEFINE v == PieceVerdict(n, MaxSessionBytes)
  <2>1. invoked /\ phase = "read" /\ n \in Nat
    BY <1>6, FetchAssumption DEF AfterPiece, Resumes
  <2>2. v \in Failures => (gate = Null => v \notin Cut)
    BY <2>1, PieceVerdicts, SetupAssumption
  <2>3. CASE Await("read", n) \/ Await("digest", 0)
    BY <2>1, <2>3, <1>6, AwaitKeeps DEF AfterPiece, Await
  <2>4. CASE ParseSession # "ok" /\ Return(ParseSession) /\ UNCHANGED timer
    BY <2>1, <2>4, <1>6, ReturnKeeps DEF AfterPiece, ParseSession, Failures
  <2>5. CASE v \in Failures /\ Return(v) /\ UNCHANGED timer
    BY <2>1, <2>2, <2>5, <1>6, ReturnKeeps DEF AfterPiece
  <2> QED
    BY <2>3, <2>4, <2>5
<1>7. CASE AfterDigest
  <2> DEFINE o == IF wake \in Failures THEN wake
                  ELSE IF closed \/ signal THEN "aborted" ELSE "ok"
  <2>1. invoked /\ phase = "digest"
    BY <1>7 DEF AfterDigest, Resumes
  <2>2. o \in Failures \cup {"ok"} /\ (gate = Null => o \notin Cut)
    BY <2>1
  <2>3. Return(o)
    BY <1>7 DEF AfterDigest
  <2> QED
    BY <2>1, <2>2, <2>3, <1>7, ReturnKeeps DEF AfterDigest
<1>8. CASE Land
  BY <1>8 DEF Land, Settled
<1>9. CASE Report
  <2>1. SetupTypeOK'
    BY <1>9 DEF Report
  <2>2. RequestSound'
    BY <1>9 DEF Report
  <2>3. CollectorSound'
    BY <1>9 DEF Report
  <2>4. HoldsWhatWasReported'
    BY <1>9 DEF Report
  <2> QED
    BY <2>1, <2>2, <2>3, <2>4 DEF Inductive
<1>10. CASE Pull
  BY <1>10 DEF Pull
<1>11. CASE Release
  BY <1>11 DEF Release
<1>12. CASE Dispose
  <2>1. SetupTypeOK'
    <3>1. wake' \in Wakes \cup {Null} /\ signal' \in BOOLEAN
      BY <1>12 DEF Dispose, Abort, Pending, Reason, Wakes, Failures
    <3>2. gate' \in Failures \cup {"ok", Null} /\ disposer' \in {Null, "waits", "returned"}
      BY <1>12 DEF Dispose, Settled
    <3> QED
      BY <3>1, <3>2, <1>12 DEF Dispose
  <2>2. RequestSound'
    BY <1>12 DEF Dispose, Abort, Pending, Reason, Settled, Wakes
  <2>3. CollectorSound'
    BY <1>12 DEF Dispose, Abort, Pending, Reason, Settled, Wakes
  <2>4. HoldsWhatWasReported'
    BY <1>12 DEF Dispose, Abort, Pending, Reason, Settled, Wakes
  <2> QED
    BY <2>1, <2>2, <2>3, <2>4 DEF Inductive
<1>13. CASE DisposeReturns
  <2>1. SetupTypeOK'
    BY <1>13 DEF DisposeReturns
  <2>2. RequestSound'
    BY <1>13 DEF DisposeReturns
  <2>3. CollectorSound'
    BY <1>13 DEF DisposeReturns
  <2>4. HoldsWhatWasReported'
    BY <1>13 DEF DisposeReturns
  <2> QED
    BY <2>1, <2>2, <2>3, <2>4 DEF Inductive
<1>14. CASE UNCHANGED setupVars
  BY <1>14 DEF setupVars
<1> QED
  BY <1>1, <1>2, <1>3, <1>4, <1>5, <1>6, <1>7, <1>8, <1>9, <1>10, <1>11, <1>12, <1>13, <1>14
     DEF SetupNext, SetupTask

LEMMA InductiveHolds == SetupSpec => []Inductive
BY InitInductive, StepInductive, PTL DEF SetupSpec

-----------------------------------------------------------------------------
(* Theorems *)

\* For every response, body and order of deadline, abort and dispose: what the collector
\* holds is what its dispatch reported in time, and a dispose that returned left nothing.
THEOREM HeldIsReported == SetupSpec => []HoldsWhatWasReported
BY InductiveHolds, PTL DEF Inductive

\* A new collector is one of the contract.
LEMMA InitContract == SetupInit => Contract!ContractInit
BY NotNull DEF SetupInit, FetchInit, Source, Contract!ContractInit, Contract!ContractKinds

\* Every step of the collector is a step of the contract, or none of its business: it asks
\* when fetch is called, and the result is there when the task lands with an open gate.
LEMMA StepContract ==
  ASSUME Inductive, [SetupNext]_setupVars
  PROVE  [Contract!ContractNext]_Contract!contractVars
<1> USE NotNull DEF Contract!contractVars, Contract!ContractNext, Contract!ContractKinds,
        Source, fetchVars
<1> DEFINE calls == [k \in {"session-check", "body"} |-> IF k = "body" THEN 0 ELSE asked]
<1>1. CASE Invoke
  <2>1. CASE signal
    BY <1>1, <2>1 DEF Invoke
  <2>2. CASE ~signal
    <3>1. Source = "new" /\ asked = 0 /\ asked' = 1 /\ UNCHANGED Source
      BY <1>1, <2>2 DEF Invoke, Inductive, SetupTypeOK, FetchTypeOK, RequestSound,
         CollectorSound, HoldsWhatWasReported, UnderWay, Cut, Awaits
    <3>2. calls' = [calls EXCEPT !["session-check"] = 1]
      BY <3>1
    <3>3. Contract!Ask("session-check")
      BY <3>1, <3>2 DEF Contract!Ask, Contract!Before
    <3> QED
      BY <3>3
  <2> QED
    BY <2>1, <2>2 DEF Inductive, SetupTypeOK, FetchTypeOK
<1>2. CASE Land /\ gate = Null
  <2>1. Source = "new" /\ asked = 1 /\ outcome \in Failures \cup {"ok"} /\ UNCHANGED asked
    BY <1>2 DEF Land, Inductive, SetupTypeOK, FetchTypeOK, RequestSound,
       CollectorSound, HoldsWhatWasReported, UnderWay, Cut, Awaits
  <2>2. Source' = IF outcome = "ok" THEN "session_buffer" ELSE "failed"
    BY <1>2, <2>1 DEF Land, Settled, Inductive, RequestSound, CollectorSound, HoldsWhatWasReported, UnderWay
  <2>3. Contract!Yield("session-check") \/ Contract!Fail("session-check")
    BY <2>1, <2>2 DEF Contract!Yield, Contract!Fail, Contract!Before, Contract!Holding
  <2> QED
    BY <2>3
<1>3. CASE Expire /\ gate = Null
  <2>1. Source = "new" /\ Source' = "failed" /\ UNCHANGED asked
    BY <1>3 DEF Expire, Settled, Inductive, RequestSound, CollectorSound, HoldsWhatWasReported, UnderWay
  <2>2. Contract!Fail("session-check")
    BY <2>1 DEF Contract!Fail, Contract!Before
  <2> QED
    BY <2>2
<1>4. CASE Release
  <2>1. Source = "session_buffer" /\ Source' = "ready" /\ UNCHANGED asked
    BY <1>4 DEF Release
  <2>2. Contract!HandOver("session-check")
    BY <2>1 DEF Contract!HandOver, Contract!Holding, Contract!After
  <2> QED
    BY <2>2
<1>5. CASE Dispose
  BY <1>5 DEF Dispose, Contract!Close
<1>6. CASE Dispatch
  BY <1>6 DEF Dispatch, MayDispatch, Inductive, CollectorSound
<1>7. CASE Pull
  BY <1>7 DEF Pull
<1>8. ASSUME Land \/ Expire, gate # Null
      PROVE  UNCHANGED <<closed, buffer, released, gate, asked>>
  BY <1>8 DEF Land, Expire, Settled
<1>9. ASSUME AfterFetch \/ AfterPiece \/ AfterDigest \/ Upstream \/ Report \/ DisposeReturns
             \/ UNCHANGED setupVars
      PROVE  UNCHANGED <<closed, buffer, released, gate, asked>>
  BY <1>9 DEF AfterFetch, AfterPiece, AfterDigest, Upstream, Report, DisposeReturns, setupVars
<1>10. ASSUME UNCHANGED <<closed, buffer, released, gate, asked>>
       PROVE  UNCHANGED Contract!contractVars
  BY <1>10
<1> QED
  BY <1>1, <1>2, <1>3, <1>4, <1>5, <1>6, <1>7, <1>8, <1>9, <1>10 DEF SetupNext, SetupTask

\* The collector is one that ProbeCapture takes for granted, whatever upstream, the
\* deadline and its callers do.
THEOREM SetupImplementsContract == SetupSpec => KeepsContract
<1>1. Inductive /\ [SetupNext]_setupVars => [Contract!ContractNext]_Contract!contractVars
  BY StepContract
<1> QED
  BY <1>1, InitContract, InductiveHolds, PTL DEF SetupSpec, KeepsContract, Contract!ContractSpec

\* The types of the collector, its request and its timers.
THEOREM SetupTypes == SetupSpec => []SetupTypeOK
BY InductiveHolds, PTL DEF Inductive

\* What the contract comes to, for a setup inspection: nothing is asked for
\* twice, a body only once its session was handed over, and nothing is held unasked.
THEOREM SetupInOrder == SetupSpec => []Contract!InOrder
<1> USE DEF Contract!ContractKinds
<1>1. Contract!ContractInit => Contract!InOrder
  BY DEF Contract!ContractInit, Contract!InOrder
<1>2. Inductive /\ Contract!InOrder /\ [Contract!ContractNext]_Contract!contractVars
        => Contract!InOrder'
  <2> SUFFICES ASSUME Inductive, Contract!InOrder,
                      [Contract!ContractNext]_Contract!contractVars
               PROVE  Contract!InOrder'
    OBVIOUS
  <2> DEFINE calls == [k \in {"session-check", "body"} |-> IF k = "body" THEN 0 ELSE asked]
  <2>1. calls \in [Contract!ContractKinds -> Nat]
    BY DEF Inductive, SetupTypeOK
  <2> USE DEF Contract!InOrder, Contract!Before, Contract!Holding, Contract!After
  <2>2. CASE UNCHANGED Contract!contractVars \/ Contract!Close
    BY <2>2 DEF Contract!contractVars, Contract!Close
  <2>3. ASSUME NEW k \in Contract!ContractKinds, Contract!Ask(k) PROVE Contract!InOrder'
    BY <2>1, <2>3 DEF Contract!Ask
  <2>4. ASSUME NEW k \in Contract!ContractKinds,
               Contract!Yield(k) \/ Contract!Fail(k) \/ Contract!HandOver(k)
        PROVE  Contract!InOrder'
    BY <2>4 DEF Contract!Yield, Contract!Fail, Contract!HandOver
  <2> QED
    BY <2>2, <2>3, <2>4 DEF Contract!ContractNext
<1> QED
  BY <1>1, <1>2, SetupImplementsContract, InductiveHolds, PTL DEF KeepsContract, Contract!ContractSpec

\* Once it has failed or is closed it asks nothing more, whatever is still under way.
THEOREM SetupOverIsSilent == SetupSpec => Contract!OverIsSilent
<1> DEFINE calls == [k \in {"session-check", "body"} |-> IF k = "body" THEN 0 ELSE asked]
<1>1. [Contract!ContractNext]_Contract!contractVars =>
        [(Source \in {"failed", "closed"} =>
            Source' \in {Source, "closed"} /\ UNCHANGED calls)]_Contract!contractVars
  BY DEF Contract!contractVars, Contract!ContractNext, Contract!Ask, Contract!Yield,
         Contract!Fail, Contract!HandOver, Contract!Close, Contract!Before, Contract!Holding
<1> QED
  BY <1>1, SetupImplementsContract, PTL
  DEF KeepsContract, Contract!ContractSpec, Contract!OverIsSilent
=============================================================================
