--------------------- MODULE SelectedCollectorProofs ---------------------
(***************************************************************************)
(* The collector of a selected conversation, for every lifetime, spacing,  *)
(* skew, clock history and permit: where the access token may be, when it  *)
(* is used, and that it is a collector of CollectorContract.               *)
(***************************************************************************)
EXTENDS SelectedCollector, TLAPS

\* The request under way: it has been asked for unless it was refused, and whatever
\* closes the collector or runs out has aborted it.
RequestSound ==
  /\ Active <=> stage = "dispatched"
  /\ Active => lastDispatchMono \in Instants
  /\ Active /\ (closed \/ expired) => signal
  /\ phase = "fetch" => wake \in Responses \cup Failures \cup {Null}
  /\ phase = "fetch" /\ ~invoked => wake \in Failures \cup {Null} /\ asked[kind] = 0
  /\ phase = "fetch" /\ invoked => asked[kind] = 1 \/ wake \in Failures
  /\ phase \in {"read", "digest"} => invoked /\ asked[kind] = 1

\* The stage tells what has been asked and what may be held.
StageSound ==
  /\ stage = "new" => asked["session-check"] = 0 /\ asked["body"] = 0
  /\ stage \in {"session_buffer", "ready"} => asked["session-check"] = 1 /\ asked["body"] = 0
  /\ Active /\ kind = "session-check" => asked["body"] = 0
  /\ Active /\ kind = "body" => asked["session-check"] = 1
  /\ buffer # Null => stage \in {"session_buffer", "body_buffer"}

\* A token ends with its lifetime, and its request was dispatched within it.
TokenSound ==
  /\ token => tokenExpires <= sessionWall + TokenMs
  /\ phase = "fetch" /\ ~invoked /\ kind = "body" =>
       lastDispatchMono - sessionMono >= 0 /\ lastDispatchMono - sessionMono < TokenMs

Inductive ==
  SelectedTypeOK /\ RequestSound /\ StageSound /\ TokenSound /\ TokenConfined /\ FreshUse
-----------------------------------------------------------------------------
(* The parts of a step *)

\* A failure and a result are not nothing, and neither is the other.
LEMMA NotNull ==
  /\ Null \notin Failures /\ Null # "ok" /\ "ok" \notin Failures
  /\ Null # "aborted" /\ Null # "identity_mismatch"
  /\ {"timeout", "aborted", "identity_mismatch", "schema_changed"} \subseteq Failures
BY FetchAssumption DEF Wakes, Failures

\* What upstream answers is none of the failures.
LEMMA ResponsesApart == \A r \in Responses : r \notin Failures
BY FetchAssumption DEF Refused, Failures

\* Whatever an await is settled with by upstream fits it.
LEMMA Arrives ==
  ASSUME Arrive
  PROVE  /\ phase \in Awaits /\ wake' \in Wakes
         /\ phase = "fetch" => invoked /\ wake' \in Responses \cup Failures
<1>1. {"network", "schema_changed"} \subseteq Failures
  BY DEF Failures
<1> QED
  BY <1>1 DEF Arrive, Pending, Wakes

\* Reading the head of a response ends in a failure or goes on without an abort.
LEMMA HeadVerdicts ==
  ASSUME wake \in Responses
  PROVE  HeadVerdict \in Failures \cup {"more"} /\ (HeadVerdict = "more" => ~signal)
<1>1. "more" \notin Failures /\ "timeout" # "more" /\ "aborted" # "more"
  BY DEF Failures
<1>2. wake \in DOMAIN Refused => Refused[wake] \in Failures
  BY FetchAssumption DEF Refused, Failures
<1> QED
  BY <1>1, <1>2, NotNull DEF HeadVerdict, Reason

\* Reading a piece of its body ends in a failure, goes on, or is the last.
LEMMA PieceVerdicts ==
  ASSUME NEW n \in PartSizes
  PROVE  /\ PieceVerdict(n, Limit) \in Failures \cup {"more", "whole"}
         /\ PieceVerdict(n, Limit) \in {"more", "whole"} => ~signal
<1>1. "more" \notin Failures /\ "whole" \notin Failures
  BY DEF Failures
<1> QED
  BY <1>1, NotNull DEF PieceVerdict, Reason

\* The chunks of a result are a number.
LEMMA ChunkCount == total \in Nat => Chunks \in Nat
<1>1. ASSUME NEW t \in Nat PROVE (t + ChunkBytes - 1) \div ChunkBytes \in Nat
  BY SelectedAssumption
<1> QED
  BY <1>1 DEF Chunks

\* The end of a task without a result keeps the invariant.
LEMMA FailKeeps ==
  ASSUME Inductive, NEW o \in Failures, FailTask(o), Active,
         UNCHANGED <<closed, dispatchVars, sessionVars, disposer, clock, historyVars>>
  PROVE  Inductive'
<1> USE NotNull DEF Inductive, FailTask, Return, ClearToken, Active, Awaits, dispatchVars,
        sessionVars, historyVars
<1>1. SelectedTypeOK'
  BY DEF SelectedTypeOK, FetchTypeOK, Stages, Wakes
<1>2. RequestSound' /\ StageSound'
  BY DEF RequestSound, StageSound
<1>3. TokenSound' /\ TokenConfined' /\ FreshUse'
  BY DEF TokenSound, TokenConfined, FreshUse
<1> QED
  BY <1>1, <1>2, <1>3

\* So does an await that follows another with nothing kept.
LEMMA ReadKeeps ==
  ASSUME Inductive, NEW n \in Nat, Await("read", n), phase \in {"fetch", "read"}, invoked,
         phase = "fetch" => wake \in Responses, ~signal,
         UNCHANGED <<stage, closed, buffer, dispatchVars, tokenVars, sessionVars, disposer,
                     clock, historyVars>>
  PROVE  Inductive'
<1> USE NotNull, ResponsesApart DEF Inductive, Await, Active, Awaits, dispatchVars, tokenVars,
        sessionVars, historyVars
<1>1. SelectedTypeOK'
  BY DEF SelectedTypeOK, FetchTypeOK, Wakes
<1>2. RequestSound'
  BY DEF RequestSound
<1>3. StageSound' /\ TokenSound'
  BY DEF StageSound, TokenSound
<1>4. TokenConfined' /\ FreshUse'
  BY DEF TokenConfined, FreshUse
<1> QED
  BY <1>1, <1>2, <1>3, <1>4

-----------------------------------------------------------------------------
(* The invariant *)

LEMMA InitInductive == SelectedInit => Inductive
<1> SUFFICES ASSUME SelectedInit PROVE Inductive
  OBVIOUS
<1> USE SelectedAssumption DEF SelectedInit, FetchInit
<1>1. SelectedTypeOK
  <2>1. 0 \in Instants /\ clock \in [wall : Instants, mono : Instants]
    <3>1. 0 \in Instants /\ Walls \cup {0} \subseteq Instants
      BY DEF Instants
    <3>2. clock \in [wall : Walls \cup {0}, mono : {0}]
      OBVIOUS
    <3> HIDE DEF SelectedInit
    <3> QED
      BY <3>1, <3>2
  <2>2. asked \in [Kinds -> Nat]
    OBVIOUS
  <2> QED
    BY <2>1, <2>2 DEF SelectedTypeOK, FetchTypeOK, Stages, Kinds
<1>2. RequestSound /\ StageSound
  BY DEF RequestSound, StageSound, Active, Awaits, Kinds
<1>3. TokenSound /\ TokenConfined /\ FreshUse
  BY DEF TokenSound, TokenConfined, FreshUse
<1> QED
  BY <1>1, <1>2, <1>3 DEF Inductive

LEMMA StepInductive == Inductive /\ [SelectedNext]_selectedVars => Inductive'
<1> SUFFICES ASSUME Inductive, [SelectedNext]_selectedVars PROVE Inductive'
  OBVIOUS
<1> USE NotNull DEF Inductive, Active, Awaits
<1>1. CASE Tick \/ SetWall
  <2>1. clock' \in [wall : Instants, mono : Instants]
    BY <1>1, SelectedAssumption DEF Tick, SetWall, SelectedTypeOK, Instants
  <2>2. UNCHANGED <<fetchVars, stage, closed, buffer, dispatchVars, tokenVars, sessionVars,
                    disposer, historyVars>>
    BY <1>1 DEF Tick, SetWall
  <2> QED
    BY <2>1, <2>2 DEF SelectedTypeOK, FetchTypeOK, RequestSound, StageSound, TokenSound,
       TokenConfined, FreshUse, fetchVars, dispatchVars, tokenVars, sessionVars, historyVars
<1>2. ASSUME NEW id \in PermitIds, NEW end \in Instants, NEW k \in Kinds, Dispatch(k, id, end)
      PROVE  Inductive'
  <2> USE <1>2 DEF Dispatch, MayDispatch, Begin, tokenVars, sessionVars, historyVars, Kinds
  <2>1. SelectedTypeOK'
    BY DEF SelectedTypeOK, FetchTypeOK, Stages
  <2>2. RequestSound'
    BY DEF SelectedTypeOK, FetchTypeOK, RequestSound, StageSound
  <2>3. StageSound'
    BY DEF RequestSound, StageSound
  <2>4. TokenSound'
    BY SelectedAssumption DEF TokenSound, TokenFresh, Age
  <2>5. TokenConfined' /\ FreshUse'
    BY DEF RequestSound, StageSound, TokenConfined, FreshUse
  <2> QED
    BY <2>1, <2>2, <2>3, <2>4, <2>5
<1>3. ASSUME NEW id \in PermitIds, NEW end \in Instants, DispatchStale(id, end)
      PROVE  Inductive'
  <2> USE <1>3 DEF DispatchStale, MayDispatch, ClearToken, fetchVars, dispatchVars, sessionVars,
        historyVars
  <2>1. FetchTypeOK'
    BY DEF SelectedTypeOK, FetchTypeOK
  <2>2. SelectedTypeOK'
    BY <2>1 DEF SelectedTypeOK, Stages
  <2>3. RequestSound' /\ StageSound'
    BY DEF RequestSound, StageSound
  <2>4. TokenSound' /\ TokenConfined' /\ FreshUse'
    BY DEF TokenSound, TokenConfined, FreshUse
  <2> QED
    BY <2>2, <2>3, <2>4
<1>4. CASE Invoke
  <2> USE <1>4 DEF Invoke, dispatchVars, sessionVars
  <2>1. CASE Refusal # Null
    <3>1. Refusal \in Failures /\ wake' \in Failures
      BY <2>1 DEF Refusal, RequestSound
    <3>2. UNCHANGED <<tokenVars, historyVars>>
      BY <2>1
    <3> QED
      BY <3>1, <3>2 DEF SelectedTypeOK, FetchTypeOK, Wakes, RequestSound, StageSound,
         TokenSound, TokenConfined, FreshUse, tokenVars, historyVars
  <2>2. CASE Refusal = Null
    <3>1. asked[kind] = 0 /\ kind \in Kinds /\ asked' = [asked EXCEPT ![kind] = 1]
      BY <2>2 DEF RequestSound, SelectedTypeOK
    <3>2. UNCHANGED wake /\ asked'[kind] = 1 /\ \A k \in Kinds \ {kind} : asked'[k] = asked[k]
      BY <2>2, <3>1 DEF SelectedTypeOK
    <3>3. ~closed /\ ~signal /\ clock.wall < until
      BY <2>2 DEF Refusal, SelectedTypeOK, Instants
    <3>4. CASE kind = "body"
      <4>1. token /\ clock.wall < tokenExpires
        BY <2>2, <3>4 DEF Refusal, SelectedTypeOK, Instants
      <4>2. ClearToken /\ usage' = [wall |-> clock.wall, expires |-> tokenExpires,
              until |-> until, age |-> lastDispatchMono - sessionMono,
              skew |-> clock.wall - sessionWall]
        BY <2>2, <3>4
      <4>3. /\ lastDispatchMono \in Instants /\ sessionMono \in Instants
            /\ sessionWall \in Instants /\ clock.wall \in Instants /\ tokenExpires \in Nat
            /\ until \in Instants
        BY DEF RequestSound, SelectedTypeOK
      <4>4. SelectedTypeOK'
        <5>1. FetchTypeOK'
          BY <3>2 DEF SelectedTypeOK, FetchTypeOK
        <5>2. usage' \in [wall : Instants, expires : Nat, until : Instants, age : Int, skew : Int]
          BY <4>2, <4>3 DEF Instants
        <5> QED
          BY <3>1, <3>2, <4>2, <5>1, <5>2 DEF SelectedTypeOK, ClearToken
      <4>5. RequestSound' /\ StageSound'
        BY <3>1, <3>2, <3>4, <4>2 DEF RequestSound, StageSound, Kinds
      <4>6. TokenSound' /\ TokenConfined'
        BY <4>2 DEF TokenSound, TokenConfined, ClearToken
      <4>7. FreshUse'
        BY <3>3, <3>4, <4>1, <4>2, <4>3, SelectedAssumption DEF FreshUse, TokenSound, Instants
      <4> QED
        BY <4>4, <4>5, <4>6, <4>7
    <3>5. CASE kind = "session-check"
      <4>1. UNCHANGED <<tokenVars, usage>>
        BY <2>2, <3>5
      <4>2. ~token
        BY <3>1, <3>5 DEF TokenConfined
      <4>3. SelectedTypeOK'
        BY <3>1, <3>2, <4>1 DEF SelectedTypeOK, FetchTypeOK, tokenVars
      <4>4. RequestSound' /\ StageSound'
        BY <3>1, <3>2, <3>5, <4>1 DEF RequestSound, StageSound, Kinds
      <4>5. TokenSound' /\ TokenConfined' /\ FreshUse'
        BY <4>1, <4>2 DEF TokenSound, TokenConfined, FreshUse, tokenVars
      <4> QED
        BY <4>3, <4>4, <4>5
    <3> QED
      BY <3>1, <3>4, <3>5 DEF Kinds
  <2> QED
    BY <2>1, <2>2
<1>5. CASE Upstream
  <2>1. UNCHANGED <<phase, invoked, answer, total, signal, expired, timer, outcome>>
    BY <1>5 DEF Upstream, Arrive
  <2>2. UNCHANGED <<stage, closed, buffer, dispatchVars, tokenVars, sessionVars, disposer,
                    clock, historyVars>>
    BY <1>5 DEF Upstream
  <2>3. wake' \in Wakes /\ (phase = "fetch" => invoked /\ wake' \in Responses \cup Failures)
    BY <1>5, Arrives DEF Upstream
  <2>4. wake = Null
    BY <1>5 DEF Upstream, Arrive, Pending
  <2>5. SelectedTypeOK'
    BY <2>1, <2>2, <2>3 DEF SelectedTypeOK, FetchTypeOK, dispatchVars, tokenVars, sessionVars,
       historyVars
  <2>6. RequestSound'
    BY <2>1, <2>2, <2>3, <2>4 DEF RequestSound, dispatchVars, historyVars
  <2>7. StageSound' /\ TokenSound' /\ TokenConfined' /\ FreshUse'
    BY <2>1, <2>2 DEF StageSound, TokenSound, TokenConfined, FreshUse, dispatchVars, tokenVars,
       sessionVars, historyVars
  <2> QED
    BY <2>5, <2>6, <2>7
<1>6. CASE Expire
  <2> USE <1>6 DEF Expire, Abort, Pending, Reason, ClearToken, dispatchVars, sessionVars,
        historyVars
  <2>1. SelectedTypeOK'
    <3>1. FetchTypeOK'
      BY DEF SelectedTypeOK, FetchTypeOK, Wakes
    <3> QED
      BY <3>1 DEF SelectedTypeOK
  <2>2. RequestSound'
    BY DEF RequestSound
  <2>3. StageSound' /\ TokenSound' /\ TokenConfined' /\ FreshUse'
    BY DEF StageSound, TokenSound, TokenConfined, FreshUse
  <2> QED
    BY <2>1, <2>2, <2>3
<1>7. CASE TokenTimer
  <2> USE <1>7 DEF TokenTimer, ClearToken, fetchVars, dispatchVars, sessionVars, historyVars
  <2>1. FetchTypeOK'
    BY DEF SelectedTypeOK, FetchTypeOK
  <2>2. SelectedTypeOK'
    BY <2>1 DEF SelectedTypeOK
  <2>3. RequestSound' /\ StageSound'
    BY DEF RequestSound, StageSound
  <2>4. TokenSound' /\ TokenConfined' /\ FreshUse'
    BY DEF TokenSound, TokenConfined, FreshUse
  <2> QED
    BY <2>2, <2>3, <2>4
<1>8. CASE AfterFetch
  <2> DEFINE v == IF wake \in Failures THEN wake ELSE HeadVerdict
  <2>1. invoked /\ phase = "fetch" /\ wake \in Responses \cup Failures
    BY <1>8 DEF AfterFetch, Resumes, RequestSound
  <2>2. v \in Failures \cup {"more"} /\ (v = "more" => wake \in Responses /\ ~signal)
    BY <2>1, HeadVerdicts DEF Failures
  <2>3. CASE v = "more"
    <3>1. Await("read", 0) /\ UNCHANGED <<stage, buffer, tokenVars>>
      BY <1>8, <2>3 DEF AfterFetch
    <3> QED
      BY <3>1, <2>1, <2>2, <2>3, <1>8, ReadKeeps DEF AfterFetch
  <2>4. CASE v # "more"
    <3>1. FailTask(v)
      BY <1>8, <2>4 DEF AfterFetch
    <3> QED
      BY <3>1, <2>1, <2>2, <2>4, <1>8, FailKeeps DEF AfterFetch
  <2> QED
    BY <2>3, <2>4
<1>9. CASE AfterPiece
  <2> DEFINE Keep(n) == /\ PieceVerdict(n, Limit) = "whole"
                        /\ Await("digest", 0)
                        /\ IF kind = "body" THEN UNCHANGED <<tokenVars, sessionVars>>
                           ELSE \E e \in 1..(MaxTime + 1) : KeepToken(e)
                        /\ UNCHANGED <<stage, buffer>>
  <2>1. PICK n \in PartSizes :
          \/ /\ PieceVerdict(n, Limit) = "more" /\ Await("read", n)
             /\ UNCHANGED <<stage, buffer, tokenVars, sessionVars>>
          \/ Keep(n)
          \/ FailTask(Mismatch) /\ UNCHANGED sessionVars
          \/ /\ PieceVerdict(n, Limit) \in Failures /\ FailTask(PieceVerdict(n, Limit))
             /\ UNCHANGED sessionVars
    BY <1>9 DEF AfterPiece
  <2>2. /\ invoked /\ phase = "read" /\ n \in Nat
        /\ UNCHANGED <<closed, dispatchVars, disposer, clock, historyVars>>
    BY <1>9, FetchAssumption DEF AfterPiece, Resumes
  <2>3. CASE /\ PieceVerdict(n, Limit) = "more" /\ Await("read", n)
             /\ UNCHANGED <<stage, buffer, tokenVars, sessionVars>>
    <3>1. ~signal
      BY <2>3, PieceVerdicts
    <3> QED
      BY <2>2, <2>3, <3>1, ReadKeeps
  <2>4. CASE Keep(n)
    <3>1. ~signal /\ ~closed /\ ~expired /\ stage = "dispatched" /\ asked[kind] = 1
      BY <2>2, <2>4, PieceVerdicts DEF RequestSound
    <3> USE <2>2 DEF Await, dispatchVars, historyVars
    <3>2. CASE kind = "body"
      <4>1. UNCHANGED <<tokenVars, sessionVars, stage, buffer>> /\ Await("digest", 0)
        BY <2>4, <3>2
      <4>2. SelectedTypeOK'
        BY <4>1 DEF SelectedTypeOK, FetchTypeOK, tokenVars, sessionVars
      <4>3. RequestSound' /\ StageSound'
        BY <4>1 DEF RequestSound, StageSound
      <4>4. TokenSound' /\ TokenConfined' /\ FreshUse'
        BY <4>1 DEF TokenSound, TokenConfined, FreshUse, tokenVars, sessionVars
      <4> QED
        BY <4>2, <4>3, <4>4
    <3>3. CASE kind # "body"
      <4>1. PICK e \in 1..(MaxTime + 1) : KeepToken(e)
        BY <2>4, <3>3
      <4>2. UNCHANGED <<stage, buffer>> /\ Await("digest", 0)
        BY <2>4
      <4>3. kind = "session-check" /\ asked["session-check"] = 1 /\ asked["body"] = 0
        BY <2>2, <3>1, <3>3 DEF SelectedTypeOK, Kinds, StageSound
      <4>4. clock.wall \in Nat /\ clock.mono \in Nat /\ clock.wall \in Instants /\ clock.mono \in Instants
        BY DEF SelectedTypeOK, Instants
      <4>5. /\ tokenExpires' \in Nat /\ tokenTimer' \in Nat
            /\ tokenExpires' <= sessionWall' + TokenMs
            /\ sessionWall' \in Instants /\ sessionMono' \in Instants /\ token'
        BY <4>1, <4>4, SelectedAssumption DEF KeepToken, Earlier
      <4>6. SelectedTypeOK'
        BY <4>2, <4>5 DEF SelectedTypeOK, FetchTypeOK
      <4>7. RequestSound' /\ StageSound'
        BY <4>2 DEF RequestSound, StageSound
      <4>8. TokenSound' /\ TokenConfined' /\ FreshUse'
        BY <3>1, <4>2, <4>3, <4>5 DEF TokenSound, TokenConfined, FreshUse
      <4> QED
        BY <4>6, <4>7, <4>8
    <3> QED
      BY <3>2, <3>3
  <2>5. CASE FailTask(Mismatch) /\ UNCHANGED sessionVars
    BY <2>2, <2>5, FailKeeps DEF Mismatch
  <2>6. CASE /\ PieceVerdict(n, Limit) \in Failures /\ FailTask(PieceVerdict(n, Limit))
             /\ UNCHANGED sessionVars
    BY <2>2, <2>6, FailKeeps
  <2> QED
    BY <2>1, <2>3, <2>4, <2>5, <2>6
<1>10. CASE AfterDigest
  <2> DEFINE v == IF wake \in Failures THEN wake ELSE IF closed \/ signal THEN "aborted" ELSE "ok"
  <2>1. /\ phase = "digest" /\ invoked
        /\ UNCHANGED <<closed, dispatchVars, sessionVars, disposer, clock, historyVars>>
    BY <1>10 DEF AfterDigest, Resumes
  <2>2. CASE v = "ok"
    <3>1. /\ Return("ok") /\ timer' = FALSE
          /\ buffer' = [count |-> Chunks, pulled |-> -1]
          /\ stage' = IF kind = "body" THEN "body_buffer" ELSE "session_buffer"
          /\ UNCHANGED tokenVars
      BY <1>10, <2>2 DEF AfterDigest
    <3>2. ~closed /\ ~signal
      BY <2>2
    <3>3. Chunks \in Nat /\ kind \in Kinds /\ asked[kind] = 1 /\ stage = "dispatched"
      BY <2>1, ChunkCount DEF SelectedTypeOK, FetchTypeOK, RequestSound
    <3>4. kind = "session-check" => asked["body"] = 0
      BY <2>1 DEF StageSound
    <3>5. kind = "body" => asked["session-check"] = 1 /\ ~token
      BY <2>1, <3>3 DEF StageSound, TokenConfined
    <3> USE <2>1, <3>1, <3>2, <3>3, <3>4, <3>5 DEF Return, dispatchVars, tokenVars,
          sessionVars, historyVars, Kinds
    <3>6. SelectedTypeOK'
      BY DEF SelectedTypeOK, FetchTypeOK, Stages
    <3>7. RequestSound' /\ StageSound'
      BY DEF RequestSound, StageSound
    <3>8. TokenSound' /\ TokenConfined' /\ FreshUse'
      BY DEF TokenSound, TokenConfined, FreshUse
    <3> QED
      BY <3>6, <3>7, <3>8
  <2>3. CASE v # "ok"
    <3>1. v \in Failures /\ FailTask(v)
      BY <1>10, <2>3 DEF AfterDigest
    <3> QED
      BY <2>1, <3>1, FailKeeps
  <2> QED
    BY <2>2, <2>3
<1>11. ASSUME NEW n \in 0..BodyLimit, Pull(n) PROVE Inductive'
  <2>1. buffer' \in [count : Nat, pulled : Nat \cup {-1}]
    BY <1>11 DEF Pull, SelectedTypeOK
  <2>2. UNCHANGED <<fetchVars, stage, closed, dispatchVars, tokenVars, sessionVars, disposer,
                    clock, historyVars>> /\ buffer # Null
    BY <1>11 DEF Pull
  <2> QED
    BY <2>1, <2>2 DEF SelectedTypeOK, FetchTypeOK, RequestSound, StageSound, TokenSound,
       TokenConfined, FreshUse, fetchVars, dispatchVars, tokenVars, sessionVars, historyVars
<1>12. CASE Release
  <2> USE <1>12 DEF Release, ClearToken, fetchVars, dispatchVars, tokenVars, sessionVars, historyVars
  <2>1. SelectedTypeOK'
    <3>1. FetchTypeOK'
      BY DEF SelectedTypeOK, FetchTypeOK
    <3>2. token' \in BOOLEAN /\ tokenExpires' \in Nat /\ tokenTimer' \in Nat \cup {Null}
      <4>1. CASE UNCHANGED tokenVars
        BY <4>1 DEF SelectedTypeOK
      <4>2. CASE ClearToken
        BY <4>2
      <4> QED
        BY <4>1, <4>2
    <3>3. stage' \in Stages
      BY DEF Stages
    <3> QED
      BY <3>1, <3>2, <3>3 DEF SelectedTypeOK
  <2>2. RequestSound' /\ StageSound'
    BY DEF RequestSound, StageSound
  <2>3. TokenSound' /\ TokenConfined' /\ FreshUse'
    BY DEF StageSound, TokenSound, TokenConfined, FreshUse
  <2> QED
    BY <2>1, <2>2, <2>3
<1>13. CASE Dispose
  <2> USE <1>13 DEF Dispose, Abort, Pending, Reason, ClearToken, dispatchVars, sessionVars,
        historyVars
  <2>1. SelectedTypeOK'
    <3>1. FetchTypeOK'
      BY DEF SelectedTypeOK, FetchTypeOK, Wakes
    <3> QED
      BY <3>1 DEF SelectedTypeOK
  <2>2. RequestSound'
    BY DEF RequestSound
  <2>3. StageSound' /\ TokenSound' /\ TokenConfined' /\ FreshUse'
    BY DEF StageSound, TokenSound, TokenConfined, FreshUse
  <2> QED
    BY <2>1, <2>2, <2>3
<1>14. CASE DisposeReturns
  BY <1>14 DEF DisposeReturns, SelectedTypeOK, FetchTypeOK, RequestSound, StageSound, TokenSound,
     TokenConfined, FreshUse, fetchVars, dispatchVars, tokenVars, sessionVars, historyVars
<1>15. CASE UNCHANGED selectedVars
  BY <1>15 DEF selectedVars, SelectedTypeOK, FetchTypeOK, RequestSound, StageSound, TokenSound,
     TokenConfined, FreshUse, fetchVars, dispatchVars, tokenVars, sessionVars, historyVars
<1> QED
  BY <1>1, <1>2, <1>3, <1>4, <1>5, <1>6, <1>7, <1>8, <1>9, <1>10, <1>11, <1>12, <1>13, <1>14,
     <1>15 DEF SelectedNext

LEMMA InductiveHolds == SelectedSpec => []Inductive
BY InitInductive, StepInductive, PTL DEF SelectedSpec

-----------------------------------------------------------------------------
(* Theorems *)

\* For every lifetime, clock and order of timers and calls: the access token exists only
\* from a session that was accepted to the fetch that carries it.
THEOREM TokenIsConfined == SelectedSpec => []TokenConfined
BY InductiveHolds, PTL DEF Inductive

\* Whatever the wall clock does between dispatch and fetch, the fetch carries a token that
\* is within its lifetime, under a permit that has not ended.
THEOREM TokenUsedFresh == SelectedSpec => []FreshUse
BY InductiveHolds, PTL DEF Inductive

\* A new collector is one of the contract.
LEMMA InitContract == SelectedInit => Contract!ContractInit
BY DEF SelectedInit, Source, Contract!ContractInit, Contract!ContractKinds, Kinds

\* The end of a task that failed is the contract's, or the collector is closed.
LEMMA FailContract ==
  ASSUME Inductive, NEW o, FailTask(o), Active, UNCHANGED <<closed, kind, asked>>
  PROVE  [Contract!ContractNext]_Contract!contractVars
<1>1. kind \in Kinds /\ stage = "dispatched" /\ stage' = "failed"
  BY DEF FailTask, Inductive, SelectedTypeOK, RequestSound
<1>2. CASE closed
  BY <1>2 DEF Source, Contract!contractVars
<1>3. CASE ~closed
  <2>1. Contract!Fail(kind)
    BY <1>1, <1>3 DEF Source, Contract!Fail, Contract!Before, Kinds
  <2> QED
    BY <1>1, <2>1 DEF Contract!ContractNext, Contract!ContractKinds, Kinds
<1> QED
  BY <1>2, <1>3

\* Every step of the collector is a step of the contract, or none of its business: it asks
\* when fetch is called, and the result is there when the task returns it.
LEMMA StepContract ==
  ASSUME Inductive, [SelectedNext]_selectedVars
  PROVE  [Contract!ContractNext]_Contract!contractVars
<1> USE DEF Contract!contractVars, Contract!ContractNext, Contract!ContractKinds
<1>1. ASSUME NEW id, NEW end, NEW k \in Kinds, Dispatch(k, id, end)
      PROVE  UNCHANGED Contract!contractVars
  BY <1>1 DEF Dispatch, MayDispatch, Source, historyVars, Kinds
<1>2. ASSUME NEW id, NEW end, DispatchStale(id, end)
      PROVE  Contract!Fail("body")
  BY <1>2 DEF DispatchStale, MayDispatch, Source, historyVars, Contract!Fail, Contract!Before
<1>3. CASE Invoke
  <2>1. UNCHANGED <<stage, closed, kind>> /\ phase = "fetch" /\ ~invoked
    BY <1>3 DEF Invoke, dispatchVars
  <2>2. CASE Refusal # Null
    BY <1>3, <2>1, <2>2 DEF Invoke, historyVars, Source
  <2>3. CASE Refusal = Null
    <3>1. ~closed /\ stage = "dispatched" /\ kind \in Kinds /\ asked[kind] = 0
      BY <2>1, <2>3, NotNull DEF Refusal, Inductive, SelectedTypeOK, RequestSound, Active, Awaits
    <3>2. asked' = [asked EXCEPT ![kind] = 1]
      BY <1>3, <2>3, <3>1 DEF Invoke
    <3>3. Contract!Ask(kind)
      BY <2>1, <3>1, <3>2 DEF Contract!Ask, Contract!Before, Source, Kinds
    <3> QED
      BY <3>1, <3>3 DEF Kinds
  <2> QED
    BY <2>2, <2>3
<1>4. CASE AfterFetch
  <2>1. phase = "fetch" /\ UNCHANGED <<closed, kind, asked>>
    BY <1>4 DEF AfterFetch, Resumes, dispatchVars, historyVars
  <2>2. UNCHANGED stage \/ \E o : FailTask(o)
    BY <1>4 DEF AfterFetch
  <2> QED
    BY <2>1, <2>2, FailContract DEF Active, Awaits, Source
<1>5. CASE AfterPiece
  <2>1. phase = "read" /\ UNCHANGED <<closed, kind, asked>>
    BY <1>5 DEF AfterPiece, Resumes, dispatchVars, historyVars
  <2>2. UNCHANGED stage \/ \E o : FailTask(o)
    BY <1>5 DEF AfterPiece
  <2> QED
    BY <2>1, <2>2, FailContract DEF Active, Awaits, Source
<1>6. CASE AfterDigest
  <2> DEFINE v == IF wake \in Failures THEN wake ELSE IF closed \/ signal THEN "aborted" ELSE "ok"
  <2>1. phase = "digest" /\ UNCHANGED <<closed, kind, asked>>
    BY <1>6 DEF AfterDigest, Resumes, dispatchVars, historyVars
  <2>2. CASE v = "ok"
    <3>1. stage' = IF kind = "body" THEN "body_buffer" ELSE "session_buffer"
      BY <1>6, <2>2 DEF AfterDigest
    <3>4. ~closed
      BY <2>2, NotNull DEF Inductive, SelectedTypeOK
    <3>2. stage = "dispatched" /\ kind \in Kinds /\ asked[kind] = 1
      BY <2>1 DEF Inductive, SelectedTypeOK, RequestSound, Active, Awaits
    <3>3. Contract!Yield(kind)
      BY <2>1, <3>1, <3>2, <3>4 DEF Contract!Yield, Contract!Before, Contract!Holding, Source, Kinds
    <3> QED
      BY <3>2, <3>3 DEF Kinds
  <2>3. CASE v # "ok"
    BY <1>6, <2>1, <2>3, FailContract DEF AfterDigest, Active, Awaits
  <2> QED
    BY <2>2, <2>3
<1>7. CASE Release
  <2>1. ~closed /\ stage \in {"session_buffer", "body_buffer"} /\ UNCHANGED <<closed, kind, asked>>
    BY <1>7 DEF Release, Inductive, StageSound, dispatchVars, historyVars
  <2>2. Contract!HandOver("session-check") \/ Contract!HandOver("body")
    BY <1>7, <2>1 DEF Release, Source, Contract!HandOver, Contract!Holding, Contract!After
  <2> QED
    BY <2>2
<1>8. CASE Dispose
  BY <1>8 DEF Dispose, Contract!Close, Source, historyVars
<1>9. ASSUME Tick \/ SetWall \/ Upstream \/ Expire \/ TokenTimer \/ (\E n \in 0..BodyLimit : Pull(n))
             \/ DisposeReturns \/ UNCHANGED selectedVars
      PROVE  UNCHANGED Contract!contractVars
  <2>1. UNCHANGED <<stage, closed, kind, asked>>
    BY <1>9 DEF Tick, SetWall, Upstream, Expire, TokenTimer, Pull, DisposeReturns, selectedVars,
       dispatchVars, historyVars
  <2> QED
    BY <2>1 DEF Source
<1> QED
  BY <1>1, <1>2, <1>3, <1>4, <1>5, <1>6, <1>7, <1>8, <1>9 DEF SelectedNext

\* The collector is one that ProbeCapture takes for granted, for every permit, clock and
\* response.
THEOREM SelectedImplementsContract == SelectedSpec => KeepsContract
<1>1. Inductive /\ [SelectedNext]_selectedVars => [Contract!ContractNext]_Contract!contractVars
  BY StepContract
<1> QED
  BY <1>1, InitContract, InductiveHolds, PTL DEF SelectedSpec, KeepsContract, Contract!ContractSpec

\* The types of the collector, its request and its timers.
THEOREM SelectedTypes == SelectedSpec => []SelectedTypeOK
BY InductiveHolds, PTL DEF Inductive

\* What the contract comes to, for a selected conversation: nothing is asked for
\* twice, a body only once its session was handed over, and nothing is held unasked.
THEOREM SelectedInOrder == SelectedSpec => []Contract!InOrder
<1> USE DEF Contract!ContractKinds
<1>1. Contract!ContractInit => Contract!InOrder
  BY DEF Contract!ContractInit, Contract!InOrder
<1>2. Inductive /\ Contract!InOrder /\ [Contract!ContractNext]_Contract!contractVars
        => Contract!InOrder'
  <2> SUFFICES ASSUME Inductive, Contract!InOrder,
                      [Contract!ContractNext]_Contract!contractVars
               PROVE  Contract!InOrder'
    OBVIOUS
  <2>1. asked \in [Contract!ContractKinds -> Nat]
    BY DEF Inductive, SelectedTypeOK, Kinds
  <2> USE DEF Contract!InOrder, Contract!Before, Contract!Holding, Contract!After
  <2>2. CASE UNCHANGED Contract!contractVars \/ Contract!Close
    BY <2>2 DEF Contract!contractVars, Contract!Close
  <2>3. ASSUME NEW k \in Contract!ContractKinds, Contract!Ask(k) PROVE Contract!InOrder'
    BY <2>1, <2>3 DEF Contract!Ask
  <2>4. ASSUME NEW k \in Contract!ContractKinds,
               Contract!Yield(k) \/ Contract!Fail(k) \/ Contract!HandOver(k)
        PROVE  Contract!InOrder'
    BY <2>4 DEF Contract!Yield, Contract!Fail, Contract!HandOver
  <2> QED
    BY <2>2, <2>3, <2>4 DEF Contract!ContractNext
<1> QED
  BY <1>1, <1>2, SelectedImplementsContract, InductiveHolds, PTL DEF KeepsContract, Contract!ContractSpec

\* Once it has failed or is closed it asks nothing more, whatever is still under way.
THEOREM SelectedOverIsSilent == SelectedSpec => Contract!OverIsSilent
<1>1. [Contract!ContractNext]_Contract!contractVars =>
        [(Source \in {"failed", "closed"} =>
            Source' \in {Source, "closed"} /\ UNCHANGED asked)]_Contract!contractVars
  BY DEF Contract!contractVars, Contract!ContractNext, Contract!Ask, Contract!Yield,
         Contract!Fail, Contract!HandOver, Contract!Close, Contract!Before, Contract!Holding
<1> QED
  BY <1>1, SelectedImplementsContract, PTL
  DEF KeepsContract, Contract!ContractSpec, Contract!OverIsSilent
=============================================================================
