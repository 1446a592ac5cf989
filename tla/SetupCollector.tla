-------------------------- MODULE SetupCollector --------------------------
(***************************************************************************)
(* extension/background-setup-collector.mjs: the collector of a setup      *)
(* inspection.  Its only dispatch is settled once, by whatever comes       *)
(* first: the task's return, the deadline, or dispose.  Calls that are     *)
(* refused change nothing and are left to stuttering.                      *)
(***************************************************************************)
EXTENDS AbortableFetch

CONSTANT MaxSessionBytes

ASSUME SetupAssumption ==
  /\ MaxSessionBytes \in Nat
  /\ Null \notin {"held", "pulled", "waits", "returned"}

VARIABLES
  closed, dispatchUsed, active,
  buffer,     \* Null, "held" or "pulled"
  gate,       \* the result of the dispatch; Null until it is settled
  reported,   \* the dispatch has returned it
  disposer,   \* the dispose that closed the collector: Null, "waits", "returned"
  \* history
  asked,      \* requests that went upstream
  released    \* the buffer has been handed over

setupVars == <<fetchVars, closed, dispatchUsed, active, buffer, gate, reported, disposer,
               asked, released>>

SetupTypeOK ==
  /\ FetchTypeOK
  /\ closed \in BOOLEAN /\ dispatchUsed \in BOOLEAN /\ active \in BOOLEAN
  /\ buffer \in {Null, "held", "pulled"}
  /\ gate \in Failures \cup {"ok", Null} /\ reported \in BOOLEAN
  /\ disposer \in {Null, "waits", "returned"}
  /\ asked \in Nat /\ released \in BOOLEAN

SetupInit ==
  /\ FetchInit
  /\ closed = FALSE /\ dispatchUsed = FALSE /\ active = FALSE /\ buffer = Null
  /\ gate = Null /\ reported = FALSE /\ disposer = Null
  /\ asked = 0 /\ released = FALSE

-----------------------------------------------------------------------------

\* finish: the first result stays.
Settled(o) == IF gate = Null THEN o ELSE gate

\* Mistake: a collector may be used again once its dispatch is over.
MayDispatchAgain == ~closed /\ ~active

MayDispatch == ~closed /\ ~dispatchUsed /\ ~active

\* With a permit for a session check that has not expired.
Dispatch ==
  /\ MayDispatch
  /\ dispatchUsed' = TRUE /\ active' = TRUE
  /\ gate' = Null /\ reported' = FALSE
  /\ Begin(FALSE)
  /\ UNCHANGED <<closed, buffer, disposer, asked, released>>

\* fetch is called a microtask later; with an aborted signal nothing goes upstream.
Invoke ==
  /\ phase = "fetch" /\ ~invoked
  /\ invoked' = TRUE
  /\ asked' = IF signal THEN asked ELSE asked + 1
  /\ UNCHANGED <<phase, wake, answer, total, signal, expired, timer, outcome,
                 closed, dispatchUsed, active, buffer, gate, reported, disposer, released>>

Upstream ==
  /\ Arrive
  /\ UNCHANGED <<closed, dispatchUsed, active, buffer, gate, reported, disposer, asked, released>>

\* Mistake: the deadline aborts the request and leaves the result to it.
ExpireQuietly ==
  /\ timer /\ timer' = FALSE
  /\ expired' = TRUE /\ signal' = TRUE
  /\ UNCHANGED <<phase, wake, invoked, answer, total, outcome,
                 closed, dispatchUsed, active, buffer, gate, reported, disposer, asked, released>>

Expire ==
  /\ timer /\ timer' = FALSE
  /\ expired' = TRUE /\ Abort(TRUE)
  /\ gate' = Settled("timeout")
  /\ UNCHANGED <<phase, invoked, answer, total, outcome,
                 closed, dispatchUsed, active, buffer, reported, disposer, asked, released>>

\* The task after the await of the response.
AfterFetch ==
  /\ Resumes("fetch")
  /\ LET v == IF wake \notin Failures THEN HeadVerdict
              ELSE IF expired THEN "timeout"
              ELSE IF closed \/ signal THEN "aborted" ELSE wake
     IN IF v = "more" THEN Await("read", 0) ELSE Return(v) /\ UNCHANGED timer
  /\ UNCHANGED <<closed, dispatchUsed, active, buffer, gate, reported, disposer, asked, released>>

\* The session is of the account configured; one of another shape counts as malformed.
ParseSession == IF answer = "fitting" THEN "ok" ELSE "identity_mismatch"

\* The task after a piece of the body and after its end.
AfterPiece ==
  /\ Resumes("read")
  /\ \E n \in PartSizes :
       LET v == PieceVerdict(n, MaxSessionBytes)
       IN \/ v = "more" /\ Await("read", n)
          \/ v = "whole" /\ ParseSession = "ok" /\ Await("digest", 0)
          \/ v = "whole" /\ ParseSession # "ok" /\ Return(ParseSession) /\ UNCHANGED timer
          \/ v \in Failures /\ Return(v) /\ UNCHANGED timer
  /\ UNCHANGED <<closed, dispatchUsed, active, buffer, gate, reported, disposer, asked, released>>

AfterDigest ==
  /\ Resumes("digest")
  /\ Return(IF wake \in Failures THEN wake
            ELSE IF closed \/ signal THEN "aborted" ELSE "ok")
  /\ UNCHANGED <<timer, closed, dispatchUsed, active, buffer, gate, reported, disposer,
                 asked, released>>

\* Mistake: the result of the task is held whether or not the dispatch is settled.
LandLate ==
  /\ phase = "done" /\ phase' = "over"
  /\ timer' = FALSE /\ active' = FALSE
  /\ buffer' = IF outcome = "ok" THEN "held" ELSE buffer
  /\ gate' = Settled(outcome)
  /\ UNCHANGED <<wake, invoked, answer, total, signal, expired, outcome,
                 closed, dispatchUsed, reported, disposer, asked, released>>

\* The callback on the task.
Land ==
  /\ phase = "done" /\ phase' = "over"
  /\ timer' = FALSE /\ active' = FALSE
  /\ buffer' = IF gate = Null /\ outcome = "ok" THEN "held" ELSE buffer
  /\ gate' = Settled(outcome)
  /\ UNCHANGED <<wake, invoked, answer, total, signal, expired, outcome,
                 closed, dispatchUsed, reported, disposer, asked, released>>

Report ==
  /\ gate # Null /\ ~reported
  /\ reported' = TRUE /\ timer' = FALSE
  /\ UNCHANGED <<phase, wake, invoked, answer, total, signal, expired, outcome,
                 closed, dispatchUsed, active, buffer, gate, disposer, asked, released>>

Pull ==
  /\ ~closed /\ buffer # Null
  /\ buffer' = "pulled"
  /\ UNCHANGED <<fetchVars, closed, dispatchUsed, active, gate, reported, disposer, asked, released>>

Release ==
  /\ ~closed /\ buffer = "pulled"
  /\ buffer' = Null /\ released' = TRUE
  /\ UNCHANGED <<fetchVars, closed, dispatchUsed, active, gate, reported, disposer, asked>>

\* dispose, also as the abort operation.  Closing a closed collector changes nothing.
Dispose ==
  /\ ~closed
  /\ closed' = TRUE /\ buffer' = Null
  /\ IF active
       THEN Abort(expired) /\ gate' = Settled("aborted") /\ disposer' = "waits"
       ELSE disposer' = "returned" /\ UNCHANGED <<signal, wake, gate>>
  /\ UNCHANGED <<phase, invoked, answer, total, expired, timer, outcome,
                 dispatchUsed, active, reported, asked, released>>

\* The callback on the task is registered before dispose awaits it.
DisposeReturns ==
  /\ disposer = "waits" /\ phase = "over"
  /\ disposer' = "returned" /\ active' = FALSE
  /\ UNCHANGED <<fetchVars, closed, dispatchUsed, buffer, gate, reported, asked, released>>

SetupTask == Invoke \/ AfterFetch \/ AfterPiece \/ AfterDigest \/ Land \/ Report \/ DisposeReturns

SetupNext == SetupTask \/ Expire \/ Upstream \/ Dispatch \/ Pull \/ Release \/ Dispose

\* Microtasks run and timers fire; nothing is assumed of upstream and the callers.
SetupFairness == WF_setupVars(SetupTask) /\ WF_setupVars(Expire)

SetupSpec == SetupInit /\ [][SetupNext]_setupVars /\ SetupFairness

-----------------------------------------------------------------------------
(* Properties *)

\* What is held was reported as a success in time, however late the response and
\* however the callbacks interleave, and any other report tells what came first; when a
\* dispose that closed the collector returns, nothing is read, held or about to be held.
HoldsWhatWasReported ==
  /\ gate = "timeout" => expired
  /\ gate = "aborted" => closed
  /\ gate \notin {Null, "timeout", "aborted"} => ~expired
  /\ buffer # Null => gate = "ok" /\ ~closed
  /\ gate = "ok" => buffer # Null \/ released \/ closed
  /\ disposer = "returned" => phase \in {"idle", "over"} /\ ~active /\ buffer = Null

\* The stage ProbeCapture sees.
Source ==
  IF closed THEN "closed"
  ELSE IF buffer # Null THEN "session_buffer"
  ELSE IF released THEN "ready"
  ELSE IF gate # Null THEN "failed" ELSE "new"

Contract == INSTANCE CollectorContract WITH
  source <- Source,
  calls <- [k \in {"session-check", "body"} |-> IF k = "body" THEN 0 ELSE asked]

\* This collector is one that ProbeCapture takes for granted.
KeepsContract == Contract!ContractSpec

\* Whatever upstream does and does not, every dispatch gets its result and every
\* dispose returns.
EverySettles ==
  /\ dispatchUsed ~> reported
  /\ disposer = "waits" ~> disposer = "returned"
=============================================================================
