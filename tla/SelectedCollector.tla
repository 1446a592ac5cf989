------------------------ MODULE SelectedCollector ------------------------
(***************************************************************************)
(* extension/background-selected-collector.mjs: one session check, whose   *)
(* access token is kept, and one conversation body fetched with it.  The   *)
(* token is looked at when the body is dispatched, and again when fetch is *)
(* called; between the two the clocks, the token's timer, the deadline and *)
(* dispose may run.  Calls that are refused without a trace are left to    *)
(* stuttering.                                                             *)
(***************************************************************************)
EXTENDS AbortableFetch, Integers

CONSTANTS
  PermitIds,
  BodyLimit, SessionLimit, ChunkBytes,
  TokenMs,      \* TOKEN_LIFETIME_MS
  SpacingMs,    \* between two dispatches
  SkewMs,       \* by how much the two clocks may disagree since the session
  MaxTime,      \* bound of the model: the last tick
  Walls         \* bound of the model: readings the wall clock may be set to

ASSUME SelectedAssumption ==
  /\ BodyLimit \in Nat /\ SessionLimit \in Nat /\ ChunkBytes \in Nat \ {0}
  /\ TokenMs \in Nat /\ SpacingMs \in Nat /\ SkewMs \in Nat /\ MaxTime \in Nat
  /\ Walls \subseteq 0..MaxTime

VARIABLES
  stage, closed,
  buffer,       \* Null, or the chunks of the result and the last one pulled
  kind,         \* the request of the current or last dispatch
  until,        \* valid_until of its permit
  consumed, lastDispatchMono,
  token, tokenExpires, sessionWall, sessionMono,
  tokenTimer,   \* when the token's timer is due on the monotonic clock
  disposer,     \* Null, "waits" or "returned"
  clock,
  \* history
  asked,        \* requests of each kind that went upstream
  usage         \* how the token was used

tokenVars == <<token, tokenExpires, tokenTimer>>
sessionVars == <<sessionWall, sessionMono>>
dispatchVars == <<kind, until, consumed, lastDispatchMono>>
historyVars == <<asked, usage>>
selectedVars == <<fetchVars, stage, closed, buffer, dispatchVars, tokenVars, sessionVars,
                  disposer, clock, historyVars>>

Kinds == {"session-check", "body"}
Instants == 0..MaxTime
Stages == {"new", "dispatched", "session_buffer", "ready", "body_buffer", "complete", "failed"}

SelectedTypeOK ==
  /\ FetchTypeOK
  /\ stage \in Stages /\ closed \in BOOLEAN
  /\ buffer \in [count : Nat, pulled : Nat \cup {-1}] \cup {Null}
  /\ kind \in Kinds /\ until \in Instants /\ consumed \subseteq PermitIds
  /\ lastDispatchMono \in Instants \cup {Null}
  /\ token \in BOOLEAN /\ tokenExpires \in Nat
  /\ sessionWall \in Instants /\ sessionMono \in Instants
  /\ tokenTimer \in Nat \cup {Null}
  /\ disposer \in {Null, "waits", "returned"}
  /\ clock \in [wall : Instants, mono : Instants]
  /\ asked \in [Kinds -> Nat]
  /\ usage \in [wall : Instants, expires : Nat, until : Instants, age : Int, skew : Int]
              \cup {Null}

SelectedInit ==
  /\ FetchInit
  /\ stage = "new" /\ closed = FALSE /\ buffer = Null
  /\ kind = "session-check" /\ until = 0 /\ consumed = {} /\ lastDispatchMono = Null
  /\ token = FALSE /\ tokenExpires = 0 /\ tokenTimer = Null
  /\ sessionWall = 0 /\ sessionMono = 0
  /\ disposer = Null
  /\ clock \in [wall : Walls \cup {0}, mono : {0}]
  /\ asked = [k \in Kinds |-> 0] /\ usage = Null

-----------------------------------------------------------------------------
(* Clocks *)

Tick ==
  /\ clock.mono < MaxTime /\ clock.wall < MaxTime
  /\ clock' = [wall |-> clock.wall + 1, mono |-> clock.mono + 1]
  /\ UNCHANGED <<fetchVars, stage, closed, buffer, dispatchVars, tokenVars, sessionVars,
                 disposer, historyVars>>

SetWall ==
  /\ \E w \in Walls : clock' = [clock EXCEPT !.wall = w]
  /\ UNCHANGED <<fetchVars, stage, closed, buffer, dispatchVars, tokenVars, sessionVars,
                 disposer, historyVars>>

-----------------------------------------------------------------------------
(* Dispatch *)

ClearToken == token' = FALSE /\ tokenExpires' = 0 /\ tokenTimer' = Null

Apart(a, b) == IF a > b THEN a - b ELSE b - a

Age == clock.mono - sessionMono
Skew == Apart(clock.wall - sessionWall, Age)

\* Mistake: the age of the token is read off the wall clock.
FreshByWall == token /\ clock.wall < tokenExpires /\ clock.wall >= sessionWall

TokenFresh ==
  /\ token /\ clock.wall < tokenExpires
  /\ Age >= 0 /\ Age < TokenMs
  /\ clock.wall >= sessionWall /\ Skew <= SkewMs

Active == phase \in Awaits

\* A permit that has not been used, for what comes next, before its end, and spaced.
MayDispatch(k, id, end) ==
  /\ ~closed /\ ~Active /\ buffer = Null
  /\ id \notin consumed
  /\ stage = IF k = "body" THEN "ready" ELSE "new"
  /\ clock.wall < end
  /\ lastDispatchMono # Null => clock.mono - lastDispatchMono >= SpacingMs

Dispatch(k, id, end) ==
  /\ MayDispatch(k, id, end)
  /\ k = "body" => TokenFresh
  /\ stage' = "dispatched" /\ kind' = k /\ until' = end
  /\ consumed' = consumed \cup {id} /\ lastDispatchMono' = clock.mono
  /\ Begin(FALSE)
  /\ UNCHANGED <<closed, buffer, tokenVars, sessionVars, disposer, clock, historyVars>>

\* A token that is no longer fresh ends the collector.
DispatchStale(id, end) ==
  /\ MayDispatch("body", id, end) /\ ~TokenFresh
  /\ stage' = "failed" /\ ClearToken
  /\ UNCHANGED <<fetchVars, closed, buffer, dispatchVars, sessionVars, disposer, clock,
                 historyVars>>

-----------------------------------------------------------------------------
(* The task *)

\* Mistake: nothing is looked at again when fetch is called.
NoRefusal == Null

\* What keeps fetch from being called at the last moment, or Null.
Refusal ==
  IF closed \/ signal \/ until <= clock.wall THEN "aborted"
  ELSE IF kind = "body" /\ (~token \/ clock.wall >= tokenExpires) THEN "identity_mismatch"
  ELSE Null

Invoke ==
  /\ phase = "fetch" /\ ~invoked
  /\ invoked' = TRUE
  /\ IF Refusal # Null
       THEN /\ wake' = IF wake = Null THEN Refusal ELSE wake
            /\ UNCHANGED <<tokenVars, historyVars>>
       ELSE /\ asked' = [asked EXCEPT ![kind] = @ + 1]
            /\ IF kind = "body"
                 THEN /\ ClearToken
                      /\ usage' = [wall |-> clock.wall, expires |-> tokenExpires,
                                   until |-> until, age |-> lastDispatchMono - sessionMono,
                                   skew |-> clock.wall - sessionWall]
                 ELSE UNCHANGED <<tokenVars, usage>>
            /\ UNCHANGED wake
  /\ UNCHANGED <<phase, answer, total, signal, expired, timer, outcome, stage, closed, buffer,
                 dispatchVars, sessionVars, disposer, clock>>

Upstream ==
  /\ Arrive
  /\ UNCHANGED <<stage, closed, buffer, dispatchVars, tokenVars, sessionVars, disposer,
                 clock, historyVars>>

\* The deadline takes the token away, too.
Expire ==
  /\ timer /\ timer' = FALSE
  /\ expired' = TRUE /\ Abort(TRUE)
  /\ ClearToken
  /\ UNCHANGED <<phase, invoked, answer, total, outcome, stage, closed, buffer, dispatchVars,
                 sessionVars, disposer, clock, historyVars>>

TokenTimer ==
  /\ tokenTimer # Null /\ clock.mono >= tokenTimer
  /\ ClearToken
  /\ UNCHANGED <<fetchVars, stage, closed, buffer, dispatchVars, sessionVars, disposer, clock,
                 historyVars>>

\* Mistake: a task that fails leaves the token.
FailKeepingToken(o) ==
  /\ Return(o) /\ timer' = FALSE
  /\ stage' = "failed"
  /\ UNCHANGED <<buffer, tokenVars>>

\* A task that ends without a result ends the collector.
FailTask(o) ==
  /\ Return(o) /\ timer' = FALSE
  /\ stage' = "failed" /\ ClearToken
  /\ UNCHANGED buffer

AfterFetch ==
  /\ Resumes("fetch")
  /\ LET v == IF wake \in Failures THEN wake ELSE HeadVerdict
     IN IF v = "more" THEN Await("read", 0) /\ UNCHANGED <<stage, buffer, tokenVars>>
        ELSE FailTask(v)
  /\ UNCHANGED <<closed, dispatchVars, sessionVars, disposer, clock, historyVars>>

Limit == IF kind = "body" THEN BodyLimit ELSE SessionLimit
Mismatch == IF kind = "body" THEN "schema_changed" ELSE "identity_mismatch"
Earlier(a, b) == IF a < b THEN a ELSE b

\* The session's token, whose own expiry e lies ahead, is kept for TokenMs at most.
KeepToken(e) ==
  /\ e > clock.wall
  /\ token' = TRUE
  /\ tokenExpires' = Earlier(e, clock.wall + TokenMs)
  /\ tokenTimer' = clock.mono + (tokenExpires' - clock.wall)
  /\ sessionWall' = clock.wall /\ sessionMono' = clock.mono

AfterPiece ==
  /\ Resumes("read")
  /\ \E n \in PartSizes :
       LET v == PieceVerdict(n, Limit)
       IN \/ v = "more" /\ Await("read", n) /\ UNCHANGED <<stage, buffer, tokenVars, sessionVars>>
          \/ /\ v = "whole" /\ answer = "fitting"
             /\ Await("digest", 0)
             /\ IF kind = "body" THEN UNCHANGED <<tokenVars, sessionVars>>
                ELSE \E e \in 1..(MaxTime + 1) : KeepToken(e)
             /\ UNCHANGED <<stage, buffer>>
          \/ v = "whole" /\ answer = "foreign" /\ FailTask(Mismatch) /\ UNCHANGED sessionVars
          \/ v \in Failures /\ FailTask(v) /\ UNCHANGED sessionVars
  /\ UNCHANGED <<closed, dispatchVars, disposer, clock, historyVars>>

\* The identity that is handed over for a session is one chunk.
Chunks == IF kind = "body" THEN (total + ChunkBytes - 1) \div ChunkBytes ELSE 1

AfterDigest ==
  /\ Resumes("digest")
  /\ LET v == IF wake \in Failures THEN wake ELSE IF closed \/ signal THEN "aborted" ELSE "ok"
     IN IF v = "ok"
          THEN /\ Return("ok") /\ timer' = FALSE
               /\ buffer' = [count |-> Chunks, pulled |-> -1]
               /\ stage' = IF kind = "body" THEN "body_buffer" ELSE "session_buffer"
               /\ UNCHANGED tokenVars
          ELSE FailTask(v)
  /\ UNCHANGED <<closed, dispatchVars, sessionVars, disposer, clock, historyVars>>

-----------------------------------------------------------------------------
(* The other calls *)

Pull(n) ==
  /\ ~closed /\ buffer # Null
  /\ n >= 0 /\ n < buffer.count
  /\ n \in {buffer.pulled, buffer.pulled + 1}
  /\ buffer' = [buffer EXCEPT !.pulled = n]
  /\ UNCHANGED <<fetchVars, stage, closed, dispatchVars, tokenVars, sessionVars, disposer,
                 clock, historyVars>>

Release ==
  /\ ~closed /\ buffer # Null /\ buffer.pulled = buffer.count - 1
  /\ buffer' = Null
  /\ IF stage = "session_buffer" THEN stage' = "ready" /\ UNCHANGED tokenVars
     ELSE stage' = "complete" /\ ClearToken
  /\ UNCHANGED <<fetchVars, closed, dispatchVars, sessionVars, disposer, clock, historyVars>>

\* dispose, also as the abort operation: every caller waits for the task.
Dispose ==
  /\ ~closed
  /\ closed' = TRUE /\ buffer' = Null /\ ClearToken
  /\ IF Active THEN Abort(expired) /\ disposer' = "waits"
     ELSE disposer' = "returned" /\ UNCHANGED <<signal, wake>>
  /\ UNCHANGED <<phase, invoked, answer, total, expired, timer, outcome, stage, dispatchVars,
                 sessionVars, clock, historyVars>>

DisposeReturns ==
  /\ disposer = "waits" /\ ~Active
  /\ disposer' = "returned"
  /\ UNCHANGED <<fetchVars, stage, closed, buffer, dispatchVars, tokenVars, sessionVars, clock,
                 historyVars>>

SelectedNext ==
  \/ Tick \/ SetWall
  \/ \E id \in PermitIds, end \in Instants :
       (\E k \in Kinds : Dispatch(k, id, end)) \/ DispatchStale(id, end)
  \/ Invoke \/ Upstream \/ Expire \/ TokenTimer
  \/ AfterFetch \/ AfterPiece \/ AfterDigest
  \/ \E n \in 0..BodyLimit : Pull(n)
  \/ Release \/ Dispose \/ DisposeReturns

SelectedSpec == SelectedInit /\ [][SelectedNext]_selectedVars

-----------------------------------------------------------------------------
(* Properties *)

\* The access token exists from the reading of a session that was accepted to the one
\* fetch that carries it, and never in a collector that failed, is complete or closed,
\* nor while a request whose deadline has passed still unwinds.
TokenConfined ==
  token => /\ ~closed /\ asked["session-check"] = 1 /\ asked["body"] = 0
           /\ \/ stage \in {"session_buffer", "ready"}
              \/ stage = "dispatched" /\ ~expired /\ (phase = "digest" \/ kind = "body")

\* The fetch that carries the token is made before the token's end and the permit's on
\* the wall clock of that moment, and was dispatched within the token's lifetime on the
\* monotonic clock, whatever the wall clock did in between.
FreshUse ==
  usage # Null =>
    /\ usage.wall < usage.expires /\ usage.wall < usage.until
    /\ usage.age >= 0 /\ usage.age < TokenMs
    /\ usage.skew < TokenMs

\* The stage ProbeCapture sees: a dispatch is over when its result is there.
Source ==
  IF closed THEN "closed"
  ELSE IF stage = "dispatched" THEN (IF kind = "body" THEN "ready" ELSE "new")
  ELSE stage

Contract == INSTANCE CollectorContract WITH source <- Source, calls <- asked

\* This collector is one that ProbeCapture takes for granted.
KeepsContract == Contract!ContractSpec
=============================================================================
