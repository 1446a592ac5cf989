-------------------------- MODULE AbortableFetch --------------------------
(***************************************************************************)
(* The upstream request of a background collector: a task with three       *)
(* awaits (the response, a piece of its body, the digest), each of them    *)
(* raced against one abort signal (awaitAbortable), and the failure class  *)
(* it ends with.  What an await has been settled with is kept apart from   *)
(* the step that resumes after it, because a timer or another call may run *)
(* between the two.                                                        *)
(***************************************************************************)
EXTENDS Naturals

CONSTANTS
  Null,
  Responses,  \* bound of the model: what upstream may answer
  PartSizes   \* bound of the model: lengths of the pieces of a body

VARIABLES
  phase,    \* the await the task is at
  wake,     \* what that await has been settled with; Null while it is pending
  invoked,  \* fetch has been called
  answer,   \* the response
  total,    \* bytes of its body so far
  signal,   \* the request's controller has aborted
  expired,  \* deadline.expired
  timer,    \* the timer of the deadline is set
  outcome   \* what the task has returned

fetchVars == <<phase, wake, invoked, answer, total, signal, expired, timer, outcome>>

Failures == {"network", "timeout", "rate_limited", "auth_required", "challenge",
             "schema_changed", "identity_mismatch", "aborted"}

\* Responses that are refused for their status or their headers, and how.
Refused == [unauthorized |-> "auth_required", forbidden |-> "challenge",
            throttled |-> "rate_limited", unexpected |-> "schema_changed"]

Awaits == {"fetch", "read", "digest"}
Wakes == Failures \cup Responses \cup {"part", "bad", "end", "hash"}

\* The others have a body: of the account and shape asked for, of another, or unreadable.
ASSUME FetchAssumption ==
  /\ Responses \subseteq DOMAIN Refused \cup {"fitting", "foreign", "malformed"}
  /\ PartSizes \subseteq Nat
  /\ Null \notin Wakes \cup {"ok"}

FetchTypeOK ==
  /\ phase \in Awaits \cup {"idle", "done", "over"}
  /\ wake \in Wakes \cup {Null}
  /\ invoked \in BOOLEAN /\ answer \in Responses \cup {Null} /\ total \in Nat
  /\ signal \in BOOLEAN /\ expired \in BOOLEAN /\ timer \in BOOLEAN
  /\ outcome \in Failures \cup {"ok", Null}

FetchInit ==
  /\ phase = "idle" /\ wake = Null /\ invoked = FALSE /\ answer = Null /\ total = 0
  /\ signal = FALSE /\ expired = FALSE /\ timer = FALSE /\ outcome = Null

-----------------------------------------------------------------------------

Pending == phase \in Awaits /\ wake = Null

\* A new controller, deadline and timer, and the task up to its first await; fetch may
\* have been called by then.
Begin(called) ==
  /\ phase' = "fetch" /\ wake' = Null /\ invoked' = called /\ answer' = Null /\ total' = 0
  /\ signal' = FALSE /\ expired' = FALSE /\ timer' = TRUE /\ outcome' = Null

Reason(e) == IF e THEN "timeout" ELSE "aborted"

\* controller.abort(): a pending await is rejected, whatever upstream does.
Abort(e) ==
  /\ signal' = TRUE
  /\ wake' = IF Pending THEN Reason(e) ELSE wake

\* Upstream, which may also never answer, settles the await.
Arrive ==
  /\ Pending
  /\ \/ phase = "fetch" /\ invoked /\ wake' \in Responses \cup {"network"}
     \/ phase = "read" /\ wake' \in {"part", "bad", "end", "network"}
     \/ phase = "digest" /\ wake' \in {"hash", "network", "schema_changed"}
  /\ UNCHANGED <<phase, invoked, answer, total, signal, expired, timer, outcome>>

Resumes(p) == phase = p /\ wake # Null /\ invoked

\* readBoundedJson up to the first read: its failure, or "more".
HeadVerdict ==
  IF wake \in DOMAIN Refused THEN Refused[wake]
  ELSE IF signal THEN Reason(expired) ELSE "more"

\* One turn of its loop with a piece of n bytes: its failure, "more", or "whole".
PieceVerdict(n, limit) ==
  IF wake \in Failures THEN wake
  ELSE IF wake = "bad" \/ (wake = "part" /\ total + n > limit) THEN "schema_changed"
  ELSE IF signal THEN Reason(expired)
  ELSE IF wake = "part" THEN "more"
  ELSE IF answer = "malformed" \/ total = 0 THEN "schema_changed" ELSE "whole"

\* The await that follows; its pieces are counted.
Await(p, bytes) ==
  /\ phase' = p /\ wake' = Null /\ total' = total + bytes
  /\ answer' = IF phase = "fetch" THEN wake ELSE answer
  /\ UNCHANGED <<invoked, signal, expired, timer, outcome>>

\* The task returns o; its last block aborts what may still be under way.
Return(o) ==
  /\ phase' = "done" /\ outcome' = o /\ signal' = TRUE /\ wake' = Null
  /\ answer' = Null /\ total' = 0
  /\ UNCHANGED <<invoked, expired>>
=============================================================================
