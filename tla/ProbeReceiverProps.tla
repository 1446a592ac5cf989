------------------------ MODULE ProbeReceiverProps ------------------------
(***************************************************************************)
(* What src/probe-receiver.mjs must guarantee, over crashes, reopening,    *)
(* clock changes and lost files.                                           *)
(***************************************************************************)
EXTENDS ProbeReceiver

-----------------------------------------------------------------------------
(* Upstream requests *)

\* A root authorises each kind of upstream request at most once, whatever
\* crashes, replays or reopenings happen: only dispatchStarted counts a fetch.
OneFetchPerKind == \A k \in Kinds : fetches[k] <= 1

\* A blocker is final: a blocked root is never reported complete, never
\* authorises an upstream request and never takes a result, also not after
\* it is reopened or its cooldown has passed.
FencedForever ==
  [][blocker # Null => /\ blocker' # Null /\ stage' = "blocked"
                       /\ UNCHANGED <<fetches, evidence, receipts>>]_vars

\* The body request starts at least SpacingMs after the session request on both
\* clocks, however late in its permit the session request was started and
\* whatever was done to the wall clock.
SpacedFetches ==
  LET s == origin["session-check"]
      b == origin["body"]
  IN s # Null /\ b # Null => /\ b.at.mono >= s.at.mono + SpacingMs
                             /\ b.at.wall >= s.at.wall + SpacingMs

\* The session and the body are fetched by one collector of one browser: the
\* body is fetched by whoever proved the session.
OneCollector ==
  LET s == origin["session-check"]
      b == origin["body"]
  IN b # Null => s # Null /\ b.browser = s.browser /\ b.collector = s.collector

\* A result is committed in the opening of the root in which its fetch was
\* authorised, and a body is fetched in the opening that committed the session.
OneOpening ==
  [][/\ \A k \in Kinds : evidence'[k] # evidence[k] => origin[k].opening = opens
     /\ fetches'["body"] # fetches["body"] => origin["session-check"].opening = opens]_vars

\* Scopes do not leak: only the two body scopes permit and fetch a body, the setup
\* and selected scopes never attest the workspace, only the selected scope goes on
\* without attesting it, each scope has its own final stage.
ScopeConfined ==
  /\ fetches["body"] > 0 \/ stage = "body_permit" => scope \in BodyScopes
  /\ attested => scope \in {"conversation", "session-only"}
  /\ bodyReady => scope = "background-selected-conversation"
  /\ stage \in TerminalStages =>
       scope = CASE stage = "probe_complete" -> "conversation"
                 [] stage = "background_probe_complete" -> "background-selected-conversation"
                 [] stage = "setup_complete" -> "setup-inspection"
                 [] stage = "background_setup_complete" -> "background-setup-inspection"

-----------------------------------------------------------------------------
(* Evidence *)

\* A result the receiver acknowledged is a file that was valid and on disk before
\* the acknowledgement; only somebody else can have taken it away since.  A
\* complete root has exactly the artifacts of its scope, one for each kind.
CompletionProven ==
  /\ \A k \in Kinds : evidence[k] # Null =>
       /\ evidence[k] \in receipts
       /\ WellFormed(k, evidence[k].content) /\ Accepts(k, evidence[k].content)
       /\ disk[evidence[k].artifact] \in {evidence[k].content, Lost}
  /\ stage \in TerminalStages =>
       {a \in ArtifactIds : disk[a] # Null} = {evidence[k].artifact : k \in TerminalKinds}

\* A repeated commit_result is told what is true, in every opening: a success is replayed
\* only for a valid result that is on disk now, and an acknowledged one is withdrawn only
\* after somebody else has spoilt a file.
ReplayTrue ==
  \A proof \in receipts :
    /\ Replayable(proof) =>
         \E k \in Kinds : /\ evidence[k] = proof /\ disk[proof.artifact] = proof.content
                         /\ WellFormed(k, proof.content) /\ Accepts(k, proof.content)
    /\ \/ Replayable(proof)
       \/ blocker = "recovery_evidence_missing"
       \/ disk[proof.artifact] = Lost

\* A root that is reopened as complete still has every artifact, the session's
\* as well as the body's.
ReopenedCompletion ==
  [][mode = "down" /\ mode' = "up" /\ stage' \in TerminalStages =>
       /\ evidence["session-check"] # Null /\ Intact(evidence["session-check"])
       /\ scope \in BodyScopes => evidence["body"] # Null /\ Intact(evidence["body"])]_vars

\* What was acknowledged is not taken back: no request, crash or reopening replaces
\* committed evidence or writes to its file, whose bytes only somebody else can spoil.
CommittedStays ==
  [][\A k \in Kinds : evidence[k] # Null =>
       /\ evidence'[k] = evidence[k]
       /\ disk'[evidence[k].artifact] \in {disk[evidence[k].artifact], Lost}]_vars

\* A receiver that serves an unblocked root holds every chunk it has acknowledged and no
\* other, so that a commit is refused for its bytes and never for the receiver's own
\* faults, though a crash keeps the part file and forgets what is in memory.
TransferWhole ==
  mode = "up" /\ blocker = Null /\ permit # Null => Len(Received) = permit.next

-----------------------------------------------------------------------------
(* Failures *)

\* A rate limit keeps the root blocked for at least the least cooldown after
\* every reading the receiver has trusted, even if the wall clock went back.
CooldownConservative ==
  cooldown # Null => blocker # Null /\ cooldown.until >= lastClock.wall + CooldownMs

\* In an unblocked root the stage says which permit is live, what was fetched,
\* what is committed and which unit of work comes next.
Phase(permitted, kind, status, session, body, done) ==
  /\ IF permitted THEN permit # Null /\ permit.kind = kind /\ permit.status = status
                  ELSE permit = Null
  /\ fetches["session-check"] = session /\ fetches["body"] = body
  /\ {k \in Kinds : evidence[k] # Null} = done

SessionOnly == {"session-check"}

StageAgrees ==
  /\ blocker # Null <=> stage = "blocked"
  /\ BodyReady => claimed /\ evidence["session-check"] # Null
  /\ stage \in {"session_committed", "body_permit", "body_started", "body_partial"} =>
       BodyReady
  /\ blocker = Null => (stage = "new" <=> ~claimed)
  /\ stage \in {"new", "session_claimed"} => Phase(FALSE, "", "", 0, 0, {})
  /\ stage = "session_permit" => Phase(TRUE, "session-check", "granted", 0, 0, {})
  /\ stage \in {"session_started", "session_partial"} =>
       Phase(TRUE, "session-check", "started", 1, 0, {})
  /\ stage \in {"session_committed"} \cup SetupStages =>
       Phase(FALSE, "", "", 1, 0, SessionOnly)
  /\ stage = "body_permit" => Phase(TRUE, "body", "granted", 1, 0, SessionOnly)
  /\ stage \in {"body_started", "body_partial"} =>
       Phase(TRUE, "body", "started", 1, 1, SessionOnly)
  /\ stage \in BodyStages => Phase(FALSE, "", "", 1, 1, Kinds)

-----------------------------------------------------------------------------
(* The abstract one-shot probe *)

Abstract ==
  INSTANCE OneShotProbe WITH
    bodyInScope <- scope \in BodyScopes,
    committed   <- {k \in Kinds : evidence[k] # Null},
    fenced      <- blocker # Null

\* The receiver authorises and commits what the one-shot probe allows.
OneShot == Abstract!ProbeSpec
=============================================================================
