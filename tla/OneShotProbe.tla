--------------------------- MODULE OneShotProbe ---------------------------
(***************************************************************************)
(* What the probe receiver promises the account owner, with every detail   *)
(* of requests, leases, clocks, files and restarts left out: one private   *)
(* root authorises at most one upstream session check and at most one      *)
(* upstream body fetch, the second only in a scope that admits bodies and  *)
(* only after the first is committed; once the root is fenced nothing      *)
(* upstream is authorised and nothing more is committed, for ever.         *)
(***************************************************************************)
EXTENDS Naturals

VARIABLES
  bodyInScope,  \* the scope the root was created with admits a body fetch
  fetches,      \* how often each kind of upstream request was authorised
  committed,    \* the kinds whose result is durable evidence
  fenced        \* the root has been blocked

probeVars == <<bodyInScope, fetches, committed, fenced>>

ProbeKinds == {"session-check", "body"}

ProbeInit ==
  /\ bodyInScope \in BOOLEAN
  /\ fetches = [k \in ProbeKinds |-> 0]
  /\ committed = {}
  /\ fenced = FALSE

Fetch(k) ==
  /\ ~fenced
  /\ fetches[k] = 0
  /\ k = "body" => bodyInScope /\ "session-check" \in committed
  /\ fetches' = [fetches EXCEPT ![k] = 1]
  /\ UNCHANGED <<bodyInScope, committed, fenced>>

Commit(k) ==
  /\ ~fenced
  /\ fetches[k] = 1
  /\ k \notin committed
  /\ committed' = committed \cup {k}
  /\ UNCHANGED <<bodyInScope, fetches, fenced>>

Fence ==
  /\ ~fenced
  /\ fenced' = TRUE
  /\ UNCHANGED <<bodyInScope, fetches, committed>>

ProbeNext == Fence \/ \E k \in ProbeKinds : Fetch(k) \/ Commit(k)

ProbeSpec == ProbeInit /\ [][ProbeNext]_probeVars

\* What this comes to at any moment: nothing is fetched twice, what is committed was
\* fetched, and a body was fetched only in a scope that admits it and after a session.
Promised ==
  /\ \A k \in ProbeKinds : fetches[k] \in {0, 1} /\ (k \in committed => fetches[k] = 1)
  /\ fetches["body"] = 1 => bodyInScope /\ "session-check" \in committed
=============================================================================
