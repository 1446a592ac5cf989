------------------------ MODULE CollectorContract ------------------------
(***************************************************************************)
(* What ProbeCapture takes for granted of any collector, with its awaits,  *)
(* timers and buffers left out: it asks upstream at most once for each     *)
(* kind, for the body only after the session result has been handed over   *)
(* in full, holds a result only if it asked for it, and holds and asks     *)
(* nothing once it is closed.                                              *)
(***************************************************************************)
EXTENDS Naturals

VARIABLES
  source,  \* the stage of the collector, as in ProbeCapture
  calls    \* the upstream requests of each kind

contractVars == <<source, calls>>

ContractKinds == {"session-check", "body"}

Before(k) == IF k = "body" THEN "ready" ELSE "new"
Holding(k) == IF k = "body" THEN "body_buffer" ELSE "session_buffer"
After(k) == IF k = "body" THEN "complete" ELSE "ready"

ContractInit ==
  /\ source = "new"
  /\ calls = [k \in ContractKinds |-> 0]

Ask(k) ==
  /\ source = Before(k) /\ calls[k] = 0
  /\ calls' = [calls EXCEPT ![k] = 1]
  /\ UNCHANGED source

Yield(k) ==
  /\ source = Before(k) /\ calls[k] = 1
  /\ source' = Holding(k)
  /\ UNCHANGED calls

\* With or without having asked.
Fail(k) ==
  /\ source = Before(k)
  /\ source' = "failed"
  /\ UNCHANGED calls

HandOver(k) ==
  /\ source = Holding(k)
  /\ source' = After(k)
  /\ UNCHANGED calls

Close ==
  /\ source' = "closed"
  /\ UNCHANGED calls

ContractNext ==
  \/ \E k \in ContractKinds : Ask(k) \/ Yield(k) \/ Fail(k) \/ HandOver(k)
  \/ Close

ContractSpec == ContractInit /\ [][ContractNext]_contractVars

\* What this comes to: nothing is asked for twice, a body only once a session's result was
\* handed over, and whatever is held or was handed over has been asked for.
InOrder ==
  /\ \A k \in ContractKinds : calls[k] \in {0, 1}
  /\ source = "new" => calls["body"] = 0
  /\ source = "session_buffer" => calls["session-check"] = 1 /\ calls["body"] = 0
  /\ source \in {"ready", "body_buffer", "complete"} \/ calls["body"] = 1 =>
       calls["session-check"] = 1
  /\ source \in {"body_buffer", "complete"} => calls["body"] = 1

\* A collector that has failed or is closed asks nothing and hands nothing over, for ever.
OverIsSilent ==
  [][(source \in {"failed", "closed"} =>
        source' \in {source, "closed"} /\ UNCHANGED calls)]_contractVars
=============================================================================
