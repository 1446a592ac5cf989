------------------------- MODULE ProbeController -------------------------
(***************************************************************************)
(* extension/probe-controller.mjs in the service worker of                 *)
(* extension/background.mjs: three controllers that share one storage area *)
(* and one in-flight mark, each with a durable fence of its own, and the   *)
(* startup diagnostic with its two fences.  A user gesture starts a flight *)
(* that runs from one await to the next; at any of them a storage call may *)
(* be rejected and the browser may kill the worker, which forgets          *)
(* everything but the storage.                                             *)
(***************************************************************************)
EXTENDS Naturals

CONSTANTS
  Null,             \* no value in the storage
  Gestures,         \* flights that may be under way at once, one for each gesture
  Controllers,      \* the controllers of the worker
  StartupFailures,  \* error codes of a page that could not be opened
  Codes             \* error codes a page, a collector or a probe may end with

\* The controller of the visible page is the one the startup diagnostic is about.
ASSUME ControllerAssumption ==
  /\ "page" \in Controllers
  /\ "page_initialization_failed" \in StartupFailures
  /\ StartupFailures \subseteq Codes
  /\ "dispatch_uncertain" \in Codes \ StartupFailures

Revisions == {1, 2}

\* What the packaged or stored configuration of a controller amounts to: nothing,
\* another mode's scope, not enabled or without a reviewed adapter, or usable.
Setups == {"absent", "foreign", "barred", "ready"}

Fences == [state : {"starting", "complete", "blocked", "failed", "uncertain"},
           reason : Codes \cup {"none", "complete"}]
Diagnoses == [state : {"starting", "passed", "blocked", "uncertain"},
              reason : Codes \cup {"none", "startup_complete"}]
Statuses == {"unconfigured", "blocked", "starting", "running", "complete", "failed",
             "uncertain"}

RunSteps == {"read", "report", "fence", "announce", "open", "opening", "running",
             "probing", "receipt", "complete", "seal", "failing", "lock"}
DiagnosisSteps == {"check", "mark", "inspect", "inspecting", "conclude"}
Steps == {"idle", "connect", "release"} \cup RunSteps \cup DiagnosisSteps

Flights == [on : Controllers \cup {"diagnosis", "connection", Null}, at : Steps,
            code : Codes \cup {"none", "startup_complete"}]
Idle == [on |-> Null, at |-> "idle", code |-> "none"]

\* Null is distinct from what the storage holds.
ASSUME NullIsNothing == Null \notin Fences \cup Diagnoses \cup Statuses

VARIABLES
  \* chrome.storage.local
  fence,        \* the start fence of each controller
  status,       \* the state of the status record of each controller
  pending,      \* the failure receipt of each controller is saved
  diagnosis,    \* the fence of each revision of the startup diagnostic
  document,     \* the diagnostic's document record of each revision exists
  \* the package that is loaded
  setup, revision,
  \* the service worker
  inFlight,     \* storage is in IN_FLIGHT
  flight,       \* where each gesture's call has got to
  \* history, read by the properties only
  attempts,     \* how often each controller has opened its page or collector
  inspections,  \* how often each revision has opened a diagnostic page
  done          \* the controllers whose probe has run to its end

storageVars == <<fence, status, pending, diagnosis, document>>
packageVars == <<setup, revision>>
historyVars == <<attempts, inspections, done>>
vars == <<storageVars, packageVars, inFlight, flight, historyVars>>

TypeOK ==
  /\ fence \in [Controllers -> Fences \cup {Null}]
  /\ status \in [Controllers -> Statuses \cup {Null}]
  /\ pending \in [Controllers -> BOOLEAN]
  /\ diagnosis \in [Revisions -> Diagnoses \cup {Null}]
  /\ document \in [Revisions -> BOOLEAN]
  /\ setup \in [Controllers -> Setups]
  /\ revision \in Revisions \cup {0}
  /\ inFlight \in BOOLEAN
  /\ flight \in [Gestures -> Flights]
  /\ attempts \in [Controllers -> Nat]
  /\ inspections \in [Revisions -> Nat]
  /\ done \subseteq Controllers

-----------------------------------------------------------------------------
(* What the storage tells *)

\* States that are not evidence of a clean start when their fence is missing.
Unclean == {"starting", "running", "complete", "failed", "uncertain"}

\* What status() answers the popup.
Displayed(c) ==
  CASE setup[c] = "absent" -> "unconfigured"
    [] setup[c] # "absent" /\ fence[c] # Null ->
         IF fence[c].state = "starting" THEN "uncertain" ELSE fence[c].state
    [] OTHER -> IF status[c] \in Unclean THEN "uncertain"
                ELSE IF setup[c] = "ready" THEN "ready" ELSE "blocked"

\* What an error leaves in the fence and in the status.
ErrorState(code) ==
  CASE code \in StartupFailures \cup {"qualification_required"} -> "blocked"
    [] code = "probe_failed" -> "failed"
    [] OTHER -> "uncertain"

Fence(state, reason) == [state |-> state, reason |-> reason]

\* The attempt whose startup may be diagnosed is over and did not complete.
FailedAttempt(f) == f # Null /\ f.state \in {"blocked", "failed", "uncertain"}

\* Mistake: the second diagnosis does not ask what the first one found.
UnresolvedAnyway == TRUE

\* The one result of the first diagnosis for which a second one was approved.
Unresolved == diagnosis[1] = Fence("blocked", "page_initialization_failed")

Diagnosable ==
  /\ revision # 0
  /\ diagnosis[revision] = Null /\ ~document[revision]
  /\ setup["page"] = "ready"
  /\ FailedAttempt(fence["page"])
  /\ revision = 2 => Unresolved

-----------------------------------------------------------------------------
(* Flights *)

At(g, step) == flight[g].at = step
Go(g, step) == flight' = [flight EXCEPT ![g].at = step]
GoWith(g, step, code) == flight' = [flight EXCEPT ![g].at = step, ![g].code = code]

\* Mistake: a gesture does not look at the in-flight mark.
TakeOffAnyway(g, on, step) ==
  /\ At(g, "idle")
  /\ inFlight' = TRUE
  /\ flight' = [flight EXCEPT ![g] = [on |-> on, at |-> step, code |-> "none"]]

\* A gesture starts a flight unless one is under way; then it is answered busy.
TakeOff(g, on, step) ==
  /\ At(g, "idle")
  /\ ~inFlight /\ inFlight' = TRUE
  /\ flight' = [flight EXCEPT ![g] = [on |-> on, at |-> step, code |-> "none"]]

\* Mistake: the mark stays when a flight ends.
LandMarked(g) ==
  /\ At(g, "release")
  /\ flight' = [flight EXCEPT ![g] = Idle]
  /\ UNCHANGED <<inFlight, storageVars, packageVars, historyVars>>

\* The finally block: native port closed, page disposed of, mark removed.
Land(g) ==
  /\ At(g, "release")
  /\ flight' = [flight EXCEPT ![g] = Idle]
  /\ inFlight' = FALSE
  /\ UNCHANGED <<storageVars, packageVars, historyVars>>

\* The storage rejects the write a flight awaits.  A run falls into its catch
\* block; a write that fails there or in a diagnosis is given up.
StorageFails(g) ==
  /\ \/ /\ flight[g].at \in {"report", "fence", "announce", "running", "receipt",
                             "complete", "seal"}
        /\ GoWith(g, "failing", "dispatch_uncertain")
     \/ /\ flight[g].at \in {"failing", "lock", "mark", "conclude"}
        /\ Go(g, "release")
  /\ UNCHANGED <<storageVars, packageVars, inFlight, historyVars>>

SaveStatus(g, state) ==
  /\ status' = [status EXCEPT ![flight[g].on] = state]
  /\ UNCHANGED <<fence, pending, diagnosis, document, packageVars, inFlight, historyVars>>

SaveFence(g, f) ==
  /\ fence' = [fence EXCEPT ![flight[g].on] = f]
  /\ UNCHANGED <<status, pending, diagnosis, document, packageVars, inFlight, historyVars>>

-----------------------------------------------------------------------------
(* run *)

StartRun(g, c) ==
  /\ TakeOff(g, c, "read")
  /\ UNCHANGED <<storageVars, packageVars, historyVars>>

\* Where a run goes from what it read.
Route(c) ==
  CASE setup[c] = "absent" -> "report"
    [] setup[c] = "foreign" -> "release"
    [] setup[c] \in {"barred", "ready"} ->
         IF fence[c] = Null /\ status[c] \in Unclean THEN "release"
         ELSE IF setup[c] # "ready" THEN "report"
         ELSE IF fence[c] # Null THEN "release" ELSE "fence"

\* Storage that cannot be read ends the run; so do values that do not fit.
ReadValues(g) ==
  /\ At(g, "read")
  /\ Go(g, "release") \/ Go(g, Route(flight[g].on))
  /\ UNCHANGED <<storageVars, packageVars, inFlight, historyVars>>

\* A run that may not start leaves a status but no fence.
ReportUnready(g) ==
  /\ At(g, "report")
  /\ Go(g, "release")
  /\ SaveStatus(g, IF setup[flight[g].on] = "absent" THEN "unconfigured" ELSE "blocked")

WriteFence(g) ==
  /\ At(g, "fence")
  /\ Go(g, "announce")
  /\ SaveFence(g, Fence("starting", "none"))

AnnounceStart(g) ==
  /\ At(g, "announce")
  /\ Go(g, "open")
  /\ SaveStatus(g, "starting")

\* The first effect outside the storage.
Open(g) ==
  /\ At(g, "open")
  /\ Go(g, "opening")
  /\ attempts' = [attempts EXCEPT ![flight[g].on] = @ + 1]
  /\ UNCHANGED <<storageVars, packageVars, inFlight, inspections, done>>

\* The page and the native port are there, or one of them is not.
Opened(g) ==
  /\ At(g, "opening")
  /\ Go(g, "running") \/ \E code \in Codes \ {"probe_failed"} : GoWith(g, "failing", code)
  /\ UNCHANGED <<storageVars, packageVars, inFlight, historyVars>>

AnnounceRunning(g) ==
  /\ At(g, "running")
  /\ Go(g, "probing")
  /\ SaveStatus(g, "running")

\* Mistake: whatever the probe returns is taken for its completion.
AcceptedAny(result) == TRUE

\* The probe has returned the state that completes this controller's mode.
Accepted(result) == result = "complete"

\* The probe runs to its end, is interrupted, or has a failure to persist.
Probed(g) ==
  /\ At(g, "probing")
  /\ \E result \in {"complete", "other"} :
       /\ IF Accepted(result) THEN Go(g, "complete")
                              ELSE GoWith(g, "failing", "dispatch_uncertain")
       /\ done' = IF result = "complete" THEN done \cup {flight[g].on} ELSE done
  /\ UNCHANGED <<storageVars, packageVars, inFlight, attempts, inspections>>

ProbeStopped(g) ==
  /\ At(g, "probing")
  /\ \/ \E code \in Codes \ {"probe_failed"} : GoWith(g, "failing", code)
     \/ "probe_failed" \in Codes /\ Go(g, "receipt")
  /\ UNCHANGED <<storageVars, packageVars, inFlight, historyVars>>

\* Mistake: the failure is sent without having been saved.
PersistFailureLater(g) ==
  /\ At(g, "receipt")
  /\ GoWith(g, "failing", "probe_failed") \/ GoWith(g, "failing", "dispatch_uncertain")
  /\ UNCHANGED <<storageVars, packageVars, inFlight, historyVars>>

\* persistFailure, and then the host's acknowledgement arrives or does not.
PersistFailure(g) ==
  /\ At(g, "receipt")
  /\ GoWith(g, "failing", "probe_failed") \/ GoWith(g, "failing", "dispatch_uncertain")
  /\ pending' = [pending EXCEPT ![flight[g].on] = TRUE]
  /\ UNCHANGED <<fence, status, diagnosis, document, packageVars, inFlight, historyVars>>

AnnounceComplete(g) ==
  /\ At(g, "complete")
  /\ Go(g, "seal")
  /\ SaveStatus(g, "complete")

SealFence(g) ==
  /\ At(g, "seal")
  /\ Go(g, "release")
  /\ SaveFence(g, Fence("complete", "complete"))

AnnounceFailure(g) ==
  /\ At(g, "failing")
  /\ Go(g, "lock")
  /\ SaveStatus(g, ErrorState(flight[g].code))

\* Mistake: a failed attempt gives its fence back.
UnlockFence(g) ==
  /\ At(g, "lock")
  /\ Go(g, "release")
  /\ SaveFence(g, Null)

LockFence(g) ==
  /\ At(g, "lock")
  /\ Go(g, "release")
  /\ SaveFence(g, Fence(ErrorState(flight[g].code), flight[g].code))

-----------------------------------------------------------------------------
(* diagnoseStartup and checkConnection *)

StartDiagnosis(g) ==
  /\ TakeOff(g, "diagnosis", "check")
  /\ UNCHANGED <<storageVars, packageVars, historyVars>>

CheckReadiness(g) ==
  /\ At(g, "check")
  /\ Go(g, "release") \/ (Diagnosable /\ Go(g, "mark"))
  /\ UNCHANGED <<storageVars, packageVars, inFlight, historyVars>>

SaveDiagnosis(d) ==
  /\ diagnosis' = [diagnosis EXCEPT ![revision] = d]
  /\ UNCHANGED <<fence, status, pending, document, packageVars, inFlight, historyVars>>

MarkDiagnosis(g) ==
  /\ At(g, "mark")
  /\ Go(g, "inspect")
  /\ SaveDiagnosis(Fence("starting", "none"))

\* The bridge writes its document record before it opens the page, if it can.
Inspect(g) ==
  /\ At(g, "inspect")
  /\ Go(g, "inspecting")
  /\ \E written \in BOOLEAN : document' = [document EXCEPT ![revision] = written]
  /\ inspections' = [inspections EXCEPT ![revision] = @ + 1]
  /\ UNCHANGED <<fence, status, pending, diagnosis, packageVars, inFlight, attempts, done>>

Inspected(g) ==
  /\ At(g, "inspecting")
  /\ \E outcome \in (Codes \ {"probe_failed"}) \cup {"startup_complete"} :
       GoWith(g, "conclude", outcome)
  /\ UNCHANGED <<storageVars, packageVars, inFlight, historyVars>>

DiagnosedState(outcome) ==
  IF outcome = "startup_complete" THEN "passed" ELSE ErrorState(outcome)

ConcludeDiagnosis(g) ==
  /\ At(g, "conclude")
  /\ Go(g, "release")
  /\ SaveDiagnosis(Fence(DiagnosedState(flight[g].code), flight[g].code))

StartConnection(g) ==
  /\ TakeOff(g, "connection", "connect")
  /\ UNCHANGED <<storageVars, packageVars, historyVars>>

\* get_status is answered, refused or timed out; nothing is kept of it.
ConnectionChecked(g) ==
  /\ At(g, "connect")
  /\ Go(g, "release")
  /\ UNCHANGED <<storageVars, packageVars, inFlight, historyVars>>

-----------------------------------------------------------------------------
(* The browser *)

\* The worker is killed or its extension is reloaded, with the same package or with
\* another one; the next message starts it again.
Reload ==
  /\ flight' = [g \in Gestures |-> Idle]
  /\ inFlight' = FALSE
  /\ setup' \in [Controllers -> Setups]
  /\ revision' \in Revisions \cup {0}
  /\ UNCHANGED <<storageVars, historyVars>>

-----------------------------------------------------------------------------

Init ==
  /\ fence = [c \in Controllers |-> Null]
  /\ status = [c \in Controllers |-> Null]
  /\ pending = [c \in Controllers |-> FALSE]
  /\ diagnosis = [r \in Revisions |-> Null]
  /\ document = [r \in Revisions |-> FALSE]
  /\ setup \in [Controllers -> Setups]
  /\ revision \in Revisions \cup {0}
  /\ inFlight = FALSE
  /\ flight = [g \in Gestures |-> Idle]
  /\ attempts = [c \in Controllers |-> 0]
  /\ inspections = [r \in Revisions |-> 0]
  /\ done = {}

RunStep(g) ==
  \/ ReadValues(g) \/ ReportUnready(g) \/ WriteFence(g) \/ AnnounceStart(g) \/ Open(g)
  \/ Opened(g) \/ AnnounceRunning(g) \/ Probed(g) \/ ProbeStopped(g) \/ PersistFailure(g)
  \/ AnnounceComplete(g) \/ SealFence(g) \/ AnnounceFailure(g) \/ LockFence(g)

DiagnosisStep(g) ==
  CheckReadiness(g) \/ MarkDiagnosis(g) \/ Inspect(g) \/ Inspected(g) \/ ConcludeDiagnosis(g)

\* A flight under way goes on: each call it awaits is answered or times out.
Advance(g) ==
  RunStep(g) \/ DiagnosisStep(g) \/ ConnectionChecked(g) \/ StorageFails(g) \/ Land(g)

Gesture(g) ==
  (\E c \in Controllers : StartRun(g, c)) \/ StartDiagnosis(g) \/ StartConnection(g)

Next == Reload \/ \E g \in Gestures : Gesture(g) \/ Advance(g)

Spec == Init /\ [][Next]_vars

\* Only the flights under way are fair; gestures and reloads may never come.
FairSpec == Spec /\ \A g \in Gestures : WF_vars(Advance(g))

-----------------------------------------------------------------------------
(* Properties *)

\* Each controller opens its page or collector at most once, over every gesture,
\* rejected storage call and restart of the worker.
OneAttempt == \A c \in Controllers : attempts[c] <= 1

\* After an attempt the popup is never told that a controller is ready.
NeverReadyAgain == \A c \in Controllers : attempts[c] > 0 => Displayed(c) # "ready"

\* Only a probe that ran to its end is recorded or displayed as complete.
CompletionWitnessed ==
  \A c \in Controllers :
    (fence[c] # Null /\ fence[c].state = "complete") \/ Displayed(c) = "complete"
      => c \in done

\* A failure the user is told of has its receipt saved for reconciliation.
FailureRecorded ==
  \A c \in Controllers : fence[c] # Null /\ fence[c].state = "failed" => pending[c]

\* Each revision inspects one page at most, and the second one only after the
\* first has ended with the result the second was approved for.
DiagnosedInOrder ==
  /\ \A r \in Revisions : inspections[r] <= 1
  /\ inspections[2] > 0 => inspections[1] = 1 /\ Unresolved

\* The in-flight mark does not stay: every flight lands, whatever fails.
FlightsLand == inFlight ~> ~inFlight

\* The record of an attempt that has ended stays as it is.
FinalFence ==
  [][\A c \in Controllers :
       fence[c] # Null /\ fence[c].state # "starting" => fence'[c] = fence[c]]_vars

\* What is left of that: no fence is ever lifted, and the record of an attempt that has
\* ended gives way to none but the one that leaves open what became of it.
OnlyDoubtReplaces ==
  [][\A c \in Controllers :
       fence[c] # Null =>
         /\ fence'[c] # Null
         /\ fence[c].state # "starting" =>
              fence'[c] \in {fence[c], Fence("uncertain", "dispatch_uncertain")}]_vars

\* A diagnosis that has been concluded stays as it is, also over gestures and reloads.
DiagnosisStays ==
  [][\A r \in Revisions :
       diagnosis[r] # Null /\ diagnosis[r].state # "starting" => diagnosis'[r] = diagnosis[r]]_vars
=============================================================================
