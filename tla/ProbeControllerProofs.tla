---------------------- MODULE ProbeControllerProofs ----------------------
(***************************************************************************)
(* The one attempt of each controller and the two startup diagnoses, for   *)
(* any number of controllers, gestures and error codes; and how long their *)
(* records last.                                                           *)
(***************************************************************************)
EXTENDS ProbeController, TLAPS

\* One flight at a time, and only with the mark set.
Exclusive ==
  /\ \A g \in Gestures : ~At(g, "idle") => inFlight
  /\ \A g, h \in Gestures : ~At(g, "idle") /\ ~At(h, "idle") => g = h

\* What a flight knows from its earlier steps, as long as nobody else flies.
FlightSound(g) ==
  LET at == flight[g].at
      c == flight[g].on
  IN /\ at \in RunSteps => c \in Controllers
     /\ at = "fence" => attempts[c] = 0
     /\ at \in {"announce", "open"} => attempts[c] = 0 /\ fence[c] # Null
     /\ at \in {"complete", "seal"} => c \in done
     /\ at = "receipt" => "probe_failed" \in Codes
     /\ at \in {"failing", "lock"} =>
          flight[g].code \in Codes /\ (flight[g].code = "probe_failed" => pending[c])
     /\ at = "conclude" => flight[g].code \in (Codes \ {"probe_failed"}) \cup {"startup_complete"}
     /\ at \in DiagnosisSteps \ {"check"} =>
          revision \in Revisions /\ (revision = 2 => Unresolved)
     /\ at = "mark" => diagnosis[revision] = Null
     /\ at = "inspect" => inspections[revision] = 0
     /\ at \in {"inspecting", "conclude"} => inspections[revision] = 1
     /\ at \in {"inspect", "inspecting", "conclude"} =>
          diagnosis[revision] = Fence("starting", "none")

\* What the storage proves about the past.
RunsSound ==
  \A c \in Controllers :
    /\ attempts[c] <= 1
    /\ attempts[c] > 0 => fence[c] # Null
    /\ fence[c] # Null /\ fence[c].state = "complete" => c \in done
    /\ fence[c] # Null /\ fence[c].state = "failed" => pending[c]

DiagnosesSound ==
  /\ \A r \in Revisions :
       /\ inspections[r] <= 1
       /\ inspections[r] > 0 => diagnosis[r] # Null
       /\ diagnosis[r] # Null /\ diagnosis[r].state # "starting" => inspections[r] = 1
  /\ inspections[2] > 0 => Unresolved

ControlInv ==
  /\ TypeOK /\ Exclusive /\ RunsSound /\ DiagnosesSound
  /\ \A g \in Gestures : FlightSound(g)

-----------------------------------------------------------------------------
(* Types *)

\* An error code leaves a fence and a status that are known.
LEMMA ErrorTypes ==
  ASSUME NEW code \in Codes \cup {"none", "startup_complete"}
  PROVE  ErrorState(code) \in {"blocked", "failed", "uncertain"}
BY DEF ErrorState

\* A route leads to a step.
LEMMA RouteTypes ==
  ASSUME TypeOK, NEW c \in Controllers
  PROVE  Route(c) \in {"report", "release", "fence"}
BY DEF TypeOK, Route, Setups

\* A fence, a diagnosis or a status that is written is of its type.
LEMMA WriteTypes ==
  ASSUME TypeOK, NEW g \in Gestures
  PROVE  /\ \A s \in Statuses : SaveStatus(g, s) => status' \in [Controllers -> Statuses \cup {Null}]
         /\ \A f \in Fences : SaveFence(g, f) => fence' \in [Controllers -> Fences \cup {Null}]
         /\ \A d \in Diagnoses : SaveDiagnosis(d) => diagnosis' \in [Revisions -> Diagnoses \cup {Null}]
BY DEF TypeOK, SaveStatus, SaveFence, SaveDiagnosis

-----------------------------------------------------------------------------
(* Steps *)

\* Whoever flies is alone, and stays alone when its flight goes on.
LEMMA Alone ==
  ASSUME ControlInv, NEW g \in Gestures, ~At(g, "idle"),
         \A h \in Gestures \ {g} : flight'[h] = flight[h]
  PROVE  /\ inFlight
         /\ \A h \in Gestures \ {g} : flight'[h].at = "idle"
         /\ \A h, k \in Gestures : flight'[h].at # "idle" /\ flight'[k].at # "idle" => h = k
BY DEF ControlInv, TypeOK, Exclusive, At

\* A flight that goes on keeps the invariant if it stays sound and leaves the
\* storage so: an idle flight is sound whatever the storage holds.
LEMMA Advanced ==
  ASSUME ControlInv, NEW g \in Gestures, ~At(g, "idle"),
         \A h \in Gestures \ {g} : flight'[h] = flight[h], UNCHANGED inFlight,
         TypeOK', FlightSound(g)', RunsSound', DiagnosesSound'
  PROVE  ControlInv'
<1>1. \A h \in Gestures \ {g} : FlightSound(h)'
  BY Alone DEF FlightSound, RunSteps, DiagnosisSteps
<1>2. Exclusive'
  BY Alone DEF Exclusive, At
<1> QED
  BY <1>1, <1>2 DEF ControlInv

\* Going on to a step changes nothing else of the flight, and no other flight.
LEMMA Going ==
  ASSUME TypeOK, NEW g \in Gestures, NEW step \in Steps, Go(g, step)
  PROVE  /\ flight' \in [Gestures -> Flights]
         /\ \A h \in Gestures \ {g} : flight'[h] = flight[h]
         /\ flight'[g].at = step /\ flight'[g].on = flight[g].on
         /\ flight'[g].code = flight[g].code
BY DEF TypeOK, Go, Flights

\* The same for going on with an error code or an outcome.
LEMMA GoingWith ==
  ASSUME TypeOK, NEW g \in Gestures, NEW step \in Steps,
         NEW code \in Codes \cup {"none", "startup_complete"}, GoWith(g, step, code)
  PROVE  /\ flight' \in [Gestures -> Flights]
         /\ \A h \in Gestures \ {g} : flight'[h] = flight[h]
         /\ flight'[g].at = step /\ flight'[g].on = flight[g].on
         /\ flight'[g].code = code
BY DEF TypeOK, GoWith, Flights

\* A step that only moves the flight, or only reads.
LEMMA OnlyFlies ==
  ASSUME ControlInv, UNCHANGED <<storageVars, packageVars, historyVars>>
  PROVE  /\ RunsSound' /\ DiagnosesSound'
         /\ TypeOK' <=> flight' \in [Gestures -> Flights] /\ inFlight' \in BOOLEAN
BY DEF ControlInv, RunsSound, DiagnosesSound, Unresolved, TypeOK, storageVars, packageVars,
       historyVars

\* A step of a flight that writes nothing keeps the invariant when the flight stays sound.
LEMMA FliesOn ==
  ASSUME ControlInv, NEW g \in Gestures, ~At(g, "idle"),
         UNCHANGED <<storageVars, packageVars, inFlight, historyVars>>,
         flight' \in [Gestures -> Flights],
         \A h \in Gestures \ {g} : flight'[h] = flight[h],
         FlightSound(g)'
  PROVE  ControlInv'
<1>1. RunsSound' /\ DiagnosesSound' /\ TypeOK'
  BY OnlyFlies DEF ControlInv, TypeOK
<1> QED
  BY <1>1, Advanced

\* The steps of a run that read the storage, or end because it fails.
LEMMA ReadsKeep ==
  ASSUME ControlInv, NEW g \in Gestures, ReadValues(g) \/ StorageFails(g)
  PROVE  ControlInv'
<1> USE DEF RunSteps, DiagnosisSteps, Steps
<1>0. TypeOK /\ FlightSound(g) /\ "dispatch_uncertain" \in Codes
  BY ControllerAssumption DEF ControlInv
<1>1. CASE ReadValues(g)
  <2>1. flight[g].on \in Controllers
    BY <1>0, <1>1 DEF ReadValues, At, FlightSound
  <2>2. PICK step \in {"report", "release", "fence"} :
           Go(g, step) /\ (step = "fence" => step = Route(flight[g].on))
    BY <1>0, <1>1, <2>1, RouteTypes DEF ReadValues
  <2>3. step = "fence" => fence[flight[g].on] = Null
    BY <1>0, <2>1, <2>2 DEF Route, TypeOK, Setups
  <2>4. FlightSound(g)'
    BY <1>0, <1>1, <2>1, <2>2, <2>3, Going
    DEF FlightSound, ReadValues, ControlInv, RunsSound, TypeOK, storageVars, historyVars
  <2> QED
    BY <1>0, <1>1, <2>2, <2>4, Going, FliesOn DEF ReadValues, At
<1>2. CASE StorageFails(g)
  <2>1. CASE /\ flight[g].at \in {"report", "fence", "announce", "running", "receipt",
                                  "complete", "seal"}
             /\ GoWith(g, "failing", "dispatch_uncertain")
    <3>1. FlightSound(g)'
      BY <1>0, <2>1, GoingWith DEF FlightSound
    <3> QED
      BY <1>0, <1>2, <2>1, <3>1, GoingWith, FliesOn DEF StorageFails, At
  <2>2. CASE flight[g].at \in {"failing", "lock", "mark", "conclude"} /\ Go(g, "release")
    <3>1. FlightSound(g)'
      BY <1>0, <2>2, Going DEF FlightSound
    <3> QED
      BY <1>0, <1>2, <2>2, <3>1, Going, FliesOn DEF StorageFails, At
  <2> QED
    BY <1>2, <2>1, <2>2 DEF StorageFails
<1> QED
  BY <1>1, <1>2

\* What the page, the collector, the probe and the native host answer.
LEMMA AnswersKeep ==
  ASSUME ControlInv, NEW g \in Gestures,
         Opened(g) \/ ProbeStopped(g) \/ Inspected(g) \/ ConnectionChecked(g)
  PROVE  ControlInv'
<1> USE DEF RunSteps, DiagnosisSteps, Steps
<1>0. TypeOK /\ FlightSound(g)
  BY DEF ControlInv
<1>1. /\ ~At(g, "idle")
      /\ UNCHANGED <<storageVars, packageVars, inFlight, historyVars>>
  BY DEF Opened, ProbeStopped, Inspected, ConnectionChecked, At
<1>2. CASE \/ Opened(g) /\ Go(g, "running")
           \/ ProbeStopped(g) /\ "probe_failed" \in Codes /\ Go(g, "receipt")
           \/ ConnectionChecked(g)
  <2>1. PICK step \in {"running", "receipt", "release"} :
           /\ Go(g, step) /\ (step # "release" => flight[g].at \in RunSteps)
           /\ step = "receipt" => "probe_failed" \in Codes
    BY <1>2 DEF Opened, ProbeStopped, ConnectionChecked, At
  <2>2. FlightSound(g)'
    BY <1>0, <2>1, Going DEF FlightSound
  <2> QED
    BY <1>0, <1>1, <2>1, <2>2, Going, FliesOn
<1>3. CASE \E code \in Codes \ {"probe_failed"} :
             GoWith(g, "failing", code) /\ (Opened(g) \/ ProbeStopped(g))
  <2>1. PICK code \in Codes \ {"probe_failed"} : GoWith(g, "failing", code)
    BY <1>3
  <2>2. flight[g].on \in Controllers
    BY <1>0, <1>3 DEF FlightSound, Opened, ProbeStopped, At
  <2>3. FlightSound(g)'
    BY <1>0, <2>1, <2>2, GoingWith DEF FlightSound
  <2> QED
    BY <1>0, <1>1, <2>1, <2>3, GoingWith, FliesOn
<1>4. CASE Inspected(g)
  <2>1. PICK code \in Codes \cup {"none", "startup_complete"} : GoWith(g, "conclude", code)
    BY <1>4 DEF Inspected
  <2>2. FlightSound(g)'
    BY <1>0, <1>1, <1>4, <2>1, GoingWith
    DEF FlightSound, Inspected, At, Unresolved, storageVars, packageVars, historyVars
  <2> QED
    BY <1>0, <1>1, <2>1, <2>2, GoingWith, FliesOn
<1> QED
  BY <1>2, <1>3, <1>4 DEF Opened, ProbeStopped

\* A status says what the run does or how it ended; nothing else rests on it.
LEMMA StatusKeeps ==
  ASSUME ControlInv, NEW g \in Gestures, NEW step \in Steps, NEW state \in Statuses,
         ~At(g, "idle"), Go(g, step), SaveStatus(g, state), FlightSound(g)'
  PROVE  ControlInv'
<1>1. TypeOK'
  BY Going, WriteTypes DEF ControlInv, TypeOK, SaveStatus, packageVars, historyVars
<1>2. RunsSound' /\ DiagnosesSound'
  BY DEF ControlInv, SaveStatus, RunsSound, DiagnosesSound, Unresolved, historyVars
<1> QED
  BY <1>1, <1>2, Going, Advanced DEF ControlInv, SaveStatus

\* The steps that announce something in the status record.
LEMMA AnnouncementsKeep ==
  ASSUME ControlInv, NEW g \in Gestures,
         \/ ReportUnready(g) \/ AnnounceStart(g) \/ AnnounceRunning(g)
         \/ AnnounceComplete(g) \/ AnnounceFailure(g)
  PROVE  ControlInv'
<1> USE DEF RunSteps, DiagnosisSteps, Steps
<1>0. TypeOK /\ FlightSound(g) /\ flight[g] \in Flights
  BY DEF ControlInv, TypeOK
<1>1. PICK step \in {"release", "open", "probing", "seal", "lock"}, state \in Statuses :
        /\ Go(g, step) /\ SaveStatus(g, state)
        /\ step = "open" => At(g, "announce")
        /\ step = "seal" => At(g, "complete")
        /\ step = "lock" => At(g, "failing")
        /\ step = "probing" => At(g, "running")
  <2>1. CASE ReportUnready(g)
    BY <2>1 DEF ReportUnready, Statuses
  <2>2. CASE AnnounceStart(g)
    BY <2>2 DEF AnnounceStart, Statuses
  <2>3. CASE AnnounceRunning(g)
    BY <2>3 DEF AnnounceRunning, Statuses
  <2>4. CASE AnnounceComplete(g)
    BY <2>4 DEF AnnounceComplete, Statuses
  <2>5. CASE AnnounceFailure(g)
    <3>1. flight[g].code \in Codes \cup {"none", "startup_complete"}
      BY <1>0 DEF Flights
    <3>2. ErrorState(flight[g].code) \in Statuses
      BY <3>1, ErrorTypes DEF Statuses
    <3> QED
      BY <2>5, <3>2 DEF AnnounceFailure
  <2> QED
    BY <2>1, <2>2, <2>3, <2>4, <2>5
<1>2. ~At(g, "idle")
  BY DEF ReportUnready, AnnounceStart, AnnounceRunning, AnnounceComplete, AnnounceFailure, At
<1>3. FlightSound(g)'
  BY <1>0, <1>1, Going DEF FlightSound, SaveStatus, At, historyVars
<1> QED
  BY <1>1, <1>2, <1>3, StatusKeeps

\* A fence that is written never leaves its controller without one, and says
\* complete or failed only of a run that did or has its receipt saved.
LEMMA FencesKeep ==
  ASSUME ControlInv, NEW g \in Gestures, WriteFence(g) \/ SealFence(g) \/ LockFence(g)
  PROVE  ControlInv'
<1> USE DEF RunSteps, DiagnosisSteps, Steps
<1>0. TypeOK /\ FlightSound(g) /\ flight[g] \in Flights
  BY DEF ControlInv, TypeOK
<1>1. flight[g].on \in Controllers
  BY <1>0 DEF FlightSound, WriteFence, SealFence, LockFence, At
<1>2. PICK step \in {"announce", "release"}, f \in Fences :
        /\ Go(g, step) /\ SaveFence(g, f)
        /\ step = "announce" => At(g, "fence")
        /\ f.state = "complete" => At(g, "seal")
        /\ f.state = "failed" => At(g, "lock") /\ flight[g].code = "probe_failed"
  <2>1. CASE WriteFence(g)
    BY <2>1 DEF WriteFence, Fence, Fences
  <2>2. CASE SealFence(g)
    BY <2>2 DEF SealFence, Fence, Fences
  <2>3. CASE LockFence(g)
    <3> DEFINE state == ErrorState(flight[g].code)
    <3>1. state = "failed" => flight[g].code = "probe_failed"
      BY DEF ErrorState
    <3>2. flight[g].code \in Codes
      BY <1>0, <2>3 DEF FlightSound, LockFence, At
    <3>3. state \in {"blocked", "failed", "uncertain"}
      BY <3>2, ErrorTypes
    <3> HIDE DEF state
    <3>4. Fence(state, flight[g].code) \in Fences /\ Fence(state, flight[g].code).state = state
      BY <3>2, <3>3 DEF Fence, Fences
    <3>5. Go(g, "release") /\ SaveFence(g, Fence(state, flight[g].code)) /\ At(g, "lock")
      BY <2>3 DEF LockFence, state
    <3> QED
      BY <3>1, <3>3, <3>4, <3>5
  <2> QED
    BY <2>1, <2>2, <2>3
<1>3. TypeOK'
  BY <1>0, <1>2, Going, WriteTypes DEF TypeOK, SaveFence, packageVars, historyVars
<1>4. f # Null
  BY <1>2, NullIsNothing
<1>5. RunsSound'
  BY <1>0, <1>1, <1>2, <1>4 DEF ControlInv, TypeOK, RunsSound, SaveFence, FlightSound, At,
     historyVars
<1>6. DiagnosesSound'
  BY <1>2 DEF ControlInv, SaveFence, DiagnosesSound, Unresolved, historyVars
<1>7. FlightSound(g)'
  BY <1>0, <1>1, <1>2, <1>4, Going DEF FlightSound, SaveFence, At, TypeOK, historyVars
<1> QED
  BY <1>0, <1>2, <1>3, <1>5, <1>6, <1>7, Going, Advanced
  DEF WriteFence, SealFence, LockFence, At, SaveFence

\* The attempt and what the probe leaves behind.
LEMMA EffectsKeep ==
  ASSUME ControlInv, NEW g \in Gestures, Open(g) \/ Probed(g) \/ PersistFailure(g)
  PROVE  ControlInv'
<1> USE DEF RunSteps, DiagnosisSteps, Steps
<1>0. /\ TypeOK /\ FlightSound(g) /\ RunsSound /\ DiagnosesSound
      /\ flight[g].on \in Controllers
  BY DEF ControlInv, FlightSound, Open, Probed, PersistFailure, At
<1>1. CASE Open(g)
  <2>1. TypeOK'
    BY <1>0, <1>1, Going DEF TypeOK, Open, storageVars, packageVars
  <2>2. RunsSound'
    BY <1>0, <1>1 DEF RunsSound, TypeOK, Open, FlightSound, At, storageVars
  <2>3. DiagnosesSound' /\ FlightSound(g)'
    BY <1>0, <1>1, Going DEF DiagnosesSound, Unresolved, FlightSound, Open, storageVars
  <2> QED
    BY <1>0, <1>1, <2>1, <2>2, <2>3, Going, Advanced DEF Open, At
<1>2. CASE Probed(g)
  <2>1. PICK result \in {"complete", "other"} :
          /\ IF Accepted(result) THEN Go(g, "complete")
                                 ELSE GoWith(g, "failing", "dispatch_uncertain")
          /\ done' = IF result = "complete" THEN done \cup {flight[g].on} ELSE done
    BY <1>2 DEF Probed
  <2>2. CASE Accepted(result)
    <3>1. Go(g, "complete") /\ done' = done \cup {flight[g].on}
      BY <2>1, <2>2 DEF Accepted
    <3>2. TypeOK'
      BY <1>0, <1>2, <3>1, Going DEF TypeOK, Probed, storageVars, packageVars
    <3>3. RunsSound' /\ DiagnosesSound' /\ FlightSound(g)'
      BY <1>0, <1>2, <3>1, Going
      DEF RunsSound, DiagnosesSound, Unresolved, FlightSound, Probed, storageVars
    <3> QED
      BY <1>0, <1>2, <3>1, <3>2, <3>3, Going, Advanced DEF Probed, At
  <2>3. CASE ~Accepted(result)
    <3>1. GoWith(g, "failing", "dispatch_uncertain") /\ done' = done
      BY <2>1, <2>3 DEF Accepted
    <3>2. "dispatch_uncertain" \in Codes
      BY ControllerAssumption
    <3>3. TypeOK'
      BY <1>0, <1>2, <3>1, <3>2, GoingWith DEF TypeOK, Probed, storageVars, packageVars
    <3>4. RunsSound' /\ DiagnosesSound' /\ FlightSound(g)'
      BY <1>0, <1>2, <3>1, <3>2, GoingWith
      DEF RunsSound, DiagnosesSound, Unresolved, FlightSound, Probed, storageVars
    <3> QED
      BY <1>0, <1>2, <3>1, <3>2, <3>3, <3>4, GoingWith, Advanced DEF Probed, At
  <2> QED
    BY <2>2, <2>3
<1>3. CASE PersistFailure(g)
  <2>0. flight[g].at = "receipt"
    BY <1>3 DEF PersistFailure, At
  <2>1. PICK code \in {"probe_failed", "dispatch_uncertain"} : GoWith(g, "failing", code)
    BY <1>3 DEF PersistFailure
  <2>2. code \in Codes
    BY <1>0, <2>0, ControllerAssumption DEF FlightSound
  <2>3. TypeOK'
    BY <1>0, <1>3, <2>1, <2>2, GoingWith DEF TypeOK, PersistFailure, packageVars, historyVars
  <2>4. pending'[flight[g].on] /\ \A c \in Controllers : pending[c] => pending'[c]
    BY <1>0, <1>3 DEF PersistFailure, TypeOK
  <2>5. RunsSound' /\ DiagnosesSound'
    BY <1>0, <1>3, <2>4
    DEF RunsSound, DiagnosesSound, Unresolved, PersistFailure, historyVars
  <2>6. FlightSound(g)'
    BY <1>0, <2>1, <2>2, <2>4, GoingWith DEF FlightSound
  <2> QED
    BY <1>0, <1>3, <2>0, <2>1, <2>2, <2>3, <2>5, <2>6, GoingWith, Advanced
    DEF PersistFailure, At
<1> QED
  BY <1>1, <1>2, <1>3

\* The two fences of the diagnostic: the mark before the page, the result after it.
LEMMA DiagnosesKeep ==
  ASSUME ControlInv, NEW g \in Gestures,
         CheckReadiness(g) \/ MarkDiagnosis(g) \/ Inspect(g) \/ ConcludeDiagnosis(g)
  PROVE  ControlInv'
<1> USE DEF RunSteps, DiagnosisSteps, Steps
<1>0. /\ TypeOK /\ FlightSound(g) /\ RunsSound /\ DiagnosesSound /\ ~At(g, "idle")
      /\ flight[g] \in Flights
  BY DEF ControlInv, TypeOK, CheckReadiness, MarkDiagnosis, Inspect, ConcludeDiagnosis, At
<1>1. CASE CheckReadiness(g)
  <2>1. PICK step \in {"release", "mark"} : Go(g, step) /\ (step = "mark" => Diagnosable)
    BY <1>1 DEF CheckReadiness
  <2>2. step = "mark" =>
          revision \in Revisions /\ (revision = 2 => Unresolved) /\ diagnosis[revision] = Null
    BY <1>0, <2>1 DEF Diagnosable, TypeOK, Revisions
  <2>3. FlightSound(g)'
    BY <1>0, <1>1, <2>1, <2>2, Going
    DEF FlightSound, CheckReadiness, Unresolved, storageVars, packageVars
  <2> QED
    BY <1>0, <1>1, <2>1, <2>3, Going, FliesOn DEF CheckReadiness
<1>2. CASE MarkDiagnosis(g)
  <2> DEFINE d == Fence("starting", "none")
  <2>1. /\ Go(g, "inspect") /\ SaveDiagnosis(d) /\ revision \in Revisions
        /\ diagnosis[revision] = Null /\ (revision = 2 => Unresolved)
    BY <1>0, <1>2 DEF MarkDiagnosis, FlightSound, At
  <2>2. d \in Diagnoses /\ d # Null /\ d.state = "starting"
    BY NullIsNothing DEF Fence, Diagnoses
  <2> HIDE DEF d
  <2>3. inspections[revision] = 0
    BY <1>0, <2>1 DEF DiagnosesSound, TypeOK
  <2>4. Unresolved => Unresolved'
    <3>1. Unresolved /\ revision = 1 => FALSE
      <4>1. Fence("blocked", "page_initialization_failed") # Null
        BY ControllerAssumption, NullIsNothing DEF Fence, Fences
      <4> QED
        BY <2>1, <4>1 DEF Unresolved
    <3> QED
      BY <1>0, <2>1, <3>1 DEF Unresolved, SaveDiagnosis, TypeOK, Revisions
  <2>5. TypeOK'
    BY <1>0, <2>1, <2>2, Going, WriteTypes DEF TypeOK, SaveDiagnosis, packageVars, historyVars
  <2>6. RunsSound'
    BY <1>0, <2>1 DEF RunsSound, SaveDiagnosis, historyVars
  <2>7. DiagnosesSound'
    BY <1>0, <2>1, <2>2, <2>3, <2>4 DEF DiagnosesSound, TypeOK, SaveDiagnosis, historyVars
  <2>8. diagnosis'[revision] = d
    BY <1>0, <2>1 DEF SaveDiagnosis, TypeOK
  <2>9. FlightSound(g)'
    BY <1>0, <2>1, <2>3, <2>4, <2>8, Going
    DEF FlightSound, SaveDiagnosis, packageVars, historyVars, d
  <2> QED
    BY <1>0, <2>1, <2>5, <2>6, <2>7, <2>9, Going, Advanced DEF SaveDiagnosis
<1>3. CASE Inspect(g)
  <2>1. /\ Go(g, "inspecting") /\ revision \in Revisions /\ inspections[revision] = 0
        /\ diagnosis[revision] = Fence("starting", "none") /\ (revision = 2 => Unresolved)
    BY <1>0, <1>3 DEF Inspect, FlightSound, At
  <2>2. diagnosis[revision] # Null /\ diagnosis[revision].state = "starting"
    BY <2>1, NullIsNothing DEF Fence, Diagnoses
  <2>3. TypeOK'
    BY <1>0, <1>3, <2>1, Going DEF TypeOK, Inspect, packageVars
  <2>4. RunsSound'
    BY <1>0, <1>3 DEF RunsSound, Inspect
  <2>5. DiagnosesSound'
    BY <1>0, <1>3, <2>1, <2>2 DEF DiagnosesSound, Unresolved, TypeOK, Inspect, Revisions
  <2>6. FlightSound(g)'
    BY <1>0, <1>3, <2>1, Going DEF FlightSound, TypeOK, Inspect, Unresolved, packageVars
  <2> QED
    BY <1>0, <1>3, <2>1, <2>3, <2>4, <2>5, <2>6, Going, Advanced DEF Inspect
<1>4. CASE ConcludeDiagnosis(g)
  <2> DEFINE outcome == flight[g].code
             d == Fence(DiagnosedState(outcome), outcome)
  <2>1. /\ Go(g, "release") /\ SaveDiagnosis(d) /\ revision \in Revisions
        /\ inspections[revision] = 1 /\ diagnosis[revision] = Fence("starting", "none")
    BY <1>0, <1>4 DEF ConcludeDiagnosis, FlightSound, At
  <2>2. outcome \in (Codes \ {"probe_failed"}) \cup {"startup_complete"}
    BY <1>0, <1>4 DEF ConcludeDiagnosis, FlightSound, At
  <2>3. DiagnosedState(outcome) \in {"passed", "blocked", "uncertain"}
    BY <2>2 DEF DiagnosedState, ErrorState
  <2>4. d \in Diagnoses /\ d # Null
    <3>1. d \in Diagnoses
      BY <2>2, <2>3 DEF Fence, Diagnoses
    <3> QED
      BY <3>1, NullIsNothing
  <2> HIDE DEF d, outcome
  <2>5. Unresolved /\ revision = 1 => FALSE
    <3>1. Fence("blocked", "page_initialization_failed") # Fence("starting", "none")
      BY DEF Fence
    <3> QED
      BY <2>1, <3>1 DEF Unresolved
  <2>6. Unresolved => Unresolved'
    BY <1>0, <2>1, <2>5 DEF Unresolved, SaveDiagnosis, TypeOK, Revisions
  <2>7. TypeOK'
    BY <1>0, <2>1, <2>4, Going, WriteTypes DEF TypeOK, SaveDiagnosis, packageVars, historyVars
  <2>8. RunsSound'
    BY <1>0, <2>1 DEF RunsSound, SaveDiagnosis, historyVars
  <2>9. DiagnosesSound'
    BY <1>0, <2>1, <2>4, <2>6 DEF DiagnosesSound, TypeOK, SaveDiagnosis, historyVars
  <2>10. FlightSound(g)'
    BY <2>1, <1>0, Going DEF FlightSound
  <2> QED
    BY <1>0, <2>1, <2>7, <2>8, <2>9, <2>10, Going, Advanced DEF SaveDiagnosis
<1> QED
  BY <1>1, <1>2, <1>3, <1>4

\* A flight that starts is the only one.
LEMMA StartsKeep ==
  ASSUME ControlInv, NEW g \in Gestures, Gesture(g)
  PROVE  ControlInv'
<1>1. PICK on \in Controllers \cup {"diagnosis", "connection"},
           step \in {"read", "check", "connect"} :
        /\ TakeOff(g, on, step) /\ (step = "read" => on \in Controllers)
        /\ UNCHANGED <<storageVars, packageVars, historyVars>>
  BY DEF Gesture, StartRun, StartDiagnosis, StartConnection
<1>2. [on |-> on, at |-> step, code |-> "none"] \in Flights
  BY DEF Flights, Steps, RunSteps, DiagnosisSteps
<1>3. /\ flight' \in [Gestures -> Flights] /\ inFlight' = TRUE
      /\ \A h \in Gestures \ {g} : flight'[h] = flight[h] /\ flight[h].at = "idle"
      /\ flight'[g].at = step /\ flight'[g].on = on
  BY <1>1, <1>2 DEF TakeOff, ControlInv, TypeOK, Exclusive, At
<1>4. TypeOK' /\ RunsSound' /\ DiagnosesSound'
  BY <1>1, <1>3, OnlyFlies
<1>5. Exclusive'
  BY <1>3 DEF Exclusive, At
<1>6. \A h \in Gestures : FlightSound(h)'
  BY <1>1, <1>3 DEF FlightSound, RunSteps, DiagnosisSteps
<1> QED
  BY <1>4, <1>5, <1>6 DEF ControlInv

\* A flight that lands leaves none, and so does a worker that is killed.
LEMMA EndsKeep ==
  ASSUME ControlInv, Reload \/ \E g \in Gestures : Land(g)
  PROVE  ControlInv'
<1>0. Idle \in Flights /\ Idle.at = "idle"
  BY DEF Idle, Flights, Steps
<1>1. /\ flight' \in [Gestures -> Flights] /\ inFlight' = FALSE
      /\ \A g \in Gestures : flight'[g].at = "idle"
  <2>1. CASE Reload
    BY <1>0, <2>1 DEF Reload
  <2>2. ASSUME NEW g \in Gestures, Land(g)
        PROVE  /\ flight' \in [Gestures -> Flights] /\ inFlight' = FALSE
               /\ \A h \in Gestures : flight'[h].at = "idle"
    BY <1>0, <2>2 DEF Land, ControlInv, TypeOK, Exclusive, At
  <2> QED
    BY <2>1, <2>2
<1>2. /\ UNCHANGED <<storageVars, historyVars>>
      /\ setup' \in [Controllers -> Setups] /\ revision' \in Revisions \cup {0}
  BY DEF ControlInv, TypeOK, Reload, Land, packageVars
<1>3. TypeOK'
  BY <1>1, <1>2 DEF ControlInv, TypeOK, storageVars, historyVars
<1>4. RunsSound' /\ DiagnosesSound'
  BY <1>2 DEF ControlInv, RunsSound, DiagnosesSound, Unresolved, storageVars, historyVars
<1>5. Exclusive'
  BY <1>1 DEF Exclusive, At
<1>6. \A g \in Gestures : FlightSound(g)'
  BY <1>1 DEF FlightSound, RunSteps, DiagnosisSteps
<1> QED
  BY <1>3, <1>4, <1>5, <1>6 DEF ControlInv

-----------------------------------------------------------------------------
(* The invariant *)

\* A fresh profile has nothing stored and nothing under way.
LEMMA InitControl == Init => ControlInv
<1> SUFFICES ASSUME Init PROVE ControlInv
  OBVIOUS
<1>1. Idle \in Flights /\ Idle.at = "idle"
  BY DEF Idle, Flights, Steps
<1>2. TypeOK
  BY <1>1 DEF Init, TypeOK
<1>3. Exclusive /\ \A g \in Gestures : FlightSound(g)
  BY <1>1 DEF Init, Exclusive, At, FlightSound, RunSteps, DiagnosisSteps
<1>4. RunsSound /\ DiagnosesSound
  BY DEF Init, RunsSound, DiagnosesSound, Revisions
<1> QED
  BY <1>2, <1>3, <1>4 DEF ControlInv

\* Every step keeps the invariant.
LEMMA StepControl == ControlInv /\ [Next]_vars => ControlInv'
<1> SUFFICES ASSUME ControlInv, [Next]_vars PROVE ControlInv'
  OBVIOUS
<1>1. CASE Reload
  BY <1>1, EndsKeep
<1>2. ASSUME NEW g \in Gestures, Gesture(g) PROVE ControlInv'
  BY <1>2, StartsKeep
<1>3. ASSUME NEW g \in Gestures, RunStep(g) PROVE ControlInv'
  BY <1>3, ReadsKeep, AnswersKeep, AnnouncementsKeep, FencesKeep, EffectsKeep DEF RunStep
<1>4. ASSUME NEW g \in Gestures, DiagnosisStep(g) PROVE ControlInv'
  BY <1>4, DiagnosesKeep, AnswersKeep DEF DiagnosisStep
<1>5. ASSUME NEW g \in Gestures, ConnectionChecked(g) \/ StorageFails(g) \/ Land(g)
      PROVE  ControlInv'
  BY <1>5, AnswersKeep, ReadsKeep, EndsKeep
<1>6. CASE UNCHANGED vars
  BY <1>6 DEF vars, storageVars, packageVars, historyVars, ControlInv, TypeOK, Exclusive, At,
     FlightSound, RunsSound, DiagnosesSound, Unresolved
<1> QED
  BY <1>1, <1>2, <1>3, <1>4, <1>5, <1>6 DEF Next, Advance

\* The invariant holds throughout.
LEMMA Controlled == Spec => []ControlInv
BY InitControl, StepControl, PTL DEF Spec

\* Every variable keeps its type.
THEOREM TypeCorrect == Spec => []TypeOK
BY Controlled, PTL DEF ControlInv

\* Each controller opens its page or collector at most once, over every gesture,
\* rejected storage call and restart of the worker: the fence is written first.
THEOREM OneAttemptHolds == Spec => []OneAttempt
<1>1. ControlInv => OneAttempt
  BY DEF ControlInv, RunsSound, OneAttempt
<1> QED
  BY <1>1, Controlled, PTL

\* After an attempt the popup is never told that a controller is ready.
THEOREM NeverReadyAgainHolds == Spec => []NeverReadyAgain
<1>1. ControlInv => NeverReadyAgain
  BY DEF ControlInv, TypeOK, RunsSound, NeverReadyAgain, Displayed, Fences
<1> QED
  BY <1>1, Controlled, PTL

\* Only a probe that ran to its end is recorded or displayed as complete.
THEOREM CompletionWitnessedHolds == Spec => []CompletionWitnessed
<1>1. ControlInv => CompletionWitnessed
  BY DEF ControlInv, TypeOK, RunsSound, CompletionWitnessed, Displayed, Unclean
<1> QED
  BY <1>1, Controlled, PTL

\* A failure the user is told of has its receipt saved for reconciliation.
THEOREM FailureRecordedHolds == Spec => []FailureRecorded
<1>1. ControlInv => FailureRecorded
  BY DEF ControlInv, RunsSound, FailureRecorded
<1> QED
  BY <1>1, Controlled, PTL

\* Each startup revision inspects one page at most, and the second only after the
\* first one's approved result, which then stays.
THEOREM DiagnosedInOrderHolds == Spec => []DiagnosedInOrder
<1>1. ASSUME ControlInv PROVE DiagnosedInOrder
  <2>1. \A r \in Revisions : inspections[r] <= 1
    BY <1>1 DEF ControlInv, DiagnosesSound
  <2>2. Unresolved => inspections[1] = 1
    <3>1. /\ Fence("blocked", "page_initialization_failed") # Null
          /\ Fence("blocked", "page_initialization_failed").state = "blocked"
      BY ControllerAssumption, NullIsNothing DEF Fence, Fences
    <3> QED
      BY <1>1, <3>1 DEF ControlInv, DiagnosesSound, Unresolved, Revisions
  <2> QED
    BY <1>1, <2>1, <2>2 DEF ControlInv, DiagnosesSound, DiagnosedInOrder
<1> QED
  BY <1>1, Controlled, PTL

-----------------------------------------------------------------------------
(* Records that stay *)

\* Steps of a run that has written its fence and not ended.
Owning == {"announce", "open", "opening", "running", "probing", "receipt", "complete", "seal"}

\* What a flight knows of its fence: there was none before, it is the one of this
\* attempt, or what will be written is that nothing is known.
FlightOwns(g) ==
  LET at == flight[g].at
      f == fence[flight[g].on]
  IN /\ at = "fence" => f = Null
     /\ at \in Owning => f # Null /\ f.state = "starting"
     /\ at \in {"failing", "lock"} =>
          flight[g].code = "dispatch_uncertain" \/ f = Null \/ f.state = "starting"

\* How one step may change the fences and the diagnoses.
RecordsStay ==
  /\ \A c \in Controllers :
       fence[c] # Null =>
         /\ fence'[c] # Null
         /\ fence[c].state # "starting" =>
              fence'[c] \in {fence[c], Fence("uncertain", "dispatch_uncertain")}
  /\ \A r \in Revisions :
       diagnosis[r] # Null /\ diagnosis[r].state # "starting" => diagnosis'[r] = diagnosis[r]

\* A step that writes neither a fence nor a diagnosis keeps every record.
LEMMA NothingWritten ==
  ASSUME UNCHANGED <<fence, diagnosis>>
  PROVE  RecordsStay
BY DEF RecordsStay

\* The steps of a run that write no fence.
LEMMA RunOwns ==
  ASSUME ControlInv, NEW g \in Gestures, FlightOwns(g),
         \/ ReadValues(g) \/ ReportUnready(g) \/ AnnounceStart(g) \/ Open(g)
         \/ Opened(g) \/ AnnounceRunning(g) \/ Probed(g) \/ ProbeStopped(g)
         \/ PersistFailure(g) \/ AnnounceComplete(g) \/ AnnounceFailure(g)
         \/ StorageFails(g)
  PROVE  FlightOwns(g)' /\ RecordsStay
<1>0. TypeOK /\ FlightSound(g) /\ flight[g] \in Flights
  BY DEF ControlInv, TypeOK
<1>1. UNCHANGED <<fence, diagnosis>>
  BY DEF ReadValues, ReportUnready, AnnounceStart, Open, Opened, AnnounceRunning, Probed,
     ProbeStopped, PersistFailure, AnnounceComplete, AnnounceFailure, StorageFails, SaveStatus,
     storageVars
<1>2. CASE ReadValues(g)
  <2>1. flight[g].on \in Controllers
    BY <1>0, <1>2 DEF ReadValues, At, FlightSound, RunSteps
  <2>2. PICK step \in {"report", "release", "fence"} :
           Go(g, step) /\ (step = "fence" => step = Route(flight[g].on))
    BY <1>0, <1>2, <2>1, RouteTypes DEF ReadValues
  <2>3. step = "fence" => fence[flight[g].on] = Null
    BY <1>0, <2>1, <2>2 DEF Route, TypeOK, Setups
  <2> QED
    BY <1>0, <1>1, <2>2, <2>3, Going, NothingWritten
    DEF FlightOwns, Owning, Steps, RunSteps, DiagnosisSteps
<1>3. CASE \E step \in {"release", "open", "opening", "running", "probing", "receipt", "complete",
                        "seal", "lock"} :
             /\ Go(g, step)
             /\ step \in Owning => flight[g].at \in Owning
             /\ step = "lock" => flight[g].at = "failing"
  BY <1>0, <1>1, <1>3, Going, NothingWritten
  DEF FlightOwns, Owning, Steps, RunSteps, DiagnosisSteps
<1>4. CASE \E code \in Codes :
             /\ GoWith(g, "failing", code)
             /\ code = "dispatch_uncertain" \/ flight[g].at \in Owning
  BY <1>0, <1>1, <1>4, GoingWith, NothingWritten
  DEF FlightOwns, Owning, Steps, RunSteps, DiagnosisSteps
<1>5. "dispatch_uncertain" \in Codes
  BY ControllerAssumption
<1>6. CASE PersistFailure(g)
  <2>1. PICK code \in {"probe_failed", "dispatch_uncertain"} : GoWith(g, "failing", code)
    BY <1>6 DEF PersistFailure
  <2>2. code \in Codes /\ flight[g].at \in Owning
    BY <1>0, <1>5, <1>6, <2>1 DEF PersistFailure, At, FlightSound, Owning
  <2> QED
    BY <1>4, <2>1, <2>2
<1>7. CASE Opened(g) \/ Probed(g) \/ ProbeStopped(g)
  BY <1>3, <1>4, <1>5, <1>7 DEF Opened, Probed, ProbeStopped, At, Owning
<1>8. CASE StorageFails(g)
  BY <1>3, <1>4, <1>5, <1>8 DEF StorageFails, Owning
<1>9. CASE \/ ReportUnready(g) \/ AnnounceStart(g) \/ Open(g) \/ AnnounceRunning(g)
           \/ AnnounceComplete(g) \/ AnnounceFailure(g)
  BY <1>3, <1>9 DEF ReportUnready, AnnounceStart, Open, AnnounceRunning, AnnounceComplete,
     AnnounceFailure, At, Owning
<1> QED
  BY <1>2, <1>6, <1>7, <1>8, <1>9

\* The three writes of a fence: the first where there was none, the others over the one
\* of this attempt, or with nothing known.
LEMMA FenceOwns ==
  ASSUME ControlInv, NEW g \in Gestures, FlightOwns(g),
         WriteFence(g) \/ SealFence(g) \/ LockFence(g)
  PROVE  FlightOwns(g)' /\ RecordsStay
<1> USE DEF Steps, RunSteps, DiagnosisSteps
<1>0. TypeOK /\ FlightSound(g) /\ flight[g] \in Flights
  BY DEF ControlInv, TypeOK
<1>1. flight[g].on \in Controllers
  BY <1>0 DEF FlightSound, WriteFence, SealFence, LockFence, At
<1>2. ASSUME NEW step \in {"announce", "release"}, NEW f \in Fences,
             Go(g, step), SaveFence(g, f), step = "announce" => f.state = "starting",
             \/ fence[flight[g].on] = Null \/ fence[flight[g].on].state = "starting"
             \/ f = Fence("uncertain", "dispatch_uncertain")
      PROVE  FlightOwns(g)' /\ RecordsStay
  <2>1. f # Null
    BY NullIsNothing
  <2>2. fence' = [fence EXCEPT ![flight[g].on] = f] /\ UNCHANGED diagnosis
    BY <1>2 DEF SaveFence
  <2>3. FlightOwns(g)'
    BY <1>0, <1>1, <1>2, <2>1, <2>2, Going DEF FlightOwns, Owning, TypeOK
  <2> QED
    BY <1>0, <1>1, <1>2, <2>1, <2>2, <2>3 DEF RecordsStay, TypeOK
<1>3. CASE WriteFence(g)
  <2>1. Fence("starting", "none") \in Fences /\ Fence("starting", "none").state = "starting"
    BY DEF Fence, Fences
  <2> QED
    BY <1>2, <1>3, <2>1 DEF WriteFence, FlightOwns, At
<1>4. CASE SealFence(g)
  <2>1. Fence("complete", "complete") \in Fences
    BY DEF Fence, Fences
  <2> QED
    BY <1>2, <1>4, <2>1 DEF SealFence, FlightOwns, At, Owning
<1>5. CASE LockFence(g)
  <2>1. flight[g].code \in Codes
    BY <1>0, <1>5 DEF FlightSound, LockFence, At
  <2>2. Fence(ErrorState(flight[g].code), flight[g].code) \in Fences
    BY <2>1, ErrorTypes DEF Fence, Fences
  <2>3. ErrorState("dispatch_uncertain") = "uncertain"
    BY ControllerAssumption DEF ErrorState
  <2> QED
    BY <1>2, <1>5, <2>2, <2>3 DEF LockFence, FlightOwns, At
<1> QED
  BY <1>3, <1>4, <1>5

\* A diagnosis is written where there was none, or over the one that was begun.
LEMMA DiagnosisOwns ==
  ASSUME ControlInv, NEW g \in Gestures, DiagnosisStep(g) \/ ConnectionChecked(g) \/ Land(g)
  PROVE  FlightOwns(g)' /\ RecordsStay
<1> USE DEF Steps, RunSteps, DiagnosisSteps
<1>0. TypeOK /\ FlightSound(g) /\ flight[g] \in Flights
  BY DEF ControlInv, TypeOK
<1>1. flight'[g].at \in DiagnosisSteps \cup {"idle", "release"}
  <2>1. CASE Land(g)
    BY <1>0, <2>1 DEF Land, Idle, TypeOK
  <2>2. ASSUME NEW step \in {"mark", "inspect", "inspecting", "conclude", "release"}, Go(g, step)
        PROVE  flight'[g].at = step
    BY <1>0, <2>2, Going
  <2>3. CASE Inspected(g)
    <3>1. PICK code \in Codes \cup {"none", "startup_complete"} : GoWith(g, "conclude", code)
      BY <2>3 DEF Inspected
    <3> QED
      BY <1>0, <3>1, GoingWith
  <2> QED
    BY <2>1, <2>2, <2>3 DEF DiagnosisStep, CheckReadiness, MarkDiagnosis, Inspect,
       ConcludeDiagnosis, ConnectionChecked
<1>2. FlightOwns(g)'
  BY <1>1 DEF FlightOwns, Owning
<1>3. CASE UNCHANGED <<fence, diagnosis>>
  BY <1>2, <1>3, NothingWritten
<1>4. CASE MarkDiagnosis(g) \/ ConcludeDiagnosis(g)
  <2>1. UNCHANGED fence /\ \A r \in Revisions \ {revision} : diagnosis'[r] = diagnosis[r]
    BY <1>0, <1>4 DEF MarkDiagnosis, ConcludeDiagnosis, SaveDiagnosis, TypeOK
  <2>2. diagnosis[revision] = Null \/ diagnosis[revision] = Fence("starting", "none")
    BY <1>0, <1>4 DEF MarkDiagnosis, ConcludeDiagnosis, FlightSound, At
  <2> QED
    BY <1>2, <2>1, <2>2 DEF RecordsStay, Fence
<1> QED
  BY <1>3, <1>4 DEF DiagnosisStep, CheckReadiness, Inspect, Inspected, ConnectionChecked, Land,
     storageVars

\* Every flight knows its fence, and every step keeps the records.
LEMMA StepOwns ==
  ASSUME ControlInv, \A g \in Gestures : FlightOwns(g), [Next]_vars
  PROVE  (\A g \in Gestures : FlightOwns(g)') /\ RecordsStay
<1>0. TypeOK
  BY DEF ControlInv
<1>1. CASE Reload
  BY <1>1, NothingWritten DEF Reload, FlightOwns, Owning, Idle, storageVars
<1>2. ASSUME NEW g \in Gestures, Gesture(g)
      PROVE  (\A h \in Gestures : FlightOwns(h)') /\ RecordsStay
  <2>1. PICK on, step : TakeOff(g, on, step) /\ step \in {"read", "check", "connect"}
                        /\ UNCHANGED storageVars
    BY <1>2 DEF Gesture, StartRun, StartDiagnosis, StartConnection
  <2>2. \A h \in Gestures : flight'[h].at \in {"idle", "read", "check", "connect"}
    BY <1>0, <2>1 DEF TakeOff, ControlInv, Exclusive, At, TypeOK
  <2> QED
    BY <2>1, <2>2, NothingWritten DEF FlightOwns, Owning, storageVars
<1>3. ASSUME NEW g \in Gestures, Advance(g)
      PROVE  (\A h \in Gestures : FlightOwns(h)') /\ RecordsStay
  <2>1. FlightOwns(g)' /\ RecordsStay
    BY <1>3, RunOwns, FenceOwns, DiagnosisOwns DEF Advance, RunStep
  <2>2. ~At(g, "idle") /\ \A h \in Gestures \ {g} : flight'[h] = flight[h]
    BY <1>0, <1>3 DEF Advance, RunStep, DiagnosisStep, ReadValues, ReportUnready, WriteFence,
       AnnounceStart, Open, Opened, AnnounceRunning, Probed, ProbeStopped, PersistFailure,
       AnnounceComplete, SealFence, AnnounceFailure, LockFence, CheckReadiness, MarkDiagnosis,
       Inspect, Inspected, ConcludeDiagnosis, ConnectionChecked, StorageFails, Land, Go, GoWith,
       At, TypeOK
  <2>3. \A h \in Gestures \ {g} : flight'[h].at = "idle"
    BY <2>2, Alone
  <2> QED
    BY <2>1, <2>3 DEF FlightOwns, Owning
<1>4. CASE UNCHANGED vars
  BY <1>4, NothingWritten DEF vars, storageVars, FlightOwns
<1> QED
  BY <1>1, <1>2, <1>3, <1>4 DEF Next

\* The records of every run of the controllers.
LEMMA RecordsHold == Spec => [][RecordsStay]_vars
<1> DEFINE Owned == \A g \in Gestures : FlightOwns(g)
<1>1. Init => Owned
  BY DEF Init, FlightOwns, Owning, Idle
<1>2. ControlInv /\ Owned /\ [Next]_vars => Owned' /\ [RecordsStay]_vars
  BY StepOwns
<1> HIDE DEF Owned
<1> QED
  BY <1>1, <1>2, Controlled, PTL DEF Spec

\* No fence is ever lifted, and a record that is final gives way to none but one of an
\* unknown outcome: the divergence FinalFence shows goes no further than this.
THEOREM OnlyDoubtReplacesHolds == Spec => OnlyDoubtReplaces
<1>1. [RecordsStay]_vars =>
        [(\A c \in Controllers :
            fence[c] # Null =>
              /\ fence'[c] # Null
              /\ fence[c].state # "starting" =>
                   fence'[c] \in {fence[c], Fence("uncertain", "dispatch_uncertain")})]_vars
  BY DEF RecordsStay
<1> QED
  BY <1>1, RecordsHold, PTL DEF OnlyDoubtReplaces

\* The result of a startup diagnosis that was concluded is never written again.
THEOREM DiagnosisStaysHolds == Spec => DiagnosisStays
<1>1. [RecordsStay]_vars =>
        [(\A r \in Revisions :
            diagnosis[r] # Null /\ diagnosis[r].state # "starting" =>
              diagnosis'[r] = diagnosis[r])]_vars
  BY DEF RecordsStay
<1> QED
  BY <1>1, RecordsHold, PTL DEF DiagnosisStays
=============================================================================
