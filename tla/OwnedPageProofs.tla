------------------------- MODULE OwnedPageProofs -------------------------
(***************************************************************************)
(* The bridge, its tab and the collector in the tab, for every number of   *)
(* documents, crashes, accounts and permits, and for every limit.          *)
(***************************************************************************)
EXTENDS OwnedPage, TLAPS

\* What the properties of the collector rest on: what has been closed or has expired is
\* a failure of the await that is under way, a body is fetched by no setup, and the
\* session that is about to be kept is of the account selected at the start.
PageSound ==
  /\ kind \in Kinds
  /\ Busy \/ sessionToken \/ transfer # Null => initialized
  /\ timer => Busy
  /\ Busy => transfer = Null
  /\ Busy /\ (pageClosed \/ expired) => wake \in Failures
  /\ Busy /\ kind = "body" => ~Setup /\ (pageClosed \/ sessionVerified)
  /\ phase = "digest" /\ Setup => account = selection
  /\ sessionToken => ~Setup

PageInv == PageSound /\ HeldInTime

-----------------------------------------------------------------------------
(* The collector *)

\* A step that leaves all the collector's variables alone, but for the cookie, the
\* consumed permits and the reply.
quietVars == <<fetchVars, initialized, adapterMode, selection, pageClosed, sessionVerified,
               bodyFetched, sessionToken, transfer, kind, account>>

\* Such a step disturbs nothing.
LEMMA QuietKept ==
  ASSUME PageInv, UNCHANGED quietVars
  PROVE  PageInv'
BY DEF PageInv, PageSound, HeldInTime, quietVars, fetchVars, Busy, Setup

\* An abort closes the collector, with nothing in it.
LEMMA AbortKept ==
  ASSUME PageInv, Settled, AbortPage
  PROVE  PageInv' /\ pageClosed'
BY DEF PageInv, PageSound, HeldInTime, Busy, Setup, AbortPage, Abort, Settled, Pending, Reason,
   Failures

\* Every command keeps the invariant and leaves a closed collector closed.
LEMMA OperationKept ==
  ASSUME PageInv, Settled, NEW c \in Commands, Operation(c)
  PROVE  PageInv' /\ (pageClosed => pageClosed')
<1> USE DEF PageInv, PageSound, HeldInTime, Busy, Setup, fetchVars
<1>1. CASE Initialize(c)
  <2>1. CASE initialized
    <3>1. initialized' /\ UNCHANGED <<adapterMode, selection>>
      BY <1>1, <2>1 DEF Initialize
    <3> QED
      BY <1>1, <3>1 DEF Initialize
  <2>2. CASE ~initialized
    <3>1. UNCHANGED <<phase, sessionToken, transfer, timer, pageClosed, kind>>
      BY <1>1 DEF Initialize
    <3> QED
      BY <2>2, <3>1 DEF Awaits
  <2> QED
    BY <2>1, <2>2
<1>2. CASE Dispatch(c)
  <2>1. c.kind \in Kinds
    BY <1>2 DEF Dispatch, Commands
  <2> QED
    BY <1>2, <2>1 DEF Dispatch, MayDispatch, Begin, Awaits
<1>3. CASE Refuse
  BY <1>3 DEF Refuse
<1>4. CASE Pull(c)
  BY <1>4 DEF Pull, Refuse, TakeBack, SelectionKept
<1>5. CASE Release(c)
  BY <1>5 DEF Release, Refuse, TakeBack, SelectionKept
<1>6. CASE AbortPage
  BY <1>6, AbortKept
<1> QED
  BY <1>1, <1>2, <1>3, <1>4, <1>5, <1>6 DEF Operation, DispatchRefused, AbortCall

\* The task, upstream, the deadline and the cookie keep the invariant and leave the
\* collector as closed as it was.
LEMMA InPageKept ==
  ASSUME PageInv, InPage
  PROVE  PageInv' /\ pageClosed' = pageClosed
<1> USE DEF PageInv, PageSound, HeldInTime, Busy, Setup, taskFrame, heldVars
<1>1. CASE PageUpstream
  <2>1. Busy /\ ~pageClosed /\ ~expired
    BY <1>1, FetchAssumption DEF PageUpstream, Arrive, Pending, Wakes
  <2> QED
    BY <1>1, <2>1 DEF PageUpstream, Arrive, Pending
<1>2. CASE PageExpire
  BY <1>2 DEF PageExpire, Settled, Abort, Pending, Reason, Failures
<1>3. ASSUME ReplyFailure, UNCHANGED taskFrame
      PROVE  PageInv' /\ pageClosed' = pageClosed
  BY <1>3 DEF ReplyFailure, Leave, Awaits
<1>4. CASE AfterFetch
  BY <1>3, <1>4 DEF AfterFetch, Resumes, Continue, Await, Awaits
<1>5. CASE AfterPiece
  <2>1. PICK n \in PartSizes :
          LET v == PieceVerdict(n, IF kind = "body" THEN BodyLimit ELSE SessionLimit)
              fits == IF kind = "body" THEN answer = "fitting" ELSE Identifies
          IN IF v = "more" THEN Continue("read", n)
             ELSE IF v = "whole" /\ fits THEN Continue("digest", 0)
             ELSE ReplyFailure
    BY <1>5 DEF AfterPiece
  <2>2. wake \notin Failures \/ ReplyFailure
    BY <2>1 DEF PieceVerdict, Failures
  <2>3. CASE wake \notin Failures /\ \E m \in PartSizes : Continue("read", m)
    BY <1>5, <2>3 DEF AfterPiece, Resumes, Continue, Await, Awaits
  <2>4. CASE /\ wake \notin Failures /\ Continue("digest", 0)
             /\ kind = "body" \/ Identifies
    BY <1>5, <2>4 DEF AfterPiece, Resumes, Continue, Await, Awaits, Identifies
  <2> QED
    BY <1>3, <1>5, <2>1, <2>2, <2>3, <2>4 DEF AfterPiece
<1>6. CASE AfterDigest
  <2>1. CASE wake \in Failures
    BY <1>3, <1>6, <2>1 DEF AfterDigest
  <2>2. CASE wake \notin Failures
    <3>1. initialized /\ transfer = Null /\ ~pageClosed /\ ~expired
      BY <1>6, <2>2 DEF AfterDigest, Resumes, Awaits
    <3>2. ~Busy' /\ ~timer' /\ Setup' = Setup /\ UNCHANGED <<kind, initialized, expired, pageClosed, selection>>
      BY <1>6, <2>2 DEF AfterDigest, Leave, Awaits
    <3>3. transfer'.account = IF kind = "body" THEN Null ELSE account
      BY <1>6, <2>2 DEF AfterDigest
    <3>4. sessionVerified' /\ (sessionToken' => ~Setup)
      BY <1>6, <2>2, <3>1 DEF AfterDigest, Resumes, Awaits
    <3>5. PageSound'
      BY <3>1, <3>2, <3>4 DEF Awaits
    <3>6. Setup' => transfer'.account = selection'
      BY <1>6, <3>2, <3>3 DEF AfterDigest, Resumes, Awaits
    <3> QED
      BY <3>1, <3>2, <3>4, <3>5, <3>6
  <2> QED
    BY <2>1, <2>2
<1>7. CASE ChangeCookie
  BY <1>7, QuietKept DEF ChangeCookie, quietVars, fetchVars
<1> QED
  BY <1>1, <1>2, <1>4, <1>5, <1>6, <1>7 DEF InPage, PageTask

\* A document that goes takes all the collector holds with it.
LEMMA PageGoneKept ==
  ASSUME PageInv, PageGone
  PROVE  PageInv' /\ pageClosed'
BY DEF PageInv, PageSound, HeldInTime, PageGone, Busy, Awaits

-----------------------------------------------------------------------------
(* The bridge *)

\* The opening has not come to a document yet.
Early == at \in {"record", "create", "recordTab", "load"} \/ (at = "idle" /\ record = Null)

\* A tab is created where none was before, and after its record.
TabSound ==
  /\ tabs \in 0..1
  /\ at = "record" => record = Null
  /\ at \notin {"idle", "record"} => record # Null
  /\ at = "create" => tabs = 0

\* A script outlives its worker.  One that marks is the first there is, and one that
\* checks or calls names the marked document.
ScriptSound ==
  /\ script # Null => script \in Scripts
  /\ script = Null => returned = Null
  /\ script # Null /\ script.func = "mark" =>
       /\ entered = {} /\ document = Null
       /\ returned # "pending" /\ (returned = "yes" => marked # Null)
  /\ script # Null /\ script.func # "mark" => marked # Null /\ script.target = marked

\* The bridge takes a document for its own once it is marked, and calls no other.
DocumentSound ==
  /\ Early => script = Null
  /\ Early \/ at = "mark" => entered = {} /\ document = Null
  /\ at = "mark" /\ script # Null => script.func = "mark"
  /\ document # Null => document = marked
  /\ at \in {"recordDocument", "initialize", "ready"} \/ calling # Null => document # Null
  /\ doc \in Docs /\ marked \in Docs \cup {Null} /\ startup \in BOOLEAN

\* A document whose disposal is to be recorded as clean has closed its collector.
DisposalSound ==
  /\ disposing # Null => at = "ready"
  /\ disposing = "operator_cleanup_required" => pageClosed
  /\ record = "operator_cleanup_required" => pageClosed
  /\ lost \in BOOLEAN

OwnedInv ==
  /\ PageInv /\ TabSound /\ ScriptSound /\ DocumentSound /\ DisposalSound
  /\ OneTab /\ OwnedDocumentOnly /\ LoadNoticed

\* A browser that was just started satisfies the invariant.
LEMMA InitOwned == OwnedInit => OwnedInv
<1> SUFFICES ASSUME OwnedInit PROVE OwnedInv
  OBVIOUS
<1>1. PageInv
  BY DEF OwnedInit, PageInit, FetchInit, PageInv, PageSound, HeldInTime, Busy, Awaits, Kinds
<1>2. doc \in Docs
  BY BridgeAssumption DEF OwnedInit, Docs
<1>3. TabSound /\ OneTab /\ LoadNoticed
  BY DEF OwnedInit, TabSound, OneTab, LoadNoticed
<1>4. ScriptSound /\ DocumentSound /\ OwnedDocumentOnly
  BY <1>2 DEF OwnedInit, ScriptSound, DocumentSound, OwnedDocumentOnly
<1>5. DisposalSound
  BY NullIsNothing DEF OwnedInit, DisposalSound, RecordStates
<1> QED
  BY <1>1, <1>3, <1>4, <1>5 DEF OwnedInv

\* Every step keeps the invariant of the collector and leaves a closed collector closed.
LEMMA StepPage ==
  ASSUME OwnedInv, OwnedNext
  PROVE  PageInv' /\ (pageClosed => pageClosed')
<1>0. PageInv
  BY DEF OwnedInv
<1>1. CASE UNCHANGED pageVars
  BY <1>0, <1>1, QuietKept DEF pageVars, quietVars, fetchVars
<1>2. CASE AbortOwned
  <2>1. CASE Settled /\ AbortPage
    BY <1>0, <2>1, AbortKept
  <2> QED
    BY <1>1, <1>2, <2>1 DEF AbortOwned
<1>3. CASE RunScript
  <2>1. CASE script.func = "command" /\ Invoke(script.command)
    <3>1. script.command \in Commands
      BY <1>3, <2>1 DEF RunScript, OwnedInv, ScriptSound, Scripts
    <3> QED
      BY <1>0, <2>1, <3>1, OperationKept DEF Invoke
  <2> QED
    BY <1>1, <1>3, <2>1 DEF RunScript
<1>4. CASE ScriptReplies
  BY <1>0, <1>4, QuietKept DEF ScriptReplies, quietVars, fetchVars, heldVars
<1>5. CASE Navigate \/ CloseTab
  BY <1>0, <1>1, <1>5, PageGoneKept DEF Navigate, CloseTab
<1>6. CASE InPage
  BY <1>0, <1>6, InPageKept
<1> QED
  BY <1>1, <1>2, <1>3, <1>4, <1>5, <1>6
  DEF OwnedNext, Open, RecordOpening, CreateTab, RecordTab, GetStatus, Load, InjectMark,
      MarkReturns, RecordDocument, InjectInitialize, InitializeReturns, RecordFailure, Call,
      CheckReturns, CommandReturns, GiveUp, Dispose, RecordDisposal, ScriptFails, CompleteLoad,
      Deliver, Crash, openingFrame

\* A second tab takes a second opening, which takes a storage without a record.
LEMMA StepTab ==
  ASSUME OwnedInv, OwnedNext
  PROVE  TabSound' /\ OneTab'
<1> USE NullIsNothing DEF OwnedInv, TabSound, OneTab, RecordStates
<1>1. CASE Open \/ RecordOpening
  BY <1>1 DEF Open, NoRecord, RecordOpening, Stored, openingFrame, historyVars, tabVars
<1>2. CASE CreateTab
  BY <1>2 DEF CreateTab, openingFrame
<1>3. CASE RecordTab \/ RecordDocument \/ RecordFailure
  BY <1>3 DEF RecordTab, RecordDocument, RecordFailure, Stored, historyVars
<1>4. CASE GetStatus \/ Load \/ InjectMark \/ MarkReturns \/ InjectInitialize \/ InitializeReturns
  BY <1>4 DEF GetStatus, Load, InjectMark, MarkReturns, InjectInitialize, InitializeReturns,
     historyVars
<1>5. CASE Call \/ CheckReturns \/ CommandReturns \/ GiveUp \/ Dispose \/ AbortOwned
  BY <1>5 DEF Call, CheckReturns, CommandReturns, GiveUp, Dispose, AbortOwned, historyVars,
     handleFrame
<1>6. CASE RecordDisposal
  BY <1>6 DEF RecordDisposal, DisposalSound, historyVars, handleFrame
<1>7. CASE Deliver \/ Crash
  BY <1>7 DEF Deliver, Crash, historyVars
<1>8. CASE UNCHANGED <<at, record, tabs>>
  BY <1>8
<1> QED
  BY <1>1, <1>2, <1>3, <1>4, <1>5, <1>6, <1>7, <1>8
  DEF OwnedNext, RunScript, ScriptReplies, ScriptFails, Navigate, CompleteLoad, CloseTab,
      bridgeVars, historyVars

\* The waiting for a load never overlooks it.
LEMMA StepLoad ==
  ASSUME OwnedInv, OwnedNext
  PROVE  LoadNoticed'
<1> USE DEF OwnedInv, LoadNoticed
<1>1. CASE Open \/ RecordOpening \/ CreateTab
  BY <1>1 DEF Open, RecordOpening, CreateTab, Stored
<1>2. CASE RecordTab \/ GetStatus
  BY <1>2 DEF RecordTab, Stored, GetStatus, tabVars
<1>3. CASE Load \/ RecordDocument \/ RecordFailure
  BY <1>3 DEF Load, RecordDocument, RecordFailure, Stored
<1>4. CASE InjectMark \/ MarkReturns \/ InjectInitialize \/ InitializeReturns
  BY <1>4 DEF InjectMark, MarkReturns, InjectInitialize, InitializeReturns
<1>5. CASE Call \/ CheckReturns \/ CommandReturns \/ GiveUp \/ Dispose \/ AbortOwned \/ RecordDisposal
  BY <1>5 DEF Call, CheckReturns, CommandReturns, GiveUp, Dispose, AbortOwned, RecordDisposal,
     handleFrame, tabVars
<1>6. CASE Navigate \/ CompleteLoad \/ CloseTab
  BY <1>6 DEF Navigate, CompleteLoad, CloseTab, bridgeVars
<1>7. CASE Deliver \/ Crash
  BY <1>7 DEF Deliver, Crash
<1>8. CASE UNCHANGED <<at, status, tabVars>>
  BY <1>8 DEF tabVars
<1> QED
  BY <1>1, <1>2, <1>3, <1>4, <1>5, <1>6, <1>7, <1>8
  DEF OwnedNext, RunScript, ScriptReplies, ScriptFails, bridgeVars

\* A disposal that is recorded as clean has heard from its document.
LEMMA StepDisposal ==
  ASSUME OwnedInv, OwnedNext
  PROVE  DisposalSound'
<1> USE NullIsNothing DEF OwnedInv, DisposalSound
<1>0. pageClosed => pageClosed'
  BY StepPage
<1>1. CASE Open \/ RecordOpening \/ CreateTab \/ RecordTab \/ GetStatus \/ Load
  BY <1>0, <1>1 DEF Open, RecordOpening, CreateTab, RecordTab, GetStatus, Load, Stored, openingFrame
<1>2. CASE InjectMark \/ MarkReturns \/ InjectInitialize \/ InitializeReturns
  BY <1>0, <1>2 DEF InjectMark, MarkReturns, InjectInitialize, InitializeReturns
<1>3. CASE RecordDocument \/ RecordFailure
  BY <1>0, <1>3 DEF RecordDocument, RecordFailure, Stored, openingFrame
<1>4. CASE Call \/ CheckReturns \/ CommandReturns
  BY <1>0, <1>4 DEF Call, CheckReturns, CommandReturns, handleFrame
<1>5. CASE GiveUp \/ Dispose
  BY <1>0, <1>5 DEF GiveUp, Dispose, handleFrame
<1>6. CASE AbortOwned
  BY <1>0, <1>6 DEF AbortOwned, AbortPage, handleFrame
<1>7. CASE RecordDisposal
  BY <1>0, <1>7 DEF RecordDisposal, handleFrame, RecordStates
<1>8. CASE Deliver
  BY <1>0, <1>8 DEF Deliver
<1>9. CASE Crash
  BY <1>0, <1>9 DEF Crash, RecordStates
<1>10. CASE UNCHANGED bridgeVars
  BY <1>0, <1>10 DEF bridgeVars
<1> QED
  BY <1>1, <1>2, <1>3, <1>4, <1>5, <1>6, <1>7, <1>8, <1>9, <1>10
  DEF OwnedNext, RunScript, ScriptReplies, ScriptFails, Navigate, CompleteLoad, CloseTab

\* Scripts are those the bridge has handed over.
LEMMA StepScript ==
  ASSUME OwnedInv, OwnedNext
  PROVE  ScriptSound' /\ DocumentSound' /\ OwnedDocumentOnly'
<1> USE NullIsNothing DEF OwnedInv, ScriptSound, DocumentSound, OwnedDocumentOnly, Early
<1>1. CASE Open \/ RecordOpening \/ CreateTab \/ RecordTab \/ GetStatus \/ Load
  BY <1>1 DEF Open, NoRecord, RecordOpening, CreateTab, RecordTab, GetStatus, Load, Stored, openingFrame,
     scriptVars, historyVars, tabVars, RecordStates, TabSound
<1>2. CASE InjectMark
  <2>1. [func |-> "mark", target |-> Null] \in Scripts
    BY DEF Scripts
  <2> QED
    BY <1>2, <2>1 DEF InjectMark, Inject, scriptVars, historyVars, tabVars, TabSound
<1>3. CASE MarkReturns
  BY <1>3 DEF MarkReturns, historyVars, tabVars, TabSound
<1>4. CASE RecordDocument \/ RecordFailure
  BY <1>4 DEF RecordDocument, RecordFailure, Stored, openingFrame, scriptVars, historyVars, tabVars,
     RecordStates, TabSound
<1>5. CASE InjectInitialize
  <2>1. ASSUME NEW a \in Adapters
        PROVE  [func |-> "command", target |-> Target,
                command |-> [op |-> "initialize", adapter |-> a, startupOnly |-> startup]] \in Scripts
    BY <1>5, <2>1 DEF InjectInitialize, Scripts, Target, Commands
  <2> QED
    BY <1>5, <2>1 DEF InjectInitialize, Inject, Target, scriptVars, historyVars, tabVars, TabSound
<1>6. CASE InitializeReturns
  BY <1>6 DEF InitializeReturns, historyVars, tabVars, TabSound
<1>7. CASE Call
  <2>1. [func |-> "check", target |-> Target] \in Scripts
    BY DEF Scripts, Target
  <2> QED
    BY <1>7, <2>1 DEF Call, Inject, Target, handleFrame, historyVars, tabVars
<1>8. CASE CheckReturns
  <2>1. ASSUME NEW c \in Commands
        PROVE  [func |-> "command", target |-> Target, command |-> c] \in Scripts
    BY <2>1 DEF Scripts, Target
  <2> QED
    BY <1>8, <2>1 DEF CheckReturns, Inject, Target, handleFrame, historyVars, tabVars
<1>9. CASE CommandReturns
  BY <1>9 DEF CommandReturns, handleFrame, historyVars, tabVars
<1>10. CASE GiveUp
  BY <1>10 DEF GiveUp, scriptVars, historyVars, tabVars, TabSound
<1>11. CASE Dispose \/ AbortOwned \/ RecordDisposal
  BY <1>11 DEF Dispose, AbortOwned, RecordDisposal, handleFrame, scriptVars, historyVars, tabVars,
     DisposalSound
<1>12. CASE RunScript
  <2>1. CASE script.func = "mark"
    BY <1>12, <2>1 DEF RunScript, bridgeVars, tabVars
  <2>2. CASE script.func # "mark"
    BY <1>12, <2>2 DEF RunScript, bridgeVars, tabVars
  <2> QED
    BY <2>1, <2>2
<1>13. CASE ScriptReplies \/ ScriptFails
  BY <1>13 DEF ScriptReplies, ScriptFails, bridgeVars, tabVars, historyVars
<1>14. CASE Navigate \/ CompleteLoad \/ CloseTab
  <2>1. doc' \in Docs
    <3>1. MaxDocs \in Nat /\ doc \in 1..MaxDocs
      BY BridgeAssumption DEF Docs
    <3>2. doc' = doc \/ (doc < MaxDocs /\ doc' = doc + 1)
      BY <1>14 DEF Navigate, CompleteLoad, CloseTab
    <3> QED
      BY <3>1, <3>2 DEF Docs
  <2>2. UNCHANGED <<bridgeVars, scriptVars, historyVars>>
    BY <1>14 DEF Navigate, CompleteLoad, CloseTab
  <2> QED
    BY <2>1, <2>2 DEF bridgeVars, scriptVars, historyVars
<1>15. CASE Deliver
  BY <1>15 DEF Deliver, scriptVars, historyVars, TabSound
<1>16. CASE Crash
  BY <1>16 DEF Crash, scriptVars, tabVars, TabSound
<1>17. CASE UNCHANGED <<bridgeVars, scriptVars, tabVars, historyVars>>
  BY <1>17 DEF bridgeVars, scriptVars, tabVars, historyVars
<1> QED
  BY <1>1, <1>2, <1>3, <1>4, <1>5, <1>6, <1>7, <1>8, <1>9, <1>10, <1>11, <1>12, <1>13, <1>14, <1>15,
     <1>16, <1>17
  DEF OwnedNext

\* The invariant of the bridge, its tab and its collector, over every step.
LEMMA OwnedHolds == OwnedSpec => []OwnedInv
<1>1. ASSUME OwnedInv, OwnedNext
      PROVE  OwnedInv'
  BY <1>1, StepPage, StepTab, StepLoad, StepDisposal, StepScript DEF OwnedInv
<1>2. ASSUME OwnedInv, UNCHANGED ownedVars
      PROVE  OwnedInv'
  <2>1. UNCHANGED <<pageVars, bridgeVars, scriptVars, tabVars, historyVars>>
    BY <1>2 DEF ownedVars
  <2>2. PageInv'
    BY <1>2, <2>1, QuietKept DEF OwnedInv, pageVars, quietVars, fetchVars
  <2>3. TabSound' /\ OneTab' /\ LoadNoticed' /\ OwnedDocumentOnly'
    BY <1>2, <2>1
    DEF OwnedInv, TabSound, OneTab, LoadNoticed, OwnedDocumentOnly, bridgeVars, tabVars, historyVars
  <2>4. ScriptSound' /\ DocumentSound'
    BY <1>2, <2>1
    DEF OwnedInv, ScriptSound, DocumentSound, Early, bridgeVars, scriptVars, tabVars, historyVars
  <2>5. DisposalSound'
    BY <1>2, <2>1 DEF OwnedInv, DisposalSound, bridgeVars, pageVars
  <2> QED
    BY <2>2, <2>3, <2>4, <2>5 DEF OwnedInv
<1>3. OwnedInv /\ [OwnedNext]_ownedVars => OwnedInv'
  BY <1>1, <1>2
<1> QED
  BY <1>3, InitOwned, PTL DEF OwnedSpec

-----------------------------------------------------------------------------
(* Theorems *)

\* Whatever the storage rejects and however often the worker dies, openOwnedPage creates
\* at most one tab, and none without its record.
THEOREM OnlyOneTab == OwnedSpec => []OneTab
<1>1. OwnedInv => OneTab
  BY DEF OwnedInv
<1> QED
  BY <1>1, OwnedHolds, PTL

\* However the user navigates and however late a script runs, the collector is called
\* in the document that was marked.
THEOREM OwnedDocumentEntered == OwnedSpec => []OwnedDocumentOnly
<1>1. OwnedInv => OwnedDocumentOnly
  BY DEF OwnedInv
<1> QED
  BY <1>1, OwnedHolds, PTL

\* The record of a disposal that leaves only the operator's clean-up is true of the
\* collector, and stays true.
THEOREM CleanupIsHonest == OwnedSpec => []CleanupHonest
<1>1. OwnedInv => CleanupHonest
  BY DEF OwnedInv, PageInv, HeldInTime, DisposalSound, CleanupHonest
<1> QED
  BY <1>1, OwnedHolds, PTL

\* The waiting of openOwnedPage for its tab never overlooks that it has loaded.
THEOREM LoadIsNoticed == OwnedSpec => []LoadNoticed
<1>1. OwnedInv => LoadNoticed
  BY DEF OwnedInv
<1> QED
  BY <1>1, OwnedHolds, PTL

\* No late, aborted or mismatched answer becomes a result of the page collector, for any
\* accounts, limits and orders of calls, timers and navigations.
THEOREM HeldIsInTime == OwnedSpec => []HeldInTime
<1>1. OwnedInv => HeldInTime
  BY DEF OwnedInv, PageInv
<1> QED
  BY <1>1, OwnedHolds, PTL

-----------------------------------------------------------------------------
(* Types *)

\* A response settles the await of the fetch and no other: without that the answer of a
\* request would have no type.
FetchFits ==
  FetchTypeOK /\ (phase = "fetch" => wake \in Responses \cup Failures \cup {Null})

\* A request that begins, is aborted or is answered keeps its types.
LEMMA FetchSteps ==
  ASSUME FetchFits
  PROVE  /\ Begin(TRUE) => FetchFits'
         /\ Arrive => FetchFits'
         /\ \A e \in BOOLEAN : Abort(e) /\ UNCHANGED <<phase, invoked, answer, total, outcome>>
              /\ expired' \in BOOLEAN /\ timer' \in BOOLEAN => FetchFits'
<1> USE DEF FetchFits, FetchTypeOK, Awaits
<1>1. ASSUME Begin(TRUE) PROVE FetchFits'
  BY <1>1 DEF Begin
<1>2. ASSUME Arrive PROVE FetchFits'
  BY <1>2 DEF Arrive, Wakes, Failures
<1>3. ASSUME NEW e \in BOOLEAN, Abort(e), UNCHANGED <<phase, invoked, answer, total, outcome>>,
             expired' \in BOOLEAN, timer' \in BOOLEAN
      PROVE  FetchFits'
  BY <1>3 DEF Abort, Reason, Wakes, Failures
<1> QED
  BY <1>1, <1>2, <1>3

\* The rest of the collector's variables.
PageRest ==
  /\ cookie \in Accounts \cup {Null} /\ selection \in Accounts \cup {Null}
  /\ account \in Accounts \cup {Null} /\ adapterMode \in Adapters \cup {Null}
  /\ initialized \in BOOLEAN /\ startupOnly \in BOOLEAN /\ pageClosed \in BOOLEAN
  /\ sessionVerified \in BOOLEAN /\ bodyFetched \in BOOLEAN /\ sessionToken \in BOOLEAN
  /\ transfer \in [kind : Kinds, count : Nat, account : Accounts \cup {Null}] \cup {Null}
  /\ expectedSequence \in Nat /\ consumed \subseteq PermitIds
  /\ kind \in Kinds /\ pageReply \in Replies \cup {Null}

\* The collector's types together.
PageFits == FetchFits /\ PageRest

\* An abort, by a command or by dispose.
LEMMA AbortTypes ==
  ASSUME PageFits, AbortPage, pageReply' \in Replies \cup {Null}
  PROVE  PageFits'
<1>1. FetchFits'
  <2>1. CASE Busy
    BY <2>1, FetchSteps DEF AbortPage, FetchFits, FetchTypeOK, PageFits, PageRest
  <2>2. CASE ~Busy
    BY <2>2 DEF AbortPage, FetchFits, FetchTypeOK, PageFits, PageRest
  <2> QED
    BY <2>1, <2>2
<1>2. PageRest'
  BY DEF AbortPage, PageRest, PageFits
<1> QED
  BY <1>1, <1>2 DEF PageFits, PageRest

\* A call of the collector.
LEMMA OperationTypes ==
  ASSUME PageFits, NEW c \in Commands, Operation(c)
  PROVE  PageFits'
<1> USE DEF Replies, Reply
<1>0. FetchFits /\ PageRest
  BY DEF PageFits, PageRest
<1>1. CASE Refuse
  BY <1>0, <1>1 DEF Refuse, FetchFits, FetchTypeOK, PageRest, fetchVars, PageFits
<1>2. CASE Initialize(c)
  <2>1. c.adapter \in Adapters /\ c.startupOnly \in BOOLEAN
    BY <1>2 DEF Initialize, Commands
  <2>2. FetchFits'
    BY <1>0, <1>2 DEF Initialize, FetchFits, FetchTypeOK, fetchVars
  <2>3. PageRest'
    BY <1>0, <1>2, <2>1 DEF Initialize, PageRest
  <2> QED
    BY <2>2, <2>3 DEF PageFits, PageRest
<1>3. CASE Dispatch(c)
  <2>1. c.kind \in Kinds /\ c.id \in PermitIds
    BY <1>3 DEF Dispatch, Commands
  <2>2. FetchFits'
    BY <1>0, <1>3, FetchSteps DEF Dispatch
  <2>3. PageRest'
    BY <1>0, <1>3, <2>1 DEF Dispatch, PageRest
  <2> QED
    BY <2>2, <2>3 DEF PageFits, PageRest
<1>4. CASE Pull(c) /\ ~Refuse
  <2>1. FetchFits'
    BY <1>0, <1>4 DEF Pull, TakeBack, FetchFits, FetchTypeOK, fetchVars
  <2>2. PageRest'
    <3>1. UNCHANGED <<cookie, initialized, startupOnly, adapterMode, selection, pageClosed,
                      bodyFetched, sessionToken, consumed, kind, account>>
      BY <1>4 DEF Pull
    <3>2. pageReply' \in Replies /\ transfer' \in {transfer, Null}
          /\ sessionVerified' \in {sessionVerified, FALSE}
      BY <1>4 DEF Pull, TakeBack
    <3>3. expectedSequence' \in {expectedSequence, expectedSequence + 1, 0}
      BY <1>4 DEF Pull, TakeBack
    <3>4. /\ transfer' \in [kind : Kinds, count : Nat, account : Accounts \cup {Null}] \cup {Null}
          /\ expectedSequence' \in Nat
      BY <1>0, <3>2, <3>3 DEF PageRest
    <3>5. sessionVerified' \in BOOLEAN
      BY <1>0, <3>2, Zenon DEF PageRest
    <3>6. pageReply' \in Replies \cup {Null}
      BY <3>2, Zenon
    <3> QED
      BY <1>0, <3>1, <3>4, <3>5, <3>6, Zenon DEF PageRest
  <2> QED
    BY <2>1, <2>2 DEF PageFits, PageRest
<1>5. CASE Release(c) /\ ~Refuse
  <2>1. FetchFits'
    BY <1>0, <1>5 DEF Release, TakeBack, FetchFits, FetchTypeOK, fetchVars
  <2>2. PageRest'
    <3>1. UNCHANGED <<cookie, initialized, startupOnly, adapterMode, selection, pageClosed,
                      bodyFetched, consumed, kind, account>>
      BY <1>5 DEF Release
    <3>2. pageReply' \in Replies /\ transfer' \in {transfer, Null}
          /\ sessionVerified' \in {sessionVerified, FALSE}
          /\ expectedSequence' \in {expectedSequence, 0}
      BY <1>5 DEF Release, TakeBack
    <3>3. sessionToken' \in {sessionToken, FALSE, sessionToken /\ ~bodyFetched}
      BY <1>5, Zenon DEF Release, TakeBack
    <3>4. /\ transfer' \in [kind : Kinds, count : Nat, account : Accounts \cup {Null}] \cup {Null}
          /\ expectedSequence' \in Nat
      BY <1>0, <3>2 DEF PageRest
    <3>5. sessionVerified' \in BOOLEAN
      BY <1>0, <3>2, Zenon DEF PageRest
    <3>6. pageReply' \in Replies \cup {Null}
      BY <3>2, Zenon
    <3>7. sessionToken' \in BOOLEAN
      BY <1>0, <3>3, Zenon DEF PageRest
    <3> QED
      BY <1>0, <3>1, <3>4, <3>5, <3>6, <3>7, Zenon DEF PageRest
  <2> QED
    BY <2>1, <2>2 DEF PageFits, PageRest
<1>6. CASE AbortCall(c)
  BY <1>6, AbortTypes DEF AbortCall
<1> QED
  BY <1>1, <1>2, <1>3, <1>4, <1>5, <1>6 DEF Operation, DispatchRefused

\* A transfer has a natural number of chunks.
LEMMA ChunkCount ==
  ASSUME FetchFits
  PROVE  Chunks \in Nat
<1>1. ASSUME NEW t \in Nat PROVE (t + ChunkBytes - 1) \div ChunkBytes \in Nat
  BY PageAssumption
<1> QED
  BY <1>1 DEF FetchFits, FetchTypeOK, Chunks

\* The task of a dispatch.
LEMMA TaskTypes ==
  ASSUME PageFits, PageTask \/ ChangeCookie
  PROVE  PageFits'
<1> USE DEF taskFrame, heldVars, Replies, Reply
<1>0. FetchFits /\ PageRest
  BY DEF PageFits, PageRest
<1>1. CASE PageUpstream
  BY <1>0, <1>1, FetchSteps DEF PageUpstream, PageRest, PageFits
<1>2. CASE PageExpire
  <2>1. FetchFits'
    BY <1>0, <1>2, FetchSteps DEF PageExpire
  <2> QED
    BY <1>0, <1>2, <2>1 DEF PageExpire, PageRest, PageFits
<1>3. ASSUME Leave PROVE FetchFits'
  BY <1>0, <1>3 DEF Leave, FetchFits, FetchTypeOK
<1>4. ASSUME Leave, UNCHANGED taskFrame,
             ReplyFailure \/ (pageReply' = "ok" /\ sessionVerified' \in BOOLEAN
               /\ bodyFetched' \in BOOLEAN /\ sessionToken' \in BOOLEAN /\ expectedSequence' \in Nat
               /\ transfer' \in [kind : Kinds, count : Nat, account : Accounts \cup {Null}])
      PROVE  PageFits'
  <2>1. PageRest'
    BY <1>0, <1>4 DEF Leave, ReplyFailure, PageRest
  <2> QED
    BY <1>3, <1>4, <2>1 DEF PageFits, PageRest
<1>5. ASSUME NEW p \in Awaits, NEW n \in Nat, Continue(p, n), UNCHANGED taskFrame,
             phase = "fetch" => wake \in Responses
      PROVE  PageFits'
  <2>1. FetchFits'
    BY <1>0, <1>5 DEF Continue, Await, FetchFits, FetchTypeOK
  <2> QED
    BY <1>0, <1>5, <2>1 DEF Continue, PageRest, PageFits
<1>6. CASE AfterFetch
  <2>1. CASE ReplyFailure
    BY <1>4, <1>6, <2>1 DEF AfterFetch, ReplyFailure
  <2>2. CASE wake \notin Failures /\ HeadVerdict = "more" /\ Continue("read", 0)
    <3>1. wake \in Responses
      BY <1>0, <1>6, <2>2 DEF AfterFetch, Resumes, FetchFits
    <3> QED
      BY <1>5, <1>6, <2>2, <3>1 DEF AfterFetch, Awaits
  <2> QED
    BY <1>6, <2>1, <2>2 DEF AfterFetch
<1>7. CASE AfterPiece
  <2>1. phase = "read"
    BY <1>7 DEF AfterPiece, Resumes
  <2>2. ASSUME NEW n \in PartSizes, Continue("read", n) \/ Continue("digest", 0)
        PROVE  PageFits'
    BY <1>5, <1>7, <2>1, <2>2, FetchAssumption DEF AfterPiece, Awaits
  <2>3. CASE ReplyFailure
    BY <1>4, <1>7, <2>3 DEF AfterPiece, ReplyFailure
  <2> QED
    BY <1>7, <2>2, <2>3 DEF AfterPiece
<1>8. CASE AfterDigest
  <2>1. CASE ReplyFailure
    BY <1>4, <1>8, <2>1 DEF AfterDigest, ReplyFailure
  <2>2. CASE ~ReplyFailure
    <3>1. transfer' \in [kind : Kinds, count : Nat, account : Accounts \cup {Null}]
      BY <1>0, <1>8, <2>2, ChunkCount DEF AfterDigest, PageRest
    <3>2. /\ sessionVerified' \in {sessionVerified, TRUE}
          /\ bodyFetched' \in {bodyFetched, TRUE}
          /\ sessionToken' \in {sessionToken, sessionToken \/ ~Setup}
          /\ expectedSequence' = 0
      BY <1>8, <2>2, Zenon DEF AfterDigest
    <3>3. Setup \in BOOLEAN
      BY DEF Setup
    <3>4. /\ sessionVerified' \in BOOLEAN /\ bodyFetched' \in BOOLEAN
          /\ sessionToken' \in BOOLEAN
      BY <1>0, <3>2, <3>3, Zenon DEF PageRest
    <3>5. expectedSequence' \in Nat
      BY <3>2
    <3> QED
      BY <1>4, <1>8, <2>2, <3>1, <3>4, <3>5 DEF AfterDigest
  <2> QED
    BY <2>1, <2>2
<1>9. CASE ChangeCookie
  BY <1>0, <1>9 DEF ChangeCookie, FetchFits, FetchTypeOK, PageRest, fetchVars, PageFits
<1> QED
  BY <1>1, <1>2, <1>6, <1>7, <1>8, <1>9 DEF PageTask

\* The collector goes with its document.
LEMMA GoneTypes ==
  ASSUME PageFits, PageGone
  PROVE  PageFits'
<1>1. FetchFits'
  BY DEF PageGone, FetchFits, FetchTypeOK, PageFits, PageRest
<1>2. PageRest'
  BY DEF PageGone, PageRest, PageFits
<1> QED
  BY <1>1, <1>2 DEF PageFits, PageRest

\* What leaves the collector alone keeps its types.
LEMMA PageStays ==
  ASSUME PageFits, UNCHANGED pageVars
  PROVE  PageFits'
BY DEF PageFits, PageRest, FetchFits, FetchTypeOK, pageVars, fetchVars

\* The types of the bridge, the browser and the history.
BridgeTypes ==
  /\ at \in Steps /\ startup \in BOOLEAN /\ document \in Docs \cup {Null}
  /\ lost \in BOOLEAN /\ settled \in BOOLEAN
  /\ calling \in {Null, "check", "command"} /\ disposing \in RecordStates \cup {Null, "abort"}
  /\ status \in {Null, "loading", "complete"}
  /\ record \in RecordStates \cup {Null}
BrowserTypes ==
  /\ script \in Scripts \cup {Null} /\ returned \in {Null, "pending", "yes", "no", "gone"}
  /\ tab \in {Null, "open", "closed"} /\ doc \in Docs /\ home \in BOOLEAN /\ loaded \in BOOLEAN
  /\ events \subseteq {"complete", "navigated", "removed"}
HistoryTypes ==
  /\ tabs \in Nat /\ marked \in Docs \cup {Null} /\ entered \subseteq Docs /\ crashes \in Nat

\* All of them, as an invariant a step preserves.
OwnedFits == PageFits /\ BridgeTypes /\ BrowserTypes /\ HistoryTypes

\* They hold before the tab is opened.
LEMMA InitOwnedTypes == OwnedInit => OwnedFits
<1> SUFFICES ASSUME OwnedInit PROVE OwnedFits
  OBVIOUS
<1>1. FetchFits /\ PageRest
  BY DEF OwnedInit, PageInit, FetchInit, FetchFits, FetchTypeOK, PageRest, Kinds
<1>2. 1 \in Docs
  BY BridgeAssumption DEF Docs
<1>3. BridgeTypes /\ BrowserTypes /\ HistoryTypes
  BY <1>2 DEF OwnedInit, BridgeTypes, BrowserTypes, HistoryTypes, Steps
<1> QED
  BY <1>1, <1>3 DEF PageFits, PageRest, OwnedFits, BridgeTypes, BrowserTypes, HistoryTypes

\* The steps of an opening.
LEMMA OpeningTypes ==
  ASSUME OwnedFits,
         \/ Open \/ RecordOpening \/ CreateTab \/ RecordTab \/ GetStatus \/ Load
         \/ MarkReturns \/ RecordDocument \/ InitializeReturns \/ RecordFailure
  PROVE  OwnedFits'
<1> USE DEF openingFrame, bridgeVars, scriptVars, tabVars, historyVars
<1>0. BridgeTypes /\ BrowserTypes /\ HistoryTypes
  BY DEF OwnedFits, BridgeTypes, BrowserTypes, HistoryTypes
<1>1. PageFits'
  BY PageStays DEF Open, RecordOpening, CreateTab, RecordTab, GetStatus, Load,
     MarkReturns, RecordDocument, InitializeReturns, RecordFailure, OwnedFits, BridgeTypes, BrowserTypes, HistoryTypes
<1>2. BridgeTypes'
  BY <1>0 DEF Open, RecordOpening, CreateTab, RecordTab, GetStatus, Load, MarkReturns,
     RecordDocument, InitializeReturns, RecordFailure, BridgeTypes, HistoryTypes, Stored, Steps,
     OpeningSteps, RecordStates
<1>3. BrowserTypes'
  BY <1>0 DEF Open, RecordOpening, CreateTab, RecordTab, GetStatus, Load, MarkReturns,
     RecordDocument, InitializeReturns, RecordFailure, BrowserTypes
<1>4. HistoryTypes'
  BY <1>0 DEF Open, RecordOpening, CreateTab, RecordTab, GetStatus, Load, MarkReturns,
     RecordDocument, InitializeReturns, RecordFailure, HistoryTypes
<1> QED
  BY <1>1, <1>2, <1>3, <1>4 DEF OwnedFits, BridgeTypes, BrowserTypes, HistoryTypes

\* The scripts the bridge hands to the browser.
LEMMA InjectTypes ==
  ASSUME OwnedFits, InjectMark \/ InjectInitialize \/ Call \/ CheckReturns
  PROVE  OwnedFits'
<1> USE DEF bridgeVars, scriptVars, tabVars, historyVars, handleFrame
<1>0. BridgeTypes /\ BrowserTypes /\ HistoryTypes
  BY DEF OwnedFits, BridgeTypes, BrowserTypes, HistoryTypes
<1>1. PageFits'
  BY PageStays DEF InjectMark, InjectInitialize, Call, CheckReturns, OwnedFits, BridgeTypes, BrowserTypes, HistoryTypes
<1>2. BridgeTypes'
  BY <1>0 DEF InjectMark, InjectInitialize, Call, CheckReturns, BridgeTypes, Steps
<1>3. script' \in Scripts \cup {Null}
  <2>1. CASE InjectMark
    BY <1>0, <2>1 DEF InjectMark, Inject, BrowserTypes, Scripts
  <2>2. CASE Call
    BY <1>0, <2>2 DEF Call, Inject, BridgeTypes, Target, Scripts
  <2>3. CASE InjectInitialize
    <3>1. ASSUME NEW a \in Adapters
          PROVE  [op |-> "initialize", adapter |-> a, startupOnly |-> startup] \in Commands
      BY <1>0 DEF BridgeTypes, Commands
    <3>2. \/ UNCHANGED script
          \/ \E c \in Commands : script' = [func |-> "command", target |-> document, command |-> c]
      BY <2>3, <3>1 DEF InjectInitialize, Inject, Target
    <3> QED
      BY <1>0, <3>2 DEF BridgeTypes, BrowserTypes, Scripts
  <2>4. CASE CheckReturns
    <3>1. \/ script' = Null
          \/ \E c \in Commands : script' = [func |-> "command", target |-> document, command |-> c]
      BY <2>4 DEF CheckReturns, Inject, Target
    <3> QED
      BY <1>0, <3>1 DEF BridgeTypes, Scripts
  <2> QED
    BY <2>1, <2>2, <2>3, <2>4
<1>4. BrowserTypes'
  BY <1>0, <1>3 DEF InjectMark, InjectInitialize, Call, CheckReturns, Inject, BrowserTypes
<1>5. HistoryTypes'
  BY <1>0 DEF InjectMark, InjectInitialize, Call, CheckReturns, HistoryTypes
<1> QED
  BY <1>1, <1>2, <1>4, <1>5 DEF OwnedFits, BridgeTypes, BrowserTypes, HistoryTypes

\* The handle, and the death of the worker.
LEMMA HandleTypes ==
  ASSUME OwnedFits,
         \/ CommandReturns \/ GiveUp \/ Dispose \/ AbortOwned \/ RecordDisposal \/ Crash
  PROVE  OwnedFits'
<1> USE DEF bridgeVars, scriptVars, tabVars, historyVars, handleFrame
<1>0. PageFits /\ BridgeTypes /\ BrowserTypes /\ HistoryTypes
  BY DEF OwnedFits, BridgeTypes, BrowserTypes, HistoryTypes
<1>1. PageFits'
  <2>1. CASE AbortOwned
    <3>1. pageReply \in Replies \cup {Null}
      BY <1>0 DEF PageFits, PageRest
    <3>2. CASE AbortPage /\ UNCHANGED pageReply
      BY <1>0, <3>1, <3>2, AbortTypes
    <3>3. CASE UNCHANGED pageVars
      BY <1>0, <3>3, PageStays
    <3> QED
      BY <2>1, <3>2, <3>3 DEF AbortOwned
  <2>2. CASE CommandReturns \/ GiveUp \/ Dispose \/ RecordDisposal \/ Crash
    BY <1>0, <2>2, PageStays DEF CommandReturns, GiveUp, Dispose, RecordDisposal, Crash
  <2> QED
    BY <2>1, <2>2
<1>2. BridgeTypes'
  <2>1. lost' \in BOOLEAN
    <3>1. CASE CommandReturns
      <4>1. (returned = "gone") \in BOOLEAN
        OBVIOUS
      <4> QED
        BY <1>0, <3>1, <4>1, Zenon DEF CommandReturns, BridgeTypes
    <3>2. CASE GiveUp \/ Dispose \/ AbortOwned \/ RecordDisposal \/ Crash
      BY <1>0, <3>2, Zenon DEF GiveUp, Dispose, AbortOwned, RecordDisposal, Crash, BridgeTypes
    <3> QED
      BY <3>1, <3>2
  <2>2. CASE CommandReturns
    BY <1>0, <2>1, <2>2 DEF CommandReturns, BridgeTypes
  <2>3. CASE GiveUp
    BY <1>0, <2>1, <2>3 DEF GiveUp, BridgeTypes, Steps
  <2>4. CASE Dispose
    BY <1>0, <2>1, <2>4 DEF Dispose, BridgeTypes, RecordStates
  <2>5. CASE AbortOwned
    BY <1>0, <2>1, <2>5 DEF AbortOwned, BridgeTypes, RecordStates
  <2>6. CASE RecordDisposal
    BY <1>0, <2>1, <2>6 DEF RecordDisposal, BridgeTypes, RecordStates
  <2>7. CASE Crash
    BY <1>0, <2>1, <2>7 DEF Crash, BridgeTypes, Steps
  <2> QED
    BY <2>2, <2>3, <2>4, <2>5, <2>6, <2>7
<1>3. BrowserTypes'
  BY <1>0 DEF CommandReturns, GiveUp, Dispose, AbortOwned, RecordDisposal, Crash, BrowserTypes
<1>4. HistoryTypes'
  <2>1. CASE Crash
    BY <1>0, <2>1 DEF Crash, HistoryTypes
  <2>2. CASE CommandReturns \/ GiveUp \/ Dispose \/ AbortOwned \/ RecordDisposal
    BY <1>0, <2>2 DEF CommandReturns, GiveUp, Dispose, AbortOwned, RecordDisposal, HistoryTypes
  <2> QED
    BY <2>1, <2>2
<1> QED
  BY <1>1, <1>2, <1>3, <1>4 DEF OwnedFits, BridgeTypes, BrowserTypes, HistoryTypes

\* The browser, its user and the scripts it runs.
LEMMA BrowserSteps ==
  ASSUME OwnedFits,
         \/ RunScript \/ ScriptReplies \/ ScriptFails
         \/ Navigate \/ CompleteLoad \/ CloseTab \/ Deliver
  PROVE  OwnedFits'
<1> USE DEF bridgeVars, scriptVars, tabVars, historyVars
<1>0. PageFits /\ BridgeTypes /\ BrowserTypes /\ HistoryTypes
  BY DEF OwnedFits, BridgeTypes, BrowserTypes, HistoryTypes
<1>1. PageFits'
  <2>1. CASE RunScript
    <3>1. ASSUME script.func = "command", Operation(script.command) PROVE PageFits'
      <4>1. script \in Scripts
        BY <1>0, <2>1 DEF RunScript, BrowserTypes
      <4>2. script.command \in Commands
        BY <3>1, <4>1 DEF Scripts
      <4> QED
        BY <1>0, <3>1, <4>2, OperationTypes
    <3> QED
      BY <1>0, <2>1, <3>1, PageStays DEF RunScript, Invoke
  <2>2. CASE ScriptReplies
    BY <1>0, <2>2 DEF ScriptReplies, PageFits, PageRest, FetchFits, FetchTypeOK, fetchVars,
       heldVars
  <2>3. CASE Navigate \/ CloseTab
    BY <1>0, <2>3, GoneTypes, PageStays DEF Navigate, CloseTab
  <2>4. CASE ScriptFails \/ CompleteLoad \/ Deliver
    BY <1>0, <2>4, PageStays DEF ScriptFails, CompleteLoad, Deliver
  <2> QED
    BY <2>1, <2>2, <2>3, <2>4
<1>2. BridgeTypes'
  <2>1. CASE Deliver
    <3>1. PICK e \in events : lost' = (lost \/ (Listening /\ (e = "removed" \/ document # Null)))
      BY <2>1, Zenon DEF Deliver
    <3>2. (Listening /\ (e = "removed" \/ document # Null)) \in BOOLEAN
      BY Zenon
    <3>3. lost' \in BOOLEAN
      BY <1>0, <3>1, <3>2, Zenon DEF BridgeTypes
    <3>4. at' \in {at, "fail"}
      BY <2>1 DEF Deliver
    <3> QED
      BY <1>0, <2>1, <3>3, <3>4 DEF Deliver, BridgeTypes, Steps
  <2>2. UNCHANGED bridgeVars => BridgeTypes'
    BY <1>0 DEF BridgeTypes
  <2> QED
    BY <2>1, <2>2 DEF RunScript, ScriptReplies, ScriptFails, Navigate, CompleteLoad, CloseTab
<1>3. BrowserTypes'
  <2>1. CASE Navigate
    <3>1. doc + 1 \in Docs
      BY <1>0, <2>1, BridgeAssumption DEF Navigate, BrowserTypes, Docs
    <3> QED
      BY <1>0, <2>1, <3>1 DEF Navigate, BrowserTypes
  <2>2. CASE ~Navigate
    BY <1>0, <2>2 DEF RunScript, ScriptReplies, ScriptFails, CompleteLoad, CloseTab, Deliver,
       BrowserTypes
  <2> QED
    BY <2>1, <2>2
<1>4. HistoryTypes'
  BY <1>0 DEF RunScript, ScriptReplies, ScriptFails, Navigate, CompleteLoad, CloseTab, Deliver,
     HistoryTypes, BrowserTypes
<1> QED
  BY <1>1, <1>2, <1>3, <1>4 DEF OwnedFits, BridgeTypes, BrowserTypes, HistoryTypes

\* The bridge, the browser and the collector keep their types, whatever the user does.
THEOREM OwnedTypes == OwnedSpec => []OwnedTypeOK
<1>1. ASSUME OwnedFits, [OwnedNext]_ownedVars PROVE OwnedFits'
  <2>1. CASE UNCHANGED <<bridgeVars, scriptVars, tabVars, historyVars>> /\ (InPage \/ UNCHANGED pageVars)
    <3>1. PageFits'
      BY <1>1, <2>1, TaskTypes, PageStays DEF InPage, OwnedFits, BridgeTypes, BrowserTypes, HistoryTypes
    <3> QED
      BY <1>1, <2>1, <3>1
      DEF BridgeTypes, BrowserTypes, HistoryTypes, bridgeVars, scriptVars, tabVars, historyVars, OwnedFits
  <2> QED
    BY <1>1, <2>1, OpeningTypes, InjectTypes, HandleTypes, BrowserSteps DEF OwnedNext, ownedVars
<1>2. OwnedFits => OwnedTypeOK
  BY DEF OwnedFits, PageFits, FetchFits, PageRest, BridgeTypes, BrowserTypes, HistoryTypes,
         OwnedTypeOK, PageTypeOK
<1> QED
  BY <1>1, <1>2, InitOwnedTypes, PTL DEF OwnedSpec

\* A collector that was closed stays closed and empty, whatever scripts still run in its
\* document.
THEOREM ClosedForGood ==
  OwnedSpec => [][pageClosed => pageClosed' /\ transfer' = Null /\ ~sessionToken']_ownedVars
<1>1. OwnedInv /\ [OwnedNext]_ownedVars =>
        [pageClosed => pageClosed' /\ transfer' = Null /\ ~sessionToken']_ownedVars
  <2> SUFFICES ASSUME OwnedInv, OwnedNext, pageClosed
               PROVE  pageClosed' /\ transfer' = Null /\ ~sessionToken'
    OBVIOUS
  <2> QED
    BY StepPage DEF PageInv, HeldInTime
<1> QED
  BY <1>1, OwnedHolds, PTL DEF OwnedSpec
=============================================================================
