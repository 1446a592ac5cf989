---------------------------- MODULE OwnedPage ----------------------------
(***************************************************************************)
(* extension/browser-bridge.mjs and the page collector it drives: one tab  *)
(* is opened, its document is marked and recorded, and the collector runs  *)
(* in that document through scripts.  The user may navigate or close the   *)
(* tab at any moment, every storage write may be rejected, every script    *)
(* may be late, and the browser may kill the worker, of which only the     *)
(* record in the storage survives.                                         *)
(*                                                                         *)
(* External, modelled from how the bridge uses it: tabs and their events,  *)
(* storage.local, and scripting.executeScript, which runs a script that    *)
(* names a document in no other document.                                  *)
(***************************************************************************)
EXTENDS PageCollector

CONSTANTS
  MaxDocs,    \* bound of the model: documents the tab goes through
  MaxCrashes  \* bound of the model: how often the worker is killed

ASSUME BridgeAssumption == MaxDocs \in Nat \ {0} /\ MaxCrashes \in Nat

VARIABLES
  \* the bridge
  at,          \* what openOwnedPage awaits, or what became of it
  startup,     \* it was called by an inspection of the startup
  document,    \* documentId; Null until the document is marked
  lost, settled,
  calling,     \* the script a call awaits: Null, "check" or "command"
  disposing,   \* what dispose awaits: Null, "abort", or the record it writes
  status,      \* the answer of tabs.get: Null, "loading" or "complete"
  record,      \* the ownership record in the storage
  \* the browser
  script,      \* the script under way for the opening or a call
  returned,    \* its outcome: Null, "yes", "no" or "gone"
  tab,         \* Null, "open" or "closed"
  doc,         \* the document in it
  home,        \* it is one of the expected origin
  loaded,      \* it has completed loading
  events,      \* tab events that have not been delivered
  \* history
  tabs,        \* tabs that were created
  marked,      \* the document that carries the marker
  entered,     \* the documents the collector was called in
  crashes

bridgeVars == <<at, startup, document, lost, settled, calling, disposing, status, record>>
scriptVars == <<script, returned>>
tabVars == <<tab, doc, home, loaded, events>>
historyVars == <<tabs, marked, entered, crashes>>
ownedVars == <<pageVars, bridgeVars, scriptVars, tabVars, historyVars>>

OpeningSteps == {"record", "create", "recordTab", "load", "mark", "recordDocument", "initialize"}
Steps == OpeningSteps \cup {"idle", "ready", "fail", "failed"}
RecordStates == {"opening", "owned", "ownership_uncertain", "operator_cleanup_required"}
Docs == 1..MaxDocs
Scripts == [func : {"mark", "check"}, target : Docs \cup {Null}]
           \cup [func : {"command"}, target : Docs \cup {Null}, command : Commands]

\* Null is none of the values a field holds.
ASSUME NullIsNothing ==
  /\ Null \notin Docs /\ Null \notin Scripts
  /\ Null \notin RecordStates \cup {"check", "command", "abort", "yes", "no", "gone", "pending"}

OwnedTypeOK ==
  /\ PageTypeOK
  /\ at \in Steps /\ startup \in BOOLEAN /\ document \in Docs \cup {Null}
  /\ lost \in BOOLEAN /\ settled \in BOOLEAN
  /\ calling \in {Null, "check", "command"} /\ disposing \in RecordStates \cup {Null, "abort"}
  /\ status \in {Null, "loading", "complete"}
  /\ record \in RecordStates \cup {Null}
  /\ script \in Scripts \cup {Null} /\ returned \in {Null, "pending", "yes", "no", "gone"}
  /\ tab \in {Null, "open", "closed"} /\ doc \in Docs /\ home \in BOOLEAN /\ loaded \in BOOLEAN
  /\ events \subseteq {"complete", "navigated", "removed"}
  /\ tabs \in Nat /\ marked \in Docs \cup {Null} /\ entered \subseteq Docs /\ crashes \in Nat

OwnedInit ==
  /\ PageInit
  /\ at = "idle" /\ startup = FALSE /\ document = Null /\ lost = FALSE /\ settled = FALSE
  /\ calling = Null /\ disposing = Null /\ status = Null /\ record = Null
  /\ script = Null /\ returned = Null
  /\ tab = Null /\ doc = 1 /\ home = TRUE /\ loaded = FALSE /\ events = {}
  /\ tabs = 0 /\ marked = Null /\ entered = {} /\ crashes = 0

-----------------------------------------------------------------------------
(* Opening *)

NoRecord == record = Null

\* The record is read before anything else; with one there already nothing happens.
Open ==
  /\ at = "idle" /\ NoRecord
  /\ at' = "record" /\ startup' \in BOOLEAN
  /\ UNCHANGED <<pageVars, document, lost, settled, calling, disposing, status, record,
                 scriptVars, tabVars, historyVars>>

\* A storage write is done, or rejected and not done.
Stored(r, next, otherwise) ==
  \/ record' = r /\ at' = next
  \/ at' = otherwise /\ UNCHANGED record

openingFrame == <<pageVars, startup, lost, settled, calling, disposing, scriptVars>>

\* Mistake: the record is written once the tab is there.
RecordLater ==
  /\ at = "record" /\ at' = "create"
  /\ UNCHANGED <<openingFrame, document, status, record, tabVars, historyVars>>

\* Without a record the opening is given up at once.
RecordOpening ==
  /\ at = "record"
  /\ Stored("opening", "create", "idle")
  /\ UNCHANGED <<openingFrame, document, status, tabVars, historyVars>>

CreateTab ==
  /\ at = "create"
  /\ \/ /\ at' = "recordTab"
        /\ tab' = "open" /\ loaded' = FALSE /\ home' = TRUE
        /\ tabs' = tabs + 1
     \/ at' = "fail" /\ UNCHANGED <<tab, loaded, home, tabs>>
  /\ UNCHANGED <<openingFrame, document, status, record, doc, events, marked, entered, crashes>>

\* Mistake: the status is the one tabs.create answered with.
RecordTabStatus ==
  /\ at = "recordTab"
  /\ Stored("opening", "load", "fail")
  /\ status' = "loading"
  /\ events' = events \ {"complete"}
  /\ UNCHANGED <<openingFrame, document, tab, doc, home, loaded, historyVars>>

\* The listeners of the load are registered and then the status is asked for.
RecordTab ==
  /\ at = "recordTab"
  /\ Stored("opening", "load", "fail")
  /\ status' = Null
  /\ events' = events \ {"complete"}
  /\ UNCHANGED <<openingFrame, document, tab, doc, home, loaded, historyVars>>

\* tabs.get reads the status, now or later.
GetStatus ==
  /\ at = "load" /\ status = Null
  /\ \/ /\ tab = "open" /\ status' = (IF loaded THEN "complete" ELSE "loading")
        /\ UNCHANGED at
     \/ at' = "fail" /\ UNCHANGED status
  /\ UNCHANGED <<openingFrame, document, record, tabVars, historyVars>>

Load ==
  /\ at = "load"
  /\ \/ status = "complete" /\ at' = "mark" /\ UNCHANGED events
     \/ "complete" \in events /\ at' = "mark" /\ events' = events \ {"complete"}
     \/ at' = "fail" /\ UNCHANGED events   \* the timer
  /\ UNCHANGED <<openingFrame, document, status, record, tab, doc, home, loaded, historyVars>>

\* execute: a script is handed to the browser, unless the document is lost.
Inject(s) == script' = s /\ returned' = Null

InjectMark ==
  /\ at = "mark" /\ script = Null
  /\ IF lost THEN at' = "fail" /\ UNCHANGED scriptVars
     ELSE Inject([func |-> "mark", target |-> Null]) /\ UNCHANGED at
  /\ UNCHANGED <<pageVars, startup, document, lost, settled, calling, disposing, status, record,
                 tabVars, historyVars>>

MarkReturns ==
  /\ at = "mark" /\ returned \in {"yes", "no", "gone"}
  /\ IF returned = "yes" /\ ~lost
       THEN at' = "recordDocument" /\ document' = marked
       ELSE at' = "fail" /\ UNCHANGED document
  /\ script' = Null /\ returned' = Null
  /\ UNCHANGED <<pageVars, startup, lost, settled, calling, disposing, status, record, tabVars,
                 historyVars>>

RecordDocument ==
  /\ at = "recordDocument"
  /\ Stored("owned", "initialize", "fail")
  /\ UNCHANGED <<openingFrame, document, status, tabVars, historyVars>>

\* Mistake: the collector is addressed by its tab alone.
TargetTab == Null

Target == document

InjectInitialize ==
  /\ at = "initialize" /\ script = Null
  /\ IF lost THEN at' = "fail" /\ UNCHANGED scriptVars
     ELSE /\ \E a \in Adapters :
               Inject([func |-> "command", target |-> Target,
                       command |-> [op |-> "initialize", adapter |-> a, startupOnly |-> startup]])
          /\ UNCHANGED at
  /\ UNCHANGED <<pageVars, startup, document, lost, settled, calling, disposing, status, record,
                 tabVars, historyVars>>

InitializeReturns ==
  /\ at = "initialize" /\ returned \in {"yes", "no", "gone"}
  /\ at' = IF returned = "yes" /\ ~lost THEN "ready" ELSE "fail"
  /\ script' = Null /\ returned' = Null
  /\ UNCHANGED <<pageVars, startup, document, lost, settled, calling, disposing, status, record,
                 tabVars, historyVars>>

\* The failure of an opening is recorded, if the storage takes it.
RecordFailure ==
  /\ at = "fail"
  /\ Stored("ownership_uncertain", "failed", "failed")
  /\ UNCHANGED <<openingFrame, document, status, tabVars, historyVars>>

-----------------------------------------------------------------------------
(* The handle: call and dispose *)

handleFrame == <<at, startup, document, status>>

\* An inspection of the startup calls nothing but dispose.
Call ==
  /\ at = "ready" /\ ~startup /\ calling = Null /\ ~settled /\ ~lost
  /\ script = Null
  /\ calling' = "check"
  /\ Inject([func |-> "check", target |-> Target])
  /\ UNCHANGED <<pageVars, handleFrame, lost, settled, disposing, record, tabVars, historyVars>>

\* The document still carries the marker, so the command follows.
CheckReturns ==
  /\ calling = "check" /\ returned \in {"yes", "no", "gone"}
  /\ IF returned = "yes" /\ ~lost
       THEN /\ calling' = "command"
            /\ \E c \in Commands : c.op # "initialize" /\
                 Inject([func |-> "command", target |-> Target, command |-> c])
            /\ UNCHANGED lost
       ELSE calling' = Null /\ lost' = TRUE /\ script' = Null /\ returned' = Null
  /\ UNCHANGED <<pageVars, handleFrame, settled, disposing, record, tabVars, historyVars>>

CommandReturns ==
  /\ calling = "command" /\ returned \in {"yes", "no", "gone"}
  /\ calling' = Null /\ script' = Null /\ returned' = Null
  /\ lost' = (lost \/ returned = "gone")
  /\ UNCHANGED <<pageVars, handleFrame, settled, disposing, record, tabVars, historyVars>>

\* The timer of execute: the document is given up, the script may still run.
GiveUp ==
  /\ \/ calling # Null
     \/ at \in {"mark", "initialize"} /\ script # Null
  /\ lost' = TRUE /\ calling' = Null
  /\ at' = IF at \in {"mark", "initialize"} THEN "fail" ELSE at
  /\ UNCHANGED <<pageVars, startup, document, settled, disposing, status, record, scriptVars,
                 tabVars, historyVars>>

\* Mistake: dispose trusts the document without a word from it.
DisposeBlindly ==
  /\ at = "ready" /\ ~settled /\ calling = Null /\ disposing = Null
  /\ settled' = TRUE
  /\ disposing' = IF lost THEN "ownership_uncertain" ELSE "operator_cleanup_required"
  /\ UNCHANGED <<pageVars, handleFrame, lost, calling, record, scriptVars, tabVars, historyVars>>

\* Not while a call awaits its script.  A document that is lost is not spoken to.
Dispose ==
  /\ at = "ready" /\ ~settled /\ calling = Null /\ disposing = Null
  /\ \/ lost /\ settled' = TRUE /\ disposing' = "ownership_uncertain"
     \/ ~lost /\ disposing' = "abort" /\ UNCHANGED settled
  /\ UNCHANGED <<pageVars, handleFrame, lost, calling, record, scriptVars, tabVars, historyVars>>

Here(target) == tab = "open" /\ target = doc

\* The abort of dispose: it runs in the document and its reply arrives in time, or not.
\* What is to be recorded is settled there and then; a call may run beside it.
AbortOwned ==
  /\ disposing = "abort"
  /\ \/ /\ Here(document) /\ Settled
        /\ AbortPage
        /\ UNCHANGED pageReply
        /\ lost' \in {lost, TRUE}
     \/ lost' = TRUE /\ UNCHANGED pageVars
  /\ settled' = TRUE
  /\ disposing' = IF lost' THEN "ownership_uncertain" ELSE "operator_cleanup_required"
  /\ UNCHANGED <<handleFrame, calling, record, scriptVars, tabVars, historyVars>>

\* The write may be rejected.
RecordDisposal ==
  /\ disposing \in RecordStates
  /\ record' \in {record, disposing} /\ disposing' = Null
  /\ UNCHANGED <<pageVars, handleFrame, lost, settled, calling, scriptVars, tabVars, historyVars>>

-----------------------------------------------------------------------------
(* The browser *)

\* A script runs in the document it names, or in the one that is there if it names none.
RunScript ==
  /\ script # Null /\ returned = Null
  /\ tab = "open" /\ script.target \in {doc, Null}
  /\ \/ /\ script.func = "mark"
        /\ IF home /\ marked # doc
             THEN returned' = "yes" /\ marked' = doc ELSE returned' = "no" /\ UNCHANGED marked
        /\ UNCHANGED <<pageVars, entered>>
     \/ /\ script.func = "check"
        /\ returned' = IF home /\ marked = doc THEN "yes" ELSE "no"
        /\ UNCHANGED <<pageVars, marked, entered>>
     \/ /\ script.func = "command"
        /\ entered' = entered \cup {doc}
        /\ Invoke(script.command)
        /\ returned' = "pending"
        /\ UNCHANGED marked
  /\ UNCHANGED <<script, bridgeVars, tabVars, tabs, crashes>>

\* The reply of a command is taken.
ScriptReplies ==
  /\ returned = "pending" /\ pageReply # Null
  /\ returned' = IF pageReply = "ok" THEN "yes" ELSE "no"
  /\ pageReply' = Null
  /\ UNCHANGED <<fetchVars, cookie, initialized, startupOnly, adapterMode, selection, pageClosed,
                 heldVars, consumed, kind, account, bridgeVars, script, tabVars, historyVars>>

\* Its document is not there, or no longer.
ScriptFails ==
  /\ script # Null /\ returned \in {Null, "pending"}
  /\ ~(tab = "open" /\ script.target \in {doc, Null})
  /\ returned' = "gone"
  /\ UNCHANGED <<pageVars, bridgeVars, script, tabVars, historyVars>>

\* The collector and its timers go with their document.
PageGone ==
  /\ pageClosed' = TRUE
  /\ phase' = "idle" /\ wake' = Null /\ answer' = Null /\ total' = 0
  /\ signal' = FALSE /\ expired' = FALSE /\ timer' = FALSE
  /\ initialized' = FALSE /\ startupOnly' = FALSE /\ adapterMode' = Null /\ selection' = Null
  /\ sessionVerified' = FALSE /\ bodyFetched' = FALSE /\ sessionToken' = FALSE
  /\ transfer' = Null /\ expectedSequence' = 0 /\ consumed' = {} /\ account' = Null
  /\ pageReply' = Null
  /\ UNCHANGED <<invoked, outcome, kind, cookie>>

Navigate ==
  /\ tab = "open" /\ doc < MaxDocs
  /\ doc' = doc + 1 /\ home' \in BOOLEAN /\ loaded' = FALSE
  /\ events' = events \cup {"navigated"}
  /\ IF doc \in entered THEN PageGone ELSE UNCHANGED pageVars
  /\ UNCHANGED <<bridgeVars, scriptVars, tab, historyVars>>

\* Of no consequence to the bridge at any other time.
CompleteLoad ==
  /\ tab = "open" /\ ~loaded /\ at \in {"recordTab", "load"}
  /\ loaded' = TRUE
  /\ events' = IF at = "load" THEN events \cup {"complete"} ELSE events
  /\ UNCHANGED <<pageVars, bridgeVars, scriptVars, tab, doc, home, historyVars>>

CloseTab ==
  /\ tab = "open" /\ tab' = "closed"
  /\ events' = events \cup {"removed"}
  /\ IF doc \in entered THEN PageGone ELSE UNCHANGED pageVars
  /\ UNCHANGED <<bridgeVars, scriptVars, doc, home, loaded, historyVars>>

\* The listeners: a navigation counts once the document is known, a removal always.
Listening == at \in (OpeningSteps \ {"record", "create"}) \cup {"ready"} /\ ~settled

Deliver ==
  /\ \E e \in events \ {"complete"} :
       /\ events' = events \ {e}
       /\ lost' = (lost \/ (Listening /\ (e = "removed" \/ document # Null)))
       /\ at' = IF at = "load" /\ e = "removed" THEN "fail" ELSE at
  /\ UNCHANGED <<pageVars, startup, document, settled, calling, disposing, status, record,
                 scriptVars, tab, doc, home, loaded, historyVars>>

\* The worker is killed: its script stays with the browser, of its memory nothing stays.
Crash ==
  /\ at # "idle" /\ crashes < MaxCrashes
  /\ crashes' = crashes + 1
  /\ at' = "idle" /\ startup' = FALSE /\ document' = Null /\ lost' = FALSE /\ settled' = FALSE
  /\ calling' = Null /\ disposing' = Null /\ status' = Null
  /\ UNCHANGED <<pageVars, record, scriptVars, tabVars, tabs, marked, entered>>

InPage == PageTask \/ ChangeCookie

OwnedNext ==
  \/ Open \/ RecordOpening \/ CreateTab \/ RecordTab \/ GetStatus \/ Load
  \/ InjectMark \/ MarkReturns \/ RecordDocument \/ InjectInitialize \/ InitializeReturns
  \/ RecordFailure
  \/ Call \/ CheckReturns \/ CommandReturns \/ GiveUp
  \/ Dispose \/ AbortOwned \/ RecordDisposal
  \/ RunScript \/ ScriptReplies \/ ScriptFails
  \/ Navigate \/ CompleteLoad \/ CloseTab \/ Deliver \/ Crash
  \/ InPage /\ UNCHANGED <<bridgeVars, scriptVars, tabVars, historyVars>>

OwnedSpec == OwnedInit /\ [][OwnedNext]_ownedVars

-----------------------------------------------------------------------------
(* Properties *)

\* Whatever crashes and whatever the storage rejects: at most one tab is ever created,
\* and never one the storage knows nothing about.
OneTab == tabs <= 1 /\ (tabs = 1 => record # Null)

\* The collector is called in the document that was marked and in no other, also when
\* the user navigates between the check and the command or a script runs late.
OwnedDocumentOnly == entered \subseteq {marked}

\* A record that leaves only the operator's clean-up says that the collector in the
\* document is closed and holds nothing.
CleanupHonest ==
  record = "operator_cleanup_required" => pageClosed /\ transfer = Null /\ ~sessionToken

\* Waiting for a document that has loaded ends without its timer: the status is still
\* to be read, or tells, or the event is on its way.
LoadNoticed ==
  at = "load" /\ tab = "open" /\ loaded =>
    status \in {Null, "complete"} \/ "complete" \in events
=============================================================================
