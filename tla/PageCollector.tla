-------------------------- MODULE PageCollector --------------------------
(***************************************************************************)
(* extension/page-collector.mjs: the collector inside the owned document.  *)
(* It lives as long as the document; its calls come from the extension as  *)
(* scripts, which is the matter of OwnedPage.  A call is one step, except  *)
(* for a dispatch, whose task goes on until it replies.  The account       *)
(* selection is a cookie, which the user may change at any moment.         *)
(***************************************************************************)
EXTENDS AbortableFetch

CONSTANTS
  Accounts,    \* what the cookie may select
  PermitIds,
  Adapters,    \* a subset of "setup" and "synthetic", the adapter of the tests
  SessionLimit, BodyLimit, ChunkBytes

ASSUME PageAssumption ==
  /\ Adapters \subseteq {"setup", "synthetic"}
  /\ Null \notin Accounts \cup Adapters
  /\ SessionLimit \in Nat /\ BodyLimit \in Nat /\ ChunkBytes \in Nat \ {0}

VARIABLES
  cookie,           \* the account the browser is set to, or Null
  initialized, startupOnly,
  adapterMode,      \* Null or the adapter
  selection,        \* accountSelection
  pageClosed,       \* closed
  sessionVerified, bodyFetched, sessionToken,
  transfer,         \* Null, or kind, chunk count and account of what is held
  expectedSequence,
  consumed,         \* permits
  kind,             \* the kind of the current or last dispatch
  account,          \* the account its response is for
  pageReply         \* the reply that has not been taken

pageVars == <<fetchVars, cookie, initialized, startupOnly, adapterMode, selection, pageClosed,
              sessionVerified, bodyFetched, sessionToken, transfer, expectedSequence, consumed,
              kind, account, pageReply>>

Kinds == {"session-check", "body"}
Replies == {"ok", "refused"}

Commands ==
  [op : {"initialize"}, adapter : Adapters, startupOnly : BOOLEAN]
  \cup [op : {"dispatch"}, kind : Kinds, id : PermitIds]
  \cup [op : {"pull"}, sequence : 0..BodyLimit]
  \cup [op : {"release", "abort"}]

PageTypeOK ==
  /\ FetchTypeOK
  /\ cookie \in Accounts \cup {Null} /\ selection \in Accounts \cup {Null}
  /\ account \in Accounts \cup {Null} /\ adapterMode \in Adapters \cup {Null}
  /\ initialized \in BOOLEAN /\ startupOnly \in BOOLEAN /\ pageClosed \in BOOLEAN
  /\ sessionVerified \in BOOLEAN /\ bodyFetched \in BOOLEAN /\ sessionToken \in BOOLEAN
  /\ transfer \in [kind : Kinds, count : Nat, account : Accounts \cup {Null}] \cup {Null}
  /\ expectedSequence \in Nat /\ consumed \subseteq PermitIds
  /\ kind \in Kinds /\ pageReply \in Replies \cup {Null}

PageInit ==
  /\ FetchInit
  /\ cookie \in Accounts \cup {Null}
  /\ initialized = FALSE /\ startupOnly = FALSE /\ adapterMode = Null /\ selection = Null
  /\ pageClosed = FALSE /\ sessionVerified = FALSE /\ bodyFetched = FALSE
  /\ sessionToken = FALSE /\ transfer = Null /\ expectedSequence = 0
  /\ consumed = {} /\ kind = "session-check" /\ account = Null
  /\ pageReply = Null

-----------------------------------------------------------------------------
(* Calls *)

Setup == adapterMode = "setup"
Busy == phase \in Awaits
SelectionKept == Setup => cookie # Null /\ cookie = selection

Reply(r) == pageReply' = r

Refuse ==
  /\ Reply("refused")
  /\ UNCHANGED <<fetchVars, cookie, initialized, startupOnly, adapterMode, selection,
                 pageClosed, sessionVerified, bodyFetched, sessionToken, transfer,
                 expectedSequence, consumed, kind, account>>

\* A refused setup that asked for the startup only stays a startup only.
Initialize(c) ==
  /\ c.op = "initialize" /\ ~pageClosed
  /\ LET setup == c.adapter = "setup"
         admitted == ~initialized /\ (IF setup THEN cookie # Null ELSE ~c.startupOnly)
     IN /\ startupOnly' = (startupOnly \/ (~initialized /\ setup /\ c.startupOnly))
        /\ initialized' = (initialized \/ admitted)
        /\ adapterMode' = IF admitted THEN c.adapter ELSE adapterMode
        /\ selection' = IF admitted /\ setup THEN cookie ELSE selection
        /\ Reply(IF admitted THEN "ok" ELSE "refused")
  /\ UNCHANGED <<fetchVars, cookie, pageClosed, sessionVerified, bodyFetched, sessionToken,
                 transfer, expectedSequence, consumed, kind, account>>

MayDispatch(k, id) ==
  /\ ~pageClosed /\ initialized /\ ~startupOnly /\ ~Busy
  /\ id \notin consumed /\ transfer = Null
  /\ k = "body" => ~Setup /\ sessionVerified /\ ~bodyFetched
  /\ k = "session-check" => ~sessionVerified

\* With a permit that has not expired; fetch is called at once.
Dispatch(c) ==
  /\ c.op = "dispatch" /\ MayDispatch(c.kind, c.id)
  /\ consumed' = consumed \cup {c.id}
  /\ kind' = c.kind /\ account' = Null
  /\ pageReply' = Null
  /\ Begin(TRUE)
  /\ UNCHANGED <<cookie, initialized, startupOnly, adapterMode, selection, pageClosed,
                 sessionVerified, bodyFetched, sessionToken, transfer, expectedSequence>>

\* A refusal for any of the reasons above, for an expired or malformed permit, or because
\* the last dispatch was less than MIN_DISPATCH_SPACING_MS ago.
DispatchRefused(c) == c.op = "dispatch" /\ Refuse

\* A changed selection takes back what is held.
TakeBack ==
  /\ transfer' = Null /\ expectedSequence' = 0 /\ sessionVerified' = FALSE
  /\ Reply("refused")

Pull(c) ==
  /\ c.op = "pull"
  /\ IF pageClosed \/ ~initialized \/ transfer = Null THEN Refuse
     ELSE /\ IF ~SelectionKept THEN TakeBack
             ELSE /\ UNCHANGED <<transfer, sessionVerified>>
                  /\ IF c.sequence < transfer.count /\ c.sequence <= expectedSequence
                       THEN /\ expectedSequence' = IF c.sequence = expectedSequence
                                                     THEN expectedSequence + 1
                                                     ELSE expectedSequence
                            /\ Reply("ok")
                       ELSE Reply("refused") /\ UNCHANGED expectedSequence
          /\ UNCHANGED <<fetchVars, cookie, initialized, startupOnly, adapterMode, selection,
                         pageClosed, bodyFetched, sessionToken, consumed, kind, account>>

Release(c) ==
  /\ c.op = "release"
  /\ IF pageClosed \/ ~initialized \/ Busy
        \/ (transfer # Null /\ expectedSequence # transfer.count) THEN Refuse
     ELSE /\ IF ~SelectionKept THEN TakeBack /\ UNCHANGED sessionToken
             ELSE /\ transfer' = Null
                  /\ expectedSequence' = IF transfer = Null THEN expectedSequence ELSE 0
                  /\ sessionToken' = (sessionToken /\ ~bodyFetched)
                  /\ Reply("ok")
                  /\ UNCHANGED sessionVerified
          /\ UNCHANGED <<fetchVars, cookie, initialized, startupOnly, adapterMode, selection,
                         pageClosed, bodyFetched, consumed, kind, account>>

\* What an abort does; its reply is the caller's and not that of a dispatch it cancels.
AbortPage ==
  /\ pageClosed' = TRUE
  /\ IF Busy THEN Abort(FALSE) ELSE UNCHANGED <<signal, wake>>
  /\ transfer' = Null /\ expectedSequence' = 0
  /\ sessionToken' = FALSE /\ sessionVerified' = FALSE
  /\ UNCHANGED <<phase, invoked, answer, total, expired, timer, outcome, cookie, initialized,
                 startupOnly, adapterMode, selection, bodyFetched, consumed, kind,
                 account>>

AbortCall(c) == c.op = "abort" /\ AbortPage /\ Reply("ok")

\* Scripts and timers of the page wait until the promises that are settled have run.
Settled == ~(Busy /\ wake # Null)

Operation(c) ==
  \/ Initialize(c) \/ (c.op = "initialize" /\ pageClosed /\ Refuse)
  \/ Dispatch(c) \/ DispatchRefused(c)
  \/ Pull(c) \/ Release(c) \/ AbortCall(c)

Invoke(c) == Settled /\ Operation(c)

-----------------------------------------------------------------------------
(* The task of a dispatch *)

taskFrame == <<cookie, initialized, startupOnly, adapterMode, selection, pageClosed, consumed,
               kind>>
heldVars == <<sessionVerified, bodyFetched, sessionToken, transfer, expectedSequence>>

\* A response to the session check is for the account the cookie selects by then.
PageUpstream ==
  /\ Arrive
  /\ account' = IF phase = "fetch" THEN cookie ELSE account
  /\ UNCHANGED <<taskFrame, heldVars, pageReply>>

PageExpire ==
  /\ Settled /\ timer /\ timer' = FALSE
  /\ expired' = TRUE /\ Abort(TRUE)
  /\ UNCHANGED <<phase, invoked, answer, total, outcome, taskFrame, heldVars, account, pageReply>>

\* The task replies, and its locals and its timer are gone; why it failed is left out.
Leave ==
  /\ phase' = "idle" /\ wake' = Null /\ answer' = Null /\ total' = 0
  /\ signal' = FALSE /\ timer' = FALSE /\ account' = Null
  /\ UNCHANGED <<invoked, expired, outcome>>

ReplyFailure == Leave /\ Reply("refused") /\ UNCHANGED heldVars

Continue(p, bytes) == Await(p, bytes) /\ UNCHANGED <<heldVars, account, pageReply>>

AfterFetch ==
  /\ Resumes("fetch")
  /\ IF wake \notin Failures /\ HeadVerdict = "more" THEN Continue("read", 0) ELSE ReplyFailure
  /\ UNCHANGED taskFrame

\* Mistake: whose session it is is left to the cookie.
IdentifiesByCookie == answer = "fitting" /\ SelectionKept

\* The session is of the configured identity and, in a setup, of the account selected
\* at the start, which is still selected.  The cookie may say "personal" for the personal
\* account of that identity: that this is the account of the session is, like its
\* structure, part of a response that fits.
Identifies == answer = "fitting" /\ SelectionKept /\ (Setup => account = selection)

AfterPiece ==
  /\ Resumes("read")
  /\ \E n \in PartSizes :
       LET v == PieceVerdict(n, IF kind = "body" THEN BodyLimit ELSE SessionLimit)
           fits == IF kind = "body" THEN answer = "fitting" ELSE Identifies
       IN IF v = "more" THEN Continue("read", n)
          ELSE IF v = "whole" /\ fits THEN Continue("digest", 0)
          ELSE ReplyFailure
  /\ UNCHANGED taskFrame

Chunks == IF kind = "body" THEN (total + ChunkBytes - 1) \div ChunkBytes ELSE 1

AfterDigest ==
  /\ Resumes("digest")
  /\ IF wake \in Failures THEN ReplyFailure
     ELSE /\ Leave /\ Reply("ok")
          /\ transfer' = [kind |-> kind, count |-> Chunks,
                          account |-> IF kind = "body" THEN Null ELSE account]
          /\ expectedSequence' = 0
          /\ IF kind = "body" THEN bodyFetched' = TRUE /\ UNCHANGED <<sessionVerified, sessionToken>>
             ELSE /\ sessionVerified' = TRUE /\ sessionToken' = (sessionToken \/ ~Setup)
                  /\ UNCHANGED bodyFetched
  /\ UNCHANGED taskFrame

\* The user selects another account.  It starts with any, and only a setup ever looks.
ChangeCookie ==
  /\ Setup /\ ~pageClosed
  /\ cookie' \in (Accounts \cup {Null}) \ {cookie}
  /\ UNCHANGED <<fetchVars, initialized, startupOnly, adapterMode, selection, pageClosed,
                 heldVars, consumed, kind, account, pageReply>>

PageTask == PageUpstream \/ PageExpire \/ AfterFetch \/ AfterPiece \/ AfterDigest

-----------------------------------------------------------------------------
(* Properties *)

\* What is held came from a dispatch that replied in time, in a collector that has not
\* been closed: no answer that is late, aborted or out of order becomes a result.  A
\* token is there only between a verified session and the end.  In a setup the identity
\* that is held is of the account selected at the start, also if the selection was
\* changed and changed back while the request was under way.
HeldInTime ==
  /\ transfer # Null => ~pageClosed /\ ~Busy /\ ~expired /\ sessionVerified
  /\ sessionToken => sessionVerified /\ ~pageClosed
  /\ transfer # Null /\ Setup => transfer.account = selection
=============================================================================
