--------------------------- MODULE ProbeSocket ---------------------------
(***************************************************************************)
(* src/probe-socket.mjs: the listener of the worker, which serves one      *)
(* connection and one request at a time around a receiver, and the         *)
(* connector of a native host.  The processes share only the socket, on    *)
(* which a frame or the end of the connection is on its way until the      *)
(* other side reads it.  Frames are requests and replies known by number.  *)
(*                                                                         *)
(* External, modelled from how this code uses it: the receiver, which may  *)
(* answer at any time or never, also after it was told to abort; the       *)
(* process lock behind ownership; node's sockets.                          *)
(***************************************************************************)
EXTENDS Naturals

CONSTANTS
  Null,
  Hosts,            \* the native hosts, a connector each
  MaxRequests,      \* bound of the model: requests of each host
  MaxDeaths,        \* bound of the model: how often the worker is killed
  OwnershipAwaits   \* ownership() takes time; every caller's is synchronous

ASSUME SocketAssumption ==
  /\ Null \notin Hosts \cup Nat
  /\ Null \notin {"owner", "read", "ownerAgain", "receiver", "write", "reply"}
  /\ Null \notin {"connecting", "open", "closed", "offered", "served", "dropped"}
  /\ MaxRequests \in [Hosts -> Nat] /\ MaxDeaths \in Nat /\ OwnershipAwaits \in BOOLEAN

VARIABLES
  \* the worker
  listener,    \* "none", "up" or "closed"
  path,        \* the socket file: Null, "stale" or "ours"
  owned,       \* the process lock is held
  serverFailed,
  active,      \* the host whose connection is served
  serve,       \* what serveConnection awaits
  request,     \* the request it serves
  failure,     \* state.failure is set
  aborted,     \* the signal of the request has aborted
  working,     \* requests the receiver is at
  deaths,
  \* the connections
  link,        \* the server's end: Null, "offered", "served" or "dropped"
  up, down,    \* the frame on its way to the server, to the host
  \* the connectors
  conn,        \* Null, "connecting", "open" or "closed"
  asked,       \* the number of its last request
  call,        \* what it awaits: Null, "write" or "reply"
  \* history
  handled      \* requests of each host that reached the receiver

workerVars == <<listener, path, owned, serverFailed, active, serve, request, failure, aborted,
                working, deaths>>
wireVars == <<link, up, down>>
connectorVars == <<conn, asked, call>>
socketVars == <<workerVars, wireVars, connectorVars, handled>>

Numbers == Nat \ {0}
Works == [from : Hosts, number : Numbers]

SocketTypeOK ==
  /\ listener \in {"none", "up", "closed"} /\ path \in {Null, "stale", "ours"}
  /\ owned \in BOOLEAN /\ serverFailed \in BOOLEAN /\ active \in Hosts \cup {Null}
  /\ serve \in {Null, "owner", "read", "ownerAgain", "receiver", "write"}
  /\ request \in Numbers \cup {Null} /\ failure \in BOOLEAN /\ aborted \in BOOLEAN
  /\ working \subseteq Works /\ deaths \in Nat
  /\ link \in [Hosts -> {Null, "offered", "served", "dropped"}]
  /\ up \in [Hosts -> Numbers \cup {Null}] /\ down \in [Hosts -> Numbers \cup {Null}]
  /\ conn \in [Hosts -> {Null, "connecting", "open", "closed"}]
  /\ asked \in [Hosts -> Nat]
  /\ call \in [Hosts -> {Null, "write", "reply"}]
  /\ handled \in [Hosts -> Nat]

SocketInit ==
  /\ listener = "none" /\ path \in {Null, "stale"} /\ owned = TRUE
  /\ serverFailed = FALSE /\ active = Null /\ serve = Null /\ request = Null
  /\ failure = FALSE /\ aborted = FALSE /\ working = {} /\ deaths = 0
  /\ link = [h \in Hosts |-> Null]
  /\ up = [h \in Hosts |-> Null] /\ down = [h \in Hosts |-> Null]
  /\ conn = [h \in Hosts |-> Null] /\ asked = [h \in Hosts |-> 0]
  /\ call = [h \in Hosts |-> Null]
  /\ handled = [h \in Hosts |-> 0]

-----------------------------------------------------------------------------
(* The listener *)

\* The events and timers of the worker wait for its promises that are settled.
Attentive == serve \in {"owner", "ownerAgain"} => OwnershipAwaits

\* A socket file left by an earlier owner is removed; anything else in its place, here
\* and at close, is refused and left to stuttering.
Listen ==
  /\ listener = "none" /\ owned /\ path # "ours"
  /\ listener' = "up" /\ path' = "ours"
  /\ UNCHANGED <<owned, serverFailed, active, serve, request, failure, aborted, working, deaths,
                 wireVars, connectorVars, handled>>

\* A connection is destroyed with what has not been read; on its close cancelPending
\* fences the listener if the receiver is at a request of it.
Drop(h) ==
  /\ link' = [link EXCEPT ![h] = "dropped"] /\ up' = [up EXCEPT ![h] = Null]
  /\ aborted' = (aborted \/ (active = h /\ serve = "receiver"))

\* Mistake: the request is cancelled and the listener goes on.
CancelQuietly(h) == serverFailed

CancelFences(h) == serverFailed \/ (active = h /\ serve = "receiver")

\* One connection at a time, and none after a failure.
Accept(h) ==
  /\ listener # "none" /\ link[h] = "offered"
  /\ IF listener = "closed" \/ serverFailed \/ active # Null
       THEN /\ link' = [link EXCEPT ![h] = "dropped"]
            /\ UNCHANGED <<active, serve, failure>>
       ELSE /\ link' = [link EXCEPT ![h] = "served"]
            /\ active' = h /\ serve' = "owner" /\ failure' = FALSE
  /\ UNCHANGED <<listener, path, owned, serverFailed, request, aborted, working, deaths,
                 up, down, connectorVars, handled>>

\* The server's error event.
ServerError ==
  /\ listener = "up" /\ ~serverFailed /\ Attentive
  /\ serverFailed' = TRUE
  /\ IF active = Null THEN UNCHANGED <<link, up, aborted>> ELSE Drop(active)
  /\ UNCHANGED <<listener, path, owned, active, serve, request, failure, working, deaths,
                 down, connectorVars, handled>>

\* close, refused if the lock is not held.
Close ==
  /\ listener = "up" /\ owned /\ path = "ours" /\ Attentive
  /\ listener' = "closed" /\ path' = Null
  /\ IF active = Null THEN UNCHANGED <<link, up, aborted, serverFailed>>
     ELSE Drop(active) /\ serverFailed' = CancelFences(active)
  /\ UNCHANGED <<owned, active, serve, request, failure, working, deaths,
                 down, connectorVars, handled>>

-----------------------------------------------------------------------------
(* serveConnection *)

serverFrame == <<listener, path, owned, deaths, connectorVars>>

\* It fails or ends; the connection is destroyed and the next one may come.
EndServe ==
  /\ active' = Null /\ serve' = Null /\ request' = Null /\ aborted' = FALSE
  /\ failure' = TRUE
  /\ link' = [link EXCEPT ![active] = "dropped"] /\ up' = [up EXCEPT ![active] = Null]

OwnerAnswers ==
  /\ serve = "owner"
  /\ IF owned THEN serve' = "read" /\ UNCHANGED <<active, request, aborted, failure, link, up>>
     ELSE EndServe
  /\ UNCHANGED <<serverFrame, serverFailed, working, down, handled>>

ReadRequest ==
  /\ serve = "read" /\ link[active] = "served" /\ up[active] # Null
  /\ request' = up[active] /\ up' = [up EXCEPT ![active] = Null]
  /\ serve' = "ownerAgain"
  /\ UNCHANGED <<listener, path, owned, serverFailed, active, failure, aborted, working, deaths,
                 link, down, connectorVars, handled>>

\* The connection is destroyed or has ended.
ReadEnds ==
  /\ serve = "read"
  /\ link[active] = "dropped"
  /\ EndServe
  /\ UNCHANGED <<serverFrame, serverFailed, working, down, handled>>

\* The receiver is called; the close of the connection may have been before.
HandToReceiver ==
  /\ serve = "ownerAgain"
  /\ IF owned
       THEN /\ serve' = "receiver" /\ aborted' = FALSE
            /\ working' = working \cup {[from |-> active, number |-> request]}
            /\ handled' = [handled EXCEPT ![active] = @ + 1]
            /\ UNCHANGED <<active, request, failure, link, up>>
       ELSE EndServe /\ UNCHANGED <<working, handled>>
  /\ UNCHANGED <<serverFrame, serverFailed, down>>

\* With a valid reply of the same number, or not.
ReceiverEnds ==
  /\ \E w \in working :
       /\ working' = working \ {w}
       /\ IF serve = "receiver" /\ w = [from |-> active, number |-> request]
            THEN \/ /\ ~aborted /\ serve' = "write"
                    /\ UNCHANGED <<active, request, aborted, failure, link, up>>
                 \/ EndServe
            ELSE UNCHANGED <<active, serve, request, aborted, failure, link, up>>
  /\ UNCHANGED <<serverFrame, serverFailed, down, handled>>

WriteReply ==
  /\ serve = "write" /\ link[active] = "served"
  /\ down' = IF conn[active] = "open" THEN [down EXCEPT ![active] = request] ELSE down
  /\ serve' = "read" /\ request' = Null
  /\ UNCHANGED <<serverFrame, serverFailed, active, failure, aborted, working, link, up, handled>>

WriteFails ==
  /\ serve = "write" /\ link[active] = "dropped"
  /\ EndServe
  /\ UNCHANGED <<serverFrame, serverFailed, working, down, handled>>

\* The timer of a request, or of the writing of its reply.  What has failed before fails
\* no more, and then this does not fence.
RequestTimeout ==
  /\ serve \in {"receiver", "write"}
  /\ serverFailed' = IF failure THEN serverFailed ELSE CancelFences(active)
  /\ EndServe
  /\ UNCHANGED <<serverFrame, working, down, handled>>

\* Mistake: the idle timer runs only while a request is served.
IdleTimeoutBusy ==
  /\ active # Null /\ Attentive /\ serve # "read"
  /\ link[active] = "served"
  /\ failure' = TRUE
  /\ Drop(active) /\ serverFailed' = CancelFences(active)
  /\ UNCHANGED <<serverFrame, active, serve, request, working, down, handled>>

IdleTimeout ==
  /\ active # Null /\ Attentive
  /\ link[active] = "served"
  /\ failure' = TRUE
  /\ Drop(active) /\ serverFailed' = CancelFences(active)
  /\ UNCHANGED <<serverFrame, active, serve, request, working, down, handled>>

\* The server sees that the connector has gone.
PeerCloses ==
  /\ active # Null /\ Attentive
  /\ link[active] = "served" /\ conn[active] = "closed"
  /\ Drop(active) /\ serverFailed' = CancelFences(active)
  /\ UNCHANGED <<serverFrame, active, serve, request, failure, working, down, handled>>

-----------------------------------------------------------------------------
(* The machine around the worker *)

\* From then on nothing that the lock protects may be done.
LoseOwnership ==
  /\ owned /\ owned' = FALSE
  /\ UNCHANGED <<listener, path, serverFailed, active, serve, request, failure, aborted, working,
                 deaths, wireVars, connectorVars, handled>>

\* The worker is killed with all it does; the lock goes to the next one.
Die ==
  /\ listener # "none" /\ deaths < MaxDeaths
  /\ deaths' = deaths + 1
  /\ listener' = "none" /\ path' = (IF path = "ours" THEN "stale" ELSE path)
  /\ owned' = TRUE /\ serverFailed' = FALSE
  /\ active' = Null /\ serve' = Null /\ request' = Null /\ failure' = FALSE /\ aborted' = FALSE
  /\ working' = {}
  /\ link' = [h \in Hosts |-> IF link[h] = Null THEN Null ELSE "dropped"]
  /\ up' = [h \in Hosts |-> Null]
  /\ UNCHANGED <<down, connectorVars, handled>>

-----------------------------------------------------------------------------
(* The connector *)

connectorFrame == <<workerVars, handled>>

\* state.fail and close: a call that is pending is rejected, and what was not read lost.
Shut(h) ==
  /\ conn' = [conn EXCEPT ![h] = "closed"] /\ call' = [call EXCEPT ![h] = Null]
  /\ down' = [down EXCEPT ![h] = Null]

\* connectProbeSocket.
Connect(h) ==
  /\ conn[h] = Null
  /\ conn' = [conn EXCEPT ![h] = "connecting"]
  /\ UNCHANGED <<connectorFrame, wireVars, asked, call>>

Connected(h) ==
  /\ conn[h] = "connecting" /\ path = "ours" /\ listener = "up"
  /\ conn' = [conn EXCEPT ![h] = "open"] /\ link' = [link EXCEPT ![h] = "offered"]
  /\ UNCHANGED <<connectorFrame, up, down, asked, call>>

\* There is no socket, it refuses, or the timer is first.
ConnectFails(h) ==
  /\ conn[h] = "connecting"
  /\ conn' = [conn EXCEPT ![h] = "closed"]
  /\ UNCHANGED <<connectorFrame, wireVars, asked, call>>

\* request, one at a time; on a connector that is closed it fails at once.
Request(h) ==
  /\ call[h] = Null /\ asked[h] < MaxRequests[h]
  /\ IF conn[h] = "open"
       THEN call' = [call EXCEPT ![h] = "write"] /\ asked' = [asked EXCEPT ![h] = @ + 1]
       ELSE UNCHANGED <<call, asked>>
  /\ UNCHANGED <<connectorFrame, wireVars, conn>>

SendRequest(h) ==
  /\ call[h] = "write"
  /\ call' = [call EXCEPT ![h] = "reply"] /\ up' = [up EXCEPT ![h] = asked[h]]
  /\ UNCHANGED <<connectorFrame, link, down, conn, asked>>

\* The timer of the writing, or of the reply.
CallTimeout(h) ==
  /\ call[h] \in {"write", "reply"}
  /\ Shut(h)
  /\ UNCHANGED <<connectorFrame, link, up, asked>>

\* pumpClient: a reply to the call that is pending.  Any other ends the connection.
TakeReply(h) ==
  /\ conn[h] = "open" /\ down[h] # Null
  /\ IF call[h] = "reply" /\ down[h] = asked[h]
       THEN /\ down' = [down EXCEPT ![h] = Null] /\ call' = [call EXCEPT ![h] = Null]
            /\ UNCHANGED conn
       ELSE Shut(h)
  /\ UNCHANGED <<connectorFrame, link, up, asked>>

\* The connection ends; what was sent before is read first.
ConnectionLost(h) ==
  /\ conn[h] = "open" /\ link[h] = "dropped" /\ down[h] = Null
  /\ Shut(h)
  /\ UNCHANGED <<connectorFrame, link, up, asked>>

WorkerStep ==
  \/ OwnerAnswers \/ ReadRequest \/ ReadEnds \/ HandToReceiver \/ WriteReply \/ WriteFails
  \/ RequestTimeout \/ IdleTimeout \/ PeerCloses

ConnectorStep(h) ==
  Connected(h) \/ ConnectFails(h) \/ SendRequest(h) \/ CallTimeout(h) \/ TakeReply(h)
  \/ ConnectionLost(h)

WorkerNext ==
  \/ Listen \/ ServerError \/ Close \/ WorkerStep \/ ReceiverEnds
  \/ LoseOwnership \/ Die
  \/ \E h \in Hosts : Accept(h)

-----------------------------------------------------------------------------
(* Properties *)

\* A timeout fences the listener (the comment on createProbeSocketServer): a request the
\* receiver is still at, and whose connection is no longer served, has fenced it.
TimeoutFences == \A w \in working : active = w.from \/ serverFailed

\* A timeout is no proof that the receiver has stopped: while it is at a request, the
\* connection served is that request's own, and no other request is handed to it.
OneClientPerWork ==
  \A w \in working : active \in {w.from, Null} /\ \A v \in working : v = w
=============================================================================
