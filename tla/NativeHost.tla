---------------------------- MODULE NativeHost ----------------------------
(***************************************************************************)
(* src/native-host.mjs: native hosts, each of which the browser starts     *)
(* with a pipe for requests and one for replies, pumping one request at a  *)
(* time into a connector of ProbeSocket.  A host follows its connector     *)
(* without an event in between: what a promise of the connector is settled *)
(* with is a step of both.  The browser may close either pipe at any time  *)
(* and need not read.                                                      *)
(***************************************************************************)
EXTENDS ProbeSocket

VARIABLES
  host,        \* what runNativeHost awaits: see HostSteps
  inputEnded,
  processed    \* replies written to the browser

hostVars == <<host, inputEnded, processed>>
nativeVars == <<socketVars, hostVars>>

HostSteps == {"start", "connect", "read", "worker", "write", "close", "over"}

NativeTypeOK ==
  /\ SocketTypeOK
  /\ host \in [Hosts -> HostSteps] /\ inputEnded \in [Hosts -> BOOLEAN]
  /\ processed \in [Hosts -> Nat]

NativeInit ==
  /\ SocketInit
  /\ host = [h \in Hosts |-> "start"] /\ inputEnded = [h \in Hosts |-> FALSE]
  /\ processed = [h \in Hosts |-> 0]

Awaiting == {"read", "worker", "write"}

-----------------------------------------------------------------------------

\* The origin and the pipes are in order.
RunNativeHost(h) ==
  /\ host[h] = "start"
  /\ Connect(h)
  /\ host' = [host EXCEPT ![h] = "connect"]
  /\ UNCHANGED <<inputEnded, processed>>

\* What follows in the host when its connector has changed.
After(h) ==
  CASE host[h] = "connect" /\ conn'[h] = "open" -> "read"
    [] host[h] = "connect" /\ conn'[h] = "closed" -> "over"
    [] host[h] = "worker" /\ conn'[h] = "closed" -> "close"
    [] host[h] = "worker" /\ conn'[h] # "closed" /\ call'[h] = Null -> "write"
    [] OTHER -> host[h]

Follow(h) ==
  /\ ConnectorStep(h)
  /\ host' = [host EXCEPT ![h] = After(h)]
  /\ UNCHANGED <<inputEnded, processed>>

\* Mistake: the next frame is passed on while a reply is still being written.
PassOnEarly(h) ==
  /\ host[h] \in {"read", "write"} /\ ~inputEnded[h]
  /\ Request(h)
  /\ host' = [host EXCEPT ![h] = IF conn[h] = "open" THEN "worker" ELSE "close"]
  /\ UNCHANGED <<inputEnded, processed>>

\* The next frame is decoded and passed on.
PassOn(h) ==
  /\ host[h] = "read" /\ ~inputEnded[h]
  /\ Request(h)
  /\ host' = [host EXCEPT ![h] = IF conn[h] = "open" THEN "worker" ELSE "close"]
  /\ UNCHANGED <<inputEnded, processed>>

WriteNativeFrame(h) ==
  /\ host[h] = "write"
  /\ host' = [host EXCEPT ![h] = "read"]
  /\ processed' = [processed EXCEPT ![h] = @ + 1]
  /\ UNCHANGED <<socketVars, inputEnded>>

\* failPort: an error or the close of a pipe cancels what is awaited.
FailPort(h) ==
  /\ host[h] \in Awaiting \cup {"connect"}
  /\ host' = [host EXCEPT ![h] = IF @ = "connect" THEN "over" ELSE "close"]
  /\ UNCHANGED <<socketVars, inputEnded, processed>>

\* The end of the input is a failure while the worker is at a request, and otherwise
\* found when the next frame is awaited.
InputEnds(h) ==
  /\ host[h] \in Awaiting \cup {"connect"} /\ ~inputEnded[h]
  /\ IF host[h] = "worker" THEN host' = [host EXCEPT ![h] = "close"] /\ UNCHANGED inputEnded
     ELSE inputEnded' = [inputEnded EXCEPT ![h] = TRUE] /\ UNCHANGED host
  /\ UNCHANGED <<socketVars, processed>>

ReadDone(h) ==
  /\ host[h] = "read" /\ inputEnded[h]
  /\ host' = [host EXCEPT ![h] = "close"]
  /\ UNCHANGED <<socketVars, inputEnded, processed>>

\* The last block: the connector is closed before the host ends.
CloseHost(h) ==
  /\ host[h] = "close"
  /\ host' = [host EXCEPT ![h] = "over"]
  /\ Shut(h)
  /\ UNCHANGED <<connectorFrame, link, up, asked, inputEnded, processed>>

CloseLate(h) ==
  /\ host[h] = "over" /\ conn[h] = "open"
  /\ Shut(h)
  /\ UNCHANGED <<connectorFrame, link, up, asked, hostVars>>

HostStep(h) == ReadDone(h) \/ CloseHost(h) \/ CloseLate(h)

NativeNext ==
  \/ WorkerNext /\ UNCHANGED hostVars
  \/ \E h \in Hosts :
       RunNativeHost(h) \/ Follow(h) \/ PassOn(h) \/ WriteNativeFrame(h)
       \/ FailPort(h) \/ InputEnds(h) \/ HostStep(h)

\* Timers fire and what is settled goes on; nothing is assumed of the receiver, the
\* browser and the arrival of connections.
NativeFairness ==
  /\ WF_nativeVars(WorkerStep /\ UNCHANGED hostVars)
  /\ \A h \in Hosts : WF_nativeVars(Follow(h)) /\ WF_nativeVars(HostStep(h))

NativeSpec == NativeInit /\ [][NativeNext]_nativeVars /\ NativeFairness

-----------------------------------------------------------------------------
(* Properties *)

Channel == INSTANCE RequestChannel WITH
  sent <- asked, answered <- processed,
  broken <- {h \in Hosts : host[h] \in {"close", "over"}}

\* The way through host and socket is the one ProbeCapture takes for granted: whatever
\* times out, closes or dies, no request is handled twice and none is answered that was
\* not handled, or by a host that has ended.
KeepsChannel == Channel!ChannelSpec

\* With a receiver that never answers, a browser that never reads and a worker that may
\* die at any moment: once nothing new is asked, every request passed on has been answered,
\* is at its answer's way out to a browser that does not read, or has ended its host; the
\* connector of every host that is over is closed, and no connection is served.
AtRest ==
  /\ active = Null
  /\ \A h \in Hosts :
       /\ host[h] \in {"start", "read", "write", "over"}
       /\ host[h] = "read" => processed[h] = asked[h]
       /\ host[h] = "write" => processed[h] + 1 = asked[h]
       /\ host[h] = "over" => conn[h] = "closed"

EverythingEnds == <>[]AtRest
=============================================================================
