------------------------- MODULE NativeHostProofs -------------------------
(***************************************************************************)
(* Hosts, socket and worker, for any hosts, numbers of requests and        *)
(* deaths: the way through them is the one of RequestChannel, and if       *)
(* ownership answers at once no client is served beside a request that the *)
(* receiver is still at.                                                   *)
(***************************************************************************)
EXTENDS NativeHost, TLAPS

\* A request that has been read is the last one its host asked for.
Reached == serve \in {"ownerAgain", "receiver", "write"}

ServeSound ==
  /\ active = Null <=> serve = Null
  /\ Reached =>
       /\ request = asked[active] /\ processed[active] < asked[active]
       /\ up[active] = Null /\ down[active] = Null
       /\ host[active] # "write"
  /\ serve = "ownerAgain" => handled[active] < asked[active] /\ call[active] # "write"
  /\ serve \in {"receiver", "write"} => handled[active] = asked[active]

\* A frame on its way is the last request or its reply, and one request is under way.
CallSound(h) ==
  /\ processed[h] <= handled[h] /\ handled[h] <= asked[h] /\ asked[h] <= processed[h] + 1
  /\ up[h] # Null => up[h] = asked[h] /\ handled[h] < asked[h]
  /\ down[h] # Null => down[h] = asked[h] /\ handled[h] = asked[h] /\ processed[h] < asked[h]
  /\ call[h] = "write" => handled[h] < asked[h] /\ up[h] = Null
  /\ call[h] # Null => processed[h] < asked[h]
  /\ host[h] \in {"start", "connect", "read"} => processed[h] = asked[h]
  /\ host[h] = "worker" => call[h] # Null
  /\ host[h] = "write" =>
       /\ handled[h] = asked[h] /\ processed[h] < asked[h]
       /\ call[h] = Null /\ down[h] = Null

ChannelInv == NativeTypeOK /\ ServeSound /\ \A h \in Hosts : CallSound(h)

\* A request at the receiver is the one that is served, or has fenced the listener; what
\* has failed before is not handed over.
WorkSound ==
  /\ \A h \in Hosts : conn[h] \in {Null, "connecting"} => link[h] = Null
  /\ active # Null => link[active] \in {"served", "dropped"}
  /\ active # Null /\ failure => link[active] = "dropped"
  /\ serve = "ownerAgain" => ~failure
  /\ serve = "receiver" /\ failure => serverFailed
  /\ \A w \in working :
       \/ serve = "receiver" /\ w.from = active /\ w.number = request
       \/ active = Null /\ serverFailed
  /\ \A v, w \in working : v = w

WorkInv == ChannelInv /\ WorkSound
-----------------------------------------------------------------------------
(* The parts of a step *)

\* Nothing is no host, no number and no name.
LEMMA NotNull ==
  /\ Null \notin Hosts /\ Null \notin Nat
  /\ Null \notin {"owner", "read", "ownerAgain", "receiver", "write", "reply"}
  /\ Null \notin {"connecting", "open", "closed", "offered", "served", "dropped"}
BY SocketAssumption

\* A host whose connector has made a step goes on, stays, or closes.
LEMMA AfterValues ==
  ASSUME NEW h \in Hosts, host \in [Hosts -> HostSteps]
  PROVE  /\ After(h) \in HostSteps
         /\ After(h) \in {host[h], "read", "over", "close", "write"}
         /\ After(h) = "read" => host[h] \in {"read", "connect"}
         /\ After(h) = "worker" => host[h] = "worker" /\ call'[h] # Null
         /\ After(h) = "write" => \/ host[h] = "write"
                                  \/ host[h] = "worker" /\ call'[h] = Null /\ conn'[h] # "closed"
         /\ host[h] \in {"close", "over"} => After(h) = host[h]
<1> QED
  BY DEF After, HostSteps

\* The end of serveConnection keeps what holds of the channel.
LEMMA EndServeKeeps ==
  ASSUME ChannelInv, EndServe, active \in Hosts, working' \subseteq working,
         serverFailed' \in BOOLEAN,
         UNCHANGED <<serverFrame, down, handled, hostVars>>
  PROVE  ChannelInv'
<1> USE NotNull DEF ChannelInv, EndServe, serverFrame, connectorVars, hostVars
<1>1. NativeTypeOK'
  BY DEF NativeTypeOK, SocketTypeOK
<1>2. ServeSound'
  BY DEF ServeSound, Reached
<1>3. ASSUME NEW h \in Hosts PROVE CallSound(h)'
  BY <1>3 DEF CallSound, NativeTypeOK, SocketTypeOK
<1> QED
  BY <1>1, <1>2, <1>3

\* So does a connection that is destroyed.
LEMMA DropKeeps ==
  ASSUME ChannelInv, active \in Hosts, Drop(active),
         serverFailed' \in BOOLEAN, failure' \in BOOLEAN,
         listener' \in {"none", "up", "closed"}, path' \in {Null, "stale", "ours"},
         UNCHANGED <<owned, active, serve, request, working, deaths, down, connectorVars,
                     handled, hostVars>>
  PROVE  ChannelInv'
<1> USE NotNull DEF ChannelInv, Drop, connectorVars, hostVars
<1>1. NativeTypeOK'
  BY DEF NativeTypeOK, SocketTypeOK
<1>2. ServeSound'
  BY DEF ServeSound, Reached, NativeTypeOK, SocketTypeOK
<1>3. ASSUME NEW h \in Hosts PROVE CallSound(h)'
  BY <1>3 DEF CallSound, NativeTypeOK, SocketTypeOK
<1> QED
  BY <1>1, <1>2, <1>3

\* So does a connector that has been shut, with its host behind it.
LEMMA ShutKeeps ==
  ASSUME ChannelInv, NEW h \in Hosts, Shut(h),
         NEW s \in HostSteps, host' = [host EXCEPT ![h] = s],
         s \notin {"worker", "write"} \/ (s = host[h] /\ s = "write"),
         s \in {"start", "connect", "read"} => processed[h] = asked[h],
         UNCHANGED <<connectorFrame, link, up, asked, inputEnded, processed>>
  PROVE  ChannelInv'
<1> USE NotNull DEF ChannelInv, Shut, connectorFrame, workerVars
<1>1. NativeTypeOK'
  BY DEF NativeTypeOK, SocketTypeOK
<1>2. ServeSound'
  BY DEF ServeSound, Reached, NativeTypeOK, SocketTypeOK
<1>3. ASSUME NEW k \in Hosts PROVE CallSound(k)'
  BY <1>3 DEF CallSound, NativeTypeOK, SocketTypeOK
<1> QED
  BY <1>1, <1>2, <1>3
-----------------------------------------------------------------------------
(* The channel *)

LEMMA InitChannel == NativeInit => ChannelInv
<1> SUFFICES ASSUME NativeInit PROVE ChannelInv
  OBVIOUS
<1> USE NotNull DEF NativeInit, SocketInit
<1>1. NativeTypeOK
  BY DEF NativeTypeOK, SocketTypeOK, HostSteps
<1>2. ServeSound
  BY DEF ServeSound, Reached
<1>3. ASSUME NEW h \in Hosts PROVE CallSound(h)
  BY <1>3 DEF CallSound
<1> QED
  BY <1>1, <1>2, <1>3 DEF ChannelInv

\* The worker's steps.
LEMMA WorkerKeeps ==
  ASSUME ChannelInv, WorkerNext, UNCHANGED hostVars
  PROVE  ChannelInv'
<1> USE NotNull DEF ChannelInv, hostVars, connectorVars
<1>0. active = Null <=> serve = Null
  BY DEF ServeSound
<1>1. CASE Listen \/ LoseOwnership
  <2> USE <1>1 DEF Listen, LoseOwnership, wireVars
  <2>1. NativeTypeOK'
    BY DEF NativeTypeOK, SocketTypeOK
  <2>2. ServeSound'
    BY DEF ServeSound, Reached
  <2>3. ASSUME NEW h \in Hosts PROVE CallSound(h)'
    BY <2>3 DEF CallSound
  <2> QED
    BY <2>1, <2>2, <2>3
<1>2. CASE ServerError
  <2>1. CASE active = Null
    <3> USE <1>2, <2>1 DEF ServerError
    <3>1. NativeTypeOK'
      BY DEF NativeTypeOK, SocketTypeOK
    <3>2. ServeSound'
      BY DEF ServeSound, Reached
    <3>3. ASSUME NEW h \in Hosts PROVE CallSound(h)'
      BY <3>3 DEF CallSound
    <3> QED
      BY <3>1, <3>2, <3>3
  <2>2. CASE active # Null
    BY <1>2, <2>2, DropKeeps DEF ServerError, NativeTypeOK, SocketTypeOK
  <2> QED
    BY <2>1, <2>2
<1>3. CASE Close
  <2>1. CASE active = Null
    <3> USE <1>3, <2>1 DEF Close
    <3>1. NativeTypeOK'
      BY DEF NativeTypeOK, SocketTypeOK
    <3>2. ServeSound'
      BY DEF ServeSound, Reached
    <3>3. ASSUME NEW h \in Hosts PROVE CallSound(h)'
      BY <3>3 DEF CallSound
    <3> QED
      BY <3>1, <3>2, <3>3
  <2>2. CASE active # Null
    BY <1>3, <2>2, DropKeeps DEF Close, CancelFences, NativeTypeOK, SocketTypeOK
  <2> QED
    BY <2>1, <2>2
<1>4. CASE IdleTimeout \/ PeerCloses
  BY <1>4, DropKeeps DEF IdleTimeout, PeerCloses, CancelFences, serverFrame, NativeTypeOK, SocketTypeOK
<1>5. CASE Die
  <2> USE <1>5 DEF Die
  <2>0. link' \in [Hosts -> {Null, "offered", "served", "dropped"}]
    BY DEF NativeTypeOK, SocketTypeOK
  <2>1. NativeTypeOK'
    <3>1. path' \in {Null, "stale", "ours"} /\ deaths' \in Nat /\ up' \in [Hosts -> Numbers \cup {Null}]
      BY DEF NativeTypeOK, SocketTypeOK
    <3>2. working' \subseteq Works
      OBVIOUS
    <3> QED
      BY <2>0, <3>1, <3>2 DEF NativeTypeOK, SocketTypeOK
  <2>2. ServeSound'
    BY DEF ServeSound, Reached
  <2>3. ASSUME NEW h \in Hosts PROVE CallSound(h)'
    BY <2>3 DEF CallSound
  <2> QED
    BY <2>1, <2>2, <2>3
<1>6. ASSUME NEW k \in Hosts, Accept(k) PROVE ChannelInv'
  <2> USE <1>6 DEF Accept
  <2>1. NativeTypeOK'
    BY DEF NativeTypeOK, SocketTypeOK
  <2>2. ServeSound'
    BY DEF ServeSound, Reached
  <2>3. ASSUME NEW h \in Hosts PROVE CallSound(h)'
    BY <2>3 DEF CallSound
  <2> QED
    BY <2>1, <2>2, <2>3
<1>7. CASE OwnerAnswers
  <2>1. CASE owned
    <3> USE <1>7, <2>1 DEF OwnerAnswers, serverFrame
    <3>1. NativeTypeOK'
      BY DEF NativeTypeOK, SocketTypeOK
    <3>2. ServeSound'
      BY DEF ServeSound, Reached
    <3>3. ASSUME NEW h \in Hosts PROVE CallSound(h)'
      BY <3>3 DEF CallSound
    <3> QED
      BY <3>1, <3>2, <3>3
  <2>2. CASE ~owned
    BY <1>0, <1>7, <2>2, EndServeKeeps DEF OwnerAnswers, NativeTypeOK, SocketTypeOK
  <2> QED
    BY <2>1, <2>2
<1>8. CASE ReadRequest
  <2> USE <1>8 DEF ReadRequest
  <2>0. active \in Hosts /\ up[active] \in Numbers
    BY <1>0 DEF NativeTypeOK, SocketTypeOK
  <2>1. NativeTypeOK'
    BY <2>0 DEF NativeTypeOK, SocketTypeOK
  <2>2. ServeSound'
    BY <1>0, <2>0 DEF ServeSound, Reached, CallSound, NativeTypeOK, SocketTypeOK
  <2>3. ASSUME NEW h \in Hosts PROVE CallSound(h)'
    BY <2>3 DEF CallSound, NativeTypeOK, SocketTypeOK
  <2> QED
    BY <2>1, <2>2, <2>3
<1>9. CASE ReadEnds \/ WriteFails
  BY <1>0, <1>9, EndServeKeeps DEF ReadEnds, WriteFails, NativeTypeOK, SocketTypeOK
<1>10. CASE RequestTimeout
  BY <1>0, <1>10, EndServeKeeps DEF RequestTimeout, CancelFences, NativeTypeOK, SocketTypeOK
<1>11. CASE HandToReceiver
  <2>0. active \in Hosts
    BY <1>0, <1>11 DEF HandToReceiver, NativeTypeOK, SocketTypeOK
  <2>1. CASE owned
    <3> USE <1>11, <2>0, <2>1 DEF HandToReceiver, serverFrame
    <3>0. request \in Numbers /\ asked[active] \in Nat /\ handled[active] \in Nat
      BY DEF ServeSound, Reached, NativeTypeOK, SocketTypeOK, Numbers
    <3>1. NativeTypeOK'
      <4>1. [from |-> active, number |-> request] \in Works
        BY <3>0 DEF Works
      <4>2. working' \subseteq Works /\ handled' \in [Hosts -> Nat]
        BY <3>0, <4>1 DEF NativeTypeOK, SocketTypeOK
      <4> QED
        BY <4>2 DEF NativeTypeOK, SocketTypeOK
    <3>2. ServeSound'
      BY <3>0 DEF ServeSound, Reached, CallSound, NativeTypeOK, SocketTypeOK
    <3>3. ASSUME NEW h \in Hosts PROVE CallSound(h)'
      BY <3>0, <3>3 DEF CallSound, ServeSound, Reached, NativeTypeOK, SocketTypeOK
    <3> QED
      BY <3>1, <3>2, <3>3
  <2>2. CASE ~owned
    BY <1>11, <2>0, <2>2, EndServeKeeps DEF HandToReceiver, NativeTypeOK, SocketTypeOK
  <2> QED
    BY <2>1, <2>2
<1>12. CASE ReceiverEnds
  <2>1. working' \subseteq working /\ UNCHANGED <<serverFrame, serverFailed, down, handled>>
    BY <1>12 DEF ReceiverEnds
  <2>2. CASE UNCHANGED <<active, request, aborted, failure, link, up>> /\
             (serve' = serve \/ (serve = "receiver" /\ serve' = "write"))
    <3> USE <2>1, <2>2 DEF serverFrame
    <3>1. NativeTypeOK'
      BY DEF NativeTypeOK, SocketTypeOK
    <3>2. ServeSound'
      BY DEF ServeSound, Reached
    <3>3. ASSUME NEW h \in Hosts PROVE CallSound(h)'
      BY <3>3 DEF CallSound
    <3> QED
      BY <3>1, <3>2, <3>3
  <2>3. CASE EndServe /\ serve = "receiver"
    BY <1>0, <2>1, <2>3, EndServeKeeps DEF NativeTypeOK, SocketTypeOK
  <2>4. PICK w \in working :
          IF serve = "receiver" /\ w = [from |-> active, number |-> request]
            THEN \/ /\ ~aborted /\ serve' = "write"
                    /\ UNCHANGED <<active, request, aborted, failure, link, up>>
                 \/ EndServe
            ELSE UNCHANGED <<active, serve, request, aborted, failure, link, up>>
    BY <1>12 DEF ReceiverEnds
  <2>5. CASE serve = "receiver" /\ w = [from |-> active, number |-> request]
    BY <2>2, <2>3, <2>4, <2>5
  <2>6. CASE ~(serve = "receiver" /\ w = [from |-> active, number |-> request])
    <3>1. UNCHANGED <<active, request, aborted, failure, link, up>> /\ serve' = serve
      BY <2>4, <2>6
    <3> HIDE DEF ChannelInv
    <3> QED
      BY <2>2, <3>1
  <2> QED
    BY <2>5, <2>6
<1>13. CASE WriteReply
  <2> USE <1>13 DEF WriteReply, serverFrame
  <2>0. active \in Hosts /\ request \in Numbers /\ request = asked[active]
    BY <1>0 DEF ServeSound, Reached, NativeTypeOK, SocketTypeOK, Numbers
  <2>1. NativeTypeOK'
    BY <2>0 DEF NativeTypeOK, SocketTypeOK
  <2>2. ServeSound'
    BY <2>0 DEF ServeSound, Reached
  <2>3. ASSUME NEW h \in Hosts PROVE CallSound(h)'
    BY <2>0, <2>3 DEF CallSound, ServeSound, Reached, NativeTypeOK, SocketTypeOK
  <2> QED
    BY <2>1, <2>2, <2>3
<1> QED
  BY <1>1, <1>2, <1>3, <1>4, <1>5, <1>6, <1>7, <1>8, <1>9, <1>10, <1>11, <1>12, <1>13
     DEF WorkerNext, WorkerStep

\* The steps of a connector, with its host behind it.
LEMMA FollowKeeps ==
  ASSUME ChannelInv, NEW h \in Hosts, Follow(h)
  PROVE  ChannelInv'
<1> USE NotNull DEF ChannelInv
<1> DEFINE a == After(h)
<1>0. /\ host' = [host EXCEPT ![h] = a] /\ UNCHANGED <<inputEnded, processed>>
      /\ host \in [Hosts -> HostSteps] /\ host[h] \in HostSteps /\ ConnectorStep(h)
  BY DEF Follow, NativeTypeOK
<1>1. /\ a \in HostSteps /\ a \in {host[h], "read", "over", "close", "write"}
      /\ a = "read" => host[h] \in {"read", "connect"}
      /\ a = "worker" => host[h] = "worker" /\ call'[h] # Null
      /\ a = "write" => \/ host[h] = "write"
                        \/ host[h] = "worker" /\ call'[h] = Null /\ conn'[h] # "closed"
  BY <1>0, AfterValues
<1> HIDE DEF a
<1>2. ASSUME UNCHANGED <<connectorFrame, up, down, asked, call>>,
             conn' \in [Hosts -> {Null, "connecting", "open", "closed"}],
             link' \in [Hosts -> {Null, "offered", "served", "dropped"}]
      PROVE  ChannelInv'
  <2>0. SocketTypeOK'
    BY <1>2 DEF connectorFrame, workerVars, NativeTypeOK, SocketTypeOK
  <2> USE <1>0, <1>1, <1>2 DEF connectorFrame, workerVars
  <2>1. NativeTypeOK'
    BY <2>0 DEF NativeTypeOK
  <2>2. a = "write" => host[h] = "write"
    BY DEF CallSound
  <2>3. ServeSound'
    BY <2>2 DEF ServeSound, Reached, NativeTypeOK, SocketTypeOK
  <2>4. ASSUME NEW k \in Hosts PROVE CallSound(k)'
    BY <2>2, <2>4 DEF CallSound, NativeTypeOK, SocketTypeOK
  <2> QED
    BY <2>1, <2>3, <2>4
<1>3. CASE Connected(h) \/ ConnectFails(h)
  <2>1. /\ conn' \in [Hosts -> {Null, "connecting", "open", "closed"}]
        /\ link' \in [Hosts -> {Null, "offered", "served", "dropped"}]
    BY <1>3 DEF Connected, ConnectFails, wireVars, NativeTypeOK, SocketTypeOK
  <2>2. UNCHANGED <<connectorFrame, up, down, asked, call>>
    BY <1>3 DEF Connected, ConnectFails, wireVars
  <2> QED
    BY <1>2, <2>1, <2>2
<1>4. CASE SendRequest(h)
  <2> USE <1>0, <1>1, <1>4 DEF SendRequest, connectorFrame, workerVars
  <2>0. asked[h] \in Numbers
    BY DEF CallSound, NativeTypeOK, SocketTypeOK, Numbers
  <2>1. NativeTypeOK'
    BY <2>0 DEF NativeTypeOK, SocketTypeOK
  <2>2. a = "write" => host[h] = "write"
    <3>1. call'[h] = "reply"
      BY DEF NativeTypeOK, SocketTypeOK
    <3> QED
      BY <3>1
  <2>3. ServeSound'
    BY <2>2 DEF ServeSound, Reached, CallSound, NativeTypeOK, SocketTypeOK
  <2>4. ASSUME NEW k \in Hosts PROVE CallSound(k)'
    BY <2>0, <2>2, <2>4 DEF CallSound, NativeTypeOK, SocketTypeOK
  <2> QED
    BY <2>1, <2>3, <2>4
<1>5. CASE Shut(h) /\ UNCHANGED <<connectorFrame, link, up, asked>>
  <2>1. a \notin {"worker", "write"} \/ (a = host[h] /\ a = "write")
    BY <1>0, <1>1, <1>5 DEF Shut, NativeTypeOK, SocketTypeOK
  <2>2. a \in {"start", "connect", "read"} => processed[h] = asked[h]
    BY <1>1 DEF CallSound
  <2>3. UNCHANGED <<connectorFrame, link, up, asked, inputEnded, processed>>
    BY <1>0, <1>5
  <2> HIDE DEF ChannelInv
  <2> QED
    BY <1>0, <1>1, <1>5, <2>1, <2>2, <2>3, ShutKeeps
<1>6. CASE TakeReply(h) /\ call[h] = "reply" /\ down[h] = asked[h]
  <2> USE <1>0, <1>1, <1>6 DEF TakeReply, connectorFrame, workerVars
  <2>1. NativeTypeOK'
    BY DEF NativeTypeOK, SocketTypeOK
  <2>2. ServeSound'
    BY DEF ServeSound, Reached, CallSound, NativeTypeOK, SocketTypeOK
  <2>3. ASSUME NEW k \in Hosts PROVE CallSound(k)'
    BY <2>3 DEF CallSound, NativeTypeOK, SocketTypeOK
  <2> QED
    BY <2>1, <2>2, <2>3
<1> QED
  BY <1>0, <1>3, <1>4, <1>5, <1>6 DEF ConnectorStep, CallTimeout, TakeReply, ConnectionLost

LEMMA StepChannel == ChannelInv /\ [NativeNext]_nativeVars => ChannelInv'
<1> SUFFICES ASSUME ChannelInv, [NativeNext]_nativeVars PROVE ChannelInv'
  OBVIOUS
<1> USE NotNull DEF ChannelInv
<1>1. CASE WorkerNext /\ UNCHANGED hostVars
  BY <1>1, WorkerKeeps
<1>2. ASSUME NEW h \in Hosts, RunNativeHost(h) PROVE ChannelInv'
  <2> USE <1>2 DEF RunNativeHost, Connect, connectorFrame, workerVars, wireVars
  <2>1. NativeTypeOK'
    BY DEF NativeTypeOK, SocketTypeOK, HostSteps
  <2>2. ServeSound'
    BY DEF ServeSound, Reached, NativeTypeOK, SocketTypeOK
  <2>3. ASSUME NEW k \in Hosts PROVE CallSound(k)'
    BY <2>3 DEF CallSound, NativeTypeOK, SocketTypeOK
  <2> QED
    BY <2>1, <2>2, <2>3
<1>3. ASSUME NEW h \in Hosts, Follow(h) PROVE ChannelInv'
  BY <1>3, FollowKeeps
<1>4. ASSUME NEW h \in Hosts, PassOn(h) PROVE ChannelInv'
  <2> USE <1>4 DEF PassOn, Request, connectorFrame, workerVars, wireVars
  <2>1. CASE conn[h] = "open"
    <3> USE <2>1
    <3>1. NativeTypeOK'
      BY DEF NativeTypeOK, SocketTypeOK, HostSteps
    <3>0. ~(Reached /\ active = h)
      BY DEF ServeSound, CallSound, NativeTypeOK, SocketTypeOK
    <3>2. ServeSound'
      BY <3>0 DEF ServeSound, Reached, NativeTypeOK, SocketTypeOK
    <3>3. ASSUME NEW k \in Hosts PROVE CallSound(k)'
      BY <3>3 DEF CallSound, NativeTypeOK, SocketTypeOK
    <3> QED
      BY <3>1, <3>2, <3>3
  <2>2. CASE conn[h] # "open"
    <3> USE <2>2
    <3>0. host' = [host EXCEPT ![h] = "close"] /\ UNCHANGED <<socketVars, inputEnded, processed>>
      BY DEF socketVars, connectorVars
    <3> HIDE <1>4, <2>2
    <3> USE <3>0 DEF socketVars, connectorVars
    <3>1. NativeTypeOK'
      BY DEF NativeTypeOK, SocketTypeOK, HostSteps
    <3>2. ServeSound'
      BY DEF ServeSound, Reached, NativeTypeOK, SocketTypeOK
    <3>3. ASSUME NEW k \in Hosts PROVE CallSound(k)'
      BY <3>3 DEF CallSound, NativeTypeOK, SocketTypeOK
    <3> QED
      BY <3>1, <3>2, <3>3
  <2> QED
    BY <2>1, <2>2
<1>5. ASSUME NEW h \in Hosts, WriteNativeFrame(h) PROVE ChannelInv'
  <2> USE <1>5 DEF WriteNativeFrame, socketVars, workerVars, wireVars, connectorVars
  <2>1. NativeTypeOK'
    BY DEF NativeTypeOK, SocketTypeOK, HostSteps
  <2>2. ServeSound'
    BY DEF ServeSound, Reached, NativeTypeOK, SocketTypeOK
  <2>3. ASSUME NEW k \in Hosts PROVE CallSound(k)'
    BY <2>3 DEF CallSound, NativeTypeOK, SocketTypeOK
  <2> QED
    BY <2>1, <2>2, <2>3
<1>6. ASSUME NEW h \in Hosts, FailPort(h) \/ InputEnds(h) \/ ReadDone(h) PROVE ChannelInv'
  <2>1. /\ UNCHANGED <<socketVars, processed>> /\ inputEnded' \in [Hosts -> BOOLEAN]
        /\ \E s \in {"close", "over", host[h]} : host' = [host EXCEPT ![h] = s]
    BY <1>6 DEF FailPort, InputEnds, ReadDone, NativeTypeOK
  <2> USE <2>1 DEF socketVars, workerVars, wireVars, connectorVars
  <2>2. NativeTypeOK'
    BY DEF NativeTypeOK, SocketTypeOK, HostSteps
  <2>3. ServeSound'
    BY DEF ServeSound, Reached, NativeTypeOK, SocketTypeOK
  <2>4. ASSUME NEW k \in Hosts PROVE CallSound(k)'
    BY <2>4 DEF CallSound, NativeTypeOK, SocketTypeOK
  <2> QED
    BY <2>2, <2>3, <2>4
<1>7. ASSUME NEW h \in Hosts, CloseHost(h) \/ CloseLate(h) PROVE ChannelInv'
  <2>1. Shut(h) /\ host' = [host EXCEPT ![h] = "over"]
    BY <1>7 DEF CloseHost, CloseLate, hostVars, NativeTypeOK
  <2>2. UNCHANGED <<connectorFrame, link, up, asked, inputEnded, processed>>
    BY <1>7 DEF CloseHost, CloseLate, hostVars
  <2>3. "over" \in HostSteps
    BY DEF HostSteps
  <2> HIDE DEF ChannelInv
  <2> QED
    BY <2>1, <2>2, <2>3, ShutKeeps
<1>8. CASE UNCHANGED nativeVars
  <2> USE <1>8 DEF nativeVars, socketVars, workerVars, wireVars, connectorVars, hostVars
  <2>1. NativeTypeOK'
    BY DEF NativeTypeOK, SocketTypeOK
  <2>2. ServeSound'
    BY DEF ServeSound, Reached
  <2>3. ASSUME NEW k \in Hosts PROVE CallSound(k)'
    BY <2>3 DEF CallSound
  <2> QED
    BY <2>1, <2>2, <2>3
<1> QED
  BY <1>1, <1>2, <1>3, <1>4, <1>5, <1>6, <1>7, <1>8 DEF NativeNext, HostStep

LEMMA ChannelHolds == NativeSpec => []ChannelInv
BY InitChannel, StepChannel, PTL DEF NativeSpec

\* A new system is a new channel.
LEMMA InitIsChannel == NativeInit => Channel!ChannelInit
BY DEF NativeInit, SocketInit, Channel!ChannelInit

\* Every step is one of the channel, or none of its business.
LEMMA StepIsChannel ==
  ASSUME ChannelInv, [NativeNext]_nativeVars
  PROVE  [Channel!ChannelNext]_Channel!channelVars
<1> DEFINE broken == {h \in Hosts : host[h] \in {"close", "over"}}
<1> USE NotNull DEF ChannelInv
<1>1. CASE WorkerNext /\ UNCHANGED hostVars
  <2>1. UNCHANGED <<host, processed>>
    BY <1>1 DEF hostVars
  <2>2. UNCHANGED asked
    BY <1>1 DEF WorkerNext, WorkerStep, Listen, ServerError, Close, ReceiverEnds, LoseOwnership,
       Die, Accept, OwnerAnswers, ReadRequest, ReadEnds, HandToReceiver, WriteReply, WriteFails,
       RequestTimeout, IdleTimeout, PeerCloses, serverFrame, connectorVars
  <2>3. CASE UNCHANGED handled
    BY <2>1, <2>2, <2>3 DEF Channel!channelVars
  <2>4. CASE handled' # handled
    <3>1. HandToReceiver /\ owned
      BY <1>1, <2>4 DEF WorkerNext, WorkerStep, Listen, ServerError, Close, ReceiverEnds,
         LoseOwnership, Die, Accept, OwnerAnswers, ReadRequest, ReadEnds, HandToReceiver,
         WriteReply, WriteFails, RequestTimeout, IdleTimeout, PeerCloses
    <3>2. /\ active \in Hosts /\ handled[active] < asked[active]
          /\ handled' = [handled EXCEPT ![active] = @ + 1]
      BY <3>1 DEF HandToReceiver, ServeSound, NativeTypeOK, SocketTypeOK
    <3>3. Channel!Handle(active)
      BY <2>1, <2>2, <3>2 DEF Channel!Handle
    <3> QED
      BY <3>2, <3>3 DEF Channel!ChannelNext
  <2> QED
    BY <2>3, <2>4
<1>2. ASSUME NEW h \in Hosts, UNCHANGED <<asked, handled, processed>>,
             NEW s, host' = [host EXCEPT ![h] = s],
             s = host[h] \/ (s \in {"close", "over"}) \/ {s, host[h]} \cap {"close", "over"} = {}
      PROVE  [Channel!ChannelNext]_Channel!channelVars
  <2>1. CASE s \in {"close", "over"}
    <3>1. broken' = broken \cup {h}
      BY <1>2, <2>1 DEF NativeTypeOK
    <3>2. Channel!Break(h)
      BY <1>2, <3>1 DEF Channel!Break
    <3> QED
      BY <3>2 DEF Channel!ChannelNext
  <2>2. CASE s \notin {"close", "over"}
    <3>1. broken' = broken
      BY <1>2, <2>2 DEF NativeTypeOK
    <3> QED
      BY <1>2, <3>1 DEF Channel!channelVars
  <2> QED
    BY <2>1, <2>2
<1>3. ASSUME NEW h \in Hosts, RunNativeHost(h)
      PROVE  [Channel!ChannelNext]_Channel!channelVars
  <2>1. /\ UNCHANGED <<asked, handled, processed>> /\ host[h] = "start"
        /\ host' = [host EXCEPT ![h] = "connect"]
    BY <1>3 DEF RunNativeHost, Connect, connectorFrame
  <2> QED
    BY <1>2, <2>1
<1>4. ASSUME NEW h \in Hosts, Follow(h)
      PROVE  [Channel!ChannelNext]_Channel!channelVars
  <2>1. UNCHANGED <<asked, handled, processed>> /\ host' = [host EXCEPT ![h] = After(h)]
    BY <1>4 DEF Follow, ConnectorStep, Connected, ConnectFails, SendRequest, CallTimeout,
       TakeReply, ConnectionLost, connectorFrame
  <2>2. /\ After(h) \in {host[h], "read", "over", "close", "write"}
        /\ host[h] \in {"close", "over"} => After(h) = host[h]
    BY AfterValues DEF NativeTypeOK
  <2> QED
    BY <1>2, <2>1, <2>2
<1>5. ASSUME NEW h \in Hosts, PassOn(h)
      PROVE  [Channel!ChannelNext]_Channel!channelVars
  <2>1. CASE conn[h] = "open"
    <3>1. /\ host[h] = "read" /\ processed[h] = asked[h]
          /\ asked' = [asked EXCEPT ![h] = @ + 1] /\ UNCHANGED <<handled, processed>>
      BY <1>5, <2>1 DEF PassOn, Request, connectorFrame, CallSound
    <3>2. host' = [host EXCEPT ![h] = "worker"]
      BY <1>5, <2>1 DEF PassOn
    <3>3. broken' = broken /\ h \notin broken
      BY <3>1, <3>2 DEF NativeTypeOK
    <3>4. Channel!Send(h)
      BY <3>1, <3>3 DEF Channel!Send
    <3> QED
      BY <3>4 DEF Channel!ChannelNext
  <2>2. CASE conn[h] # "open"
    <3>1. UNCHANGED <<asked, handled, processed>> /\ host' = [host EXCEPT ![h] = "close"]
      BY <1>5, <2>2 DEF PassOn, Request, connectorFrame
    <3> QED
      BY <1>2, <3>1
  <2> QED
    BY <2>1, <2>2
<1>6. ASSUME NEW h \in Hosts, WriteNativeFrame(h)
      PROVE  [Channel!ChannelNext]_Channel!channelVars
  <2>1. /\ host[h] = "write" /\ processed[h] < asked[h] /\ handled[h] = asked[h]
        /\ processed' = [processed EXCEPT ![h] = @ + 1] /\ UNCHANGED <<asked, handled>>
        /\ host' = [host EXCEPT ![h] = "read"]
    BY <1>6 DEF WriteNativeFrame, CallSound, socketVars, connectorVars
  <2>2. broken' = broken /\ h \notin broken
    BY <2>1 DEF NativeTypeOK
  <2>3. Channel!Answer(h)
    BY <2>1, <2>2 DEF Channel!Answer
  <2> QED
    BY <2>3 DEF Channel!ChannelNext
<1>7. ASSUME NEW h \in Hosts, FailPort(h) \/ InputEnds(h) \/ ReadDone(h)
      PROVE  [Channel!ChannelNext]_Channel!channelVars
  <2>1. /\ UNCHANGED <<asked, handled, processed>>
        /\ \E s \in {"close", "over", host[h]} : host' = [host EXCEPT ![h] = s]
    BY <1>7 DEF FailPort, InputEnds, ReadDone, NativeTypeOK, socketVars, connectorVars
  <2> QED
    BY <1>2, <2>1
<1>8. ASSUME NEW h \in Hosts, CloseHost(h) \/ CloseLate(h)
      PROVE  [Channel!ChannelNext]_Channel!channelVars
  <2>1. UNCHANGED <<asked, handled, processed>> /\ host' = [host EXCEPT ![h] = "over"]
    BY <1>8 DEF CloseHost, CloseLate, hostVars, connectorFrame, NativeTypeOK
  <2> QED
    BY <1>2, <2>1
<1>9. CASE UNCHANGED nativeVars
  BY <1>9 DEF nativeVars, socketVars, connectorVars, hostVars, Channel!channelVars
<1> QED
  BY <1>1, <1>3, <1>4, <1>5, <1>6, <1>7, <1>8, <1>9 DEF NativeNext, HostStep

-----------------------------------------------------------------------------
(* The receiver *)

LEMMA InitWork == NativeInit => WorkSound
BY NotNull DEF NativeInit, SocketInit, WorkSound

\* The end of serveConnection leaves no request at the receiver, or a fence.
LEMMA EndServeWork ==
  ASSUME WorkInv, EndServe, active \in Hosts, working' \subseteq working, UNCHANGED conn,
         working' = {} \/ serverFailed'
  PROVE  WorkSound'
<1> USE NotNull DEF WorkInv, ChannelInv, NativeTypeOK, SocketTypeOK, EndServe
<1>1. \A h \in Hosts : conn'[h] \in {Null, "connecting"} => link'[h] = Null
  BY DEF WorkSound
<1> QED
  BY <1>1 DEF WorkSound

\* A connection is destroyed while the worker waits for an event, and the request that is
\* at the receiver fences the listener.
LEMMA DropWork ==
  ASSUME WorkInv, active \in Hosts, Drop(active), serve # "ownerAgain",
         serve = "receiver" => serverFailed', serverFailed => serverFailed',
         UNCHANGED <<active, serve, request, working, conn>>
  PROVE  WorkSound'
<1> USE NotNull DEF WorkInv, ChannelInv, NativeTypeOK, SocketTypeOK, Drop
<1>1. /\ \A h \in Hosts : conn'[h] \in {Null, "connecting"} => link'[h] = Null
      /\ link'[active] = "dropped"
  BY DEF WorkSound
<1> QED
  BY <1>1 DEF WorkSound

\* The worker's steps, if ownership answers at once.
LEMMA WorkerWork ==
  ASSUME ~OwnershipAwaits, WorkInv, WorkerNext
  PROVE  WorkSound'
<1> USE NotNull DEF WorkInv, ChannelInv, NativeTypeOK, SocketTypeOK, connectorVars
<1>0. /\ active = Null <=> serve = Null
      /\ serve \in {"owner", "read", "ownerAgain", "write"} => working = {}
  BY DEF ServeSound, WorkSound
<1>1. CASE Listen \/ LoseOwnership
  BY <1>1 DEF Listen, LoseOwnership, wireVars, WorkSound
<1>2. CASE ServerError
  <2>1. CASE active = Null
    BY <1>2, <2>1 DEF ServerError, WorkSound
  <2>2. CASE active # Null
    BY <1>2, <2>2, DropWork DEF ServerError, Attentive
  <2> QED
    BY <2>1, <2>2
<1>3. CASE Close
  <2>1. CASE active = Null
    BY <1>3, <2>1 DEF Close, WorkSound
  <2>2. CASE active # Null
    BY <1>3, <2>2, DropWork DEF Close, CancelFences, Attentive
  <2> QED
    BY <2>1, <2>2
<1>4. CASE IdleTimeout \/ PeerCloses
  BY <1>4, DropWork DEF IdleTimeout, PeerCloses, CancelFences, Attentive, serverFrame
<1>5. CASE Die
  BY <1>5 DEF Die, WorkSound
<1>6. ASSUME NEW h \in Hosts, Accept(h) PROVE WorkSound'
  <2> USE <1>6 DEF Accept
  <2>1. \A k \in Hosts : conn'[k] \in {Null, "connecting"} => link'[k] = Null
    BY DEF WorkSound
  <2>2. CASE listener = "closed" \/ serverFailed \/ active # Null
    <3>1. UNCHANGED <<active, serve, failure, serverFailed, request, working>>
      BY <2>2
    <3>2. active # Null => link'[active] = link[active] \/ link'[active] = "dropped"
      BY <2>2
    <3> QED
      BY <2>1, <3>1, <3>2 DEF WorkSound
  <2>3. CASE ~(listener = "closed" \/ serverFailed \/ active # Null)
    <3>1. working = {}
      BY <1>0, <2>3 DEF WorkSound
    <3> QED
      BY <2>1, <2>3, <3>1 DEF WorkSound
  <2> QED
    BY <2>2, <2>3
<1>7. CASE OwnerAnswers \/ ReadEnds \/ WriteFails
  <2>1. working = {} /\ active \in Hosts /\ UNCHANGED <<working, conn, serverFailed>>
    BY <1>0, <1>7 DEF OwnerAnswers, ReadEnds, WriteFails, serverFrame
  <2>2. CASE EndServe
    BY <2>1, <2>2, EndServeWork
  <2>3. CASE serve' = "read" /\ UNCHANGED <<active, request, aborted, failure, link, up>>
    BY <2>1, <2>3 DEF WorkSound
  <2> QED
    BY <1>7, <2>2, <2>3 DEF OwnerAnswers, ReadEnds, WriteFails
<1>8. CASE ReadRequest
  BY <1>0, <1>8 DEF ReadRequest, WorkSound
<1>9. CASE RequestTimeout
  <2>1. active \in Hosts /\ EndServe /\ UNCHANGED <<working, conn>>
    BY <1>0, <1>9 DEF RequestTimeout, serverFrame
  <2>2. working = {} \/ serverFailed'
    BY <1>0, <1>9 DEF RequestTimeout, CancelFences, WorkSound
  <2> QED
    BY <2>1, <2>2, EndServeWork
<1>10. CASE HandToReceiver
  <2>1. active \in Hosts /\ working = {} /\ UNCHANGED <<conn, serverFailed>>
    BY <1>0, <1>10 DEF HandToReceiver, serverFrame
  <2>2. CASE owned
    <3>1. working' = {[from |-> active, number |-> request]}
      BY <1>10, <2>1, <2>2 DEF HandToReceiver
    <3> QED
      BY <1>10, <2>1, <2>2, <3>1 DEF HandToReceiver, WorkSound
  <2>3. CASE ~owned
    BY <1>10, <2>1, <2>3, EndServeWork DEF HandToReceiver
  <2> QED
    BY <2>2, <2>3
<1>11. CASE ReceiverEnds
  <2>1. PICK w \in working :
          /\ working' = working \ {w}
          /\ IF serve = "receiver" /\ w = [from |-> active, number |-> request]
               THEN \/ /\ ~aborted /\ serve' = "write"
                       /\ UNCHANGED <<active, request, aborted, failure, link, up>>
                    \/ EndServe
               ELSE UNCHANGED <<active, serve, request, aborted, failure, link, up>>
    BY <1>11 DEF ReceiverEnds
  <2>2. working' = {} /\ UNCHANGED <<conn, serverFailed>>
    BY <1>11, <2>1 DEF ReceiverEnds, serverFrame, WorkSound
  <2>3. CASE serve = "receiver" /\ EndServe
    BY <1>0, <2>2, <2>3, EndServeWork
  <2>4. CASE /\ UNCHANGED <<active, request, aborted, failure, link, up>>
             /\ serve' = serve \/ (serve = "receiver" /\ serve' = "write")
    BY <2>2, <2>4 DEF WorkSound
  <2> QED
    BY <2>1, <2>3, <2>4
<1>12. CASE WriteReply
  BY <1>0, <1>12 DEF WriteReply, serverFrame, WorkSound
<1> QED
  BY <1>1, <1>2, <1>3, <1>4, <1>5, <1>6, <1>7, <1>8, <1>9, <1>10, <1>11, <1>12
     DEF WorkerNext, WorkerStep

\* The hosts and connectors do not touch the worker, and a connection is offered once.
LEMMA HostWork ==
  ASSUME WorkInv, UNCHANGED workerVars,
         \/ UNCHANGED <<conn, link>>
         \/ \E h \in Hosts : \/ Connect(h) \/ Connected(h) \/ ConnectFails(h)
                             \/ Shut(h) /\ UNCHANGED link
  PROVE  WorkSound'
<1> USE NotNull DEF WorkInv, ChannelInv, NativeTypeOK, SocketTypeOK, workerVars, wireVars
<1>1. CASE UNCHANGED <<conn, link>>
  BY <1>1 DEF WorkSound
<1>2. ASSUME NEW h \in Hosts,
             \/ Connect(h) \/ Connected(h) \/ ConnectFails(h)
             \/ Shut(h) /\ UNCHANGED link
      PROVE  WorkSound'
  <2>1. \A k \in Hosts : conn'[k] \in {Null, "connecting"} => link'[k] = Null
    BY <1>2 DEF WorkSound, Connect, Connected, ConnectFails, Shut
  <2>2. active # Null => link'[active] = link[active]
    BY <1>2 DEF WorkSound, Connect, Connected, ConnectFails
  <2> QED
    BY <2>1, <2>2 DEF WorkSound
<1> QED
  BY <1>1, <1>2

LEMMA StepWork ==
  ASSUME ~OwnershipAwaits, WorkInv, [NativeNext]_nativeVars
  PROVE  WorkSound'
<1>1. CASE WorkerNext
  BY <1>1, WorkerWork
<1>2. ASSUME NEW h \in Hosts,
             \/ RunNativeHost(h) \/ Follow(h) \/ PassOn(h) \/ WriteNativeFrame(h)
             \/ FailPort(h) \/ InputEnds(h) \/ HostStep(h)
      PROVE  WorkSound'
  <2>1. UNCHANGED workerVars
    BY <1>2 DEF RunNativeHost, Connect, Follow, ConnectorStep, Connected, ConnectFails,
       SendRequest, CallTimeout, TakeReply, ConnectionLost, PassOn, Request, WriteNativeFrame,
       FailPort, InputEnds, HostStep, ReadDone, CloseHost, CloseLate, connectorFrame, socketVars
  <2>2. \/ UNCHANGED <<conn, link>>
        \/ Connect(h) \/ Connected(h) \/ ConnectFails(h)
        \/ Shut(h) /\ UNCHANGED link
    BY <1>2 DEF RunNativeHost, Follow, ConnectorStep, SendRequest, CallTimeout, TakeReply,
       ConnectionLost, PassOn, Request, WriteNativeFrame, FailPort, InputEnds, HostStep, ReadDone,
       CloseHost, CloseLate, socketVars, wireVars, connectorVars
  <2> QED
    BY <2>1, <2>2, HostWork
<1>3. CASE UNCHANGED nativeVars
  BY <1>3, HostWork DEF nativeVars, socketVars, wireVars, connectorVars
<1> QED
  BY <1>1, <1>2, <1>3 DEF NativeNext

-----------------------------------------------------------------------------
(* Theorems *)

\* For any hosts, requests and deaths of the worker: the way through host and socket is
\* the one of the channel, whether or not ownership takes time.
THEOREM NativeImplementsChannel == NativeSpec => KeepsChannel
<1>1. ChannelInv /\ [NativeNext]_nativeVars => [Channel!ChannelNext]_Channel!channelVars
  BY StepIsChannel
<1> QED
  BY <1>1, InitIsChannel, ChannelHolds, PTL DEF NativeSpec, KeepsChannel, Channel!ChannelSpec

\* If ownership answers at once, as that of every caller does, no client is served and no
\* request handed over beside one the receiver is still at, whatever has timed out.
THEOREM NoSecondClient == ASSUME ~OwnershipAwaits PROVE NativeSpec => []OneClientPerWork
<1>1. NativeInit => WorkInv
  BY InitChannel, InitWork DEF WorkInv
<1>2. WorkInv /\ [NativeNext]_nativeVars => WorkInv'
  BY StepChannel, StepWork DEF WorkInv
<1>3. WorkInv => OneClientPerWork
  BY DEF WorkInv, WorkSound, OneClientPerWork
<1> QED
  BY <1>1, <1>2, <1>3, PTL DEF NativeSpec

\* With it a timeout fences, as the comment on createProbeSocketServer has it.
THEOREM TimeoutsFence == ASSUME ~OwnershipAwaits PROVE NativeSpec => []TimeoutFences
<1>1. NativeInit => WorkInv
  BY InitChannel, InitWork DEF WorkInv
<1>2. WorkInv /\ [NativeNext]_nativeVars => WorkInv'
  BY StepChannel, StepWork DEF WorkInv
<1>3. WorkInv => TimeoutFences
  BY DEF WorkInv, WorkSound, TimeoutFences
<1> QED
  BY <1>1, <1>2, <1>3, PTL DEF NativeSpec

\* The types of the hosts, their connectors, the listener and the worker.
THEOREM NativeTypes == NativeSpec => []NativeTypeOK
BY ChannelHolds, PTL DEF ChannelInv

\* What the channel comes to: a host has one request under way at most, of which no more
\* are handled than were asked and no more answered than handled.
THEOREM RequestsInOrder == NativeSpec => []Channel!OneUnderWay
<1>1. Channel!ChannelInit => Channel!OneUnderWay
  BY DEF Channel!ChannelInit, Channel!OneUnderWay
<1>2. ChannelInv /\ Channel!OneUnderWay /\ [Channel!ChannelNext]_Channel!channelVars
        => Channel!OneUnderWay'
  <2> SUFFICES ASSUME ChannelInv, Channel!OneUnderWay,
                      [Channel!ChannelNext]_Channel!channelVars, NEW h \in Hosts
               PROVE  /\ processed'[h] <= handled'[h] /\ handled'[h] <= asked'[h]
                      /\ asked'[h] <= processed'[h] + 1
    BY DEF Channel!OneUnderWay
  <2>1. /\ asked \in [Hosts -> Nat] /\ handled \in [Hosts -> Nat]
        /\ processed \in [Hosts -> Nat]
    BY DEF ChannelInv, NativeTypeOK, SocketTypeOK
  <2>2. /\ processed[h] <= handled[h] /\ handled[h] <= asked[h]
        /\ asked[h] <= processed[h] + 1
    BY DEF Channel!OneUnderWay
  <2>3. ASSUME NEW g \in Hosts,
               Channel!Send(g) \/ Channel!Handle(g) \/ Channel!Answer(g) \/ Channel!Break(g)
        PROVE  /\ processed'[h] <= handled'[h] /\ handled'[h] <= asked'[h]
               /\ asked'[h] <= processed'[h] + 1
    BY <2>1, <2>2, <2>3
    DEF Channel!Send, Channel!Handle, Channel!Answer, Channel!Break
  <2> QED
    BY <2>2, <2>3 DEF Channel!ChannelNext, Channel!channelVars
<1> QED
  BY <1>1, <1>2, NativeImplementsChannel, ChannelHolds, PTL
  DEF KeepsChannel, Channel!ChannelSpec

\* A host that is over asks and answers nothing more, whatever the socket still carries.
THEOREM OverIsSilent == NativeSpec => Channel!BrokenIsSilent
<1> DEFINE broken == {h \in Hosts : host[h] \in {"close", "over"}}
<1>1. ASSUME ChannelInv, [Channel!ChannelNext]_Channel!channelVars, NEW h \in broken
      PROVE  h \in broken' /\ asked'[h] = asked[h] /\ processed'[h] = processed[h]
  <2>1. asked \in [Hosts -> Nat] /\ processed \in [Hosts -> Nat]
    BY <1>1 DEF ChannelInv, NativeTypeOK, SocketTypeOK
  <2> HIDE DEF broken
  <2>2. ASSUME NEW g \in Hosts,
               Channel!Send(g) \/ Channel!Handle(g) \/ Channel!Answer(g) \/ Channel!Break(g)
        PROVE  h \in broken' /\ asked'[h] = asked[h] /\ processed'[h] = processed[h]
    BY <1>1, <2>1, <2>2
    DEF broken, Channel!Send, Channel!Handle, Channel!Answer, Channel!Break
  <2> QED
    BY <1>1, <2>2 DEF broken, Channel!ChannelNext, Channel!channelVars
<1>2. ChannelInv /\ [Channel!ChannelNext]_Channel!channelVars =>
        [\A h \in broken : h \in broken' /\ asked'[h] = asked[h]
                            /\ processed'[h] = processed[h]]_Channel!channelVars
  BY <1>1
<1> QED
  BY <1>2, NativeImplementsChannel, ChannelHolds, PTL
  DEF KeepsChannel, Channel!ChannelSpec, Channel!BrokenIsSilent
=============================================================================
