-------------------------- MODULE RequestChannel --------------------------
(***************************************************************************)
(* What ProbeCapture takes for granted of the way from the browser to the  *)
(* receiver, with processes, sockets and timers left out: a host passes on *)
(* one request at a time, each is handled at most once, an answer is that  *)
(* of a request that was handled, and a host that broke answers nothing    *)
(* more, whatever became of its last request.                              *)
(***************************************************************************)
EXTENDS Naturals

CONSTANT Hosts

VARIABLES
  sent, handled, answered,  \* how many requests of each host were
  broken                    \* hosts that have ended

channelVars == <<sent, handled, answered, broken>>

ChannelInit ==
  /\ sent = [h \in Hosts |-> 0] /\ handled = [h \in Hosts |-> 0]
  /\ answered = [h \in Hosts |-> 0] /\ broken = {}

Send(h) ==
  /\ h \notin broken /\ answered[h] = sent[h]
  /\ sent' = [sent EXCEPT ![h] = @ + 1]
  /\ UNCHANGED <<handled, answered, broken>>

\* Also after its host broke.
Handle(h) ==
  /\ handled[h] < sent[h]
  /\ handled' = [handled EXCEPT ![h] = @ + 1]
  /\ UNCHANGED <<sent, answered, broken>>

Answer(h) ==
  /\ h \notin broken /\ answered[h] < sent[h] /\ handled[h] = sent[h]
  /\ answered' = [answered EXCEPT ![h] = @ + 1]
  /\ UNCHANGED <<sent, handled, broken>>

Break(h) ==
  /\ broken' = broken \cup {h}
  /\ UNCHANGED <<sent, handled, answered>>

ChannelNext == \E h \in Hosts : Send(h) \/ Handle(h) \/ Answer(h) \/ Break(h)

ChannelSpec == ChannelInit /\ [][ChannelNext]_channelVars

\* What this comes to: one request of a host is under way at most, and at every moment no
\* more are handled than were sent and no more answered than were handled.
OneUnderWay ==
  \A h \in Hosts :
    answered[h] <= handled[h] /\ handled[h] <= sent[h] /\ sent[h] <= answered[h] + 1

\* A host that broke stays broken, sends nothing and answers nothing; its last request may
\* still be handled.
BrokenIsSilent ==
  [][\A h \in broken :
       h \in broken' /\ sent'[h] = sent[h] /\ answered'[h] = answered[h]]_channelVars
=============================================================================
