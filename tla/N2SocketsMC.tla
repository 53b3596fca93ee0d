---------------------------- MODULE N2SocketsMC ----------------------------
(***************************************************************************)
(* Model checking of N2Sockets, and the mapping under which it implements  *)
(* UdpSockets while answers come in time.                                  *)
(***************************************************************************)
EXTENDS N2Sockets

\* The answer under way: the oldest one the reader has delivered, else the
\* first on the line.
RepliesOn(line) == {i \in DOMAIN line : line[i].type = "reply"}
UnderWay == rx # <<>> \/ RepliesOn(wire) # {}
OldestReply(delivered, line) ==
  IF delivered # <<>>
  THEN Head(delivered)
  ELSE line[CHOOSE i \in RepliesOn(line) : \A j \in RepliesOn(line) : i <= j]

\* The datagram of an answer under way belongs to the inbox until
\* recvfrom() takes it.
InTransit(s) ==
  IF main = [pc |-> "NSORF", slot |-> s] /\ UnderWay
  THEN OldestReply(rx, wire).data
  ELSE <<>>

\* What the application sees of sockets[] and of the modem's queues.
boundPort == [s \in Slots |-> IF s \in held THEN local_port[s] ELSE 0]
inboxOf == [s \in Slots |-> IF s \in held
                            THEN InTransit(s) \o mqueue[id[s]]
                            ELSE <<>>]

Udp == INSTANCE UdpSockets WITH
  Fds <- Slots,
  open <- held,
  bound <- boundPort,
  inbox <- inboxOf

\* The driver gives every descriptor the datagrams of its port, once and in
\* order, through the notification, the AT command and its answer.
ImplementsUdpSockets == Udp!AbsSpec
=============================================================================
