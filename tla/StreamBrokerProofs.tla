-------------------------- MODULE StreamBrokerProofs --------------------------
(***************************************************************************)
(* Proofs about StreamBroker, for any set of clients and any capacities.   *)
(***************************************************************************)
EXTENDS StreamBroker, SequenceTheorems, TLAPS

\* A client is registered at most once: it is not yet known to mainLoop
\* while AddConnection still has to hand it over.
OnceRegistered ==
  /\ registering \cap (registered \cup closed) = {}
  /\ \A c \in Clients :
       conn[c] = "none" => c \notin registering \cup registered \cup closed

IInv == TypeOK /\ RegisteredOpen /\ FrameNeverBlocks /\ OnceRegistered

-----------------------------------------------------------------------------
LEMMA SuccType ==
  ASSUME NEW m \in Messages
  PROVE  Succ(m) \in Messages
BY BrokerAssumption DEF Messages, Succ

LEMMA QueueFacts ==
  ASSUME NEW S, NEW q \in Seq(S)
  PROVE  /\ Len(q) \in Nat
         /\ \A e \in S : /\ Append(q, e) \in Seq(S)
                         /\ Len(Append(q, e)) = Len(q) + 1
         /\ q # <<>> => /\ Head(q) \in S
                        /\ Tail(q) \in Seq(S)
                        /\ Len(q) > 0
                        /\ Len(Tail(q)) = Len(q) - 1
BY HeadTailProperties, AppendProperties, LenProperties, EmptySeq

LEMMA InitInv == Init => IInv
<1> SUFFICES ASSUME Init PROVE IInv
  OBVIOUS
<1>1. Modulus - 1 \in Messages /\ 0 \in Messages
  BY BrokerAssumption DEF Messages
<1>2. TypeOK
  BY <1>1, BrokerAssumption DEF Init, TypeOK
<1> QED
  BY <1>2 DEF Init, IInv, RegisteredOpen, FrameNeverBlocks, OnceRegistered

\* The steps of the goroutines of one client.
LEMMA ClientInv ==
  ASSUME IInv, NEW c \in Clients, ClientNext(c)
  PROVE  IInv'
<1> USE DEF IInv
<1> DEFINE q == send[c]
<1>0. /\ q \in Seq(Messages) /\ Len(q) <= SendQueueLen /\ left[c] \in Nat
      /\ Len(q) \in Nat
  BY QueueFacts DEF TypeOK
<1>1. CASE AddConnection(c)
  BY <1>1 DEF AddConnection, TypeOK, RegisteredOpen, FrameNeverBlocks,
     OnceRegistered, listVars
<1>2. CASE ReadFails(c)
  BY <1>2 DEF ReadFails, TypeOK, RegisteredOpen, FrameNeverBlocks,
     OnceRegistered, listVars, frameClient
<1>3. CASE ReaderExits(c)
  BY <1>3 DEF ReaderExits, TypeOK, RegisteredOpen, FrameNeverBlocks,
     OnceRegistered, listVars, frameClient
<1>4. ASSUME q # <<>>, Dequeue(c)
      PROVE  /\ send' \in [Clients -> Seq(Messages)]
             /\ \A d \in Clients : Len(send'[d]) <= SendQueueLen
             /\ last' \in [Clients -> Messages \cup {NoMessage}]
             /\ Len(send'[c]) = Len(q) - 1
             /\ \A d \in Clients \ {c} : send'[d] = send[d]
  <2>1. /\ Head(q) \in Messages /\ Tail(q) \in Seq(Messages)
        /\ Len(Tail(q)) = Len(q) - 1
    BY <1>0, <1>4, QueueFacts
  <2>2. /\ send' = [send EXCEPT ![c] = Tail(q)]
        /\ last' = [last EXCEPT ![c] = Head(q)]
    BY <1>4 DEF Dequeue
  <2>3. send'[c] = Tail(q) /\ \A d \in Clients \ {c} : send'[d] = send[d]
    BY <2>2 DEF TypeOK
  <2>4. Len(Tail(q)) <= SendQueueLen
    BY <1>0, <2>1, BrokerAssumption
  <2> HIDE DEF q
  <2> QED
    BY <2>1, <2>2, <2>3, <2>4 DEF TypeOK
<1>5. CASE StartFrame(c)
  <2>1. Len(q) - 1 \in Nat
    BY <1>0, <1>5, QueueFacts DEF StartFrame
  <2>2. left' = [left EXCEPT ![c] = Len(q) - 1]
        /\ writer' = [writer EXCEPT ![c] = "frame"]
    BY <1>5 DEF StartFrame, Queued
  <2> HIDE DEF q
  <2>3. TypeOK'
    BY <1>4, <1>5, <2>1, <2>2 DEF StartFrame, TypeOK, listVars, frameClient, q
  <2>4. FrameNeverBlocks'
    BY <1>4, <1>5, <2>1, <2>2 DEF StartFrame, TypeOK, FrameNeverBlocks, q
  <2> QED
    BY <1>5, <2>3, <2>4 DEF StartFrame, RegisteredOpen, OnceRegistered,
       frameClient
<1>6. CASE AddToFrame(c)
  <2>1. left[c] - 1 \in Nat
    BY <1>0, <1>6 DEF AddToFrame
  <2>2. left' = [left EXCEPT ![c] = left[c] - 1] /\ writer' = writer
    BY <1>6 DEF AddToFrame
  <2>3. TypeOK'
    BY <1>4, <1>6, <2>1, <2>2 DEF AddToFrame, TypeOK, listVars, frameClient
  <2>4. FrameNeverBlocks'
    BY <1>0, <1>4, <1>6, <2>1, <2>2 DEF AddToFrame, TypeOK, FrameNeverBlocks
  <2> QED
    BY <1>6, <2>3, <2>4 DEF AddToFrame, RegisteredOpen, OnceRegistered,
       frameClient
<1>7. CASE WriteFails(c)
  <2>1. TypeOK'
    BY <1>4, <1>7 DEF WriteFails, WriterExits, TypeOK, listVars, frameClient
  <2>2. FrameNeverBlocks'
    BY <1>4, <1>7 DEF WriteFails, WriterExits, TypeOK, FrameNeverBlocks
  <2> QED
    BY <1>7, <2>1, <2>2 DEF WriteFails, WriterExits, RegisteredOpen,
       OnceRegistered, frameClient, TypeOK
<1>8. CASE EndFrame(c) \/ ChannelClosed(c) \/ PingFails(c)
  <2>1. /\ send' = send /\ left' = left /\ last' = last /\ reader' = reader
        /\ UNCHANGED frameClient
        /\ \/ conn' = conn /\ writer' = [writer EXCEPT ![c] = "select"]
           \/ /\ conn' = [conn EXCEPT ![c] = "closed"]
              /\ writer' = [writer EXCEPT ![c] = "gone"]
    BY <1>8 DEF EndFrame, ChannelClosed, PingFails, WriterExits
  <2> QED
    BY <2>1 DEF TypeOK, RegisteredOpen, FrameNeverBlocks, OnceRegistered,
       listVars, frameClient
<1> QED
  BY <1>1, <1>2, <1>3, <1>5, <1>6, <1>7, <1>8 DEF ClientNext

\* The steps of mainLoop.
LEMMA LoopInv ==
  ASSUME IInv, LoopNext
  PROVE  IInv'
<1> USE DEF IInv
<1>1. CASE BroadcastMessage
  <2>1. /\ Head(broadcast) \in Messages /\ Tail(broadcast) \in Seq(Messages)
        /\ Len(Tail(broadcast)) <= BroadcastLen
    BY <1>1, QueueFacts, BrokerAssumption DEF BroadcastMessage, TypeOK
  <2>2. /\ loop' \in [pc : {"select", "broadcast", "list"},
                      todo : SUBSET Clients, msg : Messages]
        /\ loop'.todo = registered
    BY <1>1, <2>1 DEF BroadcastMessage, Iterate, TypeOK
  <2>3. TypeOK'
    BY <1>1, <2>1, <2>2 DEF BroadcastMessage, TypeOK, clientVars, listVars
  <2> QED
    BY <1>1, <2>2, <2>3 DEF BroadcastMessage, RegisteredOpen,
       FrameNeverBlocks, OnceRegistered, clientVars
<1>2. CASE ServeList \/ CloseResponse
  BY <1>2 DEF ServeList, CloseResponse, TypeOK, RegisteredOpen,
     FrameNeverBlocks, OnceRegistered, clientVars, listVars
<1>3. ASSUME NEW c \in Clients, Register(c) PROVE IInv'
  BY <1>3 DEF Register, TypeOK, RegisteredOpen, FrameNeverBlocks,
     OnceRegistered, clientVars, listVars
<1>4. ASSUME NEW c \in Clients, Unregister(c) PROVE IInv'
  BY <1>4 DEF Unregister, Remove, TypeOK, RegisteredOpen, FrameNeverBlocks,
     OnceRegistered, listVars
<1>5. ASSUME NEW c \in Clients, SendToClient(c) PROVE IInv'
  <2>1. /\ send[c] \in Seq(Messages) /\ Len(send[c]) \in Nat
        /\ loop.msg \in Messages /\ c \in loop.todo
    BY <1>5, QueueFacts DEF TypeOK, SendToClient
  <2>2. /\ Append(send[c], loop.msg) \in Seq(Messages)
        /\ Len(Append(send[c], loop.msg)) = Len(send[c]) + 1
    BY <2>1, QueueFacts
  <2>3. /\ send' \in [Clients -> Seq(Messages)]
        /\ \A d \in Clients : /\ Len(send'[d]) <= SendQueueLen
                              /\ Len(send'[d]) >= Len(send[d])
    <3>1. CASE send' = send
      BY <3>1, QueueFacts DEF TypeOK
    <3>2. CASE /\ Len(send[c]) < SendQueueLen
               /\ send' = [send EXCEPT ![c] = Append(send[c], loop.msg)]
      <4>1. Len(send[c]) + 1 <= SendQueueLen
        BY <2>1, <3>2, BrokerAssumption
      <4>2. send'[c] = Append(send[c], loop.msg)
            /\ \A d \in Clients \ {c} : send'[d] = send[d]
        BY <3>2 DEF TypeOK
      <4>3. \A d \in Clients : Len(send[d]) \in Nat
        BY QueueFacts DEF TypeOK
      <4> QED
        BY <2>1, <2>2, <3>2, <4>1, <4>2, <4>3 DEF TypeOK
    <3> QED
      BY <1>5, <3>1, <3>2 DEF SendToClient, Offer
  <2>4. \/ UNCHANGED <<registered, closed>>
        \/ registered' = registered \ {c} /\ closed' = closed \cup {c}
    BY <1>5 DEF SendToClient, Offer, Remove
  <2>5. /\ loop'.todo = loop.todo \ {c}
        /\ loop' \in [pc : {"select", "broadcast", "list"},
                      todo : SUBSET Clients, msg : Messages]
    BY <1>5, <2>1 DEF SendToClient, Iterate, TypeOK
  <2>6. TypeOK'
    BY <1>5, <2>3, <2>4, <2>5 DEF SendToClient, TypeOK, listVars
  <2>7. RegisteredOpen' /\ OnceRegistered'
    BY <1>5, <2>1, <2>4, <2>5 DEF SendToClient, RegisteredOpen,
       OnceRegistered
  <2>8. FrameNeverBlocks'
    <3>1. \A d \in Clients : left[d] \in Nat /\ Len(send[d]) \in Nat
                             /\ Len(send'[d]) \in Nat
      BY <2>3, QueueFacts DEF TypeOK
    <3> QED
      BY <1>5, <2>3, <3>1 DEF SendToClient, FrameNeverBlocks
  <2> QED
    BY <2>6, <2>7, <2>8
<1>6. ASSUME NEW c \in Clients, ListClient(c) PROVE IInv'
  BY <1>6 DEF ListClient, Answer, TypeOK, RegisteredOpen, FrameNeverBlocks,
     OnceRegistered, clientVars
<1> QED
  BY <1>1, <1>2, <1>3, <1>4, <1>5, <1>6 DEF LoopNext

LEMMA PublishInv ==
  ASSUME IInv, Publish
  PROVE  IInv'
<1>1. /\ broadcast' \in Seq(Messages) /\ Len(broadcast') <= BroadcastLen
      /\ nextMsg' \in Messages
  BY SuccType, QueueFacts, BrokerAssumption DEF IInv, TypeOK, Publish
<1> QED
  BY <1>1 DEF IInv, Publish, TypeOK, RegisteredOpen, FrameNeverBlocks,
     OnceRegistered, clientVars, listVars

LEMMA ListInv ==
  ASSUME IInv, ListNext
  PROVE  IInv'
BY DEF ListNext, ListCall, ListReceive, ListReturn, ListAgain, frameList,
   clientVars, IInv, TypeOK, RegisteredOpen, FrameNeverBlocks, OnceRegistered

LEMMA NextInv == IInv /\ [Next]_vars => IInv'
<1>1. IInv /\ UNCHANGED vars => IInv'
  BY DEF vars, clientVars, listVars, IInv, TypeOK, RegisteredOpen,
     FrameNeverBlocks, OnceRegistered
<1> QED
  BY <1>1, ClientInv, LoopInv, PublishInv, ListInv DEF Next

-----------------------------------------------------------------------------
\* The queues of the broker and of every client stay within their capacity,
\* whatever the number of clients.
THEOREM TypeCorrect == Spec => []TypeOK
<1>1. IInv => TypeOK
  BY DEF IInv
<1> QED
  BY <1>1, InitInv, NextInv, PTL DEF Spec

\* mainLoop never panics on a closed channel: it neither sends to nor closes
\* the channel of a client it has removed.
THEOREM NoClosedChannel == Spec => []RegisteredOpen
<1>1. IInv => RegisteredOpen
  BY DEF IInv
<1> QED
  BY <1>1, InitInv, NextInv, PTL DEF Spec

\* A frame of writeLoop is completed from what is already buffered.
THEOREM FramesComplete == Spec => []FrameNeverBlocks
<1>1. IInv => FrameNeverBlocks
  BY DEF IInv
<1> QED
  BY <1>1, InitInv, NextInv, PTL DEF Spec
-----------------------------------------------------------------------------
(* The order of the messages.  The channel continues what mainLoop is      *)
(* sending, and a client that mainLoop does not know has received nothing. *)

InChannel ==
  /\ Consecutive(broadcast)
  /\ broadcast # <<>> => broadcast[1] = Succ(loop.msg)
  /\ nextMsg = Succ(IF broadcast = <<>> THEN loop.msg
                                       ELSE broadcast[Len(broadcast)])

FirstContact ==
  \A c \in Clients :
    c \notin registered \cup closed => last[c] = NoMessage /\ send[c] = <<>>

OrderInv == IInv /\ InOrder /\ InChannel /\ FirstContact

Before(m) == (m + Modulus - 1) % Modulus

LEMMA Steps ==
  ASSUME NEW m \in Messages
  PROVE  /\ Succ(m) = IF m = Modulus - 1 THEN 0 ELSE m + 1
         /\ Before(m) = IF m = 0 THEN Modulus - 1 ELSE m - 1
<1>1. m \in Nat /\ Modulus \in Nat \ {0} /\ m <= Modulus - 1
  BY BrokerAssumption DEF Messages
<1>2. CASE m = Modulus - 1
  BY <1>1, <1>2 DEF Succ, Before
<1>3. CASE m < Modulus - 1
  BY <1>1, <1>3 DEF Succ, Before
<1> QED
  BY <1>1, <1>2, <1>3

LEMMA BeforeSucc ==
  ASSUME NEW m \in Messages
  PROVE  Before(Succ(m)) = m /\ Succ(Before(m)) = m /\ Before(m) \in Messages
BY Steps, SuccType, BrokerAssumption DEF Messages

LEMMA ConsecutiveAppend ==
  ASSUME NEW q \in Seq(Messages), NEW m \in Messages, Consecutive(q),
         q # <<>> => m = Succ(q[Len(q)])
  PROVE  Consecutive(Append(q, m))
BY DEF Consecutive

LEMMA ConsecutiveTail ==
  ASSUME NEW q \in Seq(Messages), q # <<>>, Consecutive(q)
  PROVE  /\ Consecutive(Tail(q))
         /\ Tail(q) # <<>> => /\ Tail(q)[1] = Succ(Head(q))
                              /\ Tail(q)[Len(Tail(q))] = q[Len(q)]
BY DEF Consecutive

\* What a client has received is a sequence; receiving the next message
\* keeps its end, and a message sent to the client is added there.
LEMMA ReceivedType ==
  ASSUME TypeOK, NEW c \in Clients
  PROVE  Received(c) \in Seq(Messages)
<1>1. CASE last[c] = NoMessage
  BY <1>1 DEF Received, TypeOK
<1>2. CASE last[c] # NoMessage
  <2>1. last[c] \in Messages /\ send[c] \in Seq(Messages)
    BY <1>2 DEF TypeOK
  <2> QED
    BY <1>2, <2>1 DEF Received
<1> QED
  BY <1>1, <1>2

LEMMA DequeueOrder ==
  ASSUME TypeOK, NEW c \in Clients, send[c] # <<>>, Dequeue(c),
         Consecutive(Received(c))
  PROVE  /\ Consecutive(Received(c)') /\ Received(c)' # <<>>
         /\ Received(c) # <<>>
         /\ Received(c)'[Len(Received(c)')] = Received(c)[Len(Received(c))]
<1> DEFINE q == send[c]
<1>1. /\ q \in Seq(Messages) /\ q # <<>>
      /\ send'[c] = Tail(q) /\ last'[c] = Head(q)
  BY DEF TypeOK, Dequeue
<1>2. /\ Head(q) \in Messages /\ Head(q) # NoMessage
      /\ <<Head(q)>> \o Tail(q) = q
  BY <1>1, BrokerAssumption DEF Messages, NoMessage
<1>3. Received(c)' = q
  BY <1>1, <1>2 DEF Received, NoMessage
<1>4. CASE last[c] = NoMessage
  <2>1. Received(c) = q
    BY <1>1, <1>4 DEF Received
  <2> QED
    BY <1>1, <1>3, <2>1
<1>5. CASE last[c] # NoMessage
  <2>1. last[c] \in Messages
    BY <1>5 DEF TypeOK
  <2>2. Received(c) = <<last[c]>> \o q
    BY <1>5 DEF Received
  <2> HIDE DEF q
  <2>3. <<last[c]>> \o q # <<>> /\ Tail(<<last[c]>> \o q) = q
        /\ <<last[c]>> \o q \in Seq(Messages)
    BY <1>1, <2>1
  <2> QED
    BY <1>1, <1>3, <2>2, <2>3, ConsecutiveTail
<1> QED
  BY <1>4, <1>5

LEMMA AppendOrder ==
  ASSUME TypeOK, NEW c \in Clients, NEW m \in Messages, last'[c] = last[c],
         send'[c] = Append(send[c], m)
  PROVE  Received(c)' = Append(Received(c), m)
<1>1. CASE last[c] = NoMessage
  BY <1>1 DEF Received, TypeOK, NoMessage
<1>2. CASE last[c] # NoMessage
  <2>1. last[c] \in Messages /\ send[c] \in Seq(Messages)
    BY <1>2 DEF TypeOK
  <2>2. Received(c) = <<last[c]>> \o send[c]
        /\ Received(c)' = <<last[c]>> \o Append(send[c], m)
    BY <1>2 DEF Received, NoMessage
  <2> QED
    BY <2>1, <2>2
<1> QED
  BY <1>1, <1>2

LEMMA NothingReceived ==
  ASSUME NEW c \in Clients, last[c] = NoMessage, send[c] = <<>>
  PROVE  Received(c) = <<>>
<1>1. Received(c) = <<>> \o send[c]
  BY DEF Received
<1>2. <<>> \in Seq({})
  BY EmptySeq
<1>3. <<>> \o <<>> = <<>>
  BY <1>2, ConcatEmptySeq
<1> QED
  BY <1>1, <1>3

LEMMA ReceivedSame ==
  ASSUME NEW c \in Clients, last'[c] = last[c], send'[c] = send[c]
  PROVE  Received(c)' = Received(c)
BY DEF Received, NoMessage

LEMMA OrderInit == Init => OrderInv
<1> SUFFICES ASSUME Init PROVE OrderInv
  OBVIOUS
<1>1. IInv
  BY InitInv
<1>2. Modulus - 1 \in Messages /\ Succ(Modulus - 1) = 0
  BY Steps, BrokerAssumption DEF Messages
<1>3. \A c \in Clients : last[c] = NoMessage /\ send[c] = <<>>
  BY DEF Init
<1>5. \A c \in Clients : Received(c) = <<>>
  BY <1>3, NothingReceived
<1> QED
  BY <1>1, <1>2, <1>5 DEF Init, OrderInv, InOrder, InChannel, FirstContact,
     Consecutive

\* A step of one client's goroutines leaves mainLoop and the map alone.
LEMMA OrderClient ==
  ASSUME OrderInv, NEW c \in Clients, ClientNext(c)
  PROVE  OrderInv'
<1>1. IInv'
  BY ClientInv DEF OrderInv
<1>2. /\ UNCHANGED <<registered, closed, broadcast, nextMsg, loop>>
      /\ \/ UNCHANGED <<send, last>>
         \/ send[c] # <<>> /\ Dequeue(c)
  BY DEF ClientNext, AddConnection, ReadFails, ReaderExits, StartFrame,
     AddToFrame, EndFrame, WriteFails, ChannelClosed, PingFails, frameClient
<1>3. InChannel'
  BY <1>2 DEF OrderInv, InChannel, Consecutive, Succ
<1>4. CASE UNCHANGED <<send, last>>
  <2>1. \A d \in Clients : Received(d)' = Received(d)
    BY <1>4, ReceivedSame
  <2>2. InOrder'
    BY <1>2, <2>1 DEF OrderInv, InOrder, Pending, Consecutive, Succ
  <2> QED
    BY <1>1, <1>2, <1>3, <1>4, <2>2 DEF OrderInv, FirstContact, NoMessage
<1>5. CASE send[c] # <<>> /\ Dequeue(c)
  <2>1. \A d \in Clients \ {c} : send'[d] = send[d] /\ last'[d] = last[d]
    BY <1>5 DEF Dequeue, OrderInv, IInv, TypeOK
  <2>2. \A d \in Clients \ {c} : Received(d)' = Received(d)
    BY <2>1, ReceivedSame
  <2>3. Consecutive(Received(c))
    BY DEF OrderInv, InOrder
  <2>4. /\ Consecutive(Received(c)') /\ Received(c) # <<>>
        /\ Received(c)'[Len(Received(c)')] = Received(c)[Len(Received(c))]
    BY <1>5, <2>3, DequeueOrder DEF OrderInv, IInv
  <2>5. InOrder'
    <3> SUFFICES ASSUME NEW d \in Clients
                 PROVE  /\ Consecutive(Received(d)')
                        /\ d \in registered /\ Received(d)' # <<>> =>
                             Received(d)'[Len(Received(d)')] =
                               IF Pending(d) THEN Before(loop.msg)
                                             ELSE loop.msg
      BY <1>2 DEF InOrder, Consecutive, Succ, Pending, Before
    <3>1. CASE d = c
      BY <2>4, <3>1 DEF OrderInv, InOrder, Before
    <3>2. CASE d # c
      BY <2>2, <3>2 DEF OrderInv, InOrder, Before
    <3> QED
      BY <3>1, <3>2
  <2>6. c \in registered \cup closed
    BY <1>5 DEF OrderInv, FirstContact
  <2>7. FirstContact'
    BY <1>2, <2>1, <2>6 DEF OrderInv, FirstContact, NoMessage
  <2> QED
    BY <1>1, <1>3, <2>5, <2>7 DEF OrderInv
<1> QED
  BY <1>2, <1>4, <1>5

\* The steps of mainLoop.
LEMMA OrderLoop ==
  ASSUME OrderInv, LoopNext
  PROVE  OrderInv'
<1>1. IInv'
  BY LoopInv DEF OrderInv
<1>2. TypeOK /\ loop.msg \in Messages
  BY DEF OrderInv, IInv, TypeOK
<1>3. CASE BroadcastMessage
  <2> DEFINE b == broadcast
  <2>1. /\ b \in Seq(Messages) /\ b # <<>> /\ broadcast' = Tail(b)
        /\ loop'.msg = Head(b) /\ loop'.todo = registered
        /\ loop'.pc = IF registered = {} THEN "select" ELSE "broadcast"
        /\ loop.pc = "select"
        /\ UNCHANGED <<registered, closed, clientVars, nextMsg>>
    BY <1>2, <1>3 DEF BroadcastMessage, Iterate, TypeOK
  <2>2. Head(b) \in Messages /\ b[1] = Head(b) /\ Head(b) = Succ(loop.msg)
    BY <2>1 DEF OrderInv, InChannel
  <2>3. Before(Head(b)) = loop.msg
    BY <1>2, <2>2, BeforeSucc
  <2>4. \A c \in Clients : Received(c)' = Received(c)
    BY <2>1, ReceivedSame DEF clientVars
  <2>5. InOrder'
    BY <2>1, <2>3, <2>4 DEF OrderInv, InOrder, Pending, Before, Consecutive,
       Succ
  <2>6. InChannel'
    <3>1. /\ Consecutive(Tail(b))
          /\ Tail(b) # <<>> => /\ Tail(b)[1] = Succ(Head(b))
                               /\ Tail(b)[Len(Tail(b))] = b[Len(b)]
      BY <2>1, ConsecutiveTail DEF OrderInv, InChannel
    <3>2. Tail(b) = <<>> => b[Len(b)] = Head(b)
      <4> HIDE DEF b
      <4>1. Len(Tail(b)) = Len(b) - 1 /\ Len(b) \in Nat
        BY <2>1, QueueFacts
      <4>2. Tail(b) = <<>> => Len(b) = 1
        <5>1. Len(<<>>) = 0
          BY EmptySeq
        <5>2. ASSUME Tail(b) = <<>> PROVE Len(Tail(b)) = 0
          BY <5>1, <5>2
        <5> QED
          BY <4>1, <5>2
      <4> QED
        BY <2>2, <4>2
    <3>3. nextMsg' = Succ(b[Len(b)])
      BY <2>1 DEF OrderInv, InChannel
    <3> HIDE DEF b
    <3> QED
      BY <2>1, <3>1, <3>2, <3>3 DEF InChannel, Consecutive, Succ
  <2> QED
    BY <1>1, <2>1, <2>5, <2>6 DEF OrderInv, FirstContact, clientVars,
       NoMessage
<1>4. ASSUME UNCHANGED <<clientVars, broadcast, nextMsg>>,
             loop'.msg = loop.msg,
             loop.pc # "broadcast", loop'.pc # "broadcast",
             closed \subseteq closed',
             registered \subseteq registered' \cup closed',
             \A c \in registered' : c \in registered \/ c \in registering
      PROVE  OrderInv'
  <2>1. \A c \in Clients : Received(c)' = Received(c)
    BY <1>4, ReceivedSame DEF clientVars
  <2>2. InOrder'
    <3> SUFFICES ASSUME NEW c \in Clients
                 PROVE  /\ Consecutive(Received(c)')
                        /\ c \in registered' /\ Received(c)' # <<>> =>
                             Received(c)'[Len(Received(c)')] = loop.msg
      BY <1>4 DEF InOrder, Consecutive, Succ, Pending
    <3>1. CASE c \in registered
      BY <1>4, <2>1, <3>1 DEF OrderInv, InOrder, Pending
    <3>2. CASE c \notin registered /\ c \in registered'
      <4>1. c \notin registered \cup closed
        BY <1>4, <3>2 DEF OrderInv, IInv, OnceRegistered
      <4>2. last[c] = NoMessage /\ send[c] = <<>>
        BY <4>1 DEF OrderInv, FirstContact
      <4>4. Received(c) = <<>>
        BY <4>2, NothingReceived
      <4> QED
        BY <2>1, <4>4 DEF OrderInv, InOrder
    <3>3. CASE c \notin registered'
      BY <2>1, <3>3 DEF OrderInv, InOrder
    <3> QED
      BY <3>1, <3>2, <3>3
  <2>3. InChannel'
    BY <1>4 DEF OrderInv, InChannel, Consecutive, Succ
  <2>4. FirstContact'
    BY <1>4 DEF OrderInv, FirstContact, clientVars, NoMessage
  <2> QED
    BY <1>1, <2>2, <2>3, <2>4 DEF OrderInv
<1>5. CASE ServeList
  <2>1. loop'.msg = loop.msg /\ loop'.pc = "list"
    BY <1>2, <1>5 DEF ServeList, TypeOK
  <2> QED
    BY <1>4, <1>5, <2>1 DEF ServeList
<1>6. CASE CloseResponse
  <2>1. loop'.msg = loop.msg /\ loop'.pc = "select"
    BY <1>2, <1>6 DEF CloseResponse, TypeOK
  <2> QED
    BY <1>4, <1>6, <2>1 DEF CloseResponse
<1>7. ASSUME NEW c \in Clients, ListClient(c) PROVE OrderInv'
  <2>1. loop'.msg = loop.msg /\ loop'.pc = loop.pc
    BY <1>2, <1>7 DEF ListClient, TypeOK
  <2> QED
    BY <1>4, <1>7, <2>1 DEF ListClient
<1>8. ASSUME NEW c \in Clients, Register(c) PROVE OrderInv'
  BY <1>4, <1>8 DEF Register
<1>9. ASSUME NEW c \in Clients, Unregister(c) PROVE OrderInv'
  <2>1. \A d \in Clients : Received(d)' = Received(d)
    BY <1>9, ReceivedSame DEF Unregister
  <2>2. /\ UNCHANGED <<send, last, broadcast, nextMsg, loop>>
        /\ registered' \subseteq registered /\ closed \subseteq closed'
        /\ registered \subseteq registered' \cup closed'
    BY <1>9 DEF Unregister, Remove
  <2>3. InOrder'
    BY <2>1, <2>2 DEF OrderInv, InOrder, Pending, Consecutive, Succ
  <2>4. InChannel' /\ FirstContact'
    BY <2>2 DEF OrderInv, InChannel, FirstContact, Consecutive, Succ, NoMessage
  <2> QED
    BY <1>1, <2>3, <2>4 DEF OrderInv
<1>10. ASSUME NEW c \in Clients, SendToClient(c) PROVE OrderInv'
  <2>1. /\ loop.pc = "broadcast" /\ c \in loop.todo /\ c \in registered
        /\ UNCHANGED <<last, broadcast, nextMsg>>
        /\ loop'.msg = loop.msg /\ loop'.todo = loop.todo \ {c}
        /\ loop'.pc = IF loop'.todo = {} THEN "select" ELSE "broadcast"
    BY <1>2, <1>10 DEF SendToClient, Iterate, OrderInv, IInv, RegisteredOpen
  <2>2. /\ \A d \in Clients \ {c} : Pending(d)' = Pending(d)
        /\ Pending(c) /\ ~ Pending(c)'
    BY <2>1 DEF Pending
  <2>3. InChannel'
    BY <2>1 DEF OrderInv, InChannel, Consecutive, Succ
  <2>4. \A d \in Clients \ {c} : send'[d] = send[d]
    BY <1>2, <1>10 DEF SendToClient, Offer, TypeOK
  <2>5. \A d \in Clients \ {c} : Received(d)' = Received(d)
    BY <2>1, <2>4, ReceivedSame
  <2>6. /\ registered' \subseteq registered /\ closed \subseteq closed'
        /\ registered \subseteq registered' \cup closed'
    BY <1>10 DEF SendToClient, Offer, Remove
  <2>7. FirstContact'
    BY <2>1, <2>4, <2>6 DEF OrderInv, FirstContact, NoMessage
  <2>8. /\ Consecutive(Received(c)')
        /\ c \in registered' /\ Received(c)' # <<>> =>
             Received(c)'[Len(Received(c)')] = loop.msg
    <3>1. CASE send' = [send EXCEPT ![c] = Append(@, loop.msg)]
      <4>1. Received(c)' = Append(Received(c), loop.msg)
        BY <1>2, <2>1, <3>1, AppendOrder DEF TypeOK
      <4>2. Received(c) \in Seq(Messages) /\ Consecutive(Received(c))
        BY <1>2, ReceivedType DEF OrderInv, InOrder
      <4>3. Received(c) # <<>> =>
              Received(c)[Len(Received(c))] = Before(loop.msg)
        BY <2>1, <2>2 DEF OrderInv, InOrder, Before
      <4>4. Received(c) # <<>> =>
              loop.msg = Succ(Received(c)[Len(Received(c))])
        BY <1>2, <4>3, BeforeSucc
      <4>5. Consecutive(Append(Received(c), loop.msg))
        BY <1>2, <4>2, <4>4, ConsecutiveAppend
      <4>6. Append(Received(c), loop.msg)[Len(Append(Received(c), loop.msg))]
              = loop.msg
        BY <1>2, <4>2
      <4> QED
        BY <4>1, <4>5, <4>6
    <3>2. CASE send' = send /\ c \notin registered'
      <4>1. Received(c)' = Received(c)
        BY <2>1, <3>2, ReceivedSame
      <4> QED
        BY <3>2, <4>1 DEF OrderInv, InOrder
    <3> QED
      BY <1>10, <3>1, <3>2 DEF SendToClient, Offer, Remove
  <2>9. InOrder'
    <3> SUFFICES ASSUME NEW d \in Clients
                 PROVE  /\ Consecutive(Received(d)')
                        /\ d \in registered' /\ Received(d)' # <<>> =>
                             Received(d)'[Len(Received(d)')] =
                               IF Pending(d)' THEN Before(loop.msg)
                                              ELSE loop.msg
      BY <2>1 DEF InOrder, Consecutive, Succ, Before
    <3>1. CASE d = c
      BY <2>2, <2>8, <3>1
    <3>2. CASE d # c
      BY <2>2, <2>5, <2>6, <3>2 DEF OrderInv, InOrder, Before
    <3> QED
      BY <3>1, <3>2
  <2> QED
    BY <1>1, <2>3, <2>7, <2>9 DEF OrderInv
<1> QED
  BY <1>3, <1>5, <1>6, <1>7, <1>8, <1>9, <1>10 DEF LoopNext

LEMMA OrderNext == OrderInv /\ [Next]_vars => OrderInv'
<1> SUFFICES ASSUME OrderInv, [Next]_vars PROVE OrderInv'
  OBVIOUS
<1>1. IInv'
  BY NextInv DEF OrderInv
<1>2. ASSUME UNCHANGED <<registered, closed, send, last, loop>>, InChannel'
      PROVE  OrderInv'
  <2>1. \A c \in Clients : Received(c)' = Received(c)
    BY <1>2, ReceivedSame
  <2>2. InOrder'
    BY <1>2, <2>1 DEF OrderInv, InOrder, Pending, Consecutive, Succ
  <2> QED
    BY <1>1, <1>2, <2>2 DEF OrderInv, FirstContact, NoMessage
<1>3. CASE Publish
  <2> DEFINE b == broadcast
  <2>1. b \in Seq(Messages) /\ nextMsg \in Messages
    BY DEF OrderInv, IInv, TypeOK
  <2>2. broadcast' = Append(b, nextMsg) /\ nextMsg' = Succ(nextMsg)
        /\ loop' = loop
    BY <1>3 DEF Publish
  <2>3. b # <<>> => nextMsg = Succ(b[Len(b)]) /\ b[1] = Succ(loop.msg)
    BY DEF OrderInv, InChannel
  <2>4. b = <<>> => nextMsg = Succ(loop.msg)
    BY DEF OrderInv, InChannel
  <2>5. Consecutive(Append(b, nextMsg))
    BY <2>1, <2>3, ConsecutiveAppend DEF OrderInv, InChannel
  <2>6. /\ Append(b, nextMsg) # <<>>
        /\ Append(b, nextMsg)[1] = Succ(loop.msg)
        /\ Append(b, nextMsg)[Len(Append(b, nextMsg))] = nextMsg
    <3> HIDE DEF b
    <3>1. /\ Len(Append(b, nextMsg)) = Len(b) + 1 /\ Len(b) \in Nat
          /\ Append(b, nextMsg)[Len(b) + 1] = nextMsg
          /\ \A i \in 1 .. Len(b) : Append(b, nextMsg)[i] = b[i]
      BY <2>1, AppendProperties
    <3>2. CASE b = <<>>
      BY <2>4, <3>1, <3>2
    <3>3. CASE b # <<>>
      BY <2>1, <2>3, <3>1, <3>3
    <3> QED
      BY <3>2, <3>3
  <2>7. InChannel'
    <3> HIDE DEF b
    <3> QED
      BY <2>2, <2>5, <2>6 DEF InChannel, Consecutive, Succ
  <2> QED
    BY <1>2, <1>3, <2>7 DEF Publish, clientVars
<1>4. ASSUME UNCHANGED <<broadcast, nextMsg, loop>> PROVE InChannel'
  BY <1>4 DEF OrderInv, InChannel, Consecutive, Succ
<1>5. CASE ListNext
  BY <1>2, <1>4, <1>5 DEF ListNext, ListCall, ListReceive, ListReturn,
     ListAgain, frameList, clientVars
<1>6. CASE UNCHANGED vars
  BY <1>2, <1>4, <1>6 DEF vars, clientVars
<1> QED
  BY <1>3, <1>5, <1>6, OrderClient, OrderLoop DEF Next

\* Every client gets the messages in the order of their publication and
\* without a gap, for any number of clients and any capacity of the queues.
THEOREM MessagesInOrder == Spec => []InOrder
<1>1. OrderInv => InOrder
  BY DEF OrderInv
<1> QED
  BY <1>1, OrderInit, OrderNext, PTL DEF Spec
=============================================================================
