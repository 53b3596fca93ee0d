---------------------------- MODULE StreamBroker ----------------------------
(***************************************************************************)
(* The websocket broker of the server (server/pkg/pipeline/stream): the    *)
(* goroutine of mainLoop, which owns the client map; a read and a write    *)
(* goroutine per connection; Publish, AddConnection and ListClients called *)
(* from other goroutines.                                                  *)
(*                                                                         *)
(* Messages are numbered modulo Modulus, so that publishing never ends and *)
(* order and gaps are still visible.                                       *)
(***************************************************************************)
EXTENDS Naturals, Sequences

CONSTANTS Clients,       \* connections that may come and go, once each
          SendQueueLen,  \* sendQueueLen, capacity of client.send
          BroadcastLen,  \* capacity of Broker.broadcast
          Modulus,       \* message numbers
          Listing        \* bound: whether ListClients is called at all

ASSUME BrokerAssumption ==
  /\ SendQueueLen \in Nat \ {0}
  /\ BroadcastLen \in Nat \ {0}
  /\ Modulus \in Nat \ {0}
  /\ Listing \in BOOLEAN

Messages == 0 .. Modulus - 1
NoMessage == Modulus

Succ(m) == (m + 1) % Modulus

VARIABLES
  registered,   \* keys of Broker.clients
  closed,       \* clients whose send channel is closed
  send,         \* buffer of client.send
  conn,         \* websocket: "none", "open", "closed"
  reader,       \* readLoop of each client
  writer,       \* writeLoop of each client
  left,         \* queued messages writeLoop still adds to its frame
  last,         \* message writeLoop received last
  registering,  \* clients AddConnection is sending to Broker.register
  broadcast,    \* buffer of Broker.broadcast
  nextMsg,      \* number of the next message published
  loop,         \* mainLoop: [pc, todo, msg]
  lister,       \* ListClients: "idle", "called", "receiving", "appending",
                \* "returned"
  listed,       \* what ListClients has collected
  request       \* its request: "none", "queued", "serving", "closed"

clientVars == <<send, conn, reader, writer, left, last>>
listVars   == <<lister, listed, request>>
vars == <<registered, closed, clientVars, registering, broadcast, nextMsg,
          loop, listVars>>

\* The type invariant; the queues stay within their capacities.
TypeOK ==
  /\ registered \subseteq Clients /\ closed \subseteq Clients
  /\ registering \subseteq Clients
  /\ send \in [Clients -> Seq(Messages)]
  /\ \A c \in Clients : Len(send[c]) <= SendQueueLen
  /\ conn \in [Clients -> {"none", "open", "closed"}]
  /\ reader \in [Clients -> {"none", "reading", "unregister", "closing",
                             "gone"}]
  /\ writer \in [Clients -> {"none", "select", "frame", "gone"}]
  /\ left \in [Clients -> Nat]
  /\ last \in [Clients -> Messages \cup {NoMessage}]
  /\ broadcast \in Seq(Messages) /\ Len(broadcast) <= BroadcastLen
  /\ nextMsg \in Messages
  /\ loop \in [pc : {"select", "broadcast", "list"}, todo : SUBSET Clients,
               msg : Messages]
  /\ lister \in {"idle", "called", "receiving", "appending", "returned"}
  /\ listed \subseteq Clients
  /\ request \in {"none", "queued", "serving", "closed"}

Init ==
  /\ registered = {} /\ closed = {} /\ registering = {}
  /\ send = [c \in Clients |-> <<>>]
  /\ conn = [c \in Clients |-> "none"]
  /\ reader = [c \in Clients |-> "none"]
  /\ writer = [c \in Clients |-> "none"]
  /\ left = [c \in Clients |-> 0]
  /\ last = [c \in Clients |-> NoMessage]
  /\ broadcast = <<>>
  /\ nextMsg = 0
  /\ loop = [pc |-> "select", todo |-> {}, msg |-> Modulus - 1]
  /\ lister = "idle" /\ listed = {} /\ request = "none"

-----------------------------------------------------------------------------
(* AddConnection: newClient starts both goroutines, and only then is the   *)
(* client handed to mainLoop.                                              *)

AddConnection(c) ==
  /\ conn[c] = "none"
  /\ conn' = [conn EXCEPT ![c] = "open"]
  /\ reader' = [reader EXCEPT ![c] = "reading"]
  /\ writer' = [writer EXCEPT ![c] = "select"]
  /\ registering' = registering \cup {c}
  /\ UNCHANGED <<registered, closed, send, left, last, broadcast, nextMsg,
                 loop, listVars>>

\* Publish blocks while the channel is full.
Publish ==
  /\ Len(broadcast) < BroadcastLen
  /\ broadcast' = Append(broadcast, nextMsg)
  /\ nextMsg' = Succ(nextMsg)
  /\ UNCHANGED <<registered, closed, clientVars, registering, loop, listVars>>

-----------------------------------------------------------------------------
(* mainLoop, one action per case of its select and one per iteration of    *)
(* the inner loops.                                                        *)

Register(c) ==
  /\ loop.pc = "select"
  /\ c \in registering
  /\ registering' = registering \ {c}
  /\ registered' = registered \cup {c}
  /\ UNCHANGED <<closed, clientVars, broadcast, nextMsg, loop, listVars>>

\* delete(b.clients, c); close(c.send)
\* (mutated) the client stays in the map
CloseWithoutDelete(c) ==
  registered' = registered /\ closed' = closed \cup {c}
Remove(c) ==
  registered' = registered \ {c} /\ closed' = closed \cup {c}

Unregister(c) ==
  /\ loop.pc = "select"
  /\ reader[c] = "unregister"
  /\ reader' = [reader EXCEPT ![c] = "closing"]
  /\ IF c \in registered THEN Remove(c) ELSE UNCHANGED <<registered, closed>>
  /\ UNCHANGED <<send, conn, writer, left, last, registering, broadcast,
                 nextMsg, loop, listVars>>

Iterate(pc, todo, msg) ==
  loop' = [pc |-> IF todo = {} THEN "select" ELSE pc,
           todo |-> todo, msg |-> msg]

BroadcastMessage ==
  /\ loop.pc = "select"
  /\ broadcast # <<>>
  /\ broadcast' = Tail(broadcast)
  /\ Iterate("broadcast", registered, Head(broadcast))
  /\ UNCHANGED <<registered, closed, clientVars, registering, nextMsg,
                 listVars>>

\* Non-blocking send: a client whose queue is full is dropped.
\* (mutated) the message is skipped instead
OfferOrSkip(c) ==
  /\ send' = IF Len(send[c]) < SendQueueLen
             THEN [send EXCEPT ![c] = Append(@, loop.msg)] ELSE send
  /\ UNCHANGED <<registered, closed>>
Offer(c) ==
  \/ /\ Len(send[c]) < SendQueueLen
     /\ send' = [send EXCEPT ![c] = Append(@, loop.msg)]
     /\ UNCHANGED <<registered, closed>>
  \/ /\ Len(send[c]) = SendQueueLen
     /\ Remove(c)
     /\ UNCHANGED send

SendToClient(c) ==
  /\ loop.pc = "broadcast"
  /\ c \in loop.todo
  /\ Offer(c)
  /\ Iterate("broadcast", loop.todo \ {c}, loop.msg)
  /\ UNCHANGED <<conn, reader, writer, left, last, registering, broadcast,
                 nextMsg, listVars>>

ServeList ==
  /\ loop.pc = "select"
  /\ request = "queued"
  /\ loop' = [loop EXCEPT !.pc = "list", !.todo = registered]
  /\ request' = "serving"
  /\ UNCHANGED <<registered, closed, clientVars, registering, broadcast,
                 nextMsg, lister, listed>>

\* Non-blocking send on the unbuffered response channel: it succeeds only
\* if ListClients is blocked in its receive at that moment.
\* (mutated) a plain, blocking send
AnswerBlocking(c) ==
  /\ lister = "receiving"
  /\ listed' = listed \cup {c}
  /\ lister' = "appending"
Answer(c) ==
  \/ /\ lister = "receiving"
     /\ listed' = listed \cup {c}
     /\ lister' = "appending"
  \/ /\ lister # "receiving"
     /\ UNCHANGED <<listed, lister>>

ListClient(c) ==
  /\ loop.pc = "list"
  /\ c \in loop.todo
  /\ Answer(c)
  /\ loop' = [loop EXCEPT !.todo = @ \ {c}]
  /\ UNCHANGED <<registered, closed, clientVars, registering, broadcast,
                 nextMsg, request>>

CloseResponse ==
  /\ loop.pc = "list"
  /\ loop.todo = {}
  /\ loop' = [loop EXCEPT !.pc = "select"]
  /\ request' = "closed"
  /\ UNCHANGED <<registered, closed, clientVars, registering, broadcast,
                 nextMsg, lister, listed>>

-----------------------------------------------------------------------------
(* ListClients.  Bound: one call at a time, the next one after mainLoop    *)
(* has dealt with the request of the last.                                 *)

frameList == <<registered, closed, clientVars, registering, broadcast,
               nextMsg, loop>>

ListCall ==
  /\ Listing
  /\ lister = "idle"
  /\ lister' = "called" /\ listed' = {} /\ request' = "queued"
  /\ UNCHANGED frameList

ListReceive ==
  /\ lister \in {"called", "appending"}
  /\ lister' = "receiving"
  /\ UNCHANGED <<frameList, listed, request>>

\* The response channel is closed, or nothing came for 100 ms.
ListReturn ==
  /\ lister = "receiving"
  /\ lister' = "returned"
  /\ UNCHANGED <<frameList, listed, request>>

ListAgain ==
  /\ lister = "returned"
  /\ request = "closed"
  /\ lister' = "idle" /\ request' = "none" /\ listed' = {}
  /\ UNCHANGED frameList

-----------------------------------------------------------------------------
(* readLoop.  The websocket fails at any time; it must once closed. *)

frameClient == <<registered, closed, registering, broadcast, nextMsg, loop,
                 listVars>>

ReadFails(c) ==
  /\ reader[c] = "reading"
  /\ reader' = [reader EXCEPT ![c] = "unregister"]
  /\ UNCHANGED <<frameClient, send, conn, writer, left, last>>

\* The rest of the deferred function, after mainLoop took the client.
ReaderExits(c) ==
  /\ reader[c] = "closing"
  /\ reader' = [reader EXCEPT ![c] = "gone"]
  /\ conn' = [conn EXCEPT ![c] = "closed"]
  /\ UNCHANGED <<frameClient, send, writer, left, last>>

-----------------------------------------------------------------------------
(* writeLoop. *)

\* The deferred function of writeLoop.
\* (mutated) the websocket is not closed
WriterExitsOnly(c) ==
  /\ writer' = [writer EXCEPT ![c] = "gone"]
  /\ UNCHANGED conn
WriterExits(c) ==
  /\ writer' = [writer EXCEPT ![c] = "gone"]
  /\ conn' = [conn EXCEPT ![c] = "closed"]

Dequeue(c) ==
  /\ send' = [send EXCEPT ![c] = Tail(@)]
  /\ last' = [last EXCEPT ![c] = Head(send[c])]

\* n := len(c.send)
\* (mutated) also counts the message already taken
QueuedWithFirst(c) == Len(send[c])
Queued(c) == Len(send[c]) - 1

\* NextWriter succeeds, and the frame collects what is queued by now ...
StartFrame(c) ==
  /\ writer[c] = "select"
  /\ conn[c] = "open"
  /\ send[c] # <<>>
  /\ Dequeue(c)
  /\ left' = [left EXCEPT ![c] = Queued(c)]
  /\ writer' = [writer EXCEPT ![c] = "frame"]
  /\ UNCHANGED <<frameClient, conn, reader>>

AddToFrame(c) ==
  /\ writer[c] = "frame"
  /\ left[c] > 0
  /\ send[c] # <<>>
  /\ Dequeue(c)
  /\ left' = [left EXCEPT ![c] = @ - 1]
  /\ UNCHANGED <<frameClient, conn, reader, writer>>

\* ... until w.Close(), which may fail.
EndFrame(c) ==
  /\ writer[c] = "frame"
  /\ left[c] = 0
  /\ \/ /\ conn[c] = "open"
        /\ writer' = [writer EXCEPT ![c] = "select"]
        /\ UNCHANGED conn
     \/ WriterExits(c)
  /\ UNCHANGED <<frameClient, send, reader, left, last>>

\* NextWriter fails: the message it was for is lost.
WriteFails(c) ==
  /\ writer[c] = "select"
  /\ send[c] # <<>>
  /\ Dequeue(c)
  /\ WriterExits(c)
  /\ UNCHANGED <<frameClient, reader, left>>

\* The broker closed the channel and everything in it has been written.
ChannelClosed(c) ==
  /\ writer[c] = "select"
  /\ c \in closed
  /\ send[c] = <<>>
  /\ WriterExits(c)
  /\ UNCHANGED <<frameClient, send, reader, left, last>>

\* The ticker's ping fails.
PingFails(c) ==
  /\ writer[c] = "select"
  /\ WriterExits(c)
  /\ UNCHANGED <<frameClient, send, reader, left, last>>

-----------------------------------------------------------------------------
LoopNext ==
  \/ BroadcastMessage \/ ServeList \/ CloseResponse
  \/ \E c \in Clients : \/ Register(c) \/ Unregister(c) \/ SendToClient(c)
                        \/ ListClient(c)

ClientNext(c) ==
  \/ AddConnection(c) \/ ReadFails(c) \/ ReaderExits(c)
  \/ StartFrame(c) \/ AddToFrame(c) \/ EndFrame(c) \/ WriteFails(c)
  \/ ChannelClosed(c) \/ PingFails(c)

ListNext == ListCall \/ ListReceive \/ ListReturn \/ ListAgain

Next == LoopNext \/ Publish \/ ListNext \/ \E c \in Clients : ClientNext(c)

Spec == Init /\ [][Next]_vars

\* Goroutines are scheduled; Go's select picks among ready cases at random,
\* so a case that is ready again and again is taken (SF); a closed websocket
\* makes reads and pings fail.
Fairness ==
  /\ WF_vars(LoopNext)
  /\ SF_vars(ServeList)
  /\ WF_vars(ListReceive \/ ListReturn)
  /\ \A c \in Clients :
       /\ SF_vars(Register(c)) /\ SF_vars(Unregister(c))
       /\ WF_vars(conn[c] = "closed" /\ ReadFails(c))
       /\ WF_vars(ReaderExits(c))
       /\ WF_vars(StartFrame(c) \/ WriteFails(c))
       /\ WF_vars(AddToFrame(c) \/ EndFrame(c))
       /\ WF_vars(ChannelClosed(c))
       /\ WF_vars(conn[c] = "closed" /\ PingFails(c))

\* The sensors keep reporting.
PublishFairness == WF_vars(Publish) /\ SF_vars(BroadcastMessage)

FairSpec    == Spec /\ Fairness
ReportSpec  == FairSpec /\ PublishFairness

-----------------------------------------------------------------------------
(* Properties. *)

\* mainLoop never sends on a closed channel nor closes one twice, both of
\* which panic: a client in the map has its channel open, and one iteration
\* over the map never meets a client that has left it.
RegisteredOpen ==
  /\ registered \cap closed = {}
  /\ loop.pc = "broadcast" => loop.todo \subseteq registered

\* The inner loop of writeLoop receives only what is already buffered, also
\* after the broker closed the channel, so it neither blocks nor writes the
\* empty message of a closed channel.
FrameNeverBlocks ==
  \A c \in Clients : writer[c] = "frame" => left[c] <= Len(send[c])

Consecutive(q) == \A i \in 1 .. Len(q) - 1 : q[i + 1] = Succ(q[i])

Received(c) == (IF last[c] = NoMessage THEN <<>> ELSE <<last[c]>>) \o send[c]

Pending(c) == loop.pc = "broadcast" /\ c \in loop.todo

\* A client gets the messages in the order of their publication and without
\* a gap from its first one on: it is dropped rather than skipped.
InOrder ==
  \A c \in Clients :
    /\ Consecutive(Received(c))
    /\ c \in registered /\ Received(c) # <<>> =>
         Received(c)[Len(Received(c))] =
           IF Pending(c) THEN (loop.msg + Modulus - 1) % Modulus ELSE loop.msg

\* No slow client and no abandoned ListClients call stops mainLoop.
BrokerResponsive == []<>(loop.pc = "select")

\* Once the broker is done with a client, both goroutines end and the
\* websocket is closed.
RemovedDisconnects ==
  \A c \in Clients :
    c \in closed ~> /\ reader[c] = "gone" /\ writer[c] = "gone"
                    /\ conn[c] = "closed"

\* A client whose readLoop ended before it was registered stays in the map,
\* but as long as messages are published its queue fills up and it is
\* dropped.
DeadClientEvicted ==
  \A c \in Clients :
    (c \in registered /\ reader[c] = "gone") ~> c \notin registered
=============================================================================
