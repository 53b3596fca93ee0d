------------------------------ MODULE N2Sockets ------------------------------
(***************************************************************************)
(* The UDP socket layer of the sensor node (Firmware/src/n2_offload.c) on  *)
(* top of the AT command decoders (at_commands.c), with the two threads    *)
(* that touch its state:                                                   *)
(*   - the main thread calls socket(), close(), recvfrom(), ...; a call    *)
(*     holds mdm_sem from the AT command it writes to the decoded answer;  *)
(*   - the URC thread (comms.c) parses +NSONMI notifications and calls     *)
(*     receive_cb, which takes mdm_sem as well.                            *)
(* The modem and the serial line are external: a FIFO of commands, a FIFO  *)
(* of answers and URCs, and the modem's own socket table.                  *)
(*                                                                         *)
(* An answer is one record, not its characters.  It arrives whole, but may *)
(* arrive after the decoder gave up on it (MaxLate) or never (MaxLost).    *)
(***************************************************************************)
EXTENDS Integers, Sequences, FiniteSets

CONSTANTS MaxSockets,    \* MDM_MAX_SOCKETS, the slots of sockets[]
          ModemIds,      \* socket numbers of the modem
          NextFreePort,  \* NEXT_FREE_PORT, the first local port
          MaxPort,       \* bound: no socket() once next_free_port reaches it
          Payloads,      \* what tells datagrams of one port apart
          MaxUnread,     \* bound: unread datagrams a socket announces
          MaxLate,       \* bound: answers that arrive after the time-out
          MaxLost,       \* bound: commands the modem never answers
          CloseMayFail,  \* AT+NSOCL of an open socket may answer ERROR
          MayDrop        \* a descriptor may be lost without a close()

ASSUME SocketAssumption ==
  /\ MaxSockets \in Nat \ {0}
  /\ ModemIds \subseteq Nat
  /\ NextFreePort \in Nat \ {0}
  /\ MaxPort \in Nat /\ MaxPort >= NextFreePort
  /\ MaxUnread \in Nat /\ MaxLate \in Nat /\ MaxLost \in Nat
  /\ CloseMayFail \in BOOLEAN /\ MayDrop \in BOOLEAN

Slots    == 0 .. MaxSockets - 1
Ports    == NextFreePort .. MaxPort
Datagram == [port : Ports, load : Payloads]

\* The values sockets[].id can take: a modem socket, the -1 of
\* clear_socket, and the -2 atnsocr_decode starts from.
SockIds == ModemIds \cup {-1, -2}

\* What the modem sends.  "id" is the number an answer's information line
\* starts with, -2 when the answer is a bare OK or ERROR.
Reply == [type : {"reply"}, ok : BOOLEAN, id : ModemIds \cup {-2},
          data : {<<>>} \cup {<<d>> : d \in Datagram}, remain : Nat]
Urc   == [type : {"urc"}, id : ModemIds]

\* AT commands as the modem sees them.
Command == [name : {"NSOCR", "NSOCL", "NSORF", "NSOST", "NRB"},
            id : SockIds, port : Ports]

\* The command the main thread waits for, or "idle"; "recv" is the wait
\* loop of offload_recv.
MainPc == {"idle", "recv", "NSOCR", "NSOCL", "NSORF", "NSOST", "NRB"}

VARIABLES
  id, in_use, connected, local_port, incoming_len,  \* sockets[], per slot
  next_free_port,
  mdm_sem,    \* count of the binary semaphore
  held,       \* slots whose descriptor the application has and did not close
  outdated,   \* history: slots that were in use when the modem was restarted
  main,       \* [pc, slot] of the main thread
  urc,        \* [pc, fd] of the URC thread
  urcq,       \* notifications in urc_rb, oldest first
  rx,         \* answers in rx_rb, oldest first
  wire,       \* serial line from the modem, oldest first
  cmds,       \* serial line to the modem
  mport,      \* modem: local port of each socket, 0 when closed
  mqueue,     \* modem: unread datagrams of each socket
  late, lost  \* counters for MaxLate and MaxLost

slotVars  == <<id, in_use, connected, local_port, incoming_len>>
modemVars == <<mport, mqueue, lost>>
vars == <<slotVars, next_free_port, mdm_sem, held, outdated, main, urc, urcq,
          rx, wire, cmds, modemVars, late>>

SlotTypes ==
  /\ id \in [Slots -> SockIds]
  /\ in_use \in [Slots -> BOOLEAN]
  /\ connected \in [Slots -> BOOLEAN]
  /\ local_port \in [Slots -> Ports \cup {0}]
  /\ incoming_len \in [Slots -> Nat]
  /\ next_free_port \in Ports
  /\ held \subseteq Slots /\ outdated \subseteq Slots

ThreadTypes ==
  /\ mdm_sem \in 0 .. 1
  /\ main \in [pc : MainPc, slot : Slots]
  /\ urc \in [pc : {"read", "callback"}, fd : ModemIds \cup {-1}]
  /\ late \in Nat

LineTypes ==
  /\ urcq \in Seq(ModemIds)
  /\ rx \in Seq(Reply)
  /\ wire \in Seq(Reply \cup Urc)
  /\ cmds \in Seq(Command)

ModemTypes ==
  /\ mport \in [ModemIds -> Ports \cup {0}]
  /\ mqueue \in [ModemIds -> Seq(Datagram)]
  /\ lost \in Nat

\* The type invariant: next_free_port stays a port, the semaphore binary,
\* and an id is a modem socket or one of the two codes the driver stores.
TypeOK == SlotTypes /\ ThreadTypes /\ LineTypes /\ ModemTypes

Init ==
  /\ id = [s \in Slots |-> -1]
  /\ in_use = [s \in Slots |-> FALSE]
  /\ connected = [s \in Slots |-> FALSE]
  /\ local_port = [s \in Slots |-> 0]
  /\ incoming_len = [s \in Slots |-> 0]
  /\ next_free_port = NextFreePort
  /\ mdm_sem = 1
  /\ held = {} /\ outdated = {}
  /\ main = [pc |-> "idle", slot |-> 0]
  /\ urc = [pc |-> "read", fd |-> -1]
  /\ urcq = <<>> /\ rx = <<>> /\ wire = <<>> /\ cmds = <<>>
  /\ mport = [k \in ModemIds |-> 0]
  /\ mqueue = [k \in ModemIds |-> <<>>]
  /\ late = 0 /\ lost = 0

-----------------------------------------------------------------------------
(* Scheduling.  The URC thread is cooperative and outranks the preemptible *)
(* main thread, so main runs only while the URC thread is blocked.         *)

UrcRunnable == \/ urc.pc = "read" /\ urcq # <<>>
               \/ urc.pc = "callback" /\ mdm_sem = 1

\* (mutated) priorities ignored
AnyThreadRuns == TRUE
MainRuns == ~UrcRunnable

\* modem_write(): a command leaves for the modem.
ModemWrite(name, k, p) ==
  cmds' = Append(cmds, [name |-> name, id |-> k, port |-> p])

\* The socket number a command names.
\* (mutated) the slot instead of the modem's number
SlotNumber(s) == s
ModemId(s) == id[s]

\* decode_input(): whatever answer is oldest in rx_rb is taken for the
\* answer to the last command; nothing is flushed before a command is sent.
AT_TIMEOUT == [type |-> "reply", ok |-> FALSE, id |-> -2, data |-> <<>>,
               remain |-> 0]

Answer == IF rx # <<>> THEN Head(rx) ELSE AT_TIMEOUT

AnswerComing == cmds # <<>> \/ \E i \in DOMAIN wire : wire[i].type = "reply"

DecodeInput ==
  \/ /\ rx # <<>>
     /\ rx' = Tail(rx)
     /\ UNCHANGED late
  \/ /\ rx = <<>>
     /\ \/ ~AnswerComing /\ UNCHANGED late
        \/ AnswerComing /\ late < MaxLate /\ late' = late + 1
     /\ UNCHANGED rx

\* k_sem_take(&mdm_sem) and the write that a command starts with.
Begin(op, s) ==
  /\ MainRuns
  /\ mdm_sem = 1 /\ mdm_sem' = 0
  /\ main' = [pc |-> op, slot |-> s]

\* The end of a call, in which each path has a give of its own.
Return(op) ==
  /\ MainRuns
  /\ main.pc = op
  /\ DecodeInput
  /\ main' = [main EXCEPT !.pc = "idle"]

SemGive == mdm_sem' = 1

\* (mutated) an early return without its k_sem_give
EarlyReturnLeaks ==
  /\ MainRuns
  /\ main.pc = "idle"
  /\ mdm_sem = 1 /\ mdm_sem' = 0
  /\ UNCHANGED <<slotVars, next_free_port, held, outdated, main, urc, urcq, rx,
                 wire, cmds, modemVars, late>>

\* A path that takes mdm_sem and returns before it has written a command.
\* It does not block in between, so take and give are one step.
EarlyReturn ==
  /\ MainRuns
  /\ main.pc = "idle"
  /\ mdm_sem = 1 /\ SemGive
  /\ UNCHANGED <<slotVars, next_free_port, held, outdated, main, urc, urcq, rx,
                 wire, cmds, modemVars, late>>

-----------------------------------------------------------------------------
(* socket() *)

\* (mutated) tests the wrong flag
UnconnectedSlot(s) == ~connected[s] /\ \A t \in Slots : t < s => connected[t]
FreeSlot(s) == ~in_use[s] /\ \A t \in Slots : t < s => in_use[t]

SocketCall ==
  /\ main.pc = "idle"
  /\ next_free_port < MaxPort
  /\ \E s \in Slots :
       /\ FreeSlot(s)
       /\ Begin("NSOCR", s)
       /\ local_port' = [local_port EXCEPT ![s] = next_free_port]
       /\ ModemWrite("NSOCR", -1, next_free_port)
  /\ UNCHANGED <<id, in_use, connected, incoming_len, next_free_port, held,
                 outdated, urc, urcq, rx, wire, modemVars, late>>

\* Every slot is in use.
NoFreeSlot == EarlyReturn /\ \A s \in Slots : in_use[s]

\* nsocr_eol() and atnsocr_decode(): the number of the information line, -2
\* when there was none.
NsocrFd(reply) == reply.id

\* (mutated) the port counter is not advanced
PortKept == next_free_port
PortAfter == next_free_port + 1

SocketReturn ==
  /\ Return("NSOCR")
  /\ \/ /\ Answer.ok
        /\ id' = [id EXCEPT ![main.slot] = NsocrFd(Answer)]
        /\ in_use' = [in_use EXCEPT ![main.slot] = TRUE]
        /\ next_free_port' = PortAfter
        /\ held' = held \cup {main.slot}
        /\ SemGive
     \/ /\ ~Answer.ok
        /\ SemGive
        /\ UNCHANGED <<id, in_use, next_free_port, held>>
  /\ UNCHANGED <<connected, local_port, incoming_len, outdated, urc, urcq,
                 wire, cmds, modemVars>>

-----------------------------------------------------------------------------
(* close().  No caller looks at its result, so the descriptor is gone for  *)
(* the application once the call is made.                                  *)

CloseCall(s) ==
  /\ main.pc = "idle"
  /\ s \in held /\ in_use[s]
  /\ Begin("NSOCL", s)
  /\ ModemWrite("NSOCL", ModemId(s), NextFreePort)
  /\ held' = held \ {s}
  /\ UNCHANGED <<slotVars, next_free_port, outdated, urc, urcq, rx, wire,
                 modemVars, late>>

ClearSocket(s) ==
  /\ id' = [id EXCEPT ![s] = -1]
  /\ connected' = [connected EXCEPT ![s] = FALSE]
  /\ in_use' = [in_use EXCEPT ![s] = FALSE]
  /\ local_port' = [local_port EXCEPT ![s] = 0]
  /\ incoming_len' = [incoming_len EXCEPT ![s] = 0]

CloseReturn ==
  /\ Return("NSOCL")
  /\ \/ Answer.ok /\ ClearSocket(main.slot) /\ SemGive
     \/ ~Answer.ok /\ SemGive /\ UNCHANGED slotVars
  /\ UNCHANGED <<next_free_port, held, outdated, urc, urcq, wire, cmds,
                 modemVars>>

\* The application may lose a descriptor instead: the ping returns with its
\* socket open when its message cannot be encoded.
Drop(s) ==
  /\ MayDrop
  /\ MainRuns
  /\ main.pc = "idle"
  /\ s \in held /\ held' = held \ {s}
  /\ UNCHANGED <<slotVars, next_free_port, mdm_sem, outdated, main, urc, urcq,
                 rx, wire, cmds, modemVars, late>>

-----------------------------------------------------------------------------
(* connect() takes and gives mdm_sem without talking to the modem.  Its    *)
(* second test of in_use finds what VALID_SOCKET has found: only the main  *)
(* thread, which is here, frees slots.                                     *)

Connect(s) ==
  /\ MainRuns
  /\ main.pc = "idle"
  /\ s \in held /\ in_use[s]
  /\ mdm_sem = 1
  /\ connected' = [connected EXCEPT ![s] = TRUE]
  /\ SemGive
  /\ UNCHANGED <<id, in_use, local_port, incoming_len, next_free_port, held,
                 outdated, main, urc, urcq, rx, wire, cmds, modemVars, late>>

-----------------------------------------------------------------------------
(* recvfrom() and recv().  What poll() reports as POLLIN. *)

PollIn(s) == incoming_len[s] > 0

\* poll() itself, and recvfrom() and recv() that find nothing to read or no
\* remote address.
Poll(s) == EarlyReturn /\ s \in held
NothingToRead(s) == EarlyReturn /\ s \in held /\ ~PollIn(s)
NotConnected(s) == EarlyReturn /\ s \in held /\ ~connected[s]

RecvFromCall(s) ==
  /\ \/ main.pc = "idle"
     \/ main.pc = "recv" /\ main.slot = s
  /\ s \in held /\ in_use[s]
  /\ PollIn(s)
  /\ Begin("NSORF", s)
  /\ ModemWrite("NSORF", ModemId(s), NextFreePort)
  /\ UNCHANGED <<slotVars, next_free_port, held, outdated, urc, urcq, rx, wire,
                 modemVars, late>>

\* nsorf_eol(): the remaining length is always reported as 0.
NsorfRemaining(reply) == 0

RecvFromReturn ==
  /\ Return("NSORF")
  /\ \/ /\ Answer.ok /\ Answer.data = <<>>
        /\ SemGive
        /\ UNCHANGED incoming_len
     \/ /\ Answer.ok /\ Answer.data # <<>>
        /\ incoming_len' = [incoming_len EXCEPT
                              ![main.slot] = NsorfRemaining(Answer)]
        /\ SemGive
     \/ /\ ~Answer.ok
        /\ SemGive
        /\ UNCHANGED incoming_len
  /\ UNCHANGED <<id, in_use, connected, local_port, next_free_port, held,
                 outdated, urc, urcq, wire, cmds, modemVars>>

\* offload_recv() on a connected socket with nothing to read: look at
\* incoming_len once a second until RecvFromCall is enabled.
RecvWait(s) ==
  /\ MainRuns
  /\ main.pc = "idle"
  /\ s \in held /\ in_use[s] /\ connected[s]
  /\ ~PollIn(s)
  /\ main' = [pc |-> "recv", slot |-> s]
  /\ UNCHANGED <<slotVars, next_free_port, mdm_sem, held, outdated, urc, urcq,
                 rx, wire, cmds, modemVars, late>>

-----------------------------------------------------------------------------
(* sendto(): the answer only decides the result. *)

\* inet_ntop() refuses the address.
BadAddress(s) == EarlyReturn /\ s \in held

SendToCall(s) ==
  /\ main.pc = "idle"
  /\ s \in held /\ in_use[s]
  /\ Begin("NSOST", s)
  /\ ModemWrite("NSOST", ModemId(s), NextFreePort)
  /\ UNCHANGED <<slotVars, next_free_port, held, outdated, urc, urcq, rx, wire,
                 modemVars, late>>

SendToReturn ==
  /\ Return("NSOST")
  /\ SemGive
  /\ UNCHANGED <<slotVars, next_free_port, held, outdated, urc, urcq, wire,
                 cmds, modemVars>>

-----------------------------------------------------------------------------
(* modem_restart().  It takes no semaphore and leaves sockets[] as it is:  *)
(* slots that leaked stay in use, with the ports and numbers they had.     *)
(* Its callers (select_active_apn, config.c) run where the functions that  *)
(* open sockets have returned, closed what they opened or dropped it.      *)

RestartCall ==
  /\ MainRuns
  /\ main.pc = "idle"
  /\ held = {}
  /\ next_free_port # NextFreePort
  /\ next_free_port' = NextFreePort
  /\ outdated' = {s \in Slots : in_use[s]}
  /\ main' = [main EXCEPT !.pc = "NRB"]
  /\ ModemWrite("NRB", -1, NextFreePort)
  /\ UNCHANGED <<slotVars, mdm_sem, held, urc, urcq, rx, wire, modemVars,
                 late>>

RestartReturn ==
  /\ MainRuns
  /\ main.pc = "NRB"
  /\ DecodeInput
  /\ main' = [main EXCEPT !.pc = "idle"]
  /\ UNCHANGED <<slotVars, next_free_port, mdm_sem, held, outdated, urc, urcq,
                 wire, cmds, modemVars>>

-----------------------------------------------------------------------------
(* The MAX14830 reader moves bytes off the line; +NSONMI also goes to the  *)
(* URC thread.                                                             *)

HandleInput ==
  /\ wire # <<>>
  /\ wire' = Tail(wire)
  /\ \/ /\ Head(wire).type = "reply"
        /\ rx' = Append(rx, Head(wire))
        /\ UNCHANGED urcq
     \/ /\ Head(wire).type = "urc"
        /\ urcq' = Append(urcq, Head(wire).id)
        /\ UNCHANGED rx
  /\ UNCHANGED <<slotVars, next_free_port, mdm_sem, held, outdated, main,
                 urc, cmds, modemVars, late>>

\* urc_threadproc(): a complete +NSONMI line; the callback then waits for
\* mdm_sem with the socket number already parsed.
UrcParse ==
  /\ urc.pc = "read"
  /\ urcq # <<>>
  /\ urc' = [pc |-> "callback", fd |-> Head(urcq)]
  /\ urcq' = Tail(urcq)
  /\ UNCHANGED <<slotVars, next_free_port, mdm_sem, held, outdated, main,
                 rx, wire, cmds, modemVars, late>>

\* (mutated) gives up when mdm_sem is taken
ReceiveCbNoWait ==
  /\ urc.pc = "callback"
  /\ incoming_len' = IF mdm_sem = 0 THEN incoming_len ELSE
       [s \in Slots |-> incoming_len[s] + (IF id[s] = urc.fd THEN 1 ELSE 0)]
  /\ urc' = [pc |-> "read", fd |-> -1]
  /\ UNCHANGED <<id, in_use, connected, local_port, next_free_port, mdm_sem,
                 held, outdated, main, urcq, rx, wire, cmds, modemVars, late>>

ReceiveCb ==
  /\ urc.pc = "callback"
  /\ mdm_sem = 1
  /\ incoming_len' = [s \in Slots |-> incoming_len[s] +
                                        (IF id[s] = urc.fd THEN 1 ELSE 0)]
  /\ urc' = [pc |-> "read", fd |-> -1]
  /\ UNCHANGED <<id, in_use, connected, local_port, next_free_port, mdm_sem,
                 held, outdated, main, urcq, rx, wire, cmds, modemVars, late>>

-----------------------------------------------------------------------------
(* The modem (external). *)

Respond(ok, k, d, remain) ==
  \/ /\ wire' = Append(wire, [type |-> "reply", ok |-> ok, id |-> k,
                              data |-> d, remain |-> remain])
     /\ UNCHANGED lost
  \/ /\ lost < MaxLost
     /\ lost' = lost + 1
     /\ UNCHANGED wire

IsOpen(k) == k \in ModemIds /\ mport[k] # 0

Executes(name) ==
  /\ cmds # <<>>
  /\ Head(cmds).name = name
  /\ cmds' = Tail(cmds)
  /\ UNCHANGED <<slotVars, next_free_port, mdm_sem, held, outdated, main,
                 urc, urcq, rx, late>>

ModemNSOCR ==
  /\ Executes("NSOCR")
  /\ \/ \E k \in ModemIds :
          /\ mport[k] = 0
          /\ mport' = [mport EXCEPT ![k] = Head(cmds).port]
          /\ Respond(TRUE, k, <<>>, 0)
     \/ Respond(FALSE, -2, <<>>, 0) /\ UNCHANGED mport
  /\ UNCHANGED mqueue

ModemNSOCL ==
  /\ Executes("NSOCL")
  /\ LET k == Head(cmds).id
     IN  \/ /\ IsOpen(k)
            /\ mport' = [mport EXCEPT ![k] = 0]
            /\ mqueue' = [mqueue EXCEPT ![k] = <<>>]
            /\ Respond(TRUE, -2, <<>>, 0)
         \/ /\ ~IsOpen(k) \/ CloseMayFail
            /\ Respond(FALSE, -2, <<>>, 0)
            /\ UNCHANGED <<mport, mqueue>>

ModemNSORF ==
  /\ Executes("NSORF")
  /\ LET k == Head(cmds).id
     IN  \/ /\ IsOpen(k) /\ mqueue[k] # <<>>
            /\ mqueue' = [mqueue EXCEPT ![k] = Tail(@)]
            /\ Respond(TRUE, k, <<Head(mqueue[k])>>, Len(mqueue[k]) - 1)
         \/ /\ IsOpen(k) /\ mqueue[k] = <<>>
            /\ Respond(TRUE, -2, <<>>, 0)
            /\ UNCHANGED mqueue
         \/ /\ ~IsOpen(k)
            /\ Respond(FALSE, -2, <<>>, 0)
            /\ UNCHANGED mqueue
  /\ UNCHANGED mport

ModemNSOST ==
  /\ Executes("NSOST")
  /\ \/ IsOpen(Head(cmds).id) /\ Respond(TRUE, Head(cmds).id, <<>>, 0)
     \/ Respond(FALSE, -2, <<>>, 0)
  /\ UNCHANGED <<mport, mqueue>>

ModemNRB ==
  /\ Executes("NRB")
  /\ mport' = [k \in ModemIds |-> 0]
  /\ mqueue' = [k \in ModemIds |-> <<>>]
  /\ Respond(TRUE, -2, <<>>, 0)

\* A datagram reaches an open modem socket, which announces it.
DatagramArrives(k, load) ==
  /\ IsOpen(k)
  /\ Len(mqueue[k]) < MaxUnread
  /\ \A s \in Slots : incoming_len[s] <= MaxUnread
  /\ mqueue' = [mqueue EXCEPT ![k] = Append(@, [port |-> mport[k],
                                                load |-> load])]
  /\ wire' = Append(wire, [type |-> "urc", id |-> k])
  /\ UNCHANGED <<slotVars, next_free_port, mdm_sem, held, outdated, main,
                 urc, urcq, rx, cmds, mport, lost, late>>

-----------------------------------------------------------------------------
MainNext ==
  \/ SocketCall \/ NoFreeSlot \/ SocketReturn
  \/ CloseReturn \/ RecvFromReturn \/ SendToReturn
  \/ RestartCall \/ RestartReturn
  \/ \E s \in Slots : \/ CloseCall(s) \/ Drop(s) \/ Connect(s) \/ Poll(s)
                      \/ NothingToRead(s) \/ NotConnected(s)
                      \/ RecvFromCall(s) \/ RecvWait(s) \/ BadAddress(s)
                      \/ SendToCall(s)

UrcNext == UrcParse \/ ReceiveCb

ModemNext ==
  \/ ModemNSOCR \/ ModemNSOCL \/ ModemNSORF \/ ModemNSOST \/ ModemNRB
  \/ \E k \in ModemIds, load \in Payloads : DatagramArrives(k, load)

Next == MainNext \/ HandleInput \/ UrcNext \/ ModemNext

Spec == Init /\ [][Next]_vars

\* The threads are scheduled, the line delivers, the modem executes its
\* commands.  Nothing makes the application call or the network send.
Fairness ==
  /\ WF_vars(SocketReturn \/ CloseReturn \/ RecvFromReturn \/ SendToReturn
             \/ RestartReturn)
  /\ WF_vars(HandleInput)
  /\ WF_vars(UrcNext)
  /\ WF_vars(ModemNSOCR \/ ModemNSOCL \/ ModemNSORF \/ ModemNSOST
             \/ ModemNRB)

FairSpec == Spec /\ Fairness

-----------------------------------------------------------------------------
(* Properties. *)

\* A descriptor the application has keeps its slot, and its local port is that
\* of no other slot in use, although modem_restart() starts the ports anew and
\* slots leak when a close is refused or a descriptor dropped: the ports of the
\* leaked ones are taken again only after a restart has closed their sockets.
HeldPortsDistinct ==
  /\ \A s \in held : in_use[s] /\ s \notin outdated
  /\ \A s \in held, t \in Slots \ outdated :
       in_use[t] /\ local_port[s] = local_port[t] => s = t

\* Between calls sockets[] and the modem's table are the same: a descriptor
\* is an open modem socket bound to its port, and neither side has a socket
\* the other does not know.  (When answers come in time and closes succeed.)
ModemAgreement ==
  main.pc = "idle" =>
    /\ \A s \in Slots : in_use[s] <=> s \in held
    /\ \A s \in held : IsOpen(id[s]) /\ mport[id[s]] = local_port[s]
    /\ \A k \in ModemIds : IsOpen(k) => \E s \in held : id[s] = k
    /\ \A s, t \in held : id[s] = id[t] => s = t

\* incoming_len never announces data the modem does not have, so recvfrom()
\* never asks the modem for a datagram that was not notified (the case the
\* comment in offload_recvfrom warns of): a notification of a closed socket
\* is not credited to the next socket with that number.
NoPhantomData ==
  \A s \in held : main.pc # "NSORF" /\ PollIn(s) => mqueue[id[s]] # <<>>

\* Every call returns, answered or not, and the URC thread is never left
\* waiting for mdm_sem in receive_cb(): no way out of a call, early ones
\* included, forgets to give it back.
CallReturns ==
  /\ main.pc \notin {"idle", "recv"} ~> main.pc = "idle"
  /\ urc.pc = "callback" ~> urc.pc = "read"

\* With one unread datagram at a time, the case the code is made for ("This is
\* incorrect but it works for our case", at_commands.c:300), and until an
\* answer is late or lost, a datagram for a held descriptor is announced to
\* poll().
EventuallyReadable ==
  \A s \in Slots :
    (s \in held /\ id[s] \in ModemIds /\ mqueue[id[s]] # <<>>)
       ~> (PollIn(s) \/ s \notin held \/ late + lost > 0)
=============================================================================
