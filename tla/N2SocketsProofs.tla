--------------------------- MODULE N2SocketsProofs ---------------------------
(***************************************************************************)
(* Proofs about N2Sockets, for every number of slots, modem socket numbers *)
(* and ports: first those that hold for every bound on late and lost       *)
(* answers (from IInv), then those that hold while answers come in time    *)
(* (from TInv): the driver and the modem agree, no data is announced that  *)
(* the modem does not have, and UdpSockets is implemented.                 *)
(***************************************************************************)
EXTENDS N2SocketsMC, SequenceTheorems, FiniteSetTheorems, FunctionTheorems,
        TLAPS

\* mdm_sem is down exactly during a command of the main thread.
SemReleased == mdm_sem = 0 <=> main.pc \in {"NSOCR", "NSOCL", "NSORF", "NSOST"}

\* What makes HeldPortsDistinct (and the range of next_free_port) inductive:
\* the ports handed out since the last restart of the modem lie below
\* next_free_port, whoever has them; the slot a socket() call has picked is
\* free, tagged with next_free_port itself; and a slot from before the restart
\* is one that nothing frees any more.
PortsBelowNext ==
  /\ \A s \in outdated : in_use[s]
  /\ \A s \in Slots \ outdated : in_use[s] => local_port[s] < next_free_port
  /\ main.pc = "NSOCR" => /\ ~in_use[main.slot]
                          /\ local_port[main.slot] = next_free_port
                          /\ next_free_port < MaxPort
  /\ main.pc = "NSOCL" => main.slot \notin held /\ main.slot \notin outdated

IInv == TypeOK /\ SemReleased /\ HeldPortsDistinct /\ PortsBelowNext

-----------------------------------------------------------------------------
(* Queues. *)

LEMMA HeadTail ==
  ASSUME NEW S, NEW q \in Seq(S), q # <<>>
  PROVE  Head(q) \in S /\ Tail(q) \in Seq(S)
BY HeadTailProperties

LEMMA AppendType ==
  ASSUME NEW S, NEW q \in Seq(S), NEW e \in S
  PROVE  Append(q, e) \in Seq(S)
BY AppendProperties

LEMMA AnswerType ==
  ASSUME LineTypes
  PROVE  Answer \in Reply
<1>1. rx # <<>> => Head(rx) \in Reply
  BY HeadTail DEF LineTypes
<1>2. AT_TIMEOUT \in Reply
  BY DEF AT_TIMEOUT, Reply
<1> QED
  BY <1>1, <1>2 DEF Answer

LEMMA DecodeType ==
  ASSUME rx \in Seq(Reply), late \in Nat, DecodeInput
  PROVE  rx' \in Seq(Reply) /\ late' \in Nat
BY HeadTail DEF DecodeInput

LEMMA WriteType ==
  ASSUME LineTypes, NEW n \in {"NSOCR", "NSOCL", "NSORF", "NSOST", "NRB"},
         NEW k \in SockIds, NEW p \in Ports, ModemWrite(n, k, p)
  PROVE  cmds' \in Seq(Command)
<1>1. [name |-> n, id |-> k, port |-> p] \in Command
  BY DEF Command
<1> QED
  BY <1>1, AppendType DEF LineTypes, ModemWrite

LEMMA PortFacts ==
  /\ NextFreePort \in Ports
  /\ \A p \in Ports : p \in Nat /\ p # 0
  /\ \A p \in Ports : p < MaxPort => p + 1 \in Ports
  /\ 0 \in Slots
BY SocketAssumption DEF Ports, Slots

-----------------------------------------------------------------------------
(* Each group of actions preserves IInv. *)

LEMMA InitInv == Init => IInv
<1> SUFFICES ASSUME Init PROVE IInv
  OBVIOUS
<1> USE PortFacts DEF Init
<1>1. SlotTypes
  BY DEF SlotTypes, SockIds
<1>2. ThreadTypes
  BY DEF ThreadTypes, MainPc
<1>3. LineTypes
  BY DEF LineTypes
<1>4. ModemTypes
  BY DEF ModemTypes
<1>5. SemReleased /\ HeldPortsDistinct /\ PortsBelowNext
  BY DEF SemReleased, HeldPortsDistinct, PortsBelowNext
<1> QED
  BY <1>1, <1>2, <1>3, <1>4, <1>5 DEF IInv, TypeOK

LEMMA SocketInv ==
  ASSUME IInv, SocketCall \/ SocketReturn
  PROVE  IInv'
<1> USE PortFacts DEF IInv, TypeOK
<1>1. CASE SocketCall
  <2>1. PICK s \in Slots :
          /\ ~in_use[s]
          /\ Begin("NSOCR", s)
          /\ local_port' = [local_port EXCEPT ![s] = next_free_port]
          /\ ModemWrite("NSOCR", -1, next_free_port)
    BY <1>1 DEF SocketCall, FreeSlot
  <2>2. SlotTypes'
    BY <1>1, <2>1 DEF SocketCall, SlotTypes
  <2>3. ThreadTypes'
    BY <1>1, <2>1 DEF SocketCall, Begin, ThreadTypes, MainPc
  <2>4. LineTypes'
    BY <1>1, <2>1, WriteType DEF SocketCall, LineTypes, SlotTypes, SockIds
  <2>5. ModemTypes'
    BY <1>1 DEF SocketCall, ModemTypes, modemVars
  <2>6. SemReleased'
    BY <2>1 DEF Begin, SemReleased
  <2>7. s \notin held
    BY <2>1 DEF HeldPortsDistinct
  <2>8. HeldPortsDistinct'
    BY <1>1, <2>1, <2>7 DEF SocketCall, HeldPortsDistinct, SlotTypes
  <2>9. PortsBelowNext'
    BY <1>1, <2>1, <2>7 DEF SocketCall, Begin, PortsBelowNext, SlotTypes
  <2> QED
    BY <2>2, <2>3, <2>4, <2>5, <2>6, <2>8, <2>9
<1>2. CASE SocketReturn
  <2>1. rx' \in Seq(Reply) /\ late' \in Nat
    BY <1>2, DecodeType DEF SocketReturn, Return, LineTypes, ThreadTypes
  <2>2. Answer.id \in SockIds
    BY AnswerType DEF Reply, SockIds
  <2>3. /\ main.pc = "NSOCR" /\ main.slot \in Slots
        /\ mdm_sem' = 1 /\ main' = [main EXCEPT !.pc = "idle"]
        /\ main'.pc = "idle"
    BY <1>2 DEF SocketReturn, Return, SemGive, ThreadTypes
  <2>4. SlotTypes'
    BY <1>2, <2>2, <2>3 DEF SocketReturn, SlotTypes, NsocrFd, PortAfter,
       PortsBelowNext
  <2>5. ThreadTypes'
    BY <1>2, <2>1, <2>3 DEF SocketReturn, ThreadTypes, MainPc
  <2>6. LineTypes'
    BY <1>2, <2>1 DEF SocketReturn, LineTypes
  <2>7. ModemTypes'
    BY <1>2 DEF SocketReturn, ModemTypes, modemVars
  <2>8. SemReleased'
    BY <2>3 DEF SemReleased
  <2>9. HeldPortsDistinct'
    BY <1>2, <2>3 DEF SocketReturn, HeldPortsDistinct, SlotTypes,
       PortsBelowNext
  <2>10. PortsBelowNext'
    BY <1>2, <2>3 DEF SocketReturn, SlotTypes, PortsBelowNext, PortAfter
  <2> QED
    BY <2>4, <2>5, <2>6, <2>7, <2>8, <2>9, <2>10
<1> QED
  BY <1>1, <1>2

LEMMA CloseInv ==
  ASSUME IInv, CloseReturn \/ \E s \in Slots : CloseCall(s)
  PROVE  IInv'
<1> USE PortFacts DEF IInv, TypeOK
<1>1. ASSUME NEW s \in Slots, CloseCall(s) PROVE IInv'
  <2>1. SlotTypes'
    BY <1>1 DEF CloseCall, SlotTypes, slotVars
  <2>2. ThreadTypes'
    BY <1>1 DEF CloseCall, Begin, ThreadTypes, MainPc
  <2>3. LineTypes'
    BY <1>1, WriteType DEF CloseCall, LineTypes, SlotTypes, ModemId
  <2>4. ModemTypes'
    BY <1>1 DEF CloseCall, ModemTypes, modemVars
  <2>5. SemReleased'
    BY <1>1 DEF CloseCall, Begin, SemReleased
  <2>6. HeldPortsDistinct'
    BY <1>1 DEF CloseCall, HeldPortsDistinct, slotVars
  <2>7. main'.pc = "NSOCL" /\ main'.slot = s
    BY <1>1 DEF CloseCall, Begin
  <2>8. PortsBelowNext'
    BY <1>1, <2>7 DEF CloseCall, HeldPortsDistinct, PortsBelowNext,
       slotVars
  <2> QED
    BY <2>1, <2>2, <2>3, <2>4, <2>5, <2>6, <2>8
<1>2. CASE CloseReturn
  <2>1. rx' \in Seq(Reply) /\ late' \in Nat
    BY <1>2, DecodeType DEF CloseReturn, Return, LineTypes, ThreadTypes
  <2>2. /\ main.pc = "NSOCL" /\ main.slot \in Slots
        /\ mdm_sem' = 1 /\ main' = [main EXCEPT !.pc = "idle"]
        /\ main'.pc = "idle"
        /\ main.slot \notin held /\ main.slot \notin outdated
    BY <1>2 DEF CloseReturn, Return, SemGive, ThreadTypes, PortsBelowNext
  <2>3. SlotTypes'
    <3>1. /\ id' \in [Slots -> SockIds]
          /\ in_use' \in [Slots -> BOOLEAN]
          /\ connected' \in [Slots -> BOOLEAN]
      BY <1>2, <2>2 DEF CloseReturn, ClearSocket, SlotTypes, slotVars,
         SockIds
    <3>2. local_port' \in [Slots -> Ports \cup {0}]
      BY <1>2, <2>2 DEF CloseReturn, ClearSocket, SlotTypes, slotVars
    <3>3. incoming_len' \in [Slots -> Nat]
      BY <1>2, <2>2 DEF CloseReturn, ClearSocket, SlotTypes, slotVars
    <3> QED
      BY <1>2, <3>1, <3>2, <3>3 DEF CloseReturn, SlotTypes
  <2>4. ThreadTypes'
    BY <1>2, <2>1, <2>2 DEF CloseReturn, ThreadTypes, MainPc
  <2>5. LineTypes'
    BY <1>2, <2>1 DEF CloseReturn, LineTypes
  <2>6. ModemTypes'
    BY <1>2 DEF CloseReturn, ModemTypes, modemVars
  <2>7. SemReleased'
    BY <2>2 DEF SemReleased
  <2>8. HeldPortsDistinct' /\ PortsBelowNext'
    BY <1>2, <2>2 DEF CloseReturn, ClearSocket, HeldPortsDistinct,
       PortsBelowNext, SlotTypes, slotVars
  <2> QED
    BY <2>3, <2>4, <2>5, <2>6, <2>7, <2>8
<1> QED
  BY <1>1, <1>2

\* Steps of the main thread that leave sockets[] and the descriptors alone,
\* except for incoming_len and connected.
LEMMA OtherCallInv ==
  ASSUME IInv,
         NEW s \in Slots,
         Connect(s) \/ RecvFromCall(s) \/ RecvWait(s) \/ SendToCall(s)
  PROVE  IInv'
<1> USE PortFacts DEF IInv, TypeOK
<1>1. /\ id' = id /\ in_use' = in_use /\ local_port' = local_port
      /\ incoming_len' = incoming_len /\ held' = held
      /\ next_free_port' = next_free_port /\ outdated' = outdated
      /\ connected' \in [Slots -> BOOLEAN]
  BY DEF Connect, RecvFromCall, RecvWait, SendToCall, slotVars, SlotTypes
<1>2. SlotTypes'
  BY <1>1 DEF SlotTypes
<1>3. \/ main' = main /\ mdm_sem' = mdm_sem
      \/ main' = [pc |-> "recv", slot |-> s] /\ mdm_sem' = mdm_sem
                                             /\ main.pc = "idle"
      \/ main' = [pc |-> "NSORF", slot |-> s] /\ mdm_sem' = 0
      \/ main' = [pc |-> "NSOST", slot |-> s] /\ mdm_sem' = 0
  BY DEF Connect, RecvFromCall, RecvWait, SendToCall, Begin, SemGive
<1>4. ThreadTypes'
  BY <1>3 DEF Connect, RecvFromCall, RecvWait, SendToCall, SemGive,
     ThreadTypes, MainPc
<1>5. \/ cmds' = cmds
      \/ ModemWrite("NSORF", id[s], NextFreePort)
      \/ ModemWrite("NSOST", id[s], NextFreePort)
  BY DEF Connect, RecvFromCall, RecvWait, SendToCall, ModemId
<1>6. id[s] \in SockIds
  BY DEF SlotTypes
<1>7. cmds' \in Seq(Command)
  BY <1>5, <1>6, WriteType DEF LineTypes
<1>8. LineTypes'
  BY <1>7 DEF Connect, RecvFromCall, RecvWait, SendToCall, LineTypes
<1>9. ModemTypes'
  BY DEF Connect, RecvFromCall, RecvWait, SendToCall, ModemTypes, modemVars
<1>10. SemReleased'
  BY <1>3 DEF SemReleased
<1>11. HeldPortsDistinct' /\ PortsBelowNext'
  BY <1>1, <1>3 DEF HeldPortsDistinct, PortsBelowNext
<1> QED
  BY <1>2, <1>4, <1>8, <1>9, <1>10, <1>11

\* A call that returns early leaves everything as it was.
EarlyReturns ==
  NoFreeSlot \/ \E s \in Slots : \/ Poll(s) \/ NothingToRead(s)
                               \/ NotConnected(s) \/ BadAddress(s)

LEMMA EarlyReturnSame == EarlyReturns => UNCHANGED vars
<1>1. EarlyReturn => UNCHANGED vars
  BY DEF EarlyReturn, SemGive, vars
<1>2. EarlyReturns => EarlyReturn
  BY DEF EarlyReturns, NoFreeSlot, Poll, NothingToRead, NotConnected,
     BadAddress
<1> QED
  BY <1>1, <1>2

\* A descriptor that is dropped leaves its slot in use.
LEMMA DropInv ==
  ASSUME IInv, NEW s \in Slots, Drop(s)
  PROVE  IInv'
<1> USE DEF Drop, IInv, TypeOK, slotVars, modemVars
<1>1. SlotTypes' /\ ThreadTypes'
  BY DEF SlotTypes, ThreadTypes
<1>2. LineTypes' /\ ModemTypes'
  BY DEF LineTypes, ModemTypes
<1>3. SemReleased' /\ HeldPortsDistinct' /\ PortsBelowNext'
  BY DEF SemReleased, HeldPortsDistinct, PortsBelowNext
<1> QED
  BY <1>1, <1>2, <1>3

LEMMA OtherReturnInv ==
  ASSUME IInv, RecvFromReturn \/ SendToReturn
  PROVE  IInv'
<1> USE PortFacts DEF IInv, TypeOK
<1>1. /\ main' = [main EXCEPT !.pc = "idle"] /\ mdm_sem' = 1
      /\ DecodeInput
  BY DEF RecvFromReturn, SendToReturn, Return, SemGive
<1>2. rx' \in Seq(Reply) /\ late' \in Nat
  BY <1>1, DecodeType DEF LineTypes, ThreadTypes
<1>3. main'.pc = "idle"
  BY <1>1 DEF ThreadTypes
<1>4. /\ id' = id /\ in_use' = in_use /\ local_port' = local_port
      /\ connected' = connected /\ held' = held
      /\ next_free_port' = next_free_port /\ outdated' = outdated
  BY DEF RecvFromReturn, SendToReturn, slotVars
<1>5. incoming_len' \in [Slots -> Nat]
  BY DEF RecvFromReturn, SendToReturn, slotVars, SlotTypes, NsorfRemaining
<1>6. SlotTypes'
  BY <1>4, <1>5 DEF SlotTypes
<1>7. ThreadTypes'
  BY <1>1, <1>2 DEF RecvFromReturn, SendToReturn, ThreadTypes, MainPc
<1>8. LineTypes' /\ ModemTypes'
  BY <1>2 DEF RecvFromReturn, SendToReturn, LineTypes, ModemTypes, modemVars
<1>9. SemReleased'
  BY <1>1, <1>3 DEF SemReleased
<1>10. HeldPortsDistinct' /\ PortsBelowNext'
  BY <1>3, <1>4 DEF HeldPortsDistinct, PortsBelowNext
<1> QED
  BY <1>6, <1>7, <1>8, <1>9, <1>10

\* The ports start anew while nothing is held; what is in use then is never
\* handed out as a descriptor again.
LEMMA RestartInv ==
  ASSUME IInv, RestartCall \/ RestartReturn
  PROVE  IInv'
<1> USE PortFacts DEF IInv, TypeOK
<1>1. CASE RestartCall
  <2>1. main' = [main EXCEPT !.pc = "NRB"] /\ main'.pc = "NRB"
    BY <1>1 DEF RestartCall, ThreadTypes
  <2>2. SlotTypes' /\ ModemTypes'
    BY <1>1 DEF RestartCall, SlotTypes, slotVars, ModemTypes, modemVars
  <2>3. ThreadTypes'
    BY <1>1 DEF RestartCall, ThreadTypes, MainPc
  <2>4. LineTypes'
    BY <1>1, WriteType DEF RestartCall, LineTypes, SockIds
  <2>5. SemReleased'
    BY <1>1, <2>1 DEF RestartCall, SemReleased
  <2>6. HeldPortsDistinct' /\ PortsBelowNext'
    BY <1>1, <2>1 DEF RestartCall, HeldPortsDistinct, PortsBelowNext,
       slotVars
  <2> QED
    BY <2>2, <2>3, <2>4, <2>5, <2>6
<1>2. CASE RestartReturn
  <2>1. rx' \in Seq(Reply) /\ late' \in Nat
    BY <1>2, DecodeType DEF RestartReturn, LineTypes, ThreadTypes
  <2>2. main' = [main EXCEPT !.pc = "idle"] /\ main'.pc = "idle"
    BY <1>2 DEF RestartReturn, ThreadTypes
  <2>3. SlotTypes' /\ ModemTypes'
    BY <1>2 DEF RestartReturn, SlotTypes, slotVars, ModemTypes, modemVars
  <2>4. ThreadTypes' /\ LineTypes'
    BY <1>2, <2>1, <2>2 DEF RestartReturn, ThreadTypes, LineTypes, MainPc
  <2>5. SemReleased'
    BY <1>2, <2>2 DEF RestartReturn, SemReleased
  <2>6. HeldPortsDistinct' /\ PortsBelowNext'
    BY <1>2, <2>2 DEF RestartReturn, HeldPortsDistinct, PortsBelowNext,
       slotVars
  <2> QED
    BY <2>3, <2>4, <2>5, <2>6
<1> QED
  BY <1>1, <1>2

\* The serial line and the URC thread.
LEMMA InputInv ==
  ASSUME IInv, HandleInput \/ UrcParse \/ ReceiveCb
  PROVE  IInv'
<1> USE PortFacts DEF IInv, TypeOK
<1>1. /\ id' = id /\ in_use' = in_use /\ local_port' = local_port
      /\ connected' = connected /\ held' = held
      /\ next_free_port' = next_free_port /\ outdated' = outdated
      /\ main' = main /\ mdm_sem' = mdm_sem /\ late' = late
  BY DEF HandleInput, UrcParse, ReceiveCb, slotVars
<1>2. incoming_len' \in [Slots -> Nat]
  <2>1. CASE HandleInput \/ UrcParse
    BY <2>1 DEF HandleInput, UrcParse, slotVars, SlotTypes
  <2>2. CASE ReceiveCb
    <3>1. \A s \in Slots : incoming_len[s] + (IF id[s] = urc.fd THEN 1 ELSE 0)
                            \in Nat
      BY DEF SlotTypes
    <3> QED
      BY <2>2, <3>1 DEF ReceiveCb
  <2> QED
    BY <2>1, <2>2
<1>3. SlotTypes'
  BY <1>1, <1>2 DEF SlotTypes
<1>4. LineTypes' /\ urc' \in [pc : {"read", "callback"},
                              fd : ModemIds \cup {-1}]
  <2>1. CASE HandleInput
    <3>1. Head(wire) \in Reply \cup Urc /\ Tail(wire) \in Seq(Reply \cup Urc)
      BY <2>1, HeadTail DEF HandleInput, LineTypes
    <3>2. /\ Head(wire).type = "reply" => Head(wire) \in Reply
          /\ Head(wire).type = "urc" => Head(wire).id \in ModemIds
      BY <3>1 DEF Reply, Urc
    <3>3. rx' \in Seq(Reply) /\ urcq' \in Seq(ModemIds)
      BY <2>1, <3>2, AppendType DEF HandleInput, LineTypes
    <3> QED
      BY <2>1, <3>1, <3>3 DEF HandleInput, LineTypes, ThreadTypes
  <2>2. CASE UrcParse
    BY <2>2, HeadTail DEF UrcParse, LineTypes, ThreadTypes
  <2>3. CASE ReceiveCb
    BY <2>3 DEF ReceiveCb, LineTypes, ThreadTypes
  <2> QED
    BY <2>1, <2>2, <2>3
<1>5. ThreadTypes'
  BY <1>1, <1>4 DEF ThreadTypes
<1>6. ModemTypes'
  BY DEF HandleInput, UrcParse, ReceiveCb, ModemTypes, modemVars
<1>7. SemReleased' /\ HeldPortsDistinct' /\ PortsBelowNext'
  BY <1>1 DEF SemReleased, HeldPortsDistinct, PortsBelowNext
<1> QED
  BY <1>3, <1>4, <1>5, <1>6, <1>7

LEMMA RespondType ==
  ASSUME LineTypes, ModemTypes, SocketAssumption,
         NEW ok \in BOOLEAN, NEW k \in ModemIds \cup {-2},
         NEW d \in {<<>>} \cup {<<x>> : x \in Datagram}, NEW n \in Nat,
         Respond(ok, k, d, n)
  PROVE  wire' \in Seq(Reply \cup Urc) /\ lost' \in Nat
<1> DEFINE r == [type |-> "reply", ok |-> ok, id |-> k, data |-> d,
                 remain |-> n]
<1>1. r \in Reply
  BY DEF Reply
<1>2. \/ wire' = Append(wire, r) /\ lost' = lost
      \/ wire' = wire /\ lost' = lost + 1
  BY DEF Respond
<1>3. wire \in Seq(Reply \cup Urc) /\ lost \in Nat
  BY DEF LineTypes, ModemTypes
<1> HIDE DEF r
<1>4. Append(wire, r) \in Seq(Reply \cup Urc)
  BY <1>1, <1>3, AppendType
<1>5. wire' \in Seq(Reply \cup Urc)
  BY <1>2, <1>3, <1>4, Zenon
<1>6. lost' = lost \/ lost' = lost + 1
  BY <1>2, Zenon
<1>7. lost' \in Nat
  BY <1>3, <1>6
<1> QED
  BY <1>5, <1>7

\* The modem only touches its own table and the lines.
LEMMA ModemFrame ==
  ASSUME IInv, ModemNext
  PROVE  /\ UNCHANGED <<slotVars, next_free_port, mdm_sem, held, outdated,
                        main, urc, urcq, rx, late>>
         /\ cmds' \in Seq(Command)
<1>1. CASE \E k \in ModemIds, load \in Payloads : DatagramArrives(k, load)
  BY <1>1 DEF DatagramArrives, IInv, TypeOK, LineTypes
<1>2. CASE ModemNSOCR \/ ModemNSOCL \/ ModemNSORF \/ ModemNSOST \/ ModemNRB
  <2>1. PICK name : Executes(name)
    BY <1>2 DEF ModemNSOCR, ModemNSOCL, ModemNSORF, ModemNSOST, ModemNRB
  <2> QED
    BY <2>1, HeadTail DEF Executes, IInv, TypeOK, LineTypes
<1> QED
  BY <1>1, <1>2 DEF ModemNext

LEMMA ModemInv ==
  ASSUME IInv, ModemNext
  PROVE  IInv'
<1> USE SocketAssumption, PortFacts DEF IInv, TypeOK
<1>1. /\ wire' \in Seq(Reply \cup Urc)
      /\ ModemTypes'
  <2>1. CASE ModemNSOCR
    <3>1. Head(cmds) \in Command
      BY <2>1, HeadTail DEF ModemNSOCR, Executes, LineTypes
    <3>2. wire' \in Seq(Reply \cup Urc) /\ lost' \in Nat
      BY <2>1, RespondType DEF ModemNSOCR
    <3> QED
      BY <2>1, <3>1, <3>2 DEF ModemNSOCR, ModemTypes, Command
  <2>2. CASE ModemNSOCL
    <3>1. wire' \in Seq(Reply \cup Urc) /\ lost' \in Nat
      BY <2>2, RespondType DEF ModemNSOCL
    <3>2. <<>> \in Seq(Datagram)
      OBVIOUS
    <3> QED
      BY <2>2, <3>1, <3>2 DEF ModemNSOCL, ModemTypes
  <2>3. CASE ModemNSORF
    <3> DEFINE k == Head(cmds).id
    <3>1. CASE IsOpen(k) /\ mqueue[k] # <<>>
      <4>1. k \in ModemIds /\ mqueue[k] \in Seq(Datagram)
        BY <3>1 DEF IsOpen, ModemTypes
      <4>2. /\ Head(mqueue[k]) \in Datagram
            /\ Tail(mqueue[k]) \in Seq(Datagram)
            /\ Len(mqueue[k]) - 1 \in Nat
        BY <3>1, <4>1, HeadTail
      <4>3. /\ Respond(TRUE, k, <<Head(mqueue[k])>>, Len(mqueue[k]) - 1)
            /\ mqueue' = [mqueue EXCEPT ![k] = Tail(@)]
            /\ mport' = mport
        BY <2>3, <3>1 DEF ModemNSORF
      <4>4. wire' \in Seq(Reply \cup Urc) /\ lost' \in Nat
        BY <4>1, <4>2, <4>3, RespondType
      <4> QED
        BY <4>1, <4>2, <4>3, <4>4 DEF ModemTypes
    <3>2. CASE ~(IsOpen(k) /\ mqueue[k] # <<>>)
      <4>1. /\ Respond(TRUE, -2, <<>>, 0) \/ Respond(FALSE, -2, <<>>, 0)
            /\ mqueue' = mqueue /\ mport' = mport
        BY <2>3, <3>2 DEF ModemNSORF
      <4>2. wire' \in Seq(Reply \cup Urc) /\ lost' \in Nat
        BY <4>1, RespondType
      <4> QED
        BY <4>1, <4>2 DEF ModemTypes
    <3> QED
      BY <3>1, <3>2
  <2>4. CASE ModemNSOST
    <3>1. wire' \in Seq(Reply \cup Urc) /\ lost' \in Nat
      BY <2>4, RespondType DEF ModemNSOST, IsOpen
    <3> QED
      BY <2>4, <3>1 DEF ModemNSOST, ModemTypes
  <2>5. CASE ModemNRB
    <3>1. wire' \in Seq(Reply \cup Urc) /\ lost' \in Nat
      BY <2>5, RespondType DEF ModemNRB
    <3> QED
      BY <2>5, <3>1 DEF ModemNRB, ModemTypes
  <2>6. ASSUME NEW k \in ModemIds, NEW load \in Payloads,
               DatagramArrives(k, load)
        PROVE  wire' \in Seq(Reply \cup Urc) /\ ModemTypes'
    <3>1. [type |-> "urc", id |-> k] \in Reply \cup Urc
      BY DEF Urc
    <3>2. [port |-> mport[k], load |-> load] \in Datagram
      BY <2>6 DEF DatagramArrives, IsOpen, ModemTypes, Datagram
    <3>3. Append(mqueue[k], [port |-> mport[k], load |-> load])
            \in Seq(Datagram)
      BY <3>2, AppendType DEF ModemTypes
    <3> QED
      BY <2>6, <3>1, <3>3, AppendType DEF DatagramArrives, LineTypes,
         ModemTypes
  <2> QED
    BY <2>1, <2>2, <2>3, <2>4, <2>5, <2>6 DEF ModemNext
<1>2. SlotTypes' /\ ThreadTypes'
  BY ModemFrame DEF SlotTypes, ThreadTypes, slotVars
<1>3. LineTypes'
  BY <1>1, ModemFrame DEF LineTypes
<1>4. SemReleased' /\ HeldPortsDistinct' /\ PortsBelowNext'
  BY ModemFrame DEF SemReleased, HeldPortsDistinct, PortsBelowNext, slotVars
<1> QED
  BY <1>1, <1>2, <1>3, <1>4

LEMMA StutterInv == IInv /\ UNCHANGED vars => IInv'
BY DEF vars, slotVars, modemVars, IInv, TypeOK, SlotTypes, ThreadTypes,
   LineTypes, ModemTypes, SemReleased, HeldPortsDistinct, PortsBelowNext

LEMMA NextInv == IInv /\ [Next]_vars => IInv'
<1> SUFFICES ASSUME IInv, [Next]_vars PROVE IInv'
  OBVIOUS
<1>1. CASE MainNext
  BY <1>1, SocketInv, CloseInv, OtherCallInv, OtherReturnInv, RestartInv,
     EarlyReturnSame, StutterInv, DropInv DEF MainNext, EarlyReturns
<1>2. CASE HandleInput \/ UrcNext \/ ModemNext \/ UNCHANGED vars
  BY <1>2, InputInv, ModemInv, StutterInv DEF UrcNext
<1> QED
  BY <1>1, <1>2 DEF Next

-----------------------------------------------------------------------------
\* next_free_port stays in range, the semaphore stays binary and every queue
\* holds what its readers expect, whatever the modem answers and when.
THEOREM TypeCorrect == Spec => []TypeOK
<1>1. IInv => TypeOK
  BY DEF IInv
<1> QED
  BY <1>1, InitInv, NextInv, PTL DEF Spec

\* The local port of a descriptor is that of no other slot in use, although
\* modem_restart() starts the ports anew and slots leak, for any number of
\* restarts, refused closes, dropped descriptors and lost or late answers; the
\* slots that were in use at a restart, whose sockets the modem has closed, are
\* the exception, and none of them is ever a descriptor again.
THEOREM PortsDistinct == Spec => []HeldPortsDistinct
<1>1. IInv => HeldPortsDistinct
  BY DEF IInv
<1> QED
  BY <1>1, InitInv, NextInv, PTL DEF Spec

-----------------------------------------------------------------------------
(* Answers on the serial line, and how many notifications a queue holds.    *)

Silent(line) == \A i \in DOMAIN line : line[i].type = "urc"

\* r is the only answer between the modem and the decoder.
Carries(delivered, line, r) ==
  \/ delivered = <<r>> /\ Silent(line)
  \/ /\ delivered = <<>>
     /\ \E j \in DOMAIN line :
          /\ line[j] = r
          /\ \A i \in DOMAIN line : i # j => line[i].type = "urc"

LineItem == Reply \cup Urc

LEMMA SilentAppend ==
  ASSUME NEW line \in Seq(LineItem), NEW e \in Urc, Silent(line)
  PROVE  Silent(Append(line, e))
<1>1. e.type = "urc"
  BY DEF Urc
<1>2. e \in LineItem
  BY DEF LineItem
<1> QED
  BY <1>1, <1>2, AppendProperties DEF Silent

LEMMA SilentTail ==
  ASSUME NEW line \in Seq(LineItem), line # <<>>, Silent(line)
  PROVE  Silent(Tail(line)) /\ Head(line).type = "urc"
<1>1. 1 \in DOMAIN line /\ Head(line) = line[1]
  BY HeadTailProperties
<1>2. \A i \in DOMAIN Tail(line) : i + 1 \in DOMAIN line
                                   /\ Tail(line)[i] = line[i + 1]
  BY HeadTailProperties
<1> QED
  BY <1>1, <1>2 DEF Silent

LEMMA CarriesNew ==
  ASSUME NEW line \in Seq(LineItem), NEW r \in Reply, Silent(line)
  PROVE  Carries(<<>>, Append(line, r), r)
<1> DEFINE long == Append(line, r)
<1>1. r \in LineItem
  BY DEF LineItem
<1>2. /\ DOMAIN long = 1 .. Len(line) + 1
      /\ DOMAIN line = 1 .. Len(line) /\ Len(line) \in Nat
      /\ long[Len(line) + 1] = r
      /\ \A i \in 1 .. Len(line) : long[i] = line[i]
  BY <1>1, AppendProperties
<1> HIDE DEF long
<1>3. \A i \in DOMAIN long : i # Len(line) + 1 => long[i].type = "urc"
  BY <1>2 DEF Silent
<1>4. Len(line) + 1 \in DOMAIN long
  BY <1>2
<1>5. Carries(<<>>, long, r)
  BY <1>2, <1>3, <1>4 DEF Carries
<1> QED
  BY <1>5 DEF long

LEMMA CarriesAppend ==
  ASSUME NEW d, NEW line \in Seq(LineItem), NEW r \in Reply, NEW e \in Urc,
         Carries(d, line, r)
  PROVE  Carries(d, Append(line, e), r)
<1> DEFINE long == Append(line, e)
<1>1. e \in LineItem /\ e.type = "urc"
  BY DEF LineItem, Urc
<1>2. /\ DOMAIN long = 1 .. Len(line) + 1
      /\ DOMAIN line = 1 .. Len(line) /\ Len(line) \in Nat
      /\ long[Len(line) + 1] = e
      /\ \A i \in 1 .. Len(line) : long[i] = line[i]
  BY <1>1, AppendProperties
<1>3. Silent(line) => Silent(long)
  BY SilentAppend
<1> HIDE DEF long
<1>4. ASSUME NEW j \in DOMAIN line, line[j] = r,
             \A i \in DOMAIN line : i # j => line[i].type = "urc"
      PROVE  /\ j \in DOMAIN long /\ long[j] = r
             /\ \A i \in DOMAIN long : i # j => long[i].type = "urc"
  BY <1>1, <1>2, <1>4
<1>5. Carries(d, long, r)
  BY <1>3, <1>4 DEF Carries
<1> QED
  BY <1>5 DEF long

\* The reader takes a notification off the line.
LEMMA CarriesTail ==
  ASSUME NEW d, NEW line \in Seq(LineItem), NEW r \in Reply,
         line # <<>>, Head(line).type = "urc", Carries(d, line, r)
  PROVE  Carries(d, Tail(line), r)
<1> DEFINE short == Tail(line)
<1>1. /\ 1 \in DOMAIN line /\ Head(line) = line[1] /\ Len(line) \in Nat
      /\ DOMAIN line = 1 .. Len(line)
      /\ DOMAIN short = 1 .. Len(line) - 1
      /\ \A i \in DOMAIN short : short[i] = line[i + 1]
  BY HeadTailProperties
<1>2. Silent(line) => Silent(short)
  BY SilentTail
<1>3. r.type = "reply"
  BY DEF Reply
<1> HIDE DEF short
<1>4. ASSUME NEW j \in DOMAIN line, line[j] = r,
             \A i \in DOMAIN line : i # j => line[i].type = "urc"
      PROVE  /\ j - 1 \in DOMAIN short /\ short[j - 1] = r
             /\ \A i \in DOMAIN short : i # j - 1 => short[i].type = "urc"
  <2>1. j # 1
    BY <1>1, <1>3, <1>4
  <2>2. j - 1 \in DOMAIN short /\ short[j - 1] = line[j]
    BY <1>1, <2>1
  <2>3. ASSUME NEW i \in DOMAIN short, i # j - 1
        PROVE  short[i].type = "urc"
    <3>1. i + 1 \in DOMAIN line /\ i + 1 # j
      BY <1>1, <2>3
    <3> QED
      BY <1>1, <1>4, <3>1
  <2> QED
    BY <1>4, <2>2, <2>3
<1>5. Carries(d, short, r)
  BY <1>2, <1>4 DEF Carries
<1> QED
  BY <1>5 DEF short

\* The reader delivers the answer.
LEMMA CarriesDelivered ==
  ASSUME NEW d, NEW line \in Seq(LineItem), NEW r \in Reply,
         line # <<>>, Head(line).type = "reply", Carries(d, line, r)
  PROVE  /\ d = <<>> /\ Head(line) = r
         /\ Silent(Tail(line))
         /\ Carries(<<r>>, Tail(line), r)
<1> DEFINE short == Tail(line)
<1>1. /\ 1 \in DOMAIN line /\ Head(line) = line[1] /\ Len(line) \in Nat
      /\ DOMAIN line = 1 .. Len(line)
      /\ DOMAIN short = 1 .. Len(line) - 1
      /\ \A i \in DOMAIN short : short[i] = line[i + 1]
  BY HeadTailProperties
<1>2. ~Silent(line)
  BY <1>1 DEF Silent
<1> HIDE DEF short
<1>3. PICK j \in DOMAIN line :
        /\ line[j] = r
        /\ \A i \in DOMAIN line : i # j => line[i].type = "urc"
  BY <1>2 DEF Carries
<1>4. j = 1
  BY <1>1, <1>3
<1>5. ASSUME NEW i \in DOMAIN short PROVE short[i].type = "urc"
  <2>1. i + 1 \in DOMAIN line /\ i + 1 # 1
    BY <1>1
  <2> QED
    BY <1>1, <1>3, <1>4, <2>1
<1>6. Silent(short)
  BY <1>5 DEF Silent
<1> QED
  BY <1>1, <1>2, <1>3, <1>4, <1>6 DEF Carries, short

\* What Carries says is what OldestReply finds.
LEMMA CarriesOldest ==
  ASSUME NEW d, NEW line \in Seq(LineItem), NEW r \in Reply,
         Carries(d, line, r)
  PROVE  /\ OldestReply(d, line) = r
         /\ d # <<>> \/ RepliesOn(line) # {}
<1>1. r.type = "reply"
  BY DEF Reply
<1>2. CASE d = <<r>>
  BY <1>2 DEF OldestReply
<1>3. CASE d # <<r>>
  <2>1. PICK j \in DOMAIN line :
          /\ line[j] = r
          /\ \A i \in DOMAIN line : i # j => line[i].type = "urc"
    BY <1>3 DEF Carries
  <2>2. RepliesOn(line) = {j}
    BY <1>1, <2>1 DEF RepliesOn
  <2>3. j \in Int
    BY <2>1, LenProperties
  <2>4. (CHOOSE i \in {j} : \A k \in {j} : i <= k) = j
    BY <2>3
  <2>5. d = <<>>
    BY <1>3 DEF Carries
  <2> QED
    BY <2>1, <2>2, <2>4, <2>5 DEF OldestReply
<1> QED
  BY <1>2, <1>3

CountOf(q, e) == Cardinality({i \in DOMAIN q : q[i] = e})

LEMMA CountType ==
  ASSUME NEW S, NEW q \in Seq(S), NEW e
  PROVE  /\ CountOf(q, e) \in Nat
         /\ IsFiniteSet({i \in DOMAIN q : q[i] = e})
<1> DEFINE at == {i \in DOMAIN q : q[i] = e}
<1>1. DOMAIN q = 1 .. Len(q) /\ Len(q) \in Nat
  BY LenProperties
<1>2. IsFiniteSet(1 .. Len(q))
  BY <1>1, FS_Interval
<1>3. at \in SUBSET (1 .. Len(q))
  BY <1>1
<1> HIDE DEF at
<1>4. IsFiniteSet(at)
  BY <1>2, <1>3, FS_Subset
<1> QED
  BY <1>4, FS_CardinalityType DEF CountOf, at

LEMMA CountNone ==
  ASSUME NEW q, NEW e, \A i \in DOMAIN q : q[i] # e
  PROVE  CountOf(q, e) = 0
<1>1. {i \in DOMAIN q : q[i] = e} = {}
  OBVIOUS
<1> QED
  BY <1>1, FS_EmptySet DEF CountOf

LEMMA CountAppend ==
  ASSUME NEW S, NEW q \in Seq(S), NEW x \in S, NEW e
  PROVE  CountOf(Append(q, x), e) = CountOf(q, e) + (IF x = e THEN 1 ELSE 0)
<1> DEFINE long == Append(q, x)
           at == {i \in DOMAIN q : q[i] = e}
           n == Len(q) + 1
<1>1. /\ DOMAIN q = 1 .. Len(q) /\ Len(q) \in Nat
      /\ DOMAIN long = 1 .. Len(q) + 1
      /\ long[n] = x
      /\ \A i \in 1 .. Len(q) : long[i] = q[i]
  BY AppendProperties
<1>2. IsFiniteSet(at) /\ Cardinality(at) \in Nat
  BY CountType DEF CountOf
<1> HIDE DEF long
<1>3. {i \in DOMAIN long : long[i] = e} = IF x = e THEN at \cup {n} ELSE at
  BY <1>1
<1>4. n \notin at
  BY <1>1
<1> HIDE DEF at
<1>5. Cardinality(at \cup {n}) = Cardinality(at) + 1
  BY <1>2, <1>4, FS_AddElement
<1>6. CASE x = e
  BY <1>3, <1>5, <1>6 DEF CountOf, long, at
<1>7. CASE x # e
  <2>1. {i \in DOMAIN long : long[i] = e} = at
    BY <1>3, <1>7
  <2>2. Cardinality({i \in DOMAIN long : long[i] = e}) = Cardinality(at)
    BY <2>1
  <2>3. CountOf(Append(q, x), e) = CountOf(q, e)
    BY <2>2, Zenon DEF CountOf, long, at
  <2>4. CountOf(q, e) \in Nat
    BY CountType
  <2> QED
    BY <1>7, <2>3, <2>4
<1> QED
  BY <1>6, <1>7

LEMMA CountTail ==
  ASSUME NEW S, NEW q \in Seq(S), q # <<>>, NEW e
  PROVE  CountOf(q, e)
           = CountOf(Tail(q), e) + (IF Head(q) = e THEN 1 ELSE 0)
<1> DEFINE short == Tail(q)
           at == {i \in DOMAIN q : q[i] = e}
           after == {i \in DOMAIN short : short[i] = e}
           rest == at \ {1}
           shift == [i \in after |-> i + 1]
<1>1. /\ DOMAIN q = 1 .. Len(q) /\ Len(q) \in Nat /\ Len(q) # 0
      /\ DOMAIN short = 1 .. Len(q) - 1
      /\ Head(q) = q[1]
      /\ \A i \in DOMAIN short : short[i] = q[i + 1]
  BY HeadTailProperties
<1>2. /\ IsFiniteSet(at) /\ Cardinality(at) \in Nat
      /\ IsFiniteSet(after)
  BY CountType, HeadTailProperties DEF CountOf
<1> HIDE DEF short
<1>3. shift \in [after -> rest]
  BY <1>1
<1>4. \A i, j \in after : shift[i] = shift[j] => i = j
  BY <1>1
<1>5. \A k \in rest : k - 1 \in after /\ shift[k - 1] = k
  BY <1>1
<1> HIDE DEF shift, after, rest
<1>6. shift \in Bijection(after, rest)
  BY <1>3, <1>4, <1>5, Fun_IsBij
<1>7. Cardinality(rest) = Cardinality(after)
  BY <1>2, <1>6, FS_Bijection DEF ExistsBijection
<1>8. 1 \in at <=> Head(q) = e
  BY <1>1
<1> HIDE DEF at
<1>9. Cardinality(rest) = IF 1 \in at THEN Cardinality(at) - 1
                                      ELSE Cardinality(at)
  BY <1>2, FS_RemoveElement DEF rest
<1>10. Cardinality(at) = Cardinality(after) + (IF Head(q) = e THEN 1 ELSE 0)
  BY <1>2, <1>7, <1>8, <1>9
<1> QED
  BY <1>10 DEF CountOf, at, after, short
-----------------------------------------------------------------------------
(* While answers come in time: nothing is lost or late, and the modem closes *)
(* an open socket when it is told to.                                       *)

Timely ==
  MaxLate = 0 /\ MaxLost = 0 /\ CloseMayFail = FALSE /\ MayDrop = FALSE

\* One exchange at a time on the serial line: nothing under way, the command
\* of the pending call, or its answer.
Quiet == cmds = <<>> /\ rx = <<>> /\ Silent(wire)

Request ==
  [name |-> main.pc,
   id   |-> IF main.pc \in {"NSOCR", "NRB"} THEN -1 ELSE id[main.slot],
   port |-> IF main.pc = "NSOCR" THEN next_free_port ELSE NextFreePort]

Asked == cmds = <<Request>> /\ rx = <<>> /\ Silent(wire)

TheReply == OldestReply(rx, wire)

Answered == cmds = <<>> /\ TheReply \in Reply /\ Carries(rx, wire, TheReply)

\* What the modem has done by the time its answer is under way.
ReplyFits ==
  /\ main.pc = "NSOCR" /\ TheReply.ok =>
       /\ IsOpen(TheReply.id)
       /\ mport[TheReply.id] = next_free_port
       /\ \A s \in held : id[s] # TheReply.id
  /\ main.pc = "NSOCL" => TheReply.ok /\ ~IsOpen(id[main.slot])
  /\ main.pc = "NSORF" => TheReply.ok /\ TheReply.data # <<>>

Waiting == main.pc \notin {"idle", "recv"}

Exchange ==
  /\ ~Waiting => Quiet
  /\ Waiting => \/ Asked /\ (main.pc = "NSOCL" => IsOpen(id[main.slot]))
                \/ Answered /\ ReplyFits

\* sockets[] and the modem's table, at every point of a call.
Closing(s) == main.pc = "NSOCL" /\ main.slot = s

Tables ==
  /\ \A s \in Slots : in_use[s] <=> s \in held \/ Closing(s)
  /\ \A s \in Slots : ~in_use[s] => id[s] = -1 /\ incoming_len[s] = 0
  /\ \A s \in held : IsOpen(id[s]) /\ mport[id[s]] = local_port[s]
  /\ \A s, t \in Slots : in_use[s] /\ in_use[t] /\ id[s] = id[t] => s = t
  /\ \A s \in Slots : Closing(s) => id[s] \in ModemIds
  /\ main.pc \in {"NSORF", "NSOST"} => main.slot \in held
  /\ main.pc = "NRB" => held = {}

\* An open modem socket has an owner: a descriptor, the close() or the
\* socket() under way.
Owned(k) ==
  \/ \E s \in held : id[s] = k
  \/ main.pc = "NSOCL" /\ id[main.slot] = k /\ cmds # <<>>
  \/ main.pc = "NSOCR" /\ cmds = <<>> /\ TheReply.ok /\ TheReply.id = k

NoneLost == \A k \in ModemIds : IsOpen(k) => Owned(k)

Queues ==
  \A k \in ModemIds :
    /\ ~IsOpen(k) => mqueue[k] = <<>>
    /\ Len(mqueue[k]) <= MaxUnread
    /\ \A i \in DOMAIN mqueue[k] : mqueue[k][i].port = mport[k]

\* A notification of a closed socket is ahead of the answer to its close(),
\* and is gone before the next call.
MayNotify(k) == \/ IsOpen(k)
                \/ main.pc = "NSOCL" /\ k = id[main.slot]
                \/ main.pc = "idle"

Notifications ==
  /\ \A i \in DOMAIN wire : wire[i].type = "urc" =>
       \/ IsOpen(wire[i].id)
       \/ /\ main.pc = "NSOCL" /\ wire[i].id = id[main.slot]
          /\ \E j \in DOMAIN wire : i < j /\ wire[j].type = "reply"
  /\ \A i \in DOMAIN urcq : MayNotify(urcq[i])
  /\ urc.pc = "callback" => urc.fd \in ModemIds /\ MayNotify(urc.fd)

\* Notifications of a socket that no descriptor has been credited with yet.
NSONMI(k) == [type |-> "urc", id |-> k]

InCallback(k) == IF urc.pc = "callback" /\ urc.fd = k THEN 1 ELSE 0

Pending(k) == CountOf(wire, NSONMI(k)) + CountOf(urcq, k) + InCallback(k)

\* The datagram that the answer to AT+NSORF carries.
Taken(s) == IF main.pc = "NSORF" /\ main.slot = s /\ cmds = <<>>
            THEN 1 ELSE 0

Announced ==
  /\ \A s \in held :
       incoming_len[s] + Pending(id[s]) <= Len(mqueue[id[s]]) + Taken(s)
  /\ main.pc = "NSORF" => incoming_len[main.slot] > 0
  /\ main.pc = "NSOCR" =>
       \A k \in ModemIds : IsOpen(k) /\ (\A s \in held : id[s] # k)
                             => Pending(k) <= Len(mqueue[k])

TInv == Exchange /\ Tables /\ NoneLost /\ Queues /\ Notifications /\ Announced

-----------------------------------------------------------------------------
(* The steps of an exchange. *)

LEMMA LineItems == LineTypes => wire \in Seq(LineItem)
BY DEF LineTypes, LineItem

\* Nothing is left for the URC thread when the main thread starts a call.
LEMMA NoUrcWork ==
  ASSUME TypeOK, MainRuns, mdm_sem = 1
  PROVE  urcq = <<>> /\ urc.pc = "read"
BY DEF TypeOK, ThreadTypes, MainRuns, UrcRunnable

LEMMA SendAsks ==
  ASSUME Quiet, NEW n, NEW k, NEW p, ModemWrite(n, k, p),
         rx' = rx, wire' = wire,
         Request' = [name |-> n, id |-> k, port |-> p]
  PROVE  Asked'
<1>1. cmds' = <<[name |-> n, id |-> k, port |-> p]>>
  BY DEF Quiet, ModemWrite
<1> QED
  BY <1>1 DEF Quiet, Asked

LEMMA SilentHasNone ==
  ASSUME NEW line, Silent(line)
  PROVE  \A i \in DOMAIN line : line[i].type # "reply"
BY DEF Silent

\* A pending call returns with the answer to its own command.
LEMMA ReturnAnswers ==
  ASSUME Timely, LineTypes, Exchange, Waiting, DecodeInput,
         late \in Nat, cmds' = cmds, wire' = wire
  PROVE  /\ Answered /\ ReplyFits
         /\ rx = <<TheReply>> /\ Answer = TheReply /\ Silent(wire)
         /\ TheReply \in Reply
         /\ Quiet'
<1>1. rx # <<>>
  <2>1. SUFFICES ASSUME rx = <<>> PROVE FALSE
    OBVIOUS
  <2>2. ~AnswerComing
    BY <2>1 DEF DecodeInput, Timely
  <2>3. CASE Asked
    BY <2>2, <2>3 DEF Asked, AnswerComing
  <2>4. CASE Answered
    <3>1. PICK j \in DOMAIN wire : wire[j] = TheReply
      BY <2>1, <2>4 DEF Answered, Carries
    <3> QED
      BY <2>2, <2>4, <3>1 DEF AnswerComing, Answered, Reply
  <2> QED
    BY <2>3, <2>4 DEF Exchange
<1>2. Answered /\ ReplyFits
  BY <1>1 DEF Exchange, Asked
<1>3. rx = <<TheReply>> /\ Silent(wire)
  BY <1>1, <1>2 DEF Answered, Carries
<1>4. Answer = TheReply
  BY <1>3 DEF Answer
<1>5. rx' = <<>>
  BY <1>1, <1>3 DEF DecodeInput
<1> QED
  BY <1>2, <1>3, <1>4, <1>5 DEF Quiet, Answered

\* The modem executes the command of the pending call and no other.
LEMMA ExecutesAsked ==
  ASSUME Exchange, NEW n, Executes(n)
  PROVE  /\ Waiting /\ Asked
         /\ main.pc = n
         /\ Head(cmds) = Request
         /\ main.pc = "NSOCL" => IsOpen(id[main.slot])
         /\ cmds # <<>> /\ cmds' = <<>> /\ rx' = rx /\ rx = <<>>
         /\ UNCHANGED <<slotVars, next_free_port, mdm_sem, held, main, urc,
                        urcq, rx, late>>
<1>1. cmds # <<>>
  BY DEF Executes
<1>2. Waiting /\ Asked /\ (main.pc = "NSOCL" => IsOpen(id[main.slot]))
  BY <1>1 DEF Exchange, Quiet, Answered
<1>3. Head(cmds) = Request /\ Tail(cmds) = <<>>
  BY <1>2 DEF Asked
<1>4. Head(cmds).name = main.pc
  BY <1>3 DEF Request
<1> QED
  BY <1>1, <1>2, <1>3, <1>4 DEF Executes, Asked

LEMMA RespondAnswers ==
  ASSUME Timely, LineTypes, ModemTypes, Asked,
         cmds' = <<>>, rx' = rx,
         NEW ok \in BOOLEAN, NEW k \in ModemIds \cup {-2},
         NEW d \in {<<>>} \cup {<<x>> : x \in Datagram}, NEW n \in Nat,
         Respond(ok, k, d, n)
  PROVE  /\ Answered'
         /\ TheReply'.ok = ok /\ TheReply'.id = k /\ TheReply'.data = d
         /\ wire' = Append(wire, TheReply')
         /\ TheReply' \in Reply
         /\ lost' = lost
<1> DEFINE r == [type |-> "reply", ok |-> ok, id |-> k, data |-> d,
                 remain |-> n]
<1>1. r \in Reply
  BY DEF Reply
<1>2. wire' = Append(wire, r) /\ lost' = lost
  BY DEF Respond, Timely, ModemTypes
<1> HIDE DEF r
<1>3. rx' = <<>> /\ Silent(wire)
  BY DEF Asked
<1>4. Carries(rx', wire', r)
  BY <1>1, <1>2, <1>3, LineItems, CarriesNew
<1>5. wire' \in Seq(LineItem)
  BY <1>1, <1>2, LineItems, AppendType DEF LineItem
<1>6. OldestReply(rx', wire') = r
  BY <1>1, <1>4, <1>5, CarriesOldest
<1>7. TheReply' = r
  BY <1>6 DEF TheReply
<1>8. Answered'
  BY <1>1, <1>4, <1>7 DEF Answered
<1> QED
  BY <1>1, <1>2, <1>7, <1>8 DEF r

\* Neither a delivery nor a notification disturbs an exchange.
LineStep ==
  /\ cmds' = cmds
  /\ \/ /\ wire # <<>> /\ wire' = Tail(wire)
        /\ \/ Head(wire).type = "reply" /\ rx' = Append(rx, Head(wire))
           \/ Head(wire).type = "urc" /\ rx' = rx
     \/ \E k \in ModemIds : wire' = Append(wire, NSONMI(k)) /\ rx' = rx

LEMMA LineStepKeeps ==
  ASSUME LineTypes, LineTypes', LineStep
  PROVE  /\ Quiet => Quiet'
         /\ Asked /\ Request' = Request => Asked'
         /\ Answered => Answered' /\ TheReply' = TheReply
<1>1. wire \in Seq(LineItem) /\ wire' \in Seq(LineItem)
  BY DEF LineTypes, LineItem
<1>2. ASSUME NEW k \in ModemIds PROVE NSONMI(k) \in Urc
  BY DEF NSONMI, Urc
<1>3. Silent(wire) => Silent(wire') /\ rx' = rx
  <2>1. CASE wire # <<>> /\ wire' = Tail(wire)
    <3>1. Silent(wire) => Silent(Tail(wire)) /\ Head(wire).type = "urc"
      BY <1>1, <2>1, SilentTail
    <3>2. CASE Silent(wire)
      <4>1. Silent(wire')
        BY <2>1, <3>1, <3>2, Zenon
      <4>2. Head(wire).type # "reply"
        BY <3>1, <3>2
      <4> QED
        BY <2>1, <4>1, <4>2 DEF LineStep
    <3> QED
      BY <3>2
  <2>2. CASE \E k \in ModemIds : wire' = Append(wire, NSONMI(k)) /\ rx' = rx
    BY <1>1, <1>2, <2>2, SilentAppend
  <2> QED
    BY <2>1, <2>2 DEF LineStep
<1>4. Quiet => Quiet'
  BY <1>3 DEF Quiet, LineStep
<1>5. Asked /\ Request' = Request => Asked'
  BY <1>3 DEF Asked, LineStep
<1>6. ASSUME Answered PROVE Answered' /\ TheReply' = TheReply
  <2>1. Carries(rx, wire, TheReply) /\ TheReply \in Reply /\ cmds = <<>>
    BY <1>6 DEF Answered
  <2>2. Carries(rx', wire', TheReply)
    <3>1. CASE wire # <<>> /\ wire' = Tail(wire) /\ Head(wire).type = "urc"
               /\ rx' = rx
      BY <1>1, <2>1, <3>1, CarriesTail
    <3>2. CASE wire # <<>> /\ wire' = Tail(wire)
               /\ Head(wire).type = "reply" /\ rx' = Append(rx, Head(wire))
      <4>1. /\ rx = <<>> /\ Head(wire) = TheReply
            /\ Carries(<<TheReply>>, Tail(wire), TheReply)
        BY <1>1, <2>1, <3>2, CarriesDelivered
      <4>2. rx' = <<TheReply>>
        BY <3>2, <4>1
      <4> QED
        BY <3>2, <4>1, <4>2
    <3>3. CASE \E k \in ModemIds : wire' = Append(wire, NSONMI(k))
                                   /\ rx' = rx
      BY <1>1, <1>2, <2>1, <3>3, CarriesAppend
    <3> QED
      BY <3>1, <3>2, <3>3 DEF LineStep
  <2>3. TheReply' = TheReply
    <3>1. OldestReply(rx', wire') = TheReply
      BY <1>1, <2>1, <2>2, CarriesOldest
    <3> QED
      BY <3>1 DEF TheReply
  <2> QED
    BY <2>1, <2>2, <2>3 DEF Answered, LineStep
<1> QED
  BY <1>4, <1>5, <1>6

-----------------------------------------------------------------------------
(* TInv is inductive while answers come in time. *)

LEMMA InitTimely == Init => TInv
<1> SUFFICES ASSUME Init PROVE TInv
  OBVIOUS
<1> USE DEF Init
<1>1. Exchange
  BY DEF Exchange, Waiting, Quiet, Silent
<1>2. Tables
  BY DEF Tables, Closing
<1>3. NoneLost /\ Queues
  BY SocketAssumption DEF NoneLost, Queues, IsOpen
<1>4. Notifications
  BY DEF Notifications
<1>5. Announced
  BY DEF Announced
<1> QED
  BY <1>1, <1>2, <1>3, <1>4, <1>5 DEF TInv

\* A call writes its command while nothing is under way.
LEMMA CallStarts ==
  ASSUME TypeOK, Exchange, Queues, Notifications,
         ~Waiting, MainRuns, mdm_sem = 1,
         NEW op, NEW k, NEW p,
         ModemWrite(op, k, p), op \notin {"idle", "recv"},
         main'.pc = op, id' = id,
         op = "NSOCL" => IsOpen(id[main'.slot]),
         Request' = [name |-> op, id |-> k, port |-> p],
         UNCHANGED <<rx, wire, urcq, urc, modemVars>>
  PROVE  Exchange' /\ Queues' /\ Notifications'
<1>1. Asked'
  BY SendAsks DEF Exchange
<1>2. mport' = mport /\ mqueue' = mqueue
  BY DEF modemVars
<1>3. Exchange'
  BY <1>1, <1>2 DEF Exchange, Waiting, IsOpen
<1>4. Queues'
  BY <1>2 DEF Queues, IsOpen
<1>5. urcq' = <<>> /\ urc'.pc = "read"
  BY NoUrcWork
<1>6. main.pc # "NSOCL"
  BY DEF Waiting
<1>7. Notifications'
  BY <1>2, <1>5, <1>6 DEF Notifications, IsOpen
<1> QED
  BY <1>3, <1>4, <1>7

\* A call returns with its answer, and the line is quiet again.
LEMMA CallEnds ==
  ASSUME Timely, TypeOK, Exchange, Queues, Notifications,
         Waiting, DecodeInput, main'.pc = "idle",
         UNCHANGED <<cmds, wire, urcq, urc, modemVars>>
  PROVE  /\ Answered /\ ReplyFits /\ Answer = TheReply
         /\ TheReply \in Reply
         /\ Exchange' /\ Queues' /\ Notifications'
<1>1. /\ Answered /\ ReplyFits /\ Answer = TheReply /\ TheReply \in Reply
      /\ Quiet' /\ Silent(wire)
  BY ReturnAnswers DEF TypeOK, ThreadTypes
<1>2. mport' = mport /\ mqueue' = mqueue
  BY DEF modemVars
<1>3. Exchange'
  BY <1>1 DEF Exchange, Waiting
<1>4. Queues'
  BY <1>2 DEF Queues, IsOpen
<1>5. \A i \in DOMAIN wire : IsOpen(wire[i].id)
  BY <1>1 DEF Notifications, Silent
<1>6. Notifications'
  BY <1>2, <1>5 DEF Notifications, MayNotify, IsOpen
<1> QED
  BY <1>1, <1>3, <1>4, <1>6

LEMMA PendingSame ==
  ASSUME wire' = wire, urcq' = urcq, urc' = urc
  PROVE  \A k : Pending(k)' = Pending(k)
BY DEF Pending, InCallback

LEMMA PendingType ==
  ASSUME TypeOK, NEW k
  PROVE  Pending(k) \in Nat
<1>1. CountOf(wire, NSONMI(k)) \in Nat
  BY CountType DEF TypeOK, LineTypes
<1>2. CountOf(urcq, k) \in Nat
  BY CountType DEF TypeOK, LineTypes
<1>3. InCallback(k) \in Nat
  BY DEF InCallback
<1> QED
  BY <1>1, <1>2, <1>3 DEF Pending

LEMMA SocketCallTimely ==
  ASSUME IInv, TInv, SocketCall
  PROVE  TInv'
<1> USE DEF IInv, TInv
<1>1. PICK s \in Slots :
        /\ ~in_use[s]
        /\ Begin("NSOCR", s)
        /\ local_port' = [local_port EXCEPT ![s] = next_free_port]
        /\ ModemWrite("NSOCR", -1, next_free_port)
  BY DEF SocketCall, FreeSlot
<1>2. /\ main.pc = "idle" /\ ~Waiting
      /\ main' = [pc |-> "NSOCR", slot |-> s]
      /\ main'.pc = "NSOCR" /\ main'.slot = s
      /\ id' = id /\ in_use' = in_use /\ incoming_len' = incoming_len
      /\ next_free_port' = next_free_port /\ held' = held
      /\ mport' = mport /\ mqueue' = mqueue
      /\ UNCHANGED <<rx, wire, urcq, urc, modemVars>>
      /\ MainRuns /\ mdm_sem = 1
  BY <1>1 DEF SocketCall, Begin, modemVars, Waiting
<1>3. Request' = [name |-> "NSOCR", id |-> -1, port |-> next_free_port]
  BY <1>2 DEF Request
<1>4. Exchange' /\ Queues' /\ Notifications'
  BY <1>1, <1>2, <1>3, CallStarts
<1>5. s \notin held
  BY <1>1, <1>2 DEF Tables
<1>6. \A t \in held : local_port'[t] = local_port[t]
  BY <1>1, <1>5 DEF TypeOK, SlotTypes
<1>7. Tables'
  BY <1>2, <1>6 DEF Tables, Closing, IsOpen
<1>8. \A k \in ModemIds : IsOpen(k) => \E t \in held : id[t] = k
  BY <1>2 DEF NoneLost, Owned
<1>9. NoneLost'
  BY <1>2, <1>8 DEF NoneLost, Owned, IsOpen
<1>10. \A t \in held : Taken(t) = 0 /\ Taken(t)' = 0
  BY <1>2 DEF Taken
<1>11. Announced'
  BY <1>2, <1>8, <1>10, PendingSame DEF Announced, IsOpen
<1> QED
  BY <1>4, <1>7, <1>9, <1>11

\* A new descriptor starts with no credit, and the modem has announced no
\* more than it holds for the new socket.
LEMMA SocketReturnTimely ==
  ASSUME Timely, IInv, TInv, SocketReturn
  PROVE  TInv'
<1> USE DEF IInv, TInv
<1> DEFINE s == main.slot
<1>1. /\ main.pc = "NSOCR" /\ Waiting /\ DecodeInput
      /\ s \in Slots /\ s \notin held /\ ~in_use[s]
      /\ local_port[s] = next_free_port
      /\ main' = [main EXCEPT !.pc = "idle"] /\ main'.pc = "idle"
      /\ local_port' = local_port /\ incoming_len' = incoming_len
      /\ mport' = mport /\ mqueue' = mqueue /\ cmds' = cmds
      /\ UNCHANGED <<cmds, wire, urcq, urc, modemVars>>
  BY DEF SocketReturn, Return, Waiting, TypeOK, ThreadTypes, PortsBelowNext,
     HeldPortsDistinct, modemVars
<1>2. /\ Answered /\ ReplyFits /\ Answer = TheReply /\ TheReply \in Reply
      /\ Exchange' /\ Queues' /\ Notifications'
  BY <1>1, CallEnds
<1>3. incoming_len[s] = 0
  BY <1>1 DEF Tables
<1>4. \A t \in held : Taken(t) = 0
  BY <1>1 DEF Taken
<1>5. \A t \in held' : Taken(t)' = 0
  BY <1>1 DEF Taken
<1>6. CASE ~TheReply.ok
  <2>1. id' = id /\ in_use' = in_use /\ held' = held
    BY <1>2, <1>6 DEF SocketReturn
  <2>2. Tables'
    BY <1>1, <2>1 DEF Tables, Closing, IsOpen
  <2>3. NoneLost'
    BY <1>1, <1>6, <2>1 DEF NoneLost, Owned, IsOpen
  <2>4. Announced'
    BY <1>1, <1>4, <1>5, <2>1, PendingSame DEF Announced
  <2> QED
    BY <1>2, <2>2, <2>3, <2>4
<1>7. CASE TheReply.ok
  <2> DEFINE k == TheReply.id
  <2>1. /\ id' = [id EXCEPT ![s] = k]
        /\ in_use' = [in_use EXCEPT ![s] = TRUE]
        /\ held' = held \cup {s}
    BY <1>2, <1>7 DEF SocketReturn, NsocrFd
  <2>2. /\ IsOpen(k) /\ mport[k] = next_free_port
        /\ \A t \in held : id[t] # k
    BY <1>1, <1>2, <1>7 DEF ReplyFits
  <2>3. /\ held \subseteq Slots
        /\ id'[s] = k /\ in_use'[s]
        /\ \A t \in Slots : t # s => id'[t] = id[t] /\ in_use'[t] = in_use[t]
        /\ \A t \in held : id'[t] = id[t]
    BY <1>1, <2>1 DEF TypeOK, SlotTypes
  <2>4. Tables'
    <3>1. \A t \in Slots : in_use'[t] <=> t \in held' \/ Closing(t)'
      BY <1>1, <2>1, <2>3 DEF Tables, Closing
    <3>2. \A t \in Slots : ~in_use'[t] => id'[t] = -1 /\ incoming_len'[t] = 0
      BY <1>1, <2>3 DEF Tables
    <3>3. \A t \in held' : IsOpen(id[t])' /\ mport'[id'[t]] = local_port'[t]
      BY <1>1, <2>1, <2>2, <2>3 DEF Tables, IsOpen
    <3>4. \A t \in Slots : in_use[t] => t \in held
      BY <1>1 DEF Tables, Closing
    <3>5. \A t, u \in Slots : in_use'[t] /\ in_use'[u] /\ id'[t] = id'[u]
                                => t = u
      BY <2>2, <2>3, <3>4 DEF Tables
    <3> QED
      BY <1>1, <3>1, <3>2, <3>3, <3>5 DEF Tables, Closing
  <2>5. NoneLost'
    <3>1. \A j \in ModemIds : IsOpen(j) => j = k \/ \E t \in held : id[t] = j
      BY <1>1 DEF NoneLost, Owned
    <3> QED
      BY <1>1, <2>1, <2>3, <3>1 DEF NoneLost, Owned, IsOpen
  <2>6. Announced'
    <3>1. Pending(k) <= Len(mqueue[k])
      BY <1>1, <2>2 DEF Announced, IsOpen
    <3>2. \A t \in Slots : (Pending(id[t]))' = Pending(id'[t])
      BY <1>1 DEF Pending, InCallback
    <3>3. \A j : Pending(j) \in Nat
      BY PendingType
    <3>4. ASSUME NEW t \in held'
          PROVE  incoming_len'[t] + Pending(id'[t]) <= Len(mqueue'[id'[t]])
      <4>1. CASE t = s
        BY <1>1, <1>3, <2>3, <3>1, <3>3, <4>1
      <4>2. CASE t # s
        <5>1. t \in held /\ id'[t] = id[t] /\ Taken(t) = 0
          BY <1>4, <2>1, <2>3, <4>2
        <5>2. incoming_len[t] + Pending(id[t]) <= Len(mqueue[id[t]]) + 0
          BY <5>1 DEF Announced
        <5>3. id[t] \in ModemIds
          BY <5>1 DEF Tables, IsOpen
        <5>4. Len(mqueue[id[t]]) \in Nat
          BY <5>3 DEF TypeOK, ModemTypes
        <5> QED
          BY <1>1, <5>1, <5>2, <5>4
      <4> QED
        BY <4>1, <4>2
    <3>5. held' \subseteq Slots
      BY <1>1, <2>1, <2>3
    <3>6. \A t \in held' : incoming_len'[t] + (Pending(id[t]))'
                             <= Len(mqueue'[id'[t]]) + Taken(t)'
      <4> SUFFICES ASSUME NEW t \in held'
                   PROVE  incoming_len'[t] + (Pending(id[t]))'
                             <= Len(mqueue'[id'[t]]) + Taken(t)'
        OBVIOUS
      <4>1. (Pending(id[t]))' = Pending(id'[t]) /\ Taken(t)' = 0
        BY <1>5, <3>2, <3>5
      <4>2. /\ incoming_len'[t] + Pending(id'[t]) <= Len(mqueue'[id'[t]])
            /\ Len(mqueue'[id'[t]]) \in Nat
        <5>1. id'[t] \in ModemIds
          BY <1>1, <2>1, <2>2, <2>3 DEF Tables, IsOpen
        <5> QED
          BY <1>1, <3>4, <5>1 DEF TypeOK, ModemTypes
      <4> QED
        BY <4>1, <4>2
    <3> QED
      BY <1>1, <3>6 DEF Announced
  <2> QED
    BY <1>2, <2>4, <2>5, <2>6
<1> QED
  BY <1>6, <1>7

LEMMA CloseCallTimely ==
  ASSUME IInv, TInv, NEW s \in Slots, CloseCall(s)
  PROVE  TInv'
<1> USE DEF IInv, TInv
<1>1. /\ main.pc = "idle" /\ ~Waiting
      /\ s \in held /\ MainRuns /\ mdm_sem = 1
      /\ main' = [pc |-> "NSOCL", slot |-> s]
      /\ main'.pc = "NSOCL" /\ main'.slot = s
      /\ held' = held \ {s}
      /\ id' = id /\ in_use' = in_use /\ incoming_len' = incoming_len
      /\ local_port' = local_port /\ next_free_port' = next_free_port
      /\ mport' = mport /\ mqueue' = mqueue
      /\ UNCHANGED <<rx, wire, urcq, urc, modemVars>>
      /\ ModemWrite("NSOCL", id[s], NextFreePort)
  BY DEF CloseCall, Begin, modemVars, slotVars, Waiting, ModemId
<1>2. Request' = [name |-> "NSOCL", id |-> id[s], port |-> NextFreePort]
  BY <1>1 DEF Request
<1>3. IsOpen(id[s])
  BY <1>1 DEF Tables
<1>4. Exchange' /\ Queues' /\ Notifications'
  BY <1>1, <1>2, <1>3, CallStarts
<1>5. Tables'
  <2>1. \A t \in Slots : in_use[t] <=> t \in held
    BY <1>1 DEF Tables, Closing
  <2>2. \A t \in Slots : Closing(t)' <=> t = s
    BY <1>1 DEF Closing
  <2>3. \A t \in Slots : in_use'[t] <=> t \in held' \/ Closing(t)'
    BY <1>1, <2>1, <2>2
  <2> QED
    BY <1>1, <1>3, <2>2, <2>3 DEF Tables, IsOpen
<1>6. NoneLost'
  <2>1. \A k \in ModemIds : IsOpen(k) => \E t \in held : id[t] = k
    BY <1>1 DEF NoneLost, Owned
  <2>2. cmds' # <<>>
    BY <1>1 DEF Exchange, Quiet, ModemWrite
  <2> QED
    BY <1>1, <2>1, <2>2 DEF NoneLost, Owned, IsOpen
<1>7. \A t : Taken(t)' = 0 /\ Taken(t) = 0
  BY <1>1 DEF Taken
<1>8. Announced'
  BY <1>1, <1>7, PendingSame DEF Announced
<1> QED
  BY <1>4, <1>5, <1>6, <1>8

\* The slot is free again, and whatever the URC thread still has for the
\* modem socket it had finds no slot with that number.
LEMMA CloseReturnTimely ==
  ASSUME Timely, IInv, TInv, CloseReturn
  PROVE  TInv'
<1> USE DEF IInv, TInv
<1> DEFINE s == main.slot
<1>1. /\ main.pc = "NSOCL" /\ Waiting /\ DecodeInput
      /\ s \in Slots /\ s \notin held /\ held \subseteq Slots
      /\ main' = [main EXCEPT !.pc = "idle"] /\ main'.pc = "idle"
      /\ held' = held /\ cmds' = cmds
      /\ mport' = mport /\ mqueue' = mqueue
      /\ UNCHANGED <<cmds, wire, urcq, urc, modemVars>>
  BY DEF CloseReturn, Return, Waiting, TypeOK, ThreadTypes, SlotTypes,
     PortsBelowNext, modemVars
<1>2. /\ Answered /\ ReplyFits /\ Answer = TheReply /\ TheReply \in Reply
      /\ Exchange' /\ Queues' /\ Notifications'
  BY <1>1, CallEnds
<1>3. TheReply.ok /\ ~IsOpen(id[s])
  BY <1>1, <1>2 DEF ReplyFits
<1>4. ClearSocket(s)
  BY <1>2, <1>3 DEF CloseReturn
<1>5. /\ id'[s] = -1 /\ incoming_len'[s] = 0 /\ in_use'[s] = FALSE
      /\ \A t \in Slots : t # s =>
           /\ id'[t] = id[t] /\ incoming_len'[t] = incoming_len[t]
           /\ in_use'[t] = in_use[t] /\ local_port'[t] = local_port[t]
  BY <1>1, <1>4 DEF ClearSocket, TypeOK, SlotTypes
<1>6. Tables'
  BY <1>1, <1>5 DEF Tables, Closing, IsOpen
<1>7. NoneLost'
  BY <1>1, <1>2, <1>5 DEF NoneLost, Owned, IsOpen, Answered
<1>8. Announced'
  <2>1. \A t : Taken(t)' = 0 /\ Taken(t) = 0
    BY <1>1 DEF Taken
  <2>2. \A t \in held : id'[t] = id[t] /\ incoming_len'[t] = incoming_len[t]
    BY <1>1, <1>5
  <2>3. \A t \in held : (Pending(id[t]))' = Pending(id[t])
    BY <1>1, <2>2 DEF Pending, InCallback
  <2> QED
    BY <1>1, <2>1, <2>2, <2>3 DEF Announced
<1> QED
  BY <1>2, <1>6, <1>7, <1>8

\* connect(), and the wait of recv(), touch nothing the modem shares.
LEMMA ConnectTimely ==
  ASSUME IInv, TInv, NEW s \in Slots, Connect(s) \/ RecvWait(s)
  PROVE  TInv'
<1> USE DEF IInv, TInv
<1>1. /\ main.pc = "idle" /\ MainRuns
      /\ main' = main \/ main' = [pc |-> "recv", slot |-> s]
      /\ main'.pc \in {"idle", "recv"}
      /\ UNCHANGED <<id, in_use, local_port, incoming_len, next_free_port,
                     held, urc, urcq, rx, wire, cmds, mport, mqueue>>
  BY DEF Connect, RecvWait, slotVars, modemVars
<1>2. mdm_sem = 1
  BY <1>1 DEF SemReleased, TypeOK, ThreadTypes
<1>3. urcq = <<>> /\ urc.pc = "read"
  BY <1>1, <1>2, NoUrcWork
<1>4. Exchange'
  BY <1>1 DEF Exchange, Waiting, Quiet
<1>5. Tables'
  BY <1>1 DEF Tables, Closing, IsOpen
<1>6. NoneLost' /\ Queues'
  BY <1>1 DEF NoneLost, Owned, Queues, IsOpen
<1>7. Notifications'
  BY <1>1, <1>3 DEF Notifications, IsOpen
<1>8. \A t : Taken(t)' = 0 /\ Taken(t) = 0
  BY <1>1 DEF Taken
<1>9. Announced'
  BY <1>1, <1>8, PendingSame DEF Announced
<1> QED
  BY <1>4, <1>5, <1>6, <1>7, <1>9

LEMMA TransferCallTimely ==
  ASSUME IInv, TInv, NEW s \in Slots, RecvFromCall(s) \/ SendToCall(s)
  PROVE  TInv'
<1> USE DEF IInv, TInv
<1>1. PICK op \in {"NSORF", "NSOST"} :
        /\ main.pc \in {"idle", "recv"} /\ ~Waiting
        /\ s \in held /\ MainRuns /\ mdm_sem = 1
        /\ main' = [pc |-> op, slot |-> s]
        /\ main'.pc = op /\ main'.slot = s
        /\ ModemWrite(op, id[s], NextFreePort)
        /\ op = "NSORF" => PollIn(s)
        /\ UNCHANGED <<id, in_use, local_port, incoming_len, next_free_port,
                       held, urc, urcq, rx, wire, mport, mqueue, modemVars>>
  BY DEF RecvFromCall, SendToCall, Begin, slotVars, modemVars, Waiting,
     ModemId
<1>2. Request' = [name |-> op, id |-> id[s], port |-> NextFreePort]
  BY <1>1 DEF Request
<1>3. Exchange' /\ Queues' /\ Notifications'
  BY <1>1, <1>2, CallStarts
<1>4. Tables'
  BY <1>1 DEF Tables, Closing, IsOpen
<1>5. NoneLost'
  BY <1>1 DEF NoneLost, Owned, IsOpen
<1>6. cmds' # <<>>
  <2>1. cmds = <<>>
    BY <1>1 DEF Exchange, Quiet
  <2>2. cmds' = <<[name |-> op, id |-> id[s], port |-> NextFreePort]>>
    BY <1>1, <2>1 DEF ModemWrite
  <2> QED
    BY <2>2
<1>7. \A t : Taken(t)' = 0 /\ Taken(t) = 0
  BY <1>1, <1>6 DEF Taken
<1>8. Announced'
  BY <1>1, <1>7, PendingSame DEF Announced, PollIn
<1> QED
  BY <1>3, <1>4, <1>5, <1>8

LEMMA SendToReturnTimely ==
  ASSUME Timely, IInv, TInv, SendToReturn
  PROVE  TInv'
<1> USE DEF IInv, TInv
<1>1. /\ main.pc = "NSOST" /\ Waiting /\ DecodeInput
      /\ main' = [main EXCEPT !.pc = "idle"] /\ main'.pc = "idle"
      /\ UNCHANGED <<id, in_use, local_port, incoming_len, next_free_port,
                     held, urc, urcq, wire, cmds, mport, mqueue, modemVars>>
  BY DEF SendToReturn, Return, Waiting, TypeOK, ThreadTypes, slotVars,
     modemVars
<1>2. Exchange' /\ Queues' /\ Notifications'
  BY <1>1, CallEnds
<1>3. Tables' /\ NoneLost'
  BY <1>1 DEF Tables, Closing, NoneLost, Owned, IsOpen
<1>4. \A t : Taken(t)' = 0 /\ Taken(t) = 0
  BY <1>1 DEF Taken
<1>5. Announced'
  BY <1>1, <1>4, PendingSame DEF Announced
<1> QED
  BY <1>2, <1>3, <1>5

\* The datagram that was announced has arrived: incoming_len starts anew,
\* and what is still pending announces what the modem still holds.
LEMMA RecvFromReturnTimely ==
  ASSUME Timely, IInv, TInv, RecvFromReturn
  PROVE  TInv'
<1> USE DEF IInv, TInv
<1> DEFINE s == main.slot
<1>1. /\ main.pc = "NSORF" /\ Waiting /\ DecodeInput
      /\ s \in Slots /\ s \in held /\ held \subseteq Slots
      /\ main' = [main EXCEPT !.pc = "idle"] /\ main'.pc = "idle"
      /\ UNCHANGED <<id, in_use, local_port, next_free_port,
                     held, urc, urcq, wire, cmds, mport, mqueue, modemVars>>
  BY DEF RecvFromReturn, Return, Waiting, TypeOK, ThreadTypes, SlotTypes,
     modemVars, Tables
<1>2. /\ Answered /\ ReplyFits /\ Answer = TheReply
      /\ Exchange' /\ Queues' /\ Notifications'
  BY <1>1, CallEnds
<1>3. incoming_len' = [incoming_len EXCEPT ![s] = 0]
  BY <1>1, <1>2 DEF ReplyFits, RecvFromReturn, NsorfRemaining
<1>4. /\ incoming_len'[s] = 0
      /\ \A t \in Slots : t # s => incoming_len'[t] = incoming_len[t]
  BY <1>1, <1>3 DEF TypeOK, SlotTypes
<1>5. Tables' /\ NoneLost'
  BY <1>1, <1>4 DEF Tables, Closing, NoneLost, Owned, IsOpen
<1>6. Announced'
  <2> SUFFICES ASSUME NEW t \in held
               PROVE  incoming_len'[t] + Pending(id[t])
                        <= Len(mqueue[id[t]]) + 0
    <3>1. \A t : Taken(t)' = 0
      BY <1>1 DEF Taken
    <3> QED
      BY <1>1, <3>1, PendingSame DEF Announced
  <2>1. incoming_len[t] + Pending(id[t]) <= Len(mqueue[id[t]]) + Taken(t)
    BY DEF Announced
  <2>2. id[t] \in ModemIds
    BY DEF Tables, IsOpen
  <2>3. /\ Len(mqueue[id[t]]) \in Nat /\ Pending(id[t]) \in Nat
        /\ incoming_len[t] \in Nat
    BY <1>1, <2>2, PendingType DEF TypeOK, SlotTypes, ModemTypes
  <2>4. CASE t = s
    <3>1. Taken(t) <= 1 /\ Taken(t) \in Nat
      BY DEF Taken
    <3>2. incoming_len[t] > 0
      BY <1>1, <2>4 DEF Announced
    <3> QED
      BY <1>4, <2>1, <2>3, <2>4, <3>1, <3>2
  <2>5. CASE t # s
    <3>1. Taken(t) = 0
      BY <2>5 DEF Taken
    <3> QED
      BY <1>1, <1>4, <2>1, <2>3, <2>5, <3>1
  <2> QED
    BY <2>4, <2>5
<1> QED
  BY <1>2, <1>5, <1>6

LEMMA RestartTimely ==
  ASSUME Timely, IInv, TInv, RestartCall \/ RestartReturn
  PROVE  TInv'
<1> USE DEF IInv, TInv
<1>1. CASE RestartCall
  <2>1. /\ main.pc = "idle" /\ ~Waiting /\ MainRuns /\ held = {}
        /\ main' = [main EXCEPT !.pc = "NRB"] /\ main'.pc = "NRB"
        /\ ModemWrite("NRB", -1, NextFreePort)
        /\ UNCHANGED <<id, in_use, local_port, incoming_len, held, urc, urcq,
                       rx, wire, mport, mqueue, modemVars>>
    BY <1>1 DEF RestartCall, Waiting, TypeOK, ThreadTypes, slotVars,
       modemVars
  <2>2. mdm_sem = 1
    BY <2>1 DEF SemReleased, TypeOK, ThreadTypes
  <2>3. Request' = [name |-> "NRB", id |-> -1, port |-> NextFreePort]
    BY <2>1 DEF Request
  <2>4. Exchange' /\ Queues' /\ Notifications'
    BY <2>1, <2>2, <2>3, CallStarts
  <2>5. Tables' /\ NoneLost'
    BY <2>1 DEF Tables, Closing, NoneLost, Owned, IsOpen
  <2>6. Announced'
    BY <2>1 DEF Announced
  <2> QED
    BY <2>4, <2>5, <2>6
<1>2. CASE RestartReturn
  <2>1. /\ main.pc = "NRB" /\ Waiting /\ DecodeInput /\ held = {}
        /\ main' = [main EXCEPT !.pc = "idle"] /\ main'.pc = "idle"
        /\ UNCHANGED <<id, in_use, local_port, incoming_len, held, urc, urcq,
                       wire, cmds, mport, mqueue, modemVars>>
    BY <1>2 DEF RestartReturn, Waiting, TypeOK, ThreadTypes, slotVars,
       modemVars, Tables
  <2>2. Exchange' /\ Queues' /\ Notifications'
    BY <2>1, CallEnds
  <2>3. Tables' /\ NoneLost'
    BY <2>1 DEF Tables, Closing, NoneLost, Owned, IsOpen
  <2>4. Announced'
    BY <2>1 DEF Announced
  <2> QED
    BY <2>2, <2>3, <2>4
<1> QED
  BY <1>1, <1>2

\* A command and its answer take turns, so a queue of commands that is not
\* empty means that nothing has been answered.
LEMMA AnsweredWhenRead ==
  ASSUME Exchange, Waiting
  PROVE  IF cmds = <<>> THEN Answered /\ ReplyFits ELSE Asked
BY DEF Exchange, Answered, Asked

LEMMA LineStepTimely ==
  ASSUME LineTypes, LineTypes', LineStep, Exchange, NoneLost,
         UNCHANGED <<main, id, held, next_free_port, mport>>
  PROVE  Exchange' /\ NoneLost'
<1>1. /\ Quiet => Quiet'
      /\ Asked /\ Request' = Request => Asked'
      /\ Answered => Answered' /\ TheReply' = TheReply
  BY LineStepKeeps
<1>2. Request' = Request
  BY DEF Request
<1>3. Answered => (ReplyFits => ReplyFits')
  BY <1>1 DEF ReplyFits, IsOpen
<1>4. Exchange'
  BY <1>1, <1>2, <1>3 DEF Exchange, Waiting, IsOpen
<1>5. cmds' = cmds
  BY DEF LineStep
<1>6. main.pc = "NSOCR" /\ cmds = <<>> => TheReply' = TheReply
  BY <1>1, AnsweredWhenRead DEF Waiting
<1>7. NoneLost'
  BY <1>5, <1>6 DEF NoneLost, Owned, IsOpen
<1> QED
  BY <1>4, <1>7

LEMMA ItemOfLine ==
  ASSUME LineTypes, wire # <<>>
  PROVE  /\ Head(wire) = wire[1] /\ 1 \in DOMAIN wire
         /\ Head(wire).type = "urc" => /\ Head(wire).id \in ModemIds
                                       /\ Head(wire) = NSONMI(Head(wire).id)
         /\ Head(wire).type = "reply" => \A k : Head(wire) # NSONMI(k)
<1>1. wire \in Seq(Reply \cup Urc)
  BY DEF LineTypes
<1>2. Head(wire) = wire[1] /\ 1 \in DOMAIN wire
      /\ Head(wire) \in Reply \cup Urc
  BY <1>1, HeadTailProperties
<1>3. \A u \in Urc : u.type = "urc" /\ u.id \in ModemIds /\ u = NSONMI(u.id)
  BY DEF Urc, NSONMI
<1>4. \A r \in Reply : r.type = "reply"
  BY DEF Reply
<1>5. \A k : NSONMI(k).type = "urc"
  BY DEF NSONMI
<1> QED
  BY <1>2, <1>3, <1>4, <1>5

\* The reader and the URC thread hand a notification on; none is counted
\* twice, none is dropped.
LEMMA PendingInput ==
  ASSUME TypeOK, HandleInput, NEW k
  PROVE  Pending(k)' = Pending(k)
<1>1. wire # <<>> /\ wire' = Tail(wire) /\ urc' = urc
  BY DEF HandleInput
<1>2. wire \in Seq(LineItem) /\ urcq \in Seq(ModemIds)
  BY DEF TypeOK, LineTypes, LineItem
<1>3. CountOf(wire, NSONMI(k)) = CountOf(wire', NSONMI(k))
                                 + (IF Head(wire) = NSONMI(k) THEN 1 ELSE 0)
  BY <1>1, <1>2, CountTail
<1>4. InCallback(k)' = InCallback(k)
  BY <1>1 DEF InCallback
<1>5. /\ CountOf(wire', NSONMI(k)) \in Nat /\ CountOf(urcq, k) \in Nat
      /\ InCallback(k) \in Nat
  BY <1>1, <1>2, CountType, HeadTail DEF InCallback
<1>6. CASE Head(wire).type = "reply"
  <2>1. Head(wire) # NSONMI(k)
    BY <1>1, <1>6, ItemOfLine DEF TypeOK
  <2>2. urcq' = urcq
    BY <1>6 DEF HandleInput
  <2>3. CountOf(urcq', k) = CountOf(urcq, k)
    BY <2>2
  <2> QED
    BY <1>3, <1>4, <1>5, <2>1, <2>3 DEF Pending
<1>7. CASE Head(wire).type = "urc"
  <2> DEFINE x == Head(wire).id
  <2>1. x \in ModemIds /\ Head(wire) = NSONMI(x)
    BY <1>1, <1>7, ItemOfLine DEF TypeOK
  <2>2. urcq' = Append(urcq, x)
    BY <1>7 DEF HandleInput
  <2>3. Head(wire) = NSONMI(k) <=> x = k
    BY <2>1 DEF NSONMI
  <2> HIDE DEF x
  <2>4. CountOf(urcq', k) = CountOf(urcq, k) + (IF x = k THEN 1 ELSE 0)
    BY <1>2, <2>1, <2>2, CountAppend
  <2> QED
    BY <1>3, <1>4, <1>5, <2>3, <2>4 DEF Pending
<1> QED
  BY <1>6, <1>7 DEF HandleInput

LEMMA HandleInputTimely ==
  ASSUME IInv, IInv', TInv, HandleInput
  PROVE  TInv'
<1> USE DEF IInv, TInv
<1>1. /\ wire # <<>> /\ wire' = Tail(wire)
      /\ UNCHANGED <<id, in_use, local_port, incoming_len, next_free_port,
                     held, main, urc, cmds, mport, mqueue>>
      /\ \/ Head(wire).type = "reply" /\ urcq' = urcq
         \/ Head(wire).type = "urc" /\ urcq' = Append(urcq, Head(wire).id)
  BY DEF HandleInput, slotVars, modemVars
<1>2. LineStep
  BY DEF HandleInput, LineStep
<1>3. Exchange' /\ NoneLost'
  BY <1>1, <1>2, LineStepTimely DEF TypeOK
<1>4. Tables' /\ Queues'
  BY <1>1 DEF Tables, Closing, Queues, IsOpen
<1>5. Notifications'
  <2>1. \A k : MayNotify(k)' <=> MayNotify(k)
    BY <1>1 DEF MayNotify, IsOpen
  <2>2. /\ \A i \in DOMAIN wire' : i + 1 \in DOMAIN wire
                                   /\ wire'[i] = wire[i + 1]
        /\ \A j \in DOMAIN wire : j > 1 => j - 1 \in DOMAIN wire'
                                           /\ wire'[j - 1] = wire[j]
        /\ DOMAIN wire \subseteq Nat /\ DOMAIN wire' \subseteq Nat \ {0}
    BY <1>1, HeadTailProperties DEF TypeOK, LineTypes
  <2>3. ASSUME NEW i \in DOMAIN wire', wire'[i].type = "urc"
        PROVE  \/ IsOpen(wire'[i].id)
               \/ /\ main.pc = "NSOCL" /\ wire'[i].id = id[main.slot]
                  /\ \E j \in DOMAIN wire' : i < j
                                             /\ wire'[j].type = "reply"
    <3>1. i + 1 \in DOMAIN wire /\ wire'[i] = wire[i + 1]
      BY <2>2
    <3>2. CASE IsOpen(wire[i + 1].id)
      BY <3>1, <3>2
    <3>3. CASE /\ main.pc = "NSOCL" /\ wire[i + 1].id = id[main.slot]
               /\ \E j \in DOMAIN wire : i + 1 < j
                                         /\ wire[j].type = "reply"
      <4>1. PICK j \in DOMAIN wire : i + 1 < j /\ wire[j].type = "reply"
        BY <3>3
      <4>2. /\ j - 1 \in DOMAIN wire' /\ wire'[j - 1].type = "reply"
            /\ i < j - 1
        BY <2>2, <4>1
      <4> QED
        BY <3>1, <3>3, <4>2
    <3> QED
      BY <2>3, <3>1, <3>2, <3>3 DEF Notifications
  <2>4. Head(wire).type = "urc" => MayNotify(Head(wire).id)
    BY <1>1, ItemOfLine DEF TypeOK, Notifications, MayNotify
  <2>5. \A i \in DOMAIN urcq' : MayNotify(urcq'[i])
    <3>1. CASE Head(wire).type = "reply"
      BY <1>1, <3>1 DEF Notifications
    <3>2. CASE Head(wire).type = "urc"
      <4>1. Head(wire).id \in ModemIds /\ urcq' = Append(urcq, Head(wire).id)
        BY <1>1, <3>2, ItemOfLine DEF TypeOK
      <4>2. ASSUME NEW i \in DOMAIN urcq'
            PROVE  urcq'[i] = Head(wire).id \/ (i \in DOMAIN urcq
                                                /\ urcq'[i] = urcq[i])
        BY <4>1, AppendProperties DEF TypeOK, LineTypes
      <4> QED
        BY <2>4, <3>2, <4>2 DEF Notifications
    <3> QED
      BY <1>1, <3>1, <3>2
  <2>6. /\ \A i \in DOMAIN urcq' : MayNotify(urcq[i])'
        /\ urc'.pc = "callback" => urc'.fd \in ModemIds /\ MayNotify(urc.fd)'
    BY <1>1, <2>5 DEF Notifications, MayNotify, IsOpen
  <2> QED
    BY <1>1, <2>3, <2>6 DEF Notifications, IsOpen
<1>6. \A t : Taken(t)' = Taken(t)
  BY <1>1 DEF Taken
<1>7. \A k : Pending(k)' = Pending(k)
  BY PendingInput
<1>8. Announced'
  BY <1>1, <1>6, <1>7 DEF Announced, IsOpen
<1> QED
  BY <1>3, <1>4, <1>5, <1>8

LEMMA UrcParseTimely ==
  ASSUME IInv, TInv, UrcParse
  PROVE  TInv'
<1> USE DEF IInv, TInv
<1>1. /\ urc.pc = "read" /\ urcq # <<>> /\ urcq' = Tail(urcq)
      /\ urc' = [pc |-> "callback", fd |-> Head(urcq)]
      /\ UNCHANGED <<id, in_use, local_port, incoming_len, next_free_port,
                     held, main, rx, wire, cmds, mport, mqueue>>
  BY DEF UrcParse, slotVars, modemVars
<1>2. urcq \in Seq(ModemIds)
  BY DEF TypeOK, LineTypes
<1>3. /\ Head(urcq) = urcq[1] /\ 1 \in DOMAIN urcq /\ Head(urcq) \in ModemIds
      /\ \A i \in DOMAIN urcq' : i + 1 \in DOMAIN urcq
                                 /\ urcq'[i] = urcq[i + 1]
  BY <1>1, <1>2, HeadTailProperties
<1>4. Exchange' /\ Tables' /\ NoneLost' /\ Queues'
  BY <1>1 DEF Exchange, Waiting, Quiet, Asked, Request, Answered, ReplyFits,
     TheReply, Tables, Closing, NoneLost, Owned, Queues, IsOpen
<1>5. Notifications'
  BY <1>1, <1>3 DEF Notifications, MayNotify, IsOpen
<1>6. ASSUME NEW k PROVE Pending(k)' = Pending(k)
  <2>1. CountOf(urcq, k) = CountOf(urcq', k)
                           + (IF Head(urcq) = k THEN 1 ELSE 0)
    BY <1>1, <1>2, CountTail
  <2>2. CountOf(urcq', k) \in Nat /\ CountOf(wire, NSONMI(k)) \in Nat
    BY <1>1, <1>2, CountType, HeadTail DEF TypeOK, LineTypes
  <2>3. /\ InCallback(k) = 0
        /\ InCallback(k)' = IF Head(urcq) = k THEN 1 ELSE 0
    BY <1>1 DEF InCallback
  <2>4. Pending(k) = CountOf(wire, NSONMI(k)) + CountOf(urcq, k)
                     + InCallback(k)
    BY DEF Pending
  <2>5. Pending(k)' = CountOf(wire, NSONMI(k)) + CountOf(urcq', k)
                      + InCallback(k)'
    BY <1>1 DEF Pending
  <2> QED
    BY <2>1, <2>2, <2>3, <2>4, <2>5
<1>7. \A t : Taken(t)' = Taken(t)
  BY <1>1 DEF Taken
<1>8. Announced'
  BY <1>1, <1>6, <1>7 DEF Announced, IsOpen
<1> QED
  BY <1>4, <1>5, <1>8

\* The only descriptor credited is the one whose modem socket was named, and
\* a notification of a socket that was closed credits no slot.
LEMMA ReceiveCbTimely ==
  ASSUME IInv, TInv, ReceiveCb
  PROVE  TInv'
<1> USE DEF IInv, TInv
<1>1. /\ urc.pc = "callback" /\ mdm_sem = 1
      /\ incoming_len' = [s \in Slots |-> incoming_len[s] +
                                        (IF id[s] = urc.fd THEN 1 ELSE 0)]
      /\ urc' = [pc |-> "read", fd |-> -1]
      /\ UNCHANGED <<id, in_use, local_port, next_free_port, held, main,
                     urcq, rx, wire, cmds, mport, mqueue>>
  BY DEF ReceiveCb, modemVars
<1>2. main.pc \notin {"NSOCR", "NSOCL", "NSORF", "NSOST"}
  BY <1>1 DEF SemReleased
<1>3. urc.fd \in ModemIds /\ urc.fd # -1
  BY <1>1, SocketAssumption DEF Notifications
<1>4. Exchange' /\ NoneLost' /\ Queues'
  BY <1>1 DEF Exchange, Waiting, Quiet, Asked, Request, Answered, ReplyFits,
     TheReply, NoneLost, Owned, Queues, IsOpen
<1>5. Tables'
  <2>1. \A s \in Slots : ~in_use'[s] => id'[s] = -1 /\ incoming_len'[s] = 0
    BY <1>1, <1>3 DEF Tables
  <2> QED
    BY <1>1, <2>1 DEF Tables, Closing, IsOpen
<1>6. Notifications'
  BY <1>1 DEF Notifications, MayNotify, IsOpen
<1>7. ASSUME NEW s \in held
      PROVE  incoming_len'[s] + (Pending(id[s]))'
               = incoming_len[s] + Pending(id[s])
  <2>1. s \in Slots /\ incoming_len[s] \in Nat
    BY DEF TypeOK, SlotTypes
  <2>2. incoming_len'[s] = incoming_len[s] + InCallback(id[s])
    BY <1>1, <2>1 DEF InCallback
  <2>3. (Pending(id[s]))' = CountOf(wire, NSONMI(id[s]))
                            + CountOf(urcq, id[s]) + 0
    BY <1>1 DEF Pending, InCallback
  <2>4. Pending(id[s]) = CountOf(wire, NSONMI(id[s])) + CountOf(urcq, id[s])
                         + InCallback(id[s])
    BY DEF Pending
  <2>5. /\ CountOf(wire, NSONMI(id[s])) \in Nat
        /\ CountOf(urcq, id[s]) \in Nat
        /\ InCallback(id[s]) \in Nat
    BY CountType DEF TypeOK, LineTypes, InCallback
  <2> QED
    BY <2>1, <2>2, <2>3, <2>4, <2>5
<1>8. \A t : Taken(t)' = Taken(t)
  BY <1>1 DEF Taken
<1>9. Announced'
  BY <1>1, <1>2, <1>7, <1>8 DEF Announced
<1> QED
  BY <1>4, <1>5, <1>6, <1>9

LEMMA PendingReply ==
  ASSUME TypeOK, NEW r \in Reply, wire' = Append(wire, r),
         urcq' = urcq, urc' = urc, NEW k
  PROVE  Pending(k)' = Pending(k)
<1>1. r \in LineItem /\ r # NSONMI(k)
  BY DEF LineItem, Reply, NSONMI
<1>2. wire \in Seq(LineItem)
  BY DEF TypeOK, LineTypes, LineItem
<1>3. CountOf(wire', NSONMI(k)) = CountOf(wire, NSONMI(k)) + 0
  BY <1>1, <1>2, CountAppend
<1>4. CountOf(wire, NSONMI(k)) \in Nat
  BY <1>2, CountType
<1>5. CountOf(wire', NSONMI(k)) = CountOf(wire, NSONMI(k))
  BY <1>3, <1>4
<1> QED
  BY <1>5 DEF Pending, InCallback

\* An answer joins the line behind every notification sent before it.
LEMMA AnswerBehind ==
  ASSUME LineTypes, NEW r \in Reply, wire' = Append(wire, r)
  PROVE  /\ \A i \in DOMAIN wire' : wire'[i].type = "urc" =>
              i \in DOMAIN wire /\ wire'[i] = wire[i]
         /\ \E j \in DOMAIN wire' : /\ wire'[j].type = "reply"
                                    /\ \A i \in DOMAIN wire : i < j
<1>1. r \in LineItem /\ r.type = "reply"
  BY DEF LineItem, Reply
<1>2. wire \in Seq(LineItem)
  BY DEF LineTypes, LineItem
<1>3. /\ DOMAIN wire' = 1 .. Len(wire) + 1
      /\ DOMAIN wire = 1 .. Len(wire) /\ Len(wire) \in Nat
      /\ wire'[Len(wire) + 1] = r
      /\ \A i \in 1 .. Len(wire) : wire'[i] = wire[i]
  BY <1>1, <1>2, AppendProperties
<1> QED
  BY <1>1, <1>3

\* A closed socket that no close() has just left behind has no notification
\* anywhere between the modem and its callback.
LEMMA NothingPending ==
  ASSUME TypeOK, Notifications, NEW k \in ModemIds, ~IsOpen(k),
         main.pc # "NSOCL", main.pc # "idle"
  PROVE  Pending(k) = 0
<1>1. \A i \in DOMAIN wire : wire[i] # NSONMI(k)
  BY DEF Notifications, NSONMI
<1>2. \A i \in DOMAIN urcq : urcq[i] # k
  BY DEF Notifications, MayNotify
<1>3. InCallback(k) = 0
  BY DEF InCallback, Notifications, MayNotify
<1> QED
  BY <1>1, <1>2, <1>3, CountNone DEF Pending

\* socket() at the modem: the number handed out is one no descriptor has,
\* and nothing said of its former socket is under way.
LEMMA ModemNSOCRTimely ==
  ASSUME Timely, IInv, TInv, ModemNSOCR
  PROVE  TInv'
<1> USE DEF IInv, TInv
<1>1. Executes("NSOCR")
  BY DEF ModemNSOCR
<1>2. /\ Waiting /\ Asked /\ main.pc = "NSOCR"
      /\ Head(cmds) = Request
      /\ cmds # <<>> /\ cmds' = <<>> /\ rx' = rx
      /\ UNCHANGED <<id, in_use, local_port, incoming_len, next_free_port,
                     held, main, urc, urcq, rx>>
      /\ mqueue' = mqueue
  BY <1>1, ExecutesAsked DEF slotVars, ModemNSOCR
<1>3. Head(cmds).port = next_free_port
  BY <1>2 DEF Request
<1>4. next_free_port # 0 /\ next_free_port \in Ports
  BY PortFacts DEF TypeOK, SlotTypes
<1>5. \A j \in ModemIds : IsOpen(j) => \E t \in held : id[t] = j
  BY <1>2 DEF NoneLost, Owned
<1>6. \A t : Taken(t)' = 0 /\ Taken(t) = 0
  BY <1>2 DEF Taken
<1>7. main'.pc = "NSOCR" /\ Waiting'
  BY <1>2 DEF Waiting
<1>8. CASE mport' = mport /\ Respond(FALSE, -2, <<>>, 0)
  <2>1. /\ Answered' /\ TheReply' \in Reply /\ ~TheReply'.ok
        /\ wire' = Append(wire, TheReply')
    BY <1>2, <1>8, RespondAnswers DEF TypeOK
  <2>2. Exchange'
    BY <1>7, <2>1 DEF Exchange, ReplyFits
  <2>3. Tables' /\ NoneLost' /\ Queues'
    BY <1>2, <1>5, <1>8 DEF Tables, Closing, NoneLost, Owned, Queues, IsOpen
  <2>4. Notifications'
    BY <1>2, <1>8, <2>1, AnswerBehind DEF Notifications, MayNotify, IsOpen,
       TypeOK
  <2>5. \A j : Pending(j)' = Pending(j)
    BY <1>2, <2>1, PendingReply
  <2>6. Announced'
    BY <1>2, <1>6, <1>8, <2>5 DEF Announced, IsOpen
  <2> QED
    BY <2>2, <2>3, <2>4, <2>6
<1>9. ASSUME NEW k \in ModemIds, mport[k] = 0,
             mport' = [mport EXCEPT ![k] = Head(cmds).port],
             Respond(TRUE, k, <<>>, 0)
      PROVE  TInv'
  <2>1. /\ Answered' /\ TheReply' \in Reply
        /\ TheReply'.ok /\ TheReply'.id = k
        /\ wire' = Append(wire, TheReply')
    <3>1. /\ Timely /\ LineTypes /\ ModemTypes /\ Asked
          /\ cmds' = <<>> /\ rx' = rx
          /\ TRUE \in BOOLEAN /\ 0 \in Nat /\ k \in ModemIds \cup {-2}
          /\ <<>> \in {<<>>} \cup {<<x>> : x \in Datagram}
          /\ Respond(TRUE, k, <<>>, 0)
      BY <1>2, <1>9 DEF TypeOK
    <3> QED
      BY <3>1, RespondAnswers
  <2>2. /\ mport'[k] = next_free_port
        /\ \A j \in ModemIds : j # k => mport'[j] = mport[j]
    BY <1>3, <1>9 DEF TypeOK, ModemTypes
  <2>3. \A j : IsOpen(j)' <=> IsOpen(j) \/ j = k
    BY <1>4, <1>9, <2>2 DEF IsOpen
  <2>4. ~IsOpen(k)
    BY <1>9 DEF IsOpen
  <2>5. \A t \in held : id[t] # k /\ id[t] \in ModemIds
    BY <2>4 DEF Tables, IsOpen
  <2>6. Exchange'
    <3>1. ReplyFits'
      BY <1>2, <1>7, <2>1, <2>2, <2>3, <2>5 DEF ReplyFits, IsOpen
    <3> QED
      BY <1>7, <2>1, <3>1 DEF Exchange
  <2>7. Tables'
    BY <1>2, <2>2, <2>3, <2>5 DEF Tables, Closing, IsOpen
  <2>8. NoneLost'
    BY <1>2, <1>5, <1>7, <2>1, <2>3 DEF NoneLost, Owned, IsOpen
  <2>9. Queues'
    BY <1>2, <1>9, <2>2, <2>3, <2>4 DEF Queues, IsOpen
  <2>10. Notifications'
    <3>1. \A i \in DOMAIN wire' : wire'[i].type = "urc" =>
            i \in DOMAIN wire /\ wire'[i] = wire[i]
      BY <2>1, AnswerBehind DEF TypeOK
    <3>2. \A i \in DOMAIN wire : wire[i].type = "urc" => IsOpen(wire[i].id)
      BY <1>2 DEF Notifications
    <3>3. \A i \in DOMAIN wire' : wire'[i].type = "urc"
                                    => IsOpen(wire[i].id)'
      BY <2>3, <3>1, <3>2 DEF IsOpen
    <3> QED
      BY <1>2, <2>3, <3>1, <3>2 DEF Notifications, MayNotify, IsOpen
  <2>11. Announced'
    <3>1. \A j : Pending(j)' = Pending(j)
      BY <1>2, <2>1, PendingReply
    <3>2. Pending(k) = 0
      BY <1>2, <2>4, NothingPending
    <3>3. Len(mqueue[k]) \in Nat
      BY DEF TypeOK, ModemTypes
    <3> QED
      BY <1>2, <1>6, <1>7, <2>3, <2>5, <3>1, <3>2, <3>3 DEF Announced, IsOpen
  <2> QED
    BY <2>6, <2>7, <2>8, <2>9, <2>10, <2>11
<1> QED
  BY <1>8, <1>9 DEF ModemNSOCR

LEMMA ModemNSOCLTimely ==
  ASSUME Timely, IInv, TInv, ModemNSOCL
  PROVE  TInv'
<1> USE DEF IInv, TInv
<1> DEFINE k == id[main.slot]
<1>1. Executes("NSOCL")
  BY DEF ModemNSOCL
<1>2. /\ Waiting /\ Asked /\ main.pc = "NSOCL" /\ IsOpen(k)
      /\ Head(cmds) = Request
      /\ cmds # <<>> /\ cmds' = <<>> /\ rx' = rx
      /\ UNCHANGED <<id, in_use, local_port, incoming_len, next_free_port,
                     held, main, urc, urcq, rx>>
  BY <1>1, ExecutesAsked DEF slotVars
<1>3. Head(cmds).id = k
  BY <1>2 DEF Request
<1>4. /\ mport' = [mport EXCEPT ![k] = 0]
      /\ mqueue' = [mqueue EXCEPT ![k] = <<>>]
      /\ Respond(TRUE, -2, <<>>, 0)
  BY <1>2, <1>3 DEF ModemNSOCL, Timely
<1>5. /\ Answered' /\ TheReply' \in Reply /\ TheReply'.ok
      /\ wire' = Append(wire, TheReply')
  BY <1>2, <1>4, RespondAnswers DEF TypeOK
<1>6. /\ k \in ModemIds /\ mport'[k] = 0 /\ mqueue'[k] = <<>>
      /\ \A j \in ModemIds : j # k => mport'[j] = mport[j]
                                      /\ mqueue'[j] = mqueue[j]
  BY <1>2, <1>4 DEF IsOpen, TypeOK, ModemTypes
<1>7. \A j : IsOpen(j)' <=> IsOpen(j) /\ j # k
  BY <1>6 DEF IsOpen
<1>8. /\ main.slot \in Slots /\ main.slot \notin held /\ held \subseteq Slots
      /\ Closing(main.slot)
  BY <1>2 DEF TypeOK, ThreadTypes, SlotTypes, PortsBelowNext, Closing
<1>9. \A t \in held : id[t] # k /\ IsOpen(id[t])
  BY <1>8 DEF Tables
<1>10. main'.pc = "NSOCL" /\ Waiting' /\ main' = main
  BY <1>2 DEF Waiting
<1>11. Exchange'
  <2>1. ~(IsOpen(id[main.slot])')
    BY <1>2, <1>6 DEF IsOpen
  <2>2. ReplyFits'
    BY <1>5, <1>10, <2>1 DEF ReplyFits
  <2> QED
    BY <1>5, <1>10, <2>2 DEF Exchange
<1>12. Tables'
  BY <1>2, <1>6, <1>7, <1>9 DEF Tables, Closing, IsOpen
<1>13. NoneLost'
  BY <1>2, <1>7, <1>10 DEF NoneLost, Owned, IsOpen
<1>14. Queues'
  <2>1. \A i \in DOMAIN <<>> : FALSE
    OBVIOUS
  <2> QED
    BY <1>6, <1>7, SocketAssumption DEF Queues, IsOpen
<1>15. Notifications'
  <2>1. /\ \A i \in DOMAIN wire' : wire'[i].type = "urc" =>
             i \in DOMAIN wire /\ wire'[i] = wire[i]
        /\ \E j \in DOMAIN wire' : /\ wire'[j].type = "reply"
                                   /\ \A i \in DOMAIN wire : i < j
    BY <1>5, AnswerBehind DEF TypeOK
  <2>2. \A i \in DOMAIN wire : wire[i].type = "urc" =>
          IsOpen(wire[i].id) \/ wire[i].id = k
    BY DEF Notifications
  <2>3. \A i \in DOMAIN wire' : wire'[i].type = "urc" =>
          \/ IsOpen(wire[i].id)'
          \/ /\ wire'[i].id = k
             /\ \E j \in DOMAIN wire' : i < j /\ wire'[j].type = "reply"
    BY <1>7, <2>1, <2>2 DEF IsOpen
  <2>4. \A j : MayNotify(j) => MayNotify(j)'
    BY <1>2, <1>7 DEF MayNotify
  <2>5. /\ \A i \in DOMAIN urcq' : MayNotify(urcq[i])'
        /\ urc'.pc = "callback" => urc'.fd \in ModemIds /\ MayNotify(urc.fd)'
    BY <1>2, <1>7 DEF Notifications, MayNotify, IsOpen
  <2> QED
    BY <1>2, <1>7, <2>1, <2>2, <2>5 DEF Notifications, IsOpen
<1>16. Announced'
  <2>1. \A t : Taken(t)' = 0 /\ Taken(t) = 0
    BY <1>2 DEF Taken
  <2>2. \A j : Pending(j)' = Pending(j)
    BY <1>2, <1>5, PendingReply
  <2>3. \A t \in held : mqueue'[id[t]] = mqueue[id[t]]
    BY <1>6, <1>9 DEF IsOpen
  <2> QED
    BY <1>2, <1>10, <2>1, <2>2, <2>3 DEF Announced
<1> QED
  BY <1>11, <1>12, <1>13, <1>14, <1>15, <1>16


\* recvfrom() asks only for a datagram that was announced, so the modem has
\* one to hand over.
LEMMA HandsOver ==
  ASSUME Timely, IInv, TInv, ModemNSORF
  PROVE  LET s == main.slot
             k == id[s]
         IN  /\ Waiting /\ main.pc = "NSORF" /\ s \in held
             /\ cmds # <<>> /\ cmds' = <<>>
             /\ UNCHANGED <<id, in_use, local_port, incoming_len,
                            next_free_port, held, main, urc, urcq, rx, mport>>
             /\ IsOpen(k) /\ k \in ModemIds /\ mqueue[k] \in Seq(Datagram)
             /\ mqueue[k] # <<>> /\ Head(mqueue[k]) \in Datagram
             /\ Answered' /\ TheReply' \in Reply
             /\ TheReply'.ok /\ TheReply'.data = <<Head(mqueue[k])>>
             /\ wire' = Append(wire, TheReply')
             /\ mqueue'[k] = Tail(mqueue[k])
             /\ \A j \in ModemIds : j # k => mqueue'[j] = mqueue[j]
<1> USE DEF IInv, TInv
<1> DEFINE s == main.slot
           k == id[s]
<1>1. Executes("NSORF")
  BY DEF ModemNSORF
<1>2. /\ Waiting /\ Asked /\ main.pc = "NSORF" /\ s \in held
      /\ Head(cmds) = Request
      /\ cmds # <<>> /\ cmds' = <<>> /\ rx' = rx
      /\ UNCHANGED <<id, in_use, local_port, incoming_len, next_free_port,
                     held, main, urc, urcq, rx>>
      /\ mport' = mport
  BY <1>1, ExecutesAsked DEF slotVars, ModemNSORF, Tables
<1>3. Head(cmds).id = k
  BY <1>2 DEF Request
<1>4. IsOpen(k) /\ k \in ModemIds /\ mqueue[k] \in Seq(Datagram)
  BY <1>2 DEF Tables, IsOpen, TypeOK, ModemTypes
<1>5. \A t : Taken(t) = 0
  BY <1>2 DEF Taken
<1>6. mqueue[k] # <<>>
  <2>1. incoming_len[s] + Pending(k) <= Len(mqueue[k]) + Taken(s)
    BY <1>2 DEF Announced
  <2>2. incoming_len[s] > 0 /\ incoming_len[s] \in Nat
    BY <1>2 DEF Announced, TypeOK, SlotTypes
  <2>3. Pending(k) \in Nat /\ Len(mqueue[k]) \in Nat
    BY <1>4, PendingType
  <2>4. Len(mqueue[k]) # 0
    BY <1>5, <2>1, <2>2, <2>3
  <2> QED
    BY <2>4
<1>7. /\ mqueue' = [mqueue EXCEPT ![k] = Tail(@)]
      /\ Respond(TRUE, k, <<Head(mqueue[k])>>, Len(mqueue[k]) - 1)
  BY <1>3, <1>4, <1>6 DEF ModemNSORF
<1>8. Head(mqueue[k]) \in Datagram /\ Len(mqueue[k]) - 1 \in Nat
  BY <1>4, <1>6, HeadTailProperties
<1>9. /\ Answered' /\ TheReply' \in Reply
      /\ TheReply'.ok /\ TheReply'.data = <<Head(mqueue[k])>>
      /\ wire' = Append(wire, TheReply')
  <2> DEFINE d == <<Head(mqueue[k])>>
             n == Len(mqueue[k]) - 1
  <2>1. /\ Timely /\ LineTypes /\ ModemTypes /\ Asked
        /\ cmds' = <<>> /\ rx' = rx
        /\ TRUE \in BOOLEAN /\ n \in Nat /\ k \in ModemIds \cup {-2}
        /\ d \in {<<>>} \cup {<<x>> : x \in Datagram}
        /\ Respond(TRUE, k, d, n)
    BY <1>2, <1>4, <1>7, <1>8 DEF TypeOK
  <2> HIDE DEF d, n
  <2>2. /\ Answered' /\ TheReply' \in Reply
        /\ TheReply'.ok /\ TheReply'.data = d
        /\ wire' = Append(wire, TheReply')
    BY <2>1, RespondAnswers
  <2> QED
    BY <2>2 DEF d
<1>10. /\ mqueue'[k] = Tail(mqueue[k])
       /\ \A j \in ModemIds : j # k => mqueue'[j] = mqueue[j]
  BY <1>4, <1>7 DEF TypeOK, ModemTypes
<1> QED
  BY <1>2, <1>4, <1>6, <1>8, <1>9, <1>10

LEMMA ModemNSORFTimely ==
  ASSUME Timely, IInv, TInv, ModemNSORF
  PROVE  TInv'
<1> USE DEF IInv, TInv
<1> DEFINE s == main.slot
           k == id[s]
<1>1. /\ Waiting /\ main.pc = "NSORF" /\ s \in held
      /\ cmds # <<>> /\ cmds' = <<>>
      /\ UNCHANGED <<id, in_use, local_port, incoming_len, next_free_port,
                     held, main, urc, urcq, rx, mport>>
  BY HandsOver
<1>2. /\ IsOpen(k) /\ k \in ModemIds /\ mqueue[k] \in Seq(Datagram)
      /\ mqueue[k] # <<>>
      /\ mqueue'[k] = Tail(mqueue[k])
      /\ \A j \in ModemIds : j # k => mqueue'[j] = mqueue[j]
  BY HandsOver
<1>3. /\ Answered' /\ TheReply' \in Reply
      /\ TheReply'.ok /\ TheReply'.data = <<Head(mqueue[k])>>
      /\ wire' = Append(wire, TheReply')
  BY HandsOver
<1>4. \A t : Taken(t) = 0
  BY <1>1 DEF Taken
<1>5. Exchange'
  <2>1. ReplyFits'
    BY <1>1, <1>3 DEF ReplyFits
  <2> QED
    BY <1>1, <1>3, <2>1 DEF Exchange, Waiting
<1>6. Tables' /\ NoneLost'
  BY <1>1 DEF Tables, Closing, NoneLost, Owned, IsOpen
<1>7. /\ Len(mqueue'[k]) = Len(mqueue[k]) - 1
       /\ \A i \in DOMAIN mqueue'[k] : i + 1 \in DOMAIN mqueue[k]
                                       /\ mqueue'[k][i] = mqueue[k][i + 1]
  BY <1>2, HeadTailProperties
<1>8. Queues'
  <2>1. ASSUME NEW j \in ModemIds
        PROVE  /\ ~(IsOpen(j)') => mqueue'[j] = <<>>
               /\ Len(mqueue'[j]) <= MaxUnread
               /\ \A i \in DOMAIN mqueue'[j] : mqueue'[j][i].port = mport'[j]
    <3>1. CASE j = k
      <4>1. Len(mqueue[k]) <= MaxUnread /\ Len(mqueue[k]) \in Nat
        BY <1>2 DEF Queues
      <4>2. Len(mqueue'[k]) <= MaxUnread
        BY <1>7, <4>1, SocketAssumption
      <4> QED
        BY <1>1, <1>2, <1>7, <3>1, <4>2 DEF Queues, IsOpen
    <3>2. CASE j # k
      BY <1>1, <1>2, <3>2 DEF Queues, IsOpen
    <3> QED
      BY <3>1, <3>2
  <2> QED
    BY <2>1 DEF Queues
<1>9. Notifications'
  BY <1>1, <1>3, AnswerBehind DEF Notifications, MayNotify, IsOpen, TypeOK
<1>10. Announced'
  <2>1. \A j : Pending(j)' = Pending(j)
    BY <1>1, <1>3, PendingReply
  <2>2. \A t : Taken(t)' = IF t = s THEN 1 ELSE 0
    BY <1>1 DEF Taken
  <2>3. ASSUME NEW t \in held
        PROVE  incoming_len[t] + Pending(id[t])
                 <= Len(mqueue'[id[t]]) + Taken(t)'
    <3>1. incoming_len[t] + Pending(id[t]) <= Len(mqueue[id[t]]) + 0
      BY <1>4 DEF Announced
    <3>2. CASE t = s
      <4>1. Len(mqueue[k]) \in Nat
        BY <1>2
      <4> QED
        BY <1>7, <2>2, <3>1, <3>2, <4>1
    <3>3. CASE t # s
      <4>1. id[t] # k /\ id[t] \in ModemIds
        BY <1>1, <3>3 DEF Tables, IsOpen, TypeOK, SlotTypes
      <4> QED
        BY <1>2, <2>2, <3>1, <3>3, <4>1
    <3> QED
      BY <3>2, <3>3
  <2> QED
    BY <1>1, <2>1, <2>3 DEF Announced
<1> QED
  BY <1>5, <1>6, <1>8, <1>9, <1>10

LEMMA ModemNSOSTTimely ==
  ASSUME Timely, IInv, TInv, ModemNSOST
  PROVE  TInv'
<1> USE DEF IInv, TInv
<1>1. Executes("NSOST")
  BY DEF ModemNSOST
<1>2. /\ Waiting /\ Asked /\ main.pc = "NSOST"
      /\ Head(cmds) = Request
      /\ cmds # <<>> /\ cmds' = <<>> /\ rx' = rx
      /\ UNCHANGED <<id, in_use, local_port, incoming_len, next_free_port,
                     held, main, urc, urcq, rx>>
      /\ mport' = mport /\ mqueue' = mqueue
  BY <1>1, ExecutesAsked DEF slotVars, ModemNSOST
<1>3. /\ Answered' /\ TheReply' \in Reply
      /\ wire' = Append(wire, TheReply')
  <2>1. PICK ok \in BOOLEAN, k \in ModemIds \cup {-2} :
          Respond(ok, k, <<>>, 0)
    BY DEF ModemNSOST, IsOpen
  <2> QED
    BY <1>2, <2>1, RespondAnswers DEF TypeOK
<1>4. Exchange'
  BY <1>2, <1>3 DEF Exchange, Waiting, ReplyFits
<1>5. Tables' /\ NoneLost' /\ Queues'
  BY <1>2 DEF Tables, Closing, NoneLost, Owned, Queues, IsOpen
<1>6. Notifications'
  BY <1>2, <1>3, AnswerBehind DEF Notifications, MayNotify, IsOpen, TypeOK
<1>7. \A j : Pending(j)' = Pending(j)
  BY <1>2, <1>3, PendingReply
<1>8. \A t : Taken(t)' = 0 /\ Taken(t) = 0
  BY <1>2 DEF Taken
<1>9. Announced'
  BY <1>2, <1>7, <1>8 DEF Announced
<1> QED
  BY <1>4, <1>5, <1>6, <1>9

\* A restart finds no socket open, hence nothing to lose.
LEMMA ModemNRBTimely ==
  ASSUME Timely, IInv, TInv, ModemNRB
  PROVE  TInv'
<1> USE DEF IInv, TInv
<1>1. Executes("NRB")
  BY DEF ModemNRB
<1>2. /\ Waiting /\ Asked /\ main.pc = "NRB" /\ held = {}
      /\ Head(cmds) = Request
      /\ cmds # <<>> /\ cmds' = <<>> /\ rx' = rx
      /\ UNCHANGED <<id, in_use, local_port, incoming_len, next_free_port,
                     held, main, urc, urcq, rx>>
      /\ mport' = [j \in ModemIds |-> 0]
      /\ mqueue' = [j \in ModemIds |-> <<>>]
      /\ Respond(TRUE, -2, <<>>, 0)
  BY <1>1, ExecutesAsked DEF slotVars, ModemNRB, Tables
<1>3. /\ Answered' /\ TheReply' \in Reply
      /\ wire' = Append(wire, TheReply')
  BY <1>2, RespondAnswers DEF TypeOK
<1>4. \A j : ~IsOpen(j)
  BY <1>2 DEF NoneLost, Owned, IsOpen
<1>5. \A j : ~(IsOpen(j)')
  BY <1>2 DEF IsOpen
<1>6. Exchange'
  BY <1>2, <1>3 DEF Exchange, Waiting, ReplyFits
<1>7. Tables' /\ NoneLost'
  BY <1>2, <1>5 DEF Tables, Closing, NoneLost
<1>8. Queues'
  BY <1>2, SocketAssumption DEF Queues
<1>9. Notifications'
  BY <1>2, <1>3, <1>4, AnswerBehind DEF Notifications, MayNotify, TypeOK
<1>10. Announced'
  BY <1>2 DEF Announced
<1> QED
  BY <1>6, <1>7, <1>8, <1>9, <1>10

\* The modem announces every datagram it queues.
LEMMA DatagramTimely ==
  ASSUME IInv, IInv', TInv,
         NEW k \in ModemIds, NEW load \in Payloads, DatagramArrives(k, load)
  PROVE  TInv'
<1> USE DEF IInv, TInv
<1> DEFINE d == [port |-> mport[k], load |-> load]
<1>1. /\ IsOpen(k) /\ Len(mqueue[k]) < MaxUnread
      /\ mqueue' = [mqueue EXCEPT ![k] = Append(@, d)]
      /\ wire' = Append(wire, NSONMI(k))
      /\ UNCHANGED <<id, in_use, local_port, incoming_len, next_free_port,
                     held, main, urc, urcq, rx, cmds, mport>>
  BY DEF DatagramArrives, slotVars, NSONMI
<1>2. LineStep
  BY <1>1 DEF LineStep
<1>3. Exchange' /\ NoneLost'
  BY <1>1, <1>2, LineStepTimely DEF TypeOK
<1>4. Tables'
  BY <1>1 DEF Tables, Closing, IsOpen
<1>5. d \in Datagram /\ d.port = mport[k]
  BY <1>1 DEF IsOpen, TypeOK, ModemTypes, Datagram
<1> HIDE DEF d
<1>6. /\ mqueue'[k] = Append(mqueue[k], d)
      /\ \A j \in ModemIds : j # k => mqueue'[j] = mqueue[j]
      /\ mqueue[k] \in Seq(Datagram)
  BY <1>1 DEF TypeOK, ModemTypes
<1>7. /\ Len(mqueue'[k]) = Len(mqueue[k]) + 1 /\ Len(mqueue[k]) \in Nat
      /\ DOMAIN mqueue[k] = 1 .. Len(mqueue[k])
      /\ DOMAIN mqueue'[k] = 1 .. Len(mqueue[k]) + 1
      /\ mqueue'[k][Len(mqueue[k]) + 1] = d
      /\ \A i \in 1 .. Len(mqueue[k]) : mqueue'[k][i] = mqueue[k][i]
  BY <1>5, <1>6, AppendProperties
<1>8. Queues'
  <2>1. \A i \in DOMAIN mqueue'[k] : mqueue'[k][i].port = mport[k]
    BY <1>5, <1>7 DEF Queues
  <2>2. Len(mqueue'[k]) <= MaxUnread
    BY <1>1, <1>7, SocketAssumption
  <2> QED
    BY <1>1, <1>6, <2>1, <2>2 DEF Queues, IsOpen
<1>9. wire \in Seq(LineItem) /\ NSONMI(k) \in LineItem
  BY DEF TypeOK, LineTypes, LineItem, NSONMI, Urc
<1>10. /\ DOMAIN wire' = 1 .. Len(wire) + 1
       /\ DOMAIN wire = 1 .. Len(wire) /\ Len(wire) \in Nat
       /\ wire'[Len(wire) + 1] = NSONMI(k)
       /\ \A i \in 1 .. Len(wire) : wire'[i] = wire[i]
  BY <1>1, <1>9, AppendProperties
<1>11. Notifications'
  <2>1. wire'[Len(wire) + 1].id = k
    BY <1>10 DEF NSONMI
  <2>2. \A i \in DOMAIN wire' : wire'[i].type = "urc" =>
          \/ IsOpen(wire'[i].id)
          \/ /\ main.pc = "NSOCL" /\ wire'[i].id = id[main.slot]
             /\ \E j \in DOMAIN wire' : i < j /\ wire'[j].type = "reply"
    BY <1>1, <1>10, <2>1 DEF Notifications
  <2> QED
    BY <1>1, <2>2 DEF Notifications, MayNotify, IsOpen
<1>12. ASSUME NEW j
       PROVE  Pending(j)' = Pending(j) + (IF j = k THEN 1 ELSE 0)
  <2>1. NSONMI(k) = NSONMI(j) <=> j = k
    BY DEF NSONMI
  <2>2. CountOf(wire', NSONMI(j)) = CountOf(wire, NSONMI(j))
                                    + (IF NSONMI(k) = NSONMI(j) THEN 1 ELSE 0)
    BY <1>1, <1>9, CountAppend
  <2>3. /\ CountOf(wire, NSONMI(j)) \in Nat /\ CountOf(urcq, j) \in Nat
        /\ InCallback(j) \in Nat
    BY <1>9, CountType DEF InCallback, TypeOK, LineTypes
  <2>4. Pending(j)' = CountOf(wire', NSONMI(j)) + CountOf(urcq, j)
                      + InCallback(j)
    BY <1>1 DEF Pending, InCallback
  <2> QED
    BY <2>1, <2>2, <2>3, <2>4 DEF Pending
<1>13. ASSUME NEW j \in ModemIds
       PROVE  /\ Pending(j) \in Nat /\ Len(mqueue[j]) \in Nat
              /\ j = k => /\ Pending(j)' = Pending(j) + 1
                          /\ Len(mqueue'[j]) = Len(mqueue[j]) + 1
              /\ j # k => /\ Pending(j)' = Pending(j)
                          /\ Len(mqueue'[j]) = Len(mqueue[j])
  <2>1. Pending(j) \in Nat
    BY PendingType
  <2>2. Len(mqueue[j]) \in Nat
    BY DEF TypeOK, ModemTypes
  <2>3. Pending(j)' = Pending(j) + (IF j = k THEN 1 ELSE 0)
    BY <1>12
  <2>4. CASE j = k
    BY <1>7, <2>1, <2>2, <2>3, <2>4
  <2>5. CASE j # k
    <3>1. mqueue'[j] = mqueue[j]
      BY <1>6, <2>5
    <3> QED
      BY <2>1, <2>2, <2>3, <2>5, <3>1
  <2> QED
    BY <2>4, <2>5
<1>14. \A t : Taken(t)' = Taken(t) /\ Taken(t) \in Nat
  BY <1>1 DEF Taken
<1>15. Announced'
  <2>1. ASSUME NEW t \in held, NEW j \in ModemIds, j = id[t]
        PROVE  incoming_len[t] + Pending(j)' <= Len(mqueue'[j]) + Taken(t)
    <3>1. incoming_len[t] \in Nat
      BY DEF TypeOK, SlotTypes
    <3>2. incoming_len[t] + Pending(j) <= Len(mqueue[j]) + Taken(t)
      BY <2>1 DEF Announced
    <3>3. CASE j = k
      BY <1>13, <1>14, <3>1, <3>2, <3>3
    <3>4. CASE j # k
      BY <1>13, <3>2, <3>4
    <3> QED
      BY <3>3, <3>4
  <2>2. \A t \in held : id[t] \in ModemIds
    BY DEF Tables, IsOpen
  <2>3. \A t \in held : incoming_len[t] + Pending(id[t])'
                           <= Len(mqueue'[id[t]]) + Taken(t)
    BY <1>1, <2>1, <2>2
  <2>4. ASSUME NEW j \in ModemIds, Pending(j) <= Len(mqueue[j])
        PROVE  Pending(j)' <= Len(mqueue'[j])
    <3>1. CASE j = k
      BY <1>13, <2>4, <3>1
    <3>2. CASE j # k
      BY <1>13, <2>4, <3>2
    <3> QED
      BY <3>1, <3>2
  <2> QED
    BY <1>1, <1>14, <2>3, <2>4 DEF Announced, IsOpen
<1> QED
  BY <1>3, <1>4, <1>8, <1>11, <1>15

LEMMA StutterTimely ==
  ASSUME TInv, UNCHANGED vars
  PROVE  TInv'
<1> USE DEF vars, slotVars, modemVars
<1>1. TheReply' = TheReply /\ Request' = Request
  BY DEF TheReply, Request
<1>2. Exchange'
  BY <1>1 DEF TInv, Exchange, Waiting, Quiet, Asked, Answered, ReplyFits,
     IsOpen
<1>3. Tables' /\ NoneLost' /\ Queues'
  BY <1>1 DEF TInv, Tables, Closing, NoneLost, Owned, Queues, IsOpen
<1>4. Notifications'
  BY DEF TInv, Notifications, MayNotify, IsOpen
<1>5. Announced'
  BY PendingSame DEF TInv, Announced, Taken, IsOpen
<1> QED
  BY <1>2, <1>3, <1>4, <1>5 DEF TInv

\* The steps of the main thread but those that change nothing.
LEMMA MainSteps ==
  ASSUME Timely, MainNext
  PROVE  \/ UNCHANGED vars
         \/ SocketCall \/ SocketReturn \/ CloseReturn \/ RecvFromReturn
         \/ SendToReturn \/ RestartCall \/ RestartReturn
         \/ \E s \in Slots : \/ CloseCall(s) \/ Connect(s) \/ RecvFromCall(s)
                             \/ RecvWait(s) \/ SendToCall(s)
<1>1. \A s \in Slots : ~Drop(s)
  BY DEF Timely, Drop
<1> QED
  BY <1>1, EarlyReturnSame DEF MainNext, EarlyReturns

LEMMA NextTimely ==
  ASSUME Timely, IInv, TInv, [Next]_vars
  PROVE  TInv'
<1>1. IInv'
  BY NextInv
<1>2. CASE MainNext
  BY <1>2, MainSteps, StutterTimely, SocketCallTimely, SocketReturnTimely,
     CloseCallTimely, CloseReturnTimely, ConnectTimely, TransferCallTimely,
     SendToReturnTimely, RecvFromReturnTimely, RestartTimely
<1>3. CASE HandleInput \/ UrcNext
  BY <1>1, <1>3, HandleInputTimely, UrcParseTimely, ReceiveCbTimely
     DEF UrcNext
<1>4. CASE ModemNext
  BY <1>1, <1>4, ModemNSOCRTimely, ModemNSOCLTimely, ModemNSORFTimely,
     ModemNSOSTTimely, ModemNRBTimely, DatagramTimely DEF ModemNext
<1>5. CASE UNCHANGED vars
  BY <1>5, StutterTimely
<1> QED
  BY <1>2, <1>3, <1>4, <1>5 DEF Next

-----------------------------------------------------------------------------
\* While answers come in time and closes succeed, sockets[] and the modem's
\* table agree between calls: n2_offload.c neither loses nor invents one.
THEOREM TablesAgree == Timely => (Spec => []ModemAgreement)
<1> SUFFICES ASSUME Timely PROVE Spec => []ModemAgreement
  OBVIOUS
<1>1. Init => IInv /\ TInv
  BY InitInv, InitTimely
<1>2. IInv /\ TInv /\ [Next]_vars => (IInv /\ TInv)'
  BY NextInv, NextTimely
<1>3. IInv /\ TInv => ModemAgreement
  BY DEF IInv, TypeOK, SlotTypes, TInv, Tables, Closing, NoneLost, Owned,
     ModemAgreement
<1> QED
  BY <1>1, <1>2, <1>3, PTL DEF Spec

\* While answers come in time, what poll() announces is at the modem: a
\* notification is credited once, to the descriptor it was sent for.
THEOREM NothingPhantom == Timely => (Spec => []NoPhantomData)
<1> SUFFICES ASSUME Timely PROVE Spec => []NoPhantomData
  OBVIOUS
<1>1. Init => IInv /\ TInv
  BY InitInv, InitTimely
<1>2. IInv /\ TInv /\ [Next]_vars => (IInv /\ TInv)'
  BY NextInv, NextTimely
<1>3. IInv /\ TInv => NoPhantomData
  <2> SUFFICES ASSUME IInv, TInv, NEW s \in held, main.pc # "NSORF",
                      PollIn(s), mqueue[id[s]] = <<>>
               PROVE  FALSE
    BY DEF NoPhantomData
  <2>1. incoming_len[s] + Pending(id[s]) <= Len(mqueue[id[s]]) + Taken(s)
    BY DEF TInv, Announced
  <2>2. Taken(s) = 0 /\ Len(mqueue[id[s]]) = 0
    BY DEF Taken
  <2>3. Pending(id[s]) \in Nat
    BY PendingType DEF IInv
  <2>4. incoming_len[s] > 0 /\ incoming_len[s] \in Nat
    BY DEF PollIn, IInv, TypeOK, SlotTypes
  <2> QED
    BY <2>1, <2>2, <2>3, <2>4
<1> QED
  BY <1>1, <1>2, <1>3, PTL DEF Spec

-----------------------------------------------------------------------------
(* The refinement of UdpSockets, step by step. *)

\* The answer to AT+NSORF holds the datagram between the modem's queue and
\* the application.
LEMMA TransitNow ==
  TypeOK /\ Exchange =>
    \A s \in Slots :
      InTransit(s) = IF Taken(s) = 1 THEN TheReply.data ELSE <<>>
<1> SUFFICES ASSUME TypeOK, Exchange, NEW s \in Slots
             PROVE  InTransit(s) = IF Taken(s) = 1 THEN TheReply.data
                                                   ELSE <<>>
  OBVIOUS
<1>1. main = [pc |-> "NSORF", slot |-> s]
        <=> main.pc = "NSORF" /\ main.slot = s
  BY DEF TypeOK, ThreadTypes
<1>2. CASE main.pc = "NSORF" /\ main.slot = s
  <2>1. CASE cmds = <<>>
    <3>1. Answered
      BY <1>2, <2>1, AnsweredWhenRead DEF Waiting
    <3>2. wire \in Seq(LineItem)
      BY LineItems DEF TypeOK
    <3>3. UnderWay
      BY <3>1, <3>2, CarriesOldest DEF Answered, UnderWay
    <3> QED
      BY <1>1, <1>2, <2>1, <3>3 DEF InTransit, Taken, TheReply
  <2>2. CASE cmds # <<>>
    <3>1. Asked
      BY <1>2, <2>2, AnsweredWhenRead DEF Waiting
    <3>2. RepliesOn(wire) = {}
      BY <3>1 DEF Asked, Silent, RepliesOn
    <3>3. ~UnderWay
      BY <3>1, <3>2 DEF Asked, UnderWay
    <3> QED
      BY <2>2, <3>3 DEF InTransit, Taken
  <2> QED
    BY <2>1, <2>2
<1>3. CASE ~(main.pc = "NSORF" /\ main.slot = s)
  BY <1>1, <1>3 DEF InTransit, Taken
<1> QED
  BY <1>2, <1>3

InboxIs ==
  /\ boundPort = [s \in Slots |-> IF s \in held THEN local_port[s] ELSE 0]
  /\ inboxOf = [s \in Slots |->
                  IF s \notin held THEN <<>>
                  ELSE IF Taken(s) = 1 THEN TheReply.data \o mqueue[id[s]]
                  ELSE mqueue[id[s]]]

LEMMA InboxNow == TypeOK /\ Exchange /\ Tables => InboxIs
<1> SUFFICES ASSUME TypeOK, Exchange, Tables
             PROVE  inboxOf = [s \in Slots |->
                      IF s \notin held THEN <<>>
                      ELSE IF Taken(s) = 1 THEN TheReply.data \o mqueue[id[s]]
                      ELSE mqueue[id[s]]]
  BY DEF boundPort, InboxIs
<1>1. ASSUME NEW s \in held
      PROVE  InTransit(s) \o mqueue[id[s]]
               = IF Taken(s) = 1 THEN TheReply.data \o mqueue[id[s]]
                                 ELSE mqueue[id[s]]
  <2>1. s \in Slots /\ mqueue[id[s]] \in Seq(Datagram)
    BY DEF TypeOK, SlotTypes, ModemTypes, Tables, IsOpen
  <2>2. <<>> \o mqueue[id[s]] = mqueue[id[s]]
    BY <2>1, ConcatEmptySeq
  <2> QED
    BY <2>1, <2>2, TransitNow
<1>2. \A s \in Slots :
        (IF s \in held THEN InTransit(s) \o mqueue[id[s]] ELSE <<>>)
        = IF s \notin held THEN <<>>
          ELSE IF Taken(s) = 1 THEN TheReply.data \o mqueue[id[s]]
          ELSE mqueue[id[s]]
  BY <1>1
<1> QED
  BY <1>2 DEF inboxOf

\* The invariants hold before and after the step.
StepOK == Timely /\ IInv /\ TInv /\ IInv' /\ TInv' /\ [Next]_vars

LEMMA InboxStep == StepOK => InboxIs /\ InboxIs'
<1>1. (TypeOK /\ Exchange /\ Tables)' => InboxIs'
  BY InboxNow, PTL
<1> QED
  BY <1>1, InboxNow DEF StepOK, IInv, TInv

LEMMA AppendToConcat ==
  ASSUME NEW S, NEW s \in Seq(S), NEW t \in Seq(S), NEW e \in S
  PROVE  s \o Append(t, e) = Append(s \o t, e)
<1>1. /\ Append(t, e) = t \o <<e>>
      /\ Append(s \o t, e) = (s \o t) \o <<e>>
  BY AppendIsConcat, ConcatProperties
<1>2. <<e>> \in Seq(S)
  OBVIOUS
<1>3. (s \o t) \o <<e>> = s \o (t \o <<e>>)
  BY <1>2, ConcatAssociative
<1> QED
  BY <1>1, <1>3

\* A step that changes nothing of the held descriptors is a stutter.
LEMMA StutterStep ==
  ASSUME StepOK, held' = held,
         \A s \in held :
           /\ local_port'[s] = local_port[s] /\ id'[s] = id[s]
           /\ mqueue'[id[s]] = mqueue[id[s]]
           /\ Taken(s)' = Taken(s)
           /\ Taken(s) = 1 => TheReply' = TheReply
  PROVE  UNCHANGED Udp!absVars
<1>1. InboxIs /\ InboxIs'
  BY InboxStep
<1>2. boundPort' = boundPort
  BY <1>1 DEF InboxIs
<1>3. \A s \in Slots :
        (IF s \notin held' THEN <<>>
         ELSE IF Taken(s)' = 1 THEN TheReply'.data \o mqueue'[id'[s]]
         ELSE mqueue'[id'[s]])
        = (IF s \notin held THEN <<>>
           ELSE IF Taken(s) = 1 THEN TheReply.data \o mqueue[id[s]]
           ELSE mqueue[id[s]])
  OBVIOUS
<1>4. inboxOf' = inboxOf
  BY <1>1, <1>3 DEF InboxIs
<1> QED
  BY <1>2, <1>4 DEF Udp!absVars

\* socket(): a fresh port, and the datagrams that came before it returned.
LEMMA OpenStep ==
  ASSUME StepOK, SocketReturn, Answer.ok
  PROVE  Udp!Open(main.slot)
<1> USE DEF StepOK, IInv, TInv
<1> DEFINE s == main.slot
           k == TheReply.id
           q == mqueue[k]
           p == next_free_port
<1>1. /\ main.pc = "NSOCR" /\ Waiting /\ DecodeInput
      /\ s \in Slots /\ s \notin held /\ held \subseteq Slots
      /\ local_port[s] = p
      /\ main'.pc = "idle"
      /\ local_port' = local_port /\ mport' = mport /\ mqueue' = mqueue
      /\ UNCHANGED <<cmds, wire, urcq, urc, modemVars>>
  BY DEF SocketReturn, Return, Waiting, TypeOK, ThreadTypes, SlotTypes,
     PortsBelowNext, HeldPortsDistinct, modemVars
<1>2. Answer = TheReply /\ ReplyFits
  BY <1>1, CallEnds
<1>3. /\ id' = [id EXCEPT ![s] = k] /\ held' = held \cup {s}
      /\ IsOpen(k) /\ mport[k] = p /\ k \in ModemIds
  BY <1>1, <1>2 DEF SocketReturn, NsocrFd, ReplyFits, IsOpen
<1>4. id'[s] = k /\ \A t \in held : id'[t] = id[t]
  BY <1>1, <1>3 DEF TypeOK, SlotTypes
<1>5. \A t : Taken(t) # 1 /\ Taken(t)' # 1
  BY <1>1 DEF Taken
<1>6. InboxIs /\ InboxIs'
  BY InboxStep
<1>7. boundPort' = [boundPort EXCEPT ![s] = p]
  <2>1. \A t \in Slots : (IF t \in held' THEN local_port'[t] ELSE 0)
                         = IF t = s THEN p ELSE boundPort[t]
    BY <1>1, <1>3, <1>6 DEF InboxIs
  <2> QED
    BY <1>1, <1>6, <2>1 DEF InboxIs
<1>8. inboxOf' = [inboxOf EXCEPT ![s] = q]
  <2>1. \A t \in Slots :
          (IF t \notin held' THEN <<>>
           ELSE IF Taken(t)' = 1 THEN TheReply'.data \o mqueue'[id'[t]]
           ELSE mqueue'[id'[t]])
          = IF t = s THEN q ELSE inboxOf[t]
    BY <1>1, <1>3, <1>4, <1>5, <1>6 DEF InboxIs
  <2> QED
    BY <1>1, <1>6, <2>1 DEF InboxIs
<1>9. p \in Ports \ {boundPort[g] : g \in held}
  <2>1. p \in Ports /\ p \in Nat
    BY PortFacts DEF TypeOK, SlotTypes
  <2>2. ASSUME NEW g \in held PROVE boundPort[g] # p
    <3>1. boundPort[g] = local_port[g] /\ local_port[g] < p
      BY <1>1, <1>6 DEF InboxIs, PortsBelowNext, HeldPortsDistinct
    <3>2. local_port[g] \in Nat
      BY <1>1, PortFacts DEF TypeOK, SlotTypes
    <3> QED
      BY <2>1, <3>1, <3>2
  <2> QED
    BY <2>1, <2>2
<1> DEFINE n == Len(q)
           loads == [i \in 1 .. n |-> q[i].load]
<1>10. /\ q \in Seq(Datagram) /\ n \in 0 .. MaxUnread
       /\ \A i \in 1 .. n : q[i] \in Datagram /\ q[i].port = p
  <2>1. q \in Seq(Datagram)
    BY <1>3 DEF TypeOK, ModemTypes
  <2>2. n \in Nat /\ DOMAIN q = 1 .. n /\ n <= MaxUnread
    BY <1>3, <2>1, LenProperties DEF Queues
  <2>3. n \in 0 .. MaxUnread
    BY <2>2, SocketAssumption
  <2>4. \A i \in 1 .. n : q[i] \in Datagram
    BY <2>1, ElementOfSeq
  <2>5. \A i \in 1 .. n : q[i].port = p
    BY <1>3, <2>2 DEF Queues
  <2> QED
    BY <2>1, <2>3, <2>4, <2>5
<1>11. loads \in [1 .. n -> Payloads]
  BY <1>10 DEF Datagram
<1>12. q = [i \in 1 .. n |-> [port |-> p, load |-> loads[i]]]
  <2>1. \A i \in 1 .. n : q[i] = [port |-> p, load |-> q[i].load]
    BY <1>10 DEF Datagram
  <2>2. q = [i \in 1 .. n |-> q[i]]
    BY <1>10
  <2> QED
    BY <2>1, <2>2
<1> HIDE DEF q, p, n, loads
<1> QED
  BY <1>1, <1>3, <1>7, <1>8, <1>9, <1>10, <1>11, <1>12 DEF Udp!Open

LEMMA CloseStep ==
  ASSUME StepOK, NEW s \in Slots, CloseCall(s)
  PROVE  Udp!Close(s)
<1> USE DEF StepOK, IInv, TInv
<1>1. /\ s \in held /\ held' = held \ {s} /\ main.pc = "idle"
      /\ main'.pc = "NSOCL"
      /\ id' = id /\ local_port' = local_port /\ mqueue' = mqueue
  BY DEF CloseCall, Begin, slotVars, modemVars
<1>2. \A t : Taken(t) # 1 /\ Taken(t)' # 1
  BY <1>1 DEF Taken
<1>3. InboxIs /\ InboxIs'
  BY InboxStep
<1>4. boundPort' = [boundPort EXCEPT ![s] = 0]
  BY <1>1, <1>3 DEF InboxIs
<1>5. inboxOf' = [inboxOf EXCEPT ![s] = <<>>]
  <2>1. \A t \in Slots :
          (IF t \notin held' THEN <<>>
           ELSE IF Taken(t)' = 1 THEN TheReply'.data \o mqueue'[id'[t]]
           ELSE mqueue'[id'[t]])
          = IF t = s THEN <<>> ELSE inboxOf[t]
    BY <1>1, <1>2, <1>3 DEF InboxIs
  <2> QED
    BY <1>3, <2>1 DEF InboxIs
<1> QED
  BY <1>1, <1>4, <1>5 DEF Udp!Close

\* A datagram for a held descriptor joins the end of its inbox, behind the
\* one an answer may be carrying.
LEMMA DeliverStep ==
  ASSUME StepOK, NEW k \in ModemIds, NEW load \in Payloads,
         DatagramArrives(k, load), NEW s \in held, id[s] = k
  PROVE  Udp!Deliver(s)
<1> USE DEF StepOK, IInv, TInv
<1> DEFINE d == [port |-> mport[k], load |-> load]
<1>1. /\ mqueue' = [mqueue EXCEPT ![k] = Append(@, d)]
      /\ wire' = Append(wire, NSONMI(k)) /\ IsOpen(k)
      /\ UNCHANGED <<id, in_use, local_port, incoming_len, held, main, rx,
                     cmds, mport>>
  BY DEF DatagramArrives, slotVars, NSONMI
<1>2. LineStep
  BY <1>1 DEF LineStep
<1>3. ASSUME NEW t, Taken(t) = 1
      PROVE  /\ Answered /\ ReplyFits /\ TheReply' = TheReply
             /\ TheReply.data \in Seq(Datagram)
  <2>1. Answered /\ ReplyFits
    BY <1>3, AnsweredWhenRead DEF Taken, Waiting
  <2>2. TheReply' = TheReply
    BY <1>2, <2>1, LineStepKeeps DEF TypeOK
  <2>3. TheReply \in Reply
    BY <2>1 DEF Answered
  <2>4. TheReply.data \in {<<>>} \cup {<<x>> : x \in Datagram}
    BY <2>3 DEF Reply
  <2>5. TheReply.data \in Seq(Datagram)
    <3>1. CASE TheReply.data = <<>>
      BY <3>1
    <3>2. ASSUME NEW x \in Datagram, TheReply.data = <<x>>
          PROVE  TheReply.data \in Seq(Datagram)
      BY <3>2
    <3> QED
      BY <2>4, <3>1, <3>2
  <2> QED
    BY <2>1, <2>2, <2>5
<1>4. /\ s \in Slots /\ held \subseteq Slots
      /\ local_port[s] = mport[k]
      /\ \A t \in held : t # s => id[t] # k /\ id[t] \in ModemIds
  BY DEF TypeOK, SlotTypes, Tables, IsOpen
<1>5. /\ mqueue'[k] = Append(mqueue[k], d) /\ d \in Datagram
      /\ \A j \in ModemIds : j # k => mqueue'[j] = mqueue[j]
      /\ mqueue[k] \in Seq(Datagram)
  BY <1>1 DEF TypeOK, ModemTypes, IsOpen, Datagram
<1> HIDE DEF d
<1>6. InboxIs /\ InboxIs'
  BY InboxStep
<1>7. boundPort' = boundPort /\ boundPort[s] = mport[k]
  BY <1>1, <1>4, <1>6 DEF InboxIs
<1>8. \A t : Taken(t)' = Taken(t)
  BY <1>1 DEF Taken
<1>9. inboxOf'[s] = Append(inboxOf[s], d)
  <2>1. CASE Taken(s) = 1
    <3>1. /\ inboxOf'[s] = TheReply.data \o Append(mqueue[k], d)
          /\ inboxOf[s] = TheReply.data \o mqueue[k]
          /\ TheReply.data \in Seq(Datagram)
      BY <1>1, <1>3, <1>4, <1>5, <1>6, <1>8, <2>1 DEF InboxIs
    <3> DEFINE r == TheReply.data
               q == mqueue[k]
    <3>2. r \in Seq(Datagram) /\ q \in Seq(Datagram) /\ d \in Datagram
      BY <1>5, <3>1
    <3> HIDE DEF r, q
    <3>3. r \o Append(q, d) = Append(r \o q, d)
      BY <3>2, AppendToConcat
    <3> QED
      BY <3>1, <3>3 DEF r, q
  <2>2. CASE Taken(s) # 1
    BY <1>1, <1>4, <1>5, <1>6, <1>8, <2>2 DEF InboxIs
  <2> QED
    BY <2>1, <2>2
<1>10. \A t \in Slots : t # s => inboxOf'[t] = inboxOf[t]
  BY <1>1, <1>3, <1>4, <1>5, <1>6, <1>8 DEF InboxIs
<1>11. inboxOf' = [inboxOf EXCEPT ![s] = Append(@, d)]
  <2>1. inboxOf' = [t \in Slots |-> inboxOf'[t]]
        /\ inboxOf = [t \in Slots |-> inboxOf[t]]
    BY DEF inboxOf
  <2> HIDE DEF d
  <2> QED
    BY <1>4, <1>9, <1>10, <2>1
<1> QED
  BY <1>1, <1>7, <1>11 DEF Udp!Deliver, d

\* recvfrom() returns the oldest datagram of the inbox.
LEMMA ReceiveStep ==
  ASSUME StepOK, RecvFromReturn
  PROVE  Udp!Receive(main.slot)
<1> USE DEF StepOK, IInv, TInv
<1> DEFINE s == main.slot
           q == mqueue[id[s]]
<1>1. /\ main.pc = "NSORF" /\ Waiting /\ DecodeInput
      /\ s \in held /\ held \subseteq Slots
      /\ main'.pc = "idle"
      /\ UNCHANGED <<id, local_port, held, urc, urcq, wire, cmds, mqueue,
                     modemVars>>
  BY DEF RecvFromReturn, Return, Waiting, TypeOK, ThreadTypes, SlotTypes,
     modemVars, Tables
<1>2. Answered /\ ReplyFits /\ TheReply \in Reply
  BY <1>1, CallEnds
<1>3. PICK d \in Datagram : TheReply.data = <<d>>
  <2>1. TheReply.data \in {<<>>} \cup {<<x>> : x \in Datagram}
    BY <1>2 DEF Reply
  <2> QED
    BY <1>1, <1>2, <2>1 DEF ReplyFits
<1>4. q \in Seq(Datagram)
  BY <1>1 DEF Tables, IsOpen, TypeOK, ModemTypes
<1>5. Taken(s) = 1 /\ \A t : t # s => Taken(t) = 0
  BY <1>1, <1>2 DEF Taken, Answered
<1>6. \A t : Taken(t)' = 0
  BY <1>1 DEF Taken
<1>7. InboxIs /\ InboxIs'
  BY InboxStep
<1>8. inboxOf[s] = <<d>> \o q /\ inboxOf'[s] = q
  BY <1>1, <1>3, <1>5, <1>6, <1>7 DEF InboxIs
<1> HIDE DEF q
<1>9. inboxOf[s] # <<>> /\ inboxOf'[s] = Tail(inboxOf[s])
  BY <1>4, <1>8
<1>10. \A t \in Slots : t # s => inboxOf'[t] = inboxOf[t]
  BY <1>1, <1>5, <1>6, <1>7 DEF InboxIs
<1>11. inboxOf' = [inboxOf EXCEPT ![s] = Tail(@)]
  <2>1. inboxOf' = [t \in Slots |-> inboxOf'[t]]
        /\ inboxOf = [t \in Slots |-> inboxOf[t]]
    BY DEF inboxOf
  <2> QED
    BY <1>1, <1>9, <1>10, <2>1
<1>12. boundPort' = boundPort
  BY <1>1, <1>7 DEF InboxIs
<1> QED
  BY <1>1, <1>9, <1>11, <1>12 DEF Udp!Receive

\* Steps of the main thread other than those of the four lemmas above.
LEMMA OtherMainStep ==
  ASSUME StepOK,
         \/ SocketCall \/ (SocketReturn /\ ~Answer.ok)
         \/ CloseReturn \/ SendToReturn \/ RestartCall \/ RestartReturn
         \/ \E s \in Slots : Connect(s) \/ RecvFromCall(s) \/ RecvWait(s)
                             \/ SendToCall(s)
  PROVE  UNCHANGED Udp!absVars
<1> USE DEF StepOK, IInv, TInv
<1>1. held \subseteq Slots
  BY DEF TypeOK, SlotTypes
<1>2. CASE SocketCall
  <2>1. PICK s \in Slots :
          /\ ~in_use[s] /\ Begin("NSOCR", s)
          /\ local_port' = [local_port EXCEPT ![s] = next_free_port]
    BY <1>2 DEF SocketCall, FreeSlot
  <2>2. /\ main.pc = "idle" /\ main'.pc = "NSOCR"
        /\ UNCHANGED <<id, held, mqueue>>
    BY <1>2, <2>1 DEF SocketCall, Begin, modemVars
  <2>3. s \notin held
    BY <2>1, <2>2 DEF Tables
  <2>4. \A t \in held : local_port'[t] = local_port[t]
    BY <2>1, <2>3 DEF TypeOK, SlotTypes
  <2>5. \A t : Taken(t) = 0 /\ Taken(t)' = 0
    BY <2>2 DEF Taken
  <2> QED
    BY <2>2, <2>4, <2>5, StutterStep
<1>3. CASE CloseReturn
  <2>1. /\ main.pc = "NSOCL" /\ main'.pc = "idle"
        /\ main.slot \in Slots /\ main.slot \notin held
        /\ UNCHANGED <<held, mqueue>>
        /\ UNCHANGED slotVars \/ ClearSocket(main.slot)
    BY <1>3 DEF CloseReturn, Return, TypeOK, ThreadTypes, PortsBelowNext,
       modemVars
  <2>2. \A t \in held : id'[t] = id[t] /\ local_port'[t] = local_port[t]
    BY <1>1, <2>1 DEF ClearSocket, slotVars, TypeOK, SlotTypes
  <2>3. \A t : Taken(t) = 0 /\ Taken(t)' = 0
    BY <2>1 DEF Taken
  <2> QED
    BY <2>1, <2>2, <2>3, StutterStep
<1>4. CASE \/ (SocketReturn /\ ~Answer.ok) \/ SendToReturn
           \/ RestartCall \/ RestartReturn
  <2>1. /\ main.pc # "NSORF" /\ main'.pc # "NSORF"
        /\ UNCHANGED <<id, local_port, held, mqueue>>
    BY <1>4 DEF SocketReturn, SendToReturn, RestartCall, RestartReturn,
       Return, slotVars, modemVars, TypeOK, ThreadTypes
  <2>2. \A t : Taken(t) = 0 /\ Taken(t)' = 0
    BY <2>1 DEF Taken
  <2> QED
    BY <2>1, <2>2, StutterStep
<1>5. ASSUME NEW s \in Slots,
             Connect(s) \/ RecvFromCall(s) \/ RecvWait(s) \/ SendToCall(s)
      PROVE  UNCHANGED Udp!absVars
  <2>1. /\ main.pc \in {"idle", "recv"}
        /\ UNCHANGED <<id, local_port, held, mqueue>>
    BY <1>5 DEF Connect, RecvFromCall, RecvWait, SendToCall, slotVars,
       modemVars
  <2>2. \/ main'.pc \in {"idle", "recv"}
        \/ /\ ModemWrite(main'.pc, id[s], NextFreePort)
           /\ main.pc \in {"idle", "recv"}
    BY <1>5 DEF Connect, RecvFromCall, RecvWait, SendToCall, Begin, ModemId
  <2>3. main'.pc = "NSORF" => cmds' # <<>>
    <3>1. cmds = <<>>
      BY <2>1 DEF Exchange, Waiting, Quiet
    <3> SUFFICES ASSUME main'.pc = "NSORF" PROVE cmds' # <<>>
      OBVIOUS
    <3>2. cmds' = <<[name |-> main'.pc, id |-> id[s],
                     port |-> NextFreePort]>>
      BY <2>2, <3>1 DEF ModemWrite
    <3> QED
      BY <3>2
  <2>4. \A t : Taken(t) = 0 /\ Taken(t)' = 0
    BY <2>1, <2>3 DEF Taken
  <2> QED
    BY <2>1, <2>4, StutterStep
<1> QED
  BY <1>2, <1>3, <1>4, <1>5

LEMMA InputStep ==
  ASSUME StepOK, HandleInput \/ UrcParse \/ ReceiveCb
  PROVE  UNCHANGED Udp!absVars
<1> USE DEF StepOK, IInv, TInv
<1>1. UNCHANGED <<id, local_port, held, mqueue, main, cmds>>
  BY DEF HandleInput, UrcParse, ReceiveCb, slotVars, modemVars
<1>2. \A t : Taken(t)' = Taken(t)
  BY <1>1 DEF Taken
<1>3. ASSUME NEW t, Taken(t) = 1 PROVE TheReply' = TheReply
  <2>1. Answered
    BY <1>3, AnsweredWhenRead DEF Taken, Waiting
  <2>2. CASE HandleInput
    BY <2>1, <2>2, LineStepKeeps DEF HandleInput, LineStep, TypeOK
  <2>3. CASE UrcParse \/ ReceiveCb
    BY <2>3 DEF UrcParse, ReceiveCb, TheReply
  <2> QED
    BY <2>2, <2>3
<1> QED
  BY <1>1, <1>2, <1>3, StutterStep

\* The modem hands a datagram to its answer without losing its place.
LEMMA HandOverStep ==
  ASSUME StepOK, ModemNSORF
  PROVE  UNCHANGED Udp!absVars
<1> USE DEF StepOK, IInv, TInv
<1> DEFINE s == main.slot
           k == id[s]
<1>1. /\ main.pc = "NSORF" /\ s \in held /\ cmds # <<>> /\ cmds' = <<>>
      /\ UNCHANGED <<id, local_port, held, main>>
      /\ k \in ModemIds /\ mqueue[k] \in Seq(Datagram) /\ mqueue[k] # <<>>
      /\ TheReply'.data = <<Head(mqueue[k])>>
      /\ mqueue'[k] = Tail(mqueue[k])
      /\ \A j \in ModemIds : j # k => mqueue'[j] = mqueue[j]
  BY HandsOver
<1>2. \A t \in held : t # s => id[t] # k /\ id[t] \in ModemIds
  BY <1>1 DEF Tables, IsOpen, TypeOK, SlotTypes
<1>3. \A t : /\ Taken(t) = 0
             /\ t = s => Taken(t)' = 1
             /\ t # s => Taken(t)' = 0
  BY <1>1 DEF Taken
<1>4. InboxIs /\ InboxIs'
  BY InboxStep
<1>5. <<Head(mqueue[k])>> \o Tail(mqueue[k]) = mqueue[k]
  <2> DEFINE q == mqueue[k]
  <2> HIDE DEF q
  <2> SUFFICES <<Head(q)>> \o Tail(q) = q
    BY DEF q
  <2>1. q \in Seq(Datagram) /\ q # <<>>
    BY <1>1 DEF q
  <2> QED
    BY <2>1
<1>6. boundPort' = boundPort
  BY <1>1, <1>4 DEF InboxIs
<1>7. \A t \in Slots :
        (IF t \notin held' THEN <<>>
         ELSE IF Taken(t)' = 1 THEN TheReply'.data \o mqueue'[id'[t]]
         ELSE mqueue'[id'[t]])
        = (IF t \notin held THEN <<>>
           ELSE IF Taken(t) = 1 THEN TheReply.data \o mqueue[id[t]]
           ELSE mqueue[id[t]])
  <2> SUFFICES ASSUME NEW t \in held
               PROVE  (IF Taken(t)' = 1
                       THEN TheReply'.data \o mqueue'[id'[t]]
                       ELSE mqueue'[id'[t]])
                      = mqueue[id[t]]
    BY <1>1, <1>3
  <2>1. CASE t = s
    <3>1. /\ Taken(t)' = 1 /\ id'[t] = k /\ id[t] = k
          /\ TheReply'.data \o mqueue'[k] = mqueue[k]
      BY <1>1, <1>3, <1>5, <2>1
    <3> QED
      BY <3>1
  <2>2. CASE t # s
    <3>1. Taken(t)' # 1 /\ mqueue'[id'[t]] = mqueue[id[t]]
      BY <1>1, <1>2, <1>3, <2>2
    <3> QED
      BY <3>1
  <2> QED
    BY <2>1, <2>2
<1>8. inboxOf' = inboxOf
  BY <1>4, <1>7 DEF InboxIs
<1> QED
  BY <1>1, <1>6, <1>8 DEF Udp!absVars

\* The other commands, and datagrams for a socket no descriptor has yet.
LEMMA OtherModemStep ==
  ASSUME StepOK,
         \/ ModemNSOCR \/ ModemNSOCL \/ ModemNSOST \/ ModemNRB
         \/ \E k \in ModemIds, load \in Payloads :
              DatagramArrives(k, load) /\ \A s \in held : id[s] # k
  PROVE  UNCHANGED Udp!absVars
<1> USE DEF StepOK, IInv, TInv
<1>1. CASE ModemNSOCR \/ ModemNSOCL \/ ModemNSOST \/ ModemNRB
  <2>1. PICK name \in {"NSOCR", "NSOCL", "NSOST", "NRB"} :
          /\ Executes(name)
          /\ name = "NSOCL" => ModemNSOCL
          /\ name = "NRB" => ModemNRB
          /\ name \in {"NSOCR", "NSOST"} => mqueue' = mqueue
    BY <1>1 DEF ModemNSOCR, ModemNSOCL, ModemNSOST, ModemNRB
  <2>2. /\ main.pc = name /\ Head(cmds) = Request
        /\ UNCHANGED <<id, local_port, held, main>>
    BY <2>1, ExecutesAsked DEF slotVars
  <2>3. \A t : Taken(t) = 0 /\ Taken(t)' = 0
    BY <2>1, <2>2 DEF Taken
  <2>4. \A t \in held : mqueue'[id[t]] = mqueue[id[t]]
    <3>1. CASE name = "NSOCL"
      <4>1. Head(cmds).id = id[main.slot]
        BY <2>2, <3>1 DEF Request
      <4>2. \A j \in ModemIds : j # id[main.slot]
                                  => mqueue'[j] = mqueue[j]
        BY <2>1, <3>1, <4>1 DEF ModemNSOCL, TypeOK, ModemTypes
      <4>3. \A t \in held : id[t] # id[main.slot] /\ id[t] \in ModemIds
        BY <2>2, <3>1 DEF Tables, Closing, IsOpen, PortsBelowNext, TypeOK,
           SlotTypes, ThreadTypes
      <4> QED
        BY <4>2, <4>3
    <3>2. CASE name = "NRB"
      BY <2>2, <3>2 DEF Tables
    <3> QED
      BY <2>1, <3>1, <3>2
  <2> QED
    BY <2>2, <2>3, <2>4, StutterStep
<1>2. ASSUME NEW k \in ModemIds, NEW load \in Payloads,
             DatagramArrives(k, load), \A s \in held : id[s] # k
      PROVE  UNCHANGED Udp!absVars
  <2>1. /\ UNCHANGED <<id, local_port, held, main, cmds, rx>>
        /\ wire' = Append(wire, NSONMI(k))
        /\ mqueue' = [mqueue EXCEPT ![k] = Append(@, [port |-> mport[k],
                                                      load |-> load])]
    BY <1>2 DEF DatagramArrives, slotVars, NSONMI
  <2>2. \A t \in held : mqueue'[id[t]] = mqueue[id[t]]
    BY <1>2, <2>1 DEF Tables, IsOpen, TypeOK, ModemTypes
  <2>3. \A t : Taken(t)' = Taken(t)
    BY <2>1 DEF Taken
  <2>4. ASSUME NEW t, Taken(t) = 1 PROVE TheReply' = TheReply
    <3>1. Answered
      BY <2>4, AnsweredWhenRead DEF Taken, Waiting
    <3>2. LineStep
      BY <2>1 DEF LineStep
    <3> QED
      BY <3>1, <3>2, LineStepKeeps DEF TypeOK
  <2> QED
    BY <2>1, <2>2, <2>3, <2>4, StutterStep
<1> QED
  BY <1>1, <1>2

LEMMA UnchangedStep ==
  ASSUME StepOK, UNCHANGED vars
  PROVE  UNCHANGED Udp!absVars
<1>1. UNCHANGED <<id, local_port, held, mqueue, main, cmds, rx, wire>>
  BY DEF vars, slotVars, modemVars
<1>2. \A t : Taken(t)' = Taken(t)
  BY <1>1 DEF Taken
<1>3. TheReply' = TheReply
  BY <1>1 DEF TheReply
<1> QED
  BY <1>1, <1>2, <1>3, StutterStep

LEMMA RefinementStep == StepOK => [Udp!Next]_(Udp!absVars)
<1> SUFFICES ASSUME StepOK PROVE Udp!Next \/ UNCHANGED Udp!absVars
  OBVIOUS
<1>1. main.slot \in Slots /\ held \subseteq Slots
  BY DEF StepOK, IInv, TypeOK, ThreadTypes, SlotTypes
<1>2. CASE MainNext
  <2>1. CASE SocketReturn
    <3>1. CASE Answer.ok
      BY <1>1, <2>1, <3>1, OpenStep DEF Udp!Next
    <3>2. CASE ~Answer.ok
      BY <2>1, <3>2, OtherMainStep
    <3> QED
      BY <3>1, <3>2
  <2>2. CASE RecvFromReturn
    BY <1>1, <2>2, ReceiveStep DEF Udp!Next
  <2>3. CASE \/ SocketCall \/ CloseReturn \/ SendToReturn
             \/ RestartCall \/ RestartReturn
    BY <2>3, OtherMainStep
  <2>4. ASSUME NEW s \in Slots, CloseCall(s)
        PROVE  Udp!Next \/ UNCHANGED Udp!absVars
    BY <2>4, CloseStep DEF Udp!Next
  <2>5. ASSUME NEW s \in Slots,
               Connect(s) \/ RecvFromCall(s) \/ RecvWait(s) \/ SendToCall(s)
        PROVE  Udp!Next \/ UNCHANGED Udp!absVars
    BY <2>5, OtherMainStep
  <2>6. CASE UNCHANGED vars
    BY <2>6, UnchangedStep
  <2> QED
    BY <1>2, <2>1, <2>2, <2>3, <2>4, <2>5, <2>6, MainSteps DEF StepOK
<1>3. CASE HandleInput \/ UrcNext
  BY <1>3, InputStep DEF UrcNext
<1>4. CASE ModemNext
  <2>1. ASSUME NEW k \in ModemIds, NEW load \in Payloads,
               DatagramArrives(k, load)
        PROVE  Udp!Next \/ UNCHANGED Udp!absVars
    <3>1. CASE \E s \in held : id[s] = k
      BY <1>1, <2>1, <3>1, DeliverStep DEF Udp!Next
    <3>2. CASE \A s \in held : id[s] # k
      BY <2>1, <3>2, OtherModemStep
    <3> QED
      BY <3>1, <3>2
  <2> QED
    BY <1>4, <2>1, HandOverStep, OtherModemStep DEF ModemNext
<1>5. CASE UNCHANGED vars
  BY <1>5, UnchangedStep
<1> QED
  BY <1>2, <1>3, <1>4, <1>5 DEF StepOK, Next

\* While answers come in time, n2_offload.c, the AT commands and the modem
\* together keep the promise of the socket API: every descriptor is handed
\* the datagrams of its port, each once and in the order they came.
THEOREM SocketsImplementApi == Timely => (Spec => ImplementsUdpSockets)
<1> SUFFICES ASSUME Timely PROVE Spec => ImplementsUdpSockets
  OBVIOUS
<1>1. Init => IInv /\ TInv
  BY InitInv, InitTimely
<1>2. IInv /\ TInv /\ [Next]_vars => (IInv /\ TInv)'
  BY NextInv, NextTimely
<1>3. Init => Udp!Init
  BY DEF Init, Udp!Init, boundPort, inboxOf
<1>4. IInv /\ TInv /\ (IInv /\ TInv)' /\ [Next]_vars
        => [Udp!Next]_(Udp!absVars)
  BY RefinementStep DEF StepOK
<1> QED
  BY <1>1, <1>2, <1>3, <1>4, PTL DEF Spec, ImplementsUdpSockets, Udp!AbsSpec
=============================================================================
