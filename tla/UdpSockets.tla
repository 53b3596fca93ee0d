----------------------------- MODULE UdpSockets -----------------------------
(***************************************************************************)
(* What a caller of the socket API is promised: descriptors bound to       *)
(* distinct ports, each with an inbox of the datagrams sent to that port,  *)
(* handed out once and in order of arrival.                                *)
(***************************************************************************)
EXTENDS Naturals, Sequences

CONSTANTS Fds, Ports, Payloads, MaxUnread

Datagram == [port : Ports, load : Payloads]

VARIABLES open, bound, inbox

absVars == <<open, bound, inbox>>

Init ==
  /\ open = {}
  /\ bound = [f \in Fds |-> 0]
  /\ inbox = [f \in Fds |-> <<>>]

\* Datagrams may already be waiting when socket() returns.
Open(f) ==
  /\ f \notin open
  /\ open' = open \cup {f}
  /\ \E p \in Ports \ {bound[g] : g \in open},
        n \in 0 .. MaxUnread :
       /\ bound' = [bound EXCEPT ![f] = p]
       /\ \E loads \in [1 .. n -> Payloads] :
            inbox' = [inbox EXCEPT ![f] =
                        [i \in 1 .. n |-> [port |-> p, load |-> loads[i]]]]

Deliver(f) ==
  /\ f \in open
  /\ \E load \in Payloads :
       inbox' = [inbox EXCEPT ![f] = Append(@, [port |-> bound[f],
                                                load |-> load])]
  /\ UNCHANGED <<open, bound>>

Receive(f) ==
  /\ f \in open
  /\ inbox[f] # <<>>
  /\ inbox' = [inbox EXCEPT ![f] = Tail(@)]
  /\ UNCHANGED <<open, bound>>

Close(f) ==
  /\ f \in open
  /\ open' = open \ {f}
  /\ bound' = [bound EXCEPT ![f] = 0]
  /\ inbox' = [inbox EXCEPT ![f] = <<>>]

Next == \E f \in Fds : Open(f) \/ Deliver(f) \/ Receive(f) \/ Close(f)

AbsSpec == Init /\ [][Next]_absVars
=============================================================================
