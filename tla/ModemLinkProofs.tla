--------------------------- MODULE ModemLinkProofs ---------------------------
(***************************************************************************)
(* Theorems about ModemLink, for all sizes of the rings: the types, with   *)
(* the capacities of rings and semaphores, what the semaphores count, and  *)
(* that receive_cb() is called for the notifications in order.             *)
(* TypeOK /\ SemaphoresCount is inductive: a full ring and a semaphore at  *)
(* its limit refuse the same character.  CalledInOrder is not: OInv says   *)
(* what is under way between the modem and the URC thread's buffer.        *)
(***************************************************************************)
EXTENDS ModemLink, SequenceTheorems, TLAPS

IInv == TypeOK /\ SemaphoresCount

LEMMA Constants ==
  /\ RxSize \in Nat /\ UrcSize \in Nat /\ RxSize > 0 /\ UrcSize > 0
  /\ MaxSent \in Nat /\ MaxAsked \in Nat
BY ModemLinkAssumption

\* What the modem sends consists of characters.
LEMMA Lines ==
  /\ \A n \in 1 .. MaxSent : Notification(n) \in Seq(Characters)
  /\ Answers \subseteq Seq(Characters)
<1>1. \A n \in 0 .. MaxSent : Plus(n) \in Characters
  BY DEF Characters
<1>2. /\ Char("cr") \in Characters /\ Char("lf") \in Characters
      /\ Char("comma") \in Characters /\ Char("text") \in Characters
  BY DEF Characters
<1>3. ASSUME NEW n \in 0 .. MaxSent
      PROVE  Notification(n) \in Seq(Characters)
  BY <1>1, <1>2 DEF Notification
<1>4. 0 \in 0 .. MaxSent
  BY Constants
<1> QED
  BY <1>2, <1>3, <1>4 DEF Answers

\* A ring drops what it has no room for.
LEMMA PutFits ==
  ASSUME NEW S, NEW ring \in Seq(S), NEW size \in Nat, NEW c \in S,
         Len(ring) <= size
  PROVE  /\ Put(ring, size, c) \in Seq(S)
         /\ Len(Put(ring, size, c)) <= size
         /\ Len(Put(ring, size, c)) =
              IF Len(ring) < size THEN Len(ring) + 1 ELSE Len(ring)
BY DEF Put

\* Taking the first element.
LEMMA Taken ==
  ASSUME NEW S, NEW s \in Seq(S), s # <<>>
  PROVE  /\ Head(s) \in S /\ Tail(s) \in Seq(S)
         /\ Len(s) > 0 /\ Len(Tail(s)) = Len(s) - 1
OBVIOUS

LEMMA InitInv == Init => IInv
<1> SUFFICES ASSUME Init PROVE IInv
  OBVIOUS
<1>1. Char("lf") \in Characters
  BY DEF Characters
<1>2. /\ <<>> \in Seq(Characters) /\ <<>> \in Seq(0 .. MaxSent)
      /\ Len(<<>>) = 0
  OBVIOUS
<1>3. /\ 0 \in 0 .. RxSize /\ 0 \in 0 .. UrcSize /\ 0 \in 0 .. MaxAsked
      /\ 0 \in 0 .. MaxSent /\ Nobody \in Nobody .. MaxSent
      /\ 0 <= RxSize /\ 0 <= UrcSize
  BY Constants DEF Nobody
<1>4. TypeOK
  BY <1>1, <1>2, <1>3 DEF Init, TypeOK
<1>5. SemaphoresCount
  BY <1>2 DEF Init, SemaphoresCount
<1> QED
  BY <1>4, <1>5 DEF IInv

-----------------------------------------------------------------------------
(* The reader thread changes both rings. *)

LEMMA UrcCopied ==
  ASSUME IInv, NEW c \in Characters, NEW inside, CopyToUrc(c, inside)
  PROVE  /\ urc_rb' \in Seq(Characters) /\ Len(urc_rb') <= UrcSize
         /\ urc_sem' \in 0 .. UrcSize /\ urc_sem' >= Len(urc_rb')
<1>1. CASE inside
  <2>1. urc_rb' = Put(urc_rb, UrcSize, c) /\ urc_sem' = Give(urc_sem, UrcSize)
    BY <1>1 DEF CopyToUrc
  <2>2. /\ urc_rb' \in Seq(Characters) /\ Len(urc_rb') <= UrcSize
        /\ Len(urc_rb') = IF Len(urc_rb) < UrcSize
                          THEN Len(urc_rb) + 1 ELSE Len(urc_rb)
    <3>1. urc_rb \in Seq(Characters) /\ Len(urc_rb) <= UrcSize
      BY DEF IInv, TypeOK
    <3> QED
      BY <2>1, <3>1, PutFits, Constants
  <2>3. /\ urc_sem \in 0 .. UrcSize /\ urc_sem >= Len(urc_rb)
        /\ Len(urc_rb) \in Nat /\ Len(urc_rb) <= UrcSize
        /\ Len(urc_rb') \in Nat
    BY <2>2 DEF IInv, TypeOK, SemaphoresCount
  <2>4. urc_sem' = IF urc_sem < UrcSize THEN urc_sem + 1 ELSE urc_sem
    BY <2>1 DEF Give
  <2>5. urc_sem' \in 0 .. UrcSize /\ urc_sem' >= Len(urc_rb')
    BY <2>2, <2>3, <2>4, Constants
  <2> QED
    BY <2>2, <2>5
<1>2. CASE ~ inside
  BY <1>2 DEF CopyToUrc, urc, IInv, TypeOK, SemaphoresCount
<1> QED
  BY <1>1, <1>2

LEMMA Stored ==
  ASSUME IInv, NEW c \in Characters, Store(c), main' = main
  PROVE  /\ prev' \in Characters
         /\ rx_rb' \in Seq(Characters) /\ Len(rx_rb') <= RxSize
         /\ rx_sem' \in 0 .. RxSize
         /\ rx_sem' + (IF main' = "taken" THEN 1 ELSE 0) = Len(rx_rb')
<1>1. CASE Len(rx_rb) < RxSize /\ rx_rb' = Append(rx_rb, c)
           /\ rx_sem' = Give(rx_sem, RxSize) /\ prev' = c
  <2>1. rx_rb' \in Seq(Characters) /\ Len(rx_rb') = Len(rx_rb) + 1
    BY <1>1 DEF IInv, TypeOK
  <2>2. rx_sem <= Len(rx_rb) /\ rx_sem' = rx_sem + 1
    BY <1>1, Constants DEF IInv, TypeOK, SemaphoresCount, Give
  <2> QED
    BY <1>1, <2>1, <2>2, Constants DEF IInv, TypeOK, SemaphoresCount
<1>2. CASE UNCHANGED <<rx, prev>>
  BY <1>2 DEF rx, IInv, TypeOK, SemaphoresCount
<1> QED
  BY <1>1, <1>2 DEF Store

LEMMA ReaderStep == IInv /\ ReadFromRxFifo => IInv'
<1> SUFFICES ASSUME IInv, ReadFromRxFifo PROVE IInv'
  OBVIOUS
<1> DEFINE c == Head(wire)
<1>1. c \in Characters /\ wire' \in Seq(Characters)
  BY Taken DEF ReadFromRxFifo, IInv, TypeOK
<1> HIDE DEF c
<1>2. HandleChar(c) /\ UNCHANGED <<thread, main, modem>>
  BY DEF ReadFromRxFifo, c
<1>3. /\ CopyToUrc(c, in_urc \/ StartsUrc(c)) /\ Store(c)
      /\ in_urc' \in BOOLEAN /\ overrun' \in BOOLEAN
  BY <1>2 DEF HandleChar
<1>4. UNCHANGED <<buf, callback, called, main, due, asked, sent>>
  BY <1>2 DEF thread, modem
<1>5. /\ urc_rb' \in Seq(Characters) /\ Len(urc_rb') <= UrcSize
      /\ urc_sem' \in 0 .. UrcSize /\ urc_sem' >= Len(urc_rb')
  BY <1>1, <1>3, UrcCopied
<1>6. /\ prev' \in Characters
      /\ rx_rb' \in Seq(Characters) /\ Len(rx_rb') <= RxSize
      /\ rx_sem' \in 0 .. RxSize
      /\ rx_sem' + (IF main' = "taken" THEN 1 ELSE 0) = Len(rx_rb')
  BY <1>1, <1>3, <1>4, Stored
<1>7. TypeOK'
  BY <1>1, <1>3, <1>4, <1>5, <1>6 DEF IInv, TypeOK
<1> QED
  BY <1>5, <1>6, <1>7 DEF IInv, SemaphoresCount

-----------------------------------------------------------------------------
(* The other threads and the modem. *)

LEMMA ModemStep == IInv /\ (Notify \/ Reply) => IInv'
<1>1. ASSUME IInv, Notify PROVE IInv'
  <2>1. sent' \in 1 .. MaxSent
    BY <1>1, Constants DEF Notify, IInv, TypeOK
  <2>2. wire' \in Seq(Characters)
    BY <1>1, <2>1, Lines DEF Notify
  <2> QED
    BY <1>1, <2>1, <2>2
    DEF Notify, IInv, TypeOK, SemaphoresCount, reader, rx, urc, thread
<1>2. ASSUME IInv, Reply PROVE IInv'
  <2>1. wire' \in Seq(Characters)
    BY <1>2, Lines DEF Reply
  <2> QED
    BY <1>2, <2>1
    DEF Reply, IInv, TypeOK, SemaphoresCount, reader, rx, urc, thread
<1> QED
  BY <1>1, <1>2

LEMMA UrcStep == IInv /\ (UrcThread \/ Callback) => IInv'
<1>1. ASSUME IInv, UrcThread PROVE IInv'
  <2>1. /\ UNCHANGED <<wire, prev, in_urc, overrun, rx_rb, rx_sem, called,
                       main, due, asked, sent>>
        /\ urc_sem > 0 /\ urc_sem' = urc_sem - 1
    BY <1>1 DEF UrcThread, reader, rx, modem
  <2>2. CASE urc_rb = <<>>
    <3>1. UNCHANGED <<urc_rb, buf, callback>>
      BY <1>1, <2>2 DEF UrcThread
    <3>2. Len(urc_rb) = 0
      BY <2>2
    <3>3. urc_sem' \in 0 .. UrcSize /\ urc_sem' >= Len(urc_rb')
      BY <1>1, <2>1, <3>1, <3>2, Constants DEF IInv, TypeOK
    <3>4. TypeOK'
      BY <1>1, <2>1, <3>1, <3>3 DEF IInv, TypeOK
    <3> QED
      BY <1>1, <2>1, <3>3, <3>4 DEF IInv, SemaphoresCount
  <2>3. CASE urc_rb # <<>>
    <3> DEFINE b == Head(urc_rb)
    <3>1. /\ b \in Characters /\ urc_rb' \in Seq(Characters)
          /\ Len(urc_rb') = Len(urc_rb) - 1
      BY <1>1, <2>3, Taken DEF UrcThread, IInv, TypeOK
    <3>2. buf' = CASE b = Char("cr") -> <<>>
                   [] b = Char("lf") -> buf
                   [] OTHER -> Append(buf, b)
      BY <1>1, <2>3 DEF UrcThread
    <3>3. callback' = IF b = Char("cr") /\ IsNotification(buf)
                      THEN buf[1].n ELSE Nobody
      BY <1>1, <2>3 DEF UrcThread
    <3> HIDE DEF b
    <3>4. buf' \in Seq(Characters)
      BY <1>1, <3>1, <3>2 DEF IInv, TypeOK
    <3>5. callback' \in Nobody .. MaxSent
      <4>1. \A x \in Characters : x.n \in 0 .. MaxSent
        BY Constants DEF Characters, Char, Plus
      <4>2. CASE IsNotification(buf)
        <5>1. buf[1] \in Characters
          BY <1>1, <4>2 DEF IsNotification, IInv, TypeOK
        <5> QED
          BY <3>3, <4>1, <5>1, Constants DEF Nobody
      <4>3. CASE ~ IsNotification(buf)
        BY <3>3, <4>3, Constants DEF Nobody
      <4> QED
        BY <4>2, <4>3
    <3>6. Len(urc_rb) \in Nat /\ Len(urc_rb) <= UrcSize
          /\ urc_sem \in 0 .. UrcSize /\ urc_sem >= Len(urc_rb)
      BY <1>1 DEF IInv, TypeOK, SemaphoresCount
    <3>7. /\ urc_sem' \in 0 .. UrcSize /\ urc_sem' >= Len(urc_rb')
          /\ Len(urc_rb') <= UrcSize
      BY <2>1, <3>1, <3>6, Constants
    <3>8. TypeOK'
      BY <1>1, <2>1, <3>1, <3>4, <3>5, <3>7 DEF IInv, TypeOK
    <3> QED
      BY <1>1, <2>1, <3>7, <3>8 DEF IInv, SemaphoresCount
  <2> QED
    BY <2>2, <2>3
<1>2. ASSUME IInv, Callback PROVE IInv'
  <2>1. callback \in 0 .. MaxSent
    BY <1>2, Constants DEF Callback, IInv, TypeOK, Nobody
  <2>2. called' \in Seq(0 .. MaxSent) /\ callback' \in Nobody .. MaxSent
    BY <1>2, <2>1, Constants DEF Callback, IInv, TypeOK, Nobody
  <2> QED
    BY <1>2, <2>2
    DEF Callback, IInv, TypeOK, SemaphoresCount, reader, rx, urc, modem
<1> QED
  BY <1>1, <1>2

LEMMA MainStep == IInv /\ (Command \/ ReadTake \/ ReadGet \/ Done) => IInv'
<1>1. ASSUME IInv, Command PROVE IInv'
  BY <1>1, Constants DEF Command, MaxSend, IInv, TypeOK, SemaphoresCount,
     reader, rx, urc, thread
<1>2. ASSUME IInv, ReadTake PROVE IInv'
  <2>1. /\ UNCHANGED <<wire, prev, in_urc, overrun, rx_rb, urc_rb, urc_sem,
                       buf, callback, called, due, asked, sent>>
        /\ main = "reading" /\ main' = "taken"
        /\ rx_sem > 0 /\ rx_sem' = rx_sem - 1
    BY <1>2 DEF ReadTake, reader, urc, thread, modem
  <2>2. rx_sem \in 0 .. RxSize
    BY <1>2 DEF IInv, TypeOK
  <2>3. rx_sem' \in 0 .. RxSize /\ rx_sem' + 1 = rx_sem
    BY <2>1, <2>2, Constants
  <2>4. TypeOK'
    BY <1>2, <2>1, <2>3 DEF IInv, TypeOK
  <2> QED
    BY <1>2, <2>1, <2>2, <2>3, <2>4 DEF IInv, SemaphoresCount
<1>3. ASSUME IInv, ReadGet PROVE IInv'
  <2>1. rx_rb # <<>>
    BY <1>3 DEF ReadGet, IInv, TypeOK, SemaphoresCount
  <2>2. rx_rb' \in Seq(Characters) /\ Len(rx_rb') = Len(rx_rb) - 1
    BY <1>3, <2>1, Taken DEF ReadGet, IInv, TypeOK
  <2>3. /\ UNCHANGED <<wire, prev, in_urc, overrun, rx_sem, urc_rb, urc_sem,
                       buf, callback, called, due, asked, sent>>
        /\ main = "taken" /\ main' = "reading"
    BY <1>3 DEF ReadGet, reader, urc, thread, modem
  <2>4. /\ rx_sem \in Nat /\ Len(rx_rb) \in Nat /\ Len(rx_rb) <= RxSize
        /\ rx_sem + 1 = Len(rx_rb)
    BY <1>3, <2>3, Constants DEF IInv, TypeOK, SemaphoresCount
  <2>5. rx_sem = Len(rx_rb') /\ Len(rx_rb') <= RxSize
    BY <2>2, <2>4, Constants
  <2>6. TypeOK'
    BY <1>3, <2>2, <2>3, <2>5 DEF IInv, TypeOK
  <2> QED
    BY <1>3, <2>3, <2>4, <2>5, <2>6 DEF IInv, SemaphoresCount
<1>4. ASSUME IInv, Done PROVE IInv'
  BY <1>4 DEF Done, IInv, TypeOK, SemaphoresCount, reader, rx, urc, thread,
     modem
<1> QED
  BY <1>1, <1>2, <1>3, <1>4

LEMMA NextInv == IInv /\ [Next]_vars => IInv'
<1>1. ASSUME IInv, UNCHANGED vars PROVE IInv'
  BY <1>1 DEF vars, reader, rx, urc, thread, modem, IInv, TypeOK,
     SemaphoresCount
<1> QED
  BY <1>1, ModemStep, ReaderStep, UrcStep, MainStep DEF Next, Threads

LEMMA Invariant == Spec => []IInv
BY InitInv, NextInv, PTL DEF Spec

-----------------------------------------------------------------------------
\* Every variable keeps its type; rings and semaphores their limits.
THEOREM TypeCorrect == Spec => []TypeOK
<1>1. IInv => TypeOK
  BY DEF IInv
<1> QED
  BY <1>1, Invariant, PTL

\* rx_sem counts exactly what rx_rb holds, and urc_sem no less than urc_rb.
THEOREM CountsMatch == Spec => []SemaphoresCount
<1>1. IInv => SemaphoresCount
  BY DEF IInv
<1> QED
  BY <1>1, Invariant, PTL

-----------------------------------------------------------------------------
(* The order of the calls.  While no ring was full, what the URC thread has  *)
(* in buf, what is in urc_rb and what comms_handle_char() is still going to  *)
(* copy are together a sequence of whole lines, whose notifications are      *)
(* numbered from the last call to the last one sent.                         *)

\* What is copied of a line that starts with '+'.
UrcLine(n) == <<Plus(n), Char("comma"), Char("cr")>>

Comings == {<<>>, <<Char("cr")>>, <<Char("comma"), Char("cr")>>}
             \cup {UrcLine(n) : n \in 0 .. MaxSent}

\* The rest of a line that is on the wire, and the part of it that is going
\* to be copied.
Rest(coming) ==
  \/ /\ ~in_urc /\ coming = <<>>
     /\ wire \in {<<>>, <<Char("lf")>>, <<Char("cr"), Char("lf")>>,
                  <<Char("text"), Char("cr"), Char("lf")>>,
                  <<Char("lf"), Char("text"), Char("cr"), Char("lf")>>,
                  <<Char("cr"), Char("lf"), Char("text"), Char("cr"),
                    Char("lf")>>}
  \/ /\ in_urc /\ coming = <<Char("cr")>>
     /\ wire = <<Char("cr"), Char("lf")>>
  \/ /\ in_urc /\ coming = <<Char("comma"), Char("cr")>>
     /\ wire = <<Char("comma"), Char("cr"), Char("lf")>>
  \/ \E n \in 0 .. MaxSent :
       /\ ~in_urc /\ coming = UrcLine(n)
       /\ \/ wire = Notification(n)
          \/ wire = <<Char("lf"), Plus(n), Char("comma"), Char("cr"),
                      Char("lf")>>
          \/ /\ wire = <<Plus(n), Char("comma"), Char("cr"), Char("lf")>>
             /\ prev = Char("lf")

Follows(a, b) == \/ a.c = "plus" /\ b = Char("comma")
                 \/ a = Char("comma") /\ b = Char("cr")
                 \/ a = Char("cr") /\ b.c = "plus"

WholeLines(p) ==
  /\ p # <<>> => p[1].c = "plus" /\ p[Len(p)] = Char("cr")
  /\ \A i, j \in DOMAIN p : j = i + 1 => Follows(p[i], p[j])

Numbered(p, from, to) ==
  /\ \A i \in DOMAIN p : p[i].n > 0 => from < p[i].n /\ p[i].n <= to
  /\ \A i, j \in DOMAIN p : i < j /\ p[i].n > 0 /\ p[j].n > 0 =>
                              p[i].n < p[j].n
  /\ \A m \in Nat : from < m /\ m <= to => \E i \in DOMAIN p : p[i].n = m

Pending(coming) == buf \o (urc_rb \o coming)

\* The number of the notification that was handled last.
Handled == Len(called) + IF callback = Nobody THEN 0 ELSE 1

Ordered ==
  /\ called = [i \in 1 .. Len(called) |-> i]
  /\ callback # Nobody => callback = Handled
  /\ Handled <= sent
  /\ \A i \in DOMAIN buf : buf[i] # Char("cr")
  /\ \E coming \in Comings :
       /\ Rest(coming)
       /\ WholeLines(Pending(coming))
       /\ Numbered(Pending(coming), Handled, sent)

OInv == ~overrun => Ordered

LEMMA CharacterFacts ==
  /\ \A x \in Characters : /\ x.n \in Nat
                           /\ x.n > 0 => x.c = "plus"
  /\ \A c \in {"cr", "lf", "comma", "text"} :
       /\ Char(c) \in Characters /\ Char(c).c = c /\ Char(c).n = 0
  /\ \A n \in 0 .. MaxSent :
       Plus(n) \in Characters /\ Plus(n).c = "plus" /\ Plus(n).n = n
<1>1. ASSUME NEW x \in Characters
      PROVE  x.n \in Nat /\ (x.n > 0 => x.c = "plus")
  BY Constants DEF Characters, Char, Plus
<1>2. ASSUME NEW c \in {"cr", "lf", "comma", "text"}
      PROVE  Char(c) \in Characters /\ Char(c).c = c /\ Char(c).n = 0
  BY DEF Characters, Char
<1>3. ASSUME NEW n \in 0 .. MaxSent
      PROVE  Plus(n) \in Characters /\ Plus(n).c = "plus" /\ Plus(n).n = n
  BY DEF Characters, Plus
<1> QED
  BY <1>1, <1>2, <1>3

LEMMA ComingTypes ==
  /\ Comings \subseteq Seq(Characters)
  /\ \A n \in 0 .. MaxSent : UrcLine(n) \in Comings
<1>1. ASSUME NEW n \in 0 .. MaxSent PROVE UrcLine(n) \in Seq(Characters)
  BY CharacterFacts DEF UrcLine
<1>2. /\ <<Char("cr")>> \in Seq(Characters)
      /\ <<Char("comma"), Char("cr")>> \in Seq(Characters)
  BY CharacterFacts
<1>3. <<>> \in Seq(Characters)
  OBVIOUS
<1>4. Comings \subseteq Seq(Characters)
  BY <1>1, <1>2, <1>3 DEF Comings
<1>5. \A n \in 0 .. MaxSent : UrcLine(n) \in Comings
  BY Zenon DEF Comings
<1> QED
  BY <1>4, <1>5

-----------------------------------------------------------------------------
(* Sequences of lines. *)

\* A character goes from the head of one part to the end of the other.
LEMMA PassedOn ==
  ASSUME NEW S, NEW a \in Seq(S), NEW b \in Seq(S), NEW c \in S
  PROVE  /\ Append(a, c) \in Seq(S) /\ <<c>> \o b \in Seq(S)
         /\ Append(a, c) \o b = a \o (<<c>> \o b)
<1>1. <<c>> \in Seq(S)
  OBVIOUS
<1>2. Append(a, c) = a \o <<c>>
  BY AppendIsConcat
<1>3. (a \o <<c>>) \o b = a \o (<<c>> \o b)
  BY <1>1, ConcatAssociative
<1> QED
  BY <1>1, <1>2, <1>3, ConcatProperties

LEMMA HeadFirst ==
  ASSUME NEW S, NEW s \in Seq(S), s # <<>>
  PROVE  s = <<Head(s)>> \o Tail(s)
<1>1. /\ Head(s) \in S /\ Tail(s) \in Seq(S) /\ <<Head(s)>> \in Seq(S)
      /\ Len(Tail(s)) = Len(s) - 1 /\ Len(<<Head(s)>>) = 1
      /\ Len(s) \in Nat \ {0}
  OBVIOUS
<1>2. /\ Len(<<Head(s)>> \o Tail(s)) = Len(s)
      /\ <<Head(s)>> \o Tail(s) \in Seq(S)
  BY <1>1, ConcatProperties
<1>3. \A i \in 1 .. Len(s) : (<<Head(s)>> \o Tail(s))[i] = s[i]
  OBVIOUS
<1> QED
  BY <1>1, <1>2, <1>3, SeqEqual

\* The parts of a concatenation.
LEMMA Parts ==
  ASSUME NEW a \in Seq(Characters), NEW b \in Seq(Characters)
  PROVE  /\ a \o b \in Seq(Characters)
         /\ Len(a \o b) = Len(a) + Len(b)
         /\ DOMAIN (a \o b) = 1 .. Len(a) + Len(b)
         /\ DOMAIN a = 1 .. Len(a) /\ DOMAIN b = 1 .. Len(b)
         /\ Len(a) \in Nat /\ Len(b) \in Nat
         /\ \A i \in 1 .. Len(a) : (a \o b)[i] = a[i] /\ a[i] \in Characters
         /\ \A i \in 1 .. Len(b) : /\ (a \o b)[i + Len(a)] = b[i]
                                   /\ b[i] \in Characters
<1>1. /\ a \o b \in Seq(Characters) /\ Len(a \o b) = Len(a) + Len(b)
      /\ \A i \in 1 .. Len(a) + Len(b) :
           (a \o b)[i] = IF i <= Len(a) THEN a[i] ELSE b[i - Len(a)]
  BY ConcatProperties
<1>2. /\ Len(a) \in Nat /\ Len(b) \in Nat /\ DOMAIN a = 1 .. Len(a)
      /\ DOMAIN b = 1 .. Len(b) /\ DOMAIN (a \o b) = 1 .. Len(a \o b)
      /\ \A i \in 1 .. Len(a) : a[i] \in Characters
      /\ \A i \in 1 .. Len(b) : b[i] \in Characters
  BY <1>1
<1>3. \A i \in 1 .. Len(a) : (a \o b)[i] = a[i]
  BY <1>1, <1>2
<1>4. ASSUME NEW i \in 1 .. Len(b) PROVE (a \o b)[i + Len(a)] = b[i]
  <2>1. i + Len(a) \in 1 .. Len(a) + Len(b) /\ ~ (i + Len(a) <= Len(a))
    BY <1>2
  <2>2. (i + Len(a)) - Len(a) = i
    BY <1>2
  <2> QED
    BY <1>1, <2>1, <2>2
<1> QED
  BY <1>1, <1>2, <1>3, <1>4

\* What buf holds is the beginning of a line.
LEMMA Beginning ==
  ASSUME NEW a \in Seq(Characters), NEW b \in Seq(Characters),
         WholeLines(a \o b), \A i \in DOMAIN a : a[i] # Char("cr")
  PROVE  /\ Len(a) <= 2
         /\ b = <<>> => a = <<>>
         /\ b # <<>> => b[1] # Char("lf")
         /\ b # <<>> /\ b[1] = Char("cr") =>
              Len(a) = 2 /\ a[1].c = "plus" /\ a[2] = Char("comma")
<1> DEFINE p == a \o b
<1>1. /\ p \in Seq(Characters) /\ Len(p) = Len(a) + Len(b)
      /\ DOMAIN p = 1 .. Len(a) + Len(b)
      /\ DOMAIN a = 1 .. Len(a) /\ DOMAIN b = 1 .. Len(b)
      /\ Len(a) \in Nat /\ Len(b) \in Nat
      /\ \A i \in 1 .. Len(a) : p[i] = a[i]
      /\ \A i \in 1 .. Len(b) : p[i + Len(a)] = b[i]
  BY Parts
<1>2. /\ p # <<>> => p[1].c = "plus" /\ p[Len(p)] = Char("cr")
      /\ \A i, j \in DOMAIN p : j = i + 1 => Follows(p[i], p[j])
  BY DEF WholeLines
<1>3. /\ a = <<>> <=> Len(a) = 0
      /\ b = <<>> <=> Len(b) = 0
      /\ p = <<>> <=> Len(p) = 0
  BY <1>1
<1> HIDE DEF p
<1>4. b = <<>> => a = <<>>
  <2>1. SUFFICES ASSUME Len(b) = 0, Len(a) > 0 PROVE FALSE
    BY <1>1, <1>3
  <2>2. p[Len(p)] = a[Len(a)] /\ Len(a) \in DOMAIN a
    BY <1>1, <2>1
  <2>3. p[Len(p)] = Char("cr")
    BY <1>1, <1>2, <1>3, <2>1
  <2> QED
    BY <2>2, <2>3
<1>5. Len(p) > 0 => p[1].c = "plus"
  BY <1>2, <1>3, <1>1
<1>6. ASSUME Len(p) >= 2 PROVE p[2] = Char("comma")
  <2>1. 1 \in DOMAIN p /\ 2 \in DOMAIN p
    BY <1>1, <1>6
  <2>2. Follows(p[1], p[2]) /\ p[1].c = "plus"
    <3>1. 2 = 1 + 1 /\ Len(p) > 0
      BY <1>1, <1>6
    <3>2. \A i, j \in DOMAIN p : j = i + 1 => Follows(p[i], p[j])
      BY <1>2
    <3>3. Follows(p[1], p[2])
      BY <2>1, <3>1, <3>2, Zenon
    <3> QED
      BY <1>5, <3>1, <3>3
  <2> QED
    BY <2>2, CharacterFacts DEF Follows
<1>7. ASSUME Len(p) >= 3 PROVE p[3] = Char("cr")
  <2>1. 2 \in DOMAIN p /\ 3 \in DOMAIN p
    BY <1>1, <1>7
  <2>2. Follows(p[2], p[3]) /\ p[2] = Char("comma")
    <3>1. 3 = 2 + 1 /\ Len(p) >= 2
      BY <1>1, <1>7
    <3>2. \A i, j \in DOMAIN p : j = i + 1 => Follows(p[i], p[j])
      BY <1>2
    <3>3. Follows(p[2], p[3])
      BY <2>1, <3>1, <3>2, Zenon
    <3> QED
      BY <1>6, <3>1, <3>3
  <2> QED
    BY <2>2, CharacterFacts DEF Follows
<1>8. Len(a) <= 2
  <2>1. SUFFICES ASSUME Len(a) >= 3 PROVE FALSE
    BY <1>1
  <2>2. p[3] = a[3] /\ 3 \in DOMAIN a /\ Len(p) >= 3
    BY <1>1, <2>1
  <2> QED
    BY <1>7, <2>2
<1>9. ASSUME b # <<>>
      PROVE  /\ b[1] = p[1 + Len(a)] /\ Len(p) >= 1 + Len(a)
             /\ Len(a) \in {0, 1, 2}
  BY <1>1, <1>3, <1>8, <1>9
<1>10. ASSUME b # <<>> PROVE b[1] # Char("lf")
  <2>1. CASE Len(a) = 0
    BY <1>5, <1>9, <1>10, <2>1, CharacterFacts
  <2>2. CASE Len(a) = 1
    BY <1>6, <1>9, <1>10, <2>2, CharacterFacts
  <2>3. CASE Len(a) = 2
    BY <1>7, <1>9, <1>10, <2>3, CharacterFacts
  <2> QED
    BY <1>9, <1>10, <2>1, <2>2, <2>3
<1>11. ASSUME b # <<>>, b[1] = Char("cr") PROVE Len(a) = 2
  <2>1. CASE Len(a) = 0
    BY <1>5, <1>9, <1>11, <2>1, CharacterFacts
  <2>2. CASE Len(a) = 1
    BY <1>6, <1>9, <1>11, <2>2, CharacterFacts
  <2> QED
    BY <1>9, <1>11, <2>1, <2>2
<1>12. Len(a) = 2 => a[1].c = "plus" /\ a[2] = Char("comma")
  BY <1>1, <1>5, <1>6
<1> QED
  BY <1>4, <1>8, <1>10, <1>11, <1>12

\* A line is read: what is left are whole lines, numbered from the next one.
LEMMA LineRead ==
  ASSUME NEW a \in Seq(Characters), NEW q \in Seq(Characters),
         NEW from \in Nat, NEW to \in Nat,
         Len(a) = 3, a[1].c = "plus", a[2] = Char("comma"),
         a[3] = Char("cr"), WholeLines(a \o q), Numbered(a \o q, from, to)
  PROVE  /\ WholeLines(q)
         /\ a[1].n > 0 => /\ a[1].n = from + 1 /\ from + 1 <= to
                          /\ Numbered(q, from + 1, to)
         /\ a[1].n = 0 => Numbered(q, from, to)
<1> DEFINE p == a \o q
<1>1. /\ Len(p) = 3 + Len(q) /\ DOMAIN p = 1 .. 3 + Len(q)
      /\ DOMAIN q = 1 .. Len(q) /\ Len(q) \in Nat
      /\ p[1] = a[1] /\ p[2] = a[2] /\ p[3] = a[3] /\ a[1] \in Characters
      /\ \A i \in 1 .. Len(q) : p[i + 3] = q[i] /\ q[i] \in Characters
  <2>1. /\ Len(p) = Len(a) + Len(q) /\ DOMAIN p = 1 .. Len(a) + Len(q)
        /\ DOMAIN q = 1 .. Len(q) /\ Len(q) \in Nat
        /\ \A i \in 1 .. Len(a) : p[i] = a[i] /\ a[i] \in Characters
        /\ \A i \in 1 .. Len(q) : /\ p[i + Len(a)] = q[i]
                                  /\ q[i] \in Characters
    BY Parts
  <2>2. 1 \in 1 .. Len(a) /\ 2 \in 1 .. Len(a) /\ 3 \in 1 .. Len(a)
    OBVIOUS
  <2> HIDE DEF p
  <2> QED
    BY <2>1, <2>2
<1>2. /\ p # <<>> => p[1].c = "plus" /\ p[Len(p)] = Char("cr")
      /\ \A i, j \in DOMAIN p : j = i + 1 => Follows(p[i], p[j])
      /\ \A i \in DOMAIN p : p[i].n > 0 => from < p[i].n /\ p[i].n <= to
      /\ \A i, j \in DOMAIN p : i < j /\ p[i].n > 0 /\ p[j].n > 0 =>
                                  p[i].n < p[j].n
      /\ \A m \in Nat : from < m /\ m <= to => \E i \in DOMAIN p : p[i].n = m
  BY DEF WholeLines, Numbered
<1>3. p = <<>> <=> Len(p) = 0
  BY Parts
<1>3a. q = <<>> <=> Len(q) = 0
  OBVIOUS
<1> HIDE DEF p
<1>4. p[2].n = 0 /\ p[3].n = 0 /\ a[1].n \in Nat
  BY <1>1, CharacterFacts
<1>5. \A i \in DOMAIN q : /\ i + 3 \in DOMAIN p /\ p[i + 3] = q[i]
                          /\ q[i].n \in Nat
  BY <1>1, CharacterFacts
<1>6. WholeLines(q)
  <2>1. ASSUME q # <<>> PROVE q[1].c = "plus" /\ q[Len(q)] = Char("cr")
    <3>1. Len(q) > 0
      BY <1>1, <1>3a, <2>1
    <3>2. q[Len(q)] = p[Len(p)] /\ q[1] = p[4]
      BY <1>1, <3>1
    <3>3. Follows(p[3], p[4])
      <4>1. 4 = 3 + 1 /\ 3 \in DOMAIN p /\ 4 \in DOMAIN p
        BY <1>1, <3>1
      <4>2. \A i, j \in DOMAIN p : j = i + 1 => Follows(p[i], p[j])
        BY <1>2
      <4> QED
        BY <4>1, <4>2, Zenon
    <3>4. p[3] = Char("cr") /\ p[Len(p)] = Char("cr")
      BY <1>1, <1>2, <1>3, <3>1
    <3> QED
      BY <3>2, <3>3, <3>4, CharacterFacts DEF Follows
  <2>2. ASSUME NEW i \in DOMAIN q, NEW j \in DOMAIN q, j = i + 1
        PROVE  Follows(q[i], q[j])
    <3>1. j + 3 = (i + 3) + 1
      BY <1>1, <2>2
    <3>2. Follows(p[i + 3], p[j + 3])
      BY <1>2, <1>5, <3>1
    <3> QED
      BY <1>5, <3>2
  <2> QED
    BY <2>1, <2>2 DEF WholeLines
<1>7. \A i, j \in DOMAIN q : i < j /\ q[i].n > 0 /\ q[j].n > 0 =>
                               q[i].n < q[j].n
  <2>1. ASSUME NEW i \in DOMAIN q, NEW j \in DOMAIN q, i < j,
               q[i].n > 0, q[j].n > 0
        PROVE  q[i].n < q[j].n
    <3>1. i + 3 < j + 3
      BY <1>1, <2>1
    <3> QED
      BY <1>2, <1>5, <2>1, <3>1
  <2> QED
    BY <2>1
<1>8. \A i \in DOMAIN p : i = 1 \/ p[i].n = 0
                            \/ (i - 3 \in DOMAIN q /\ q[i - 3] = p[i])
  <2>1. ASSUME NEW i \in DOMAIN p, i > 3
        PROVE  i - 3 \in DOMAIN q /\ q[i - 3] = p[i]
    <3>1. i - 3 \in 1 .. Len(q) /\ (i - 3) + 3 = i
      BY <1>1, <2>1
    <3> QED
      BY <1>1, <3>1
  <2>2. \A i \in DOMAIN p : i = 1 \/ i = 2 \/ i = 3 \/ i > 3
    BY <1>1
  <2> QED
    BY <1>4, <2>1, <2>2
<1>9. ASSUME a[1].n = 0 PROVE Numbered(q, from, to)
  <2>1. \A m \in Nat : from < m /\ m <= to => \E i \in DOMAIN q : q[i].n = m
    <3>1. ASSUME NEW m \in Nat, from < m, m <= to
          PROVE  \E i \in DOMAIN q : q[i].n = m
      <4>1. PICK i \in DOMAIN p : p[i].n = m
        BY <1>2, <3>1
      <4>2. p[i].n # 0 /\ i # 1
        BY <1>1, <1>9, <3>1, <4>1
      <4> QED
        BY <1>8, <4>1, <4>2
    <3> QED
      BY <3>1
  <2>2. \A i \in DOMAIN q : q[i].n > 0 => from < q[i].n /\ q[i].n <= to
    BY <1>2, <1>5
  <2> QED
    BY <1>7, <2>1, <2>2 DEF Numbered
<1>10. ASSUME a[1].n > 0
       PROVE  /\ a[1].n = from + 1 /\ from + 1 <= to
              /\ Numbered(q, from + 1, to)
  <2>0. 1 \in DOMAIN p
    BY <1>1
  <2>1. from < a[1].n /\ a[1].n <= to
    BY <1>1, <1>2, <1>10, <2>0
  <2>2. ASSUME NEW i \in DOMAIN q, q[i].n > 0
        PROVE  a[1].n < q[i].n /\ q[i].n <= to
    <3>1. 1 < i + 3
      BY <1>1
    <3> QED
      BY <1>1, <1>2, <1>5, <1>10, <2>0, <2>2, <3>1
  <2>3. a[1].n = from + 1
    <3>1. SUFFICES ASSUME a[1].n # from + 1 PROVE FALSE
      OBVIOUS
    <3>2. from + 1 \in Nat /\ from + 1 < a[1].n /\ from + 1 <= to
      BY <1>4, <2>1, <3>1
    <3>3. PICK i \in DOMAIN p : p[i].n = from + 1
      <4>1. from < from + 1
        OBVIOUS
      <4> QED
        BY <1>2, <3>2, <4>1
    <3>4. i - 3 \in DOMAIN q /\ q[i - 3].n = from + 1
      <4>1. p[i].n # 0 /\ i # 1
        BY <1>1, <3>1, <3>2, <3>3
      <4> QED
        BY <1>8, <3>3, <4>1
    <3> QED
      BY <1>4, <2>2, <3>2, <3>4
  <2>4. \A m \in Nat : from + 1 < m /\ m <= to =>
                         \E i \in DOMAIN q : q[i].n = m
    <3>1. ASSUME NEW m \in Nat, from + 1 < m, m <= to
          PROVE  \E i \in DOMAIN q : q[i].n = m
      <4>1. PICK i \in DOMAIN p : p[i].n = m
        BY <1>2, <3>1
      <4>2. p[i].n # 0 /\ i # 1
        BY <1>1, <2>3, <3>1, <4>1
      <4> QED
        BY <1>8, <4>1, <4>2
    <3> QED
      BY <3>1
  <2>5. \A i \in DOMAIN q : q[i].n > 0 => from + 1 < q[i].n /\ q[i].n <= to
    BY <2>2, <2>3
  <2>6. Numbered(q, from + 1, to)
    BY <1>7, <2>4, <2>5 DEF Numbered
  <2> QED
    BY <2>1, <2>3, <2>6
<1> QED
  BY <1>6, <1>9, <1>10

\* A line is sent: the next notification, or another line.
LEMMA LineAdded ==
  ASSUME NEW p \in Seq(Characters), NEW n \in 0 .. MaxSent,
         NEW from \in Nat, NEW to \in Nat, NEW next \in Nat, from <= to,
         (n = 0 /\ next = to) \/ (n = to + 1 /\ next = n),
         WholeLines(p), Numbered(p, from, to)
  PROVE  /\ WholeLines(p \o UrcLine(n))
         /\ Numbered(p \o UrcLine(n), from, next)
<1> DEFINE l == UrcLine(n)
           q == p \o l
<1>0. /\ l \in Seq(Characters) /\ Len(l) = 3
      /\ l[1] = Plus(n) /\ l[2] = Char("comma") /\ l[3] = Char("cr")
  BY CharacterFacts DEF UrcLine
<1> HIDE DEF l
<1>1. /\ Len(q) = Len(p) + 3 /\ DOMAIN q = 1 .. Len(p) + 3
      /\ DOMAIN p = 1 .. Len(p) /\ Len(p) \in Nat
      /\ q[Len(p) + 1] = Plus(n) /\ q[Len(p) + 2] = Char("comma")
      /\ q[Len(p) + 3] = Char("cr")
      /\ \A i \in 1 .. Len(p) : q[i] = p[i] /\ p[i] \in Characters
      /\ q # <<>>
  <2>1. /\ Len(q) = Len(p) + 3 /\ DOMAIN q = 1 .. Len(p) + 3
        /\ DOMAIN p = 1 .. Len(p) /\ Len(p) \in Nat
        /\ \A i \in 1 .. Len(p) : q[i] = p[i] /\ p[i] \in Characters
        /\ \A i \in 1 .. 3 : q[i + Len(p)] = l[i]
    <3>1. /\ Len(q) = Len(p) + Len(l) /\ DOMAIN q = 1 .. Len(p) + Len(l)
          /\ DOMAIN p = 1 .. Len(p) /\ Len(p) \in Nat
          /\ \A i \in 1 .. Len(p) : q[i] = p[i] /\ p[i] \in Characters
          /\ \A i \in 1 .. Len(l) : q[i + Len(p)] = l[i]
      BY <1>0, Parts
    <3> QED
      BY <1>0, <3>1
  <2>2. /\ q[1 + Len(p)] = l[1] /\ q[2 + Len(p)] = l[2]
        /\ q[3 + Len(p)] = l[3]
    BY <2>1
  <2>3. 1 + Len(p) = Len(p) + 1 /\ 2 + Len(p) = Len(p) + 2
          /\ 3 + Len(p) = Len(p) + 3
    BY <2>1
  <2>4. q # <<>>
    BY <2>1
  <2> QED
    BY <1>0, <2>1, <2>2, <2>3, <2>4
<1>2. /\ p # <<>> => p[1].c = "plus" /\ p[Len(p)] = Char("cr")
      /\ \A i, j \in DOMAIN p : j = i + 1 => Follows(p[i], p[j])
      /\ \A i \in DOMAIN p : p[i].n > 0 => from < p[i].n /\ p[i].n <= to
      /\ \A i, j \in DOMAIN p : i < j /\ p[i].n > 0 /\ p[j].n > 0 =>
                                  p[i].n < p[j].n
      /\ \A m \in Nat : from < m /\ m <= to => \E i \in DOMAIN p : p[i].n = m
  BY DEF WholeLines, Numbered
<1>3. p = <<>> <=> Len(p) = 0
  OBVIOUS
<1> HIDE DEF q
<1>4. /\ Plus(n).c = "plus" /\ Plus(n).n = n /\ n \in Nat
      /\ Char("comma").n = 0 /\ Char("cr").n = 0
  BY CharacterFacts
<1>5. \A i \in DOMAIN q : \/ i \in DOMAIN p /\ q[i] = p[i]
                          \/ i = Len(p) + 1 /\ q[i] = Plus(n)
                          \/ i = Len(p) + 2 /\ q[i] = Char("comma")
                          \/ i = Len(p) + 3 /\ q[i] = Char("cr")
  BY <1>1
<1>6. WholeLines(q)
  <2>1. q[1].c = "plus"
    BY <1>1, <1>2, <1>3, <1>4
  <2>2. ASSUME NEW i \in DOMAIN q, NEW j \in DOMAIN q, j = i + 1
        PROVE  Follows(q[i], q[j])
    <3>1. CASE j <= Len(p)
      <4>1. i \in DOMAIN p /\ j \in DOMAIN p
        BY <1>1, <2>2, <3>1
      <4> QED
        BY <1>1, <1>2, <2>2, <4>1
    <3>2. CASE j = Len(p) + 1
      <4>1. i = Len(p) /\ i \in 1 .. Len(p)
        BY <1>1, <2>2, <3>2
      <4>2. q[i] = Char("cr")
        BY <1>1, <1>2, <1>3, <4>1
      <4> QED
        BY <1>1, <1>4, <3>2, <4>2 DEF Follows
    <3>3. CASE j = Len(p) + 2
      <4>1. i = Len(p) + 1
        BY <1>1, <2>2, <3>3
      <4> QED
        BY <1>1, <1>4, <3>3, <4>1 DEF Follows
    <3>4. CASE j = Len(p) + 3
      <4>1. i = Len(p) + 2
        BY <1>1, <2>2, <3>4
      <4> QED
        BY <1>1, <3>4, <4>1 DEF Follows
    <3> QED
      BY <1>1, <3>1, <3>2, <3>3, <3>4
  <2> QED
    BY <1>1, <2>1, <2>2 DEF WholeLines
<1>7. \A i \in DOMAIN q : /\ q[i].n \in Nat
                          /\ q[i].n > 0 => \/ i \in DOMAIN p /\ q[i] = p[i]
                                           \/ i = Len(p) + 1 /\ q[i].n = n
  BY <1>1, <1>4, <1>5, CharacterFacts
<1>8. \A i \in DOMAIN q : q[i].n > 0 => from < q[i].n /\ q[i].n <= next
  BY <1>2, <1>4, <1>7
<1>9. ASSUME NEW i \in DOMAIN q, NEW j \in DOMAIN q, i < j,
             q[i].n > 0, q[j].n > 0
      PROVE  q[i].n < q[j].n
  <2>1. CASE j \in DOMAIN p /\ q[j] = p[j]
    <3>1. i \in DOMAIN p /\ q[i] = p[i]
      BY <1>1, <1>9, <2>1
    <3> QED
      BY <1>2, <1>9, <2>1, <3>1
  <2>2. CASE j = Len(p) + 1 /\ q[j].n = n
    <3>1. i \in DOMAIN p /\ q[i] = p[i]
      BY <1>1, <1>9, <2>2
    <3>2. q[i].n <= to /\ q[i].n \in Nat
      BY <1>2, <1>7, <1>9, <3>1
    <3> QED
      BY <1>9, <2>2, <3>2
  <2> QED
    BY <1>7, <1>9, <2>1, <2>2
<1>10. ASSUME NEW m \in Nat, from < m, m <= next
       PROVE  \E i \in DOMAIN q : q[i].n = m
  <2>1. CASE m <= to
    <3>1. PICK i \in DOMAIN p : p[i].n = m
      BY <1>2, <1>10, <2>1
    <3> QED
      BY <1>1, <3>1
  <2>2. CASE m > to
    <3>1. m = n /\ Len(p) + 1 \in DOMAIN q
      BY <1>1, <1>10, <2>2
    <3> QED
      BY <1>1, <1>4, <3>1
  <2> QED
    BY <2>1, <2>2
<1>11. Numbered(q, from, next)
  BY <1>8, <1>9, <1>10 DEF Numbered
<1> QED
  BY <1>6, <1>11 DEF q, l

-----------------------------------------------------------------------------
(* The steps. *)

\* Between a command and the next line the wire is silent.
LEMMA NothingComes ==
  ASSUME NEW coming \in Comings, Rest(coming), wire = <<>>
  PROVE  ~in_urc /\ coming = <<>>
BY DEF Rest, Notification

\* What Ordered says of the variables a step may leave alone.
LEMMA OrderedUnchanged ==
  ASSUME OInv, UNCHANGED <<wire, prev, in_urc, overrun, urc_rb, buf,
                           callback, called, sent>>
  PROVE  OInv'
BY DEF OInv, Ordered, Rest, Pending, Handled

LEMMA HandledTypes ==
  ASSUME TypeOK
  PROVE  Handled \in Nat /\ sent \in Nat /\ sent <= MaxSent
<1>1. Len(called) \in Nat
  BY DEF TypeOK
<1> QED
  BY <1>1, Constants DEF TypeOK, Handled

LEMMA PendingTypes ==
  ASSUME TypeOK, NEW coming \in Comings
  PROVE  /\ coming \in Seq(Characters) /\ buf \in Seq(Characters)
         /\ urc_rb \in Seq(Characters)
         /\ urc_rb \o coming \in Seq(Characters)
         /\ Pending(coming) \in Seq(Characters)
<1>1. /\ coming \in Seq(Characters) /\ buf \in Seq(Characters)
      /\ urc_rb \in Seq(Characters)
  BY ComingTypes DEF TypeOK
<1> QED
  BY <1>1, ConcatProperties DEF Pending

LEMMA InitOrdered == Init => OInv
<1> SUFFICES ASSUME Init PROVE Ordered
  BY DEF OInv
<1>1. <<>> \in Comings /\ Rest(<<>>)
  BY DEF Init, Rest, Comings
<1>2. Pending(<<>>) = <<>>
  BY DEF Init, Pending
<1>3. Handled = 0 /\ sent = 0
  BY DEF Init, Handled
<1>4. WholeLines(<<>>) /\ Numbered(<<>>, 0, 0)
  BY DEF WholeLines, Numbered
<1>5. called = [i \in 1 .. Len(called) |-> i]
  BY SMT DEF Init
<1> QED
  BY <1>1, <1>2, <1>3, <1>4, <1>5 DEF Ordered, Init

\* The modem sends a line when the wire is silent.
LEMMA LineSent ==
  ASSUME TypeOK, Ordered, wire = <<>>, NEW n \in 0 .. MaxSent,
         (n = 0 /\ sent' = sent) \/ (n = sent + 1 /\ sent' = n),
         wire' = Notification(n),
         UNCHANGED <<in_urc, urc_rb, buf, callback, called>>
  PROVE  Ordered'
<1>1. PICK coming \in Comings : /\ Rest(coming)
                                /\ WholeLines(Pending(coming))
                                /\ Numbered(Pending(coming), Handled, sent)
  BY DEF Ordered
<1>2. ~in_urc /\ coming = <<>>
  BY <1>1, NothingComes
<1> DEFINE p == Pending(coming)
           l == UrcLine(n)
<1>3. l \in Comings /\ l \in Seq(Characters) /\ p \in Seq(Characters)
  BY ComingTypes, PendingTypes
<1>4. Handled \in Nat /\ sent \in Nat /\ Handled <= sent
  BY HandledTypes DEF Ordered
<1>5. sent' \in Nat /\ sent <= sent'
  BY <1>4
<1>6. WholeLines(p \o l) /\ Numbered(p \o l, Handled, sent')
  BY <1>1, <1>3, <1>4, <1>5, LineAdded
<1>7. Pending(l)' = p \o l
  <2>1. urc_rb \o coming = urc_rb /\ p = buf \o urc_rb
    BY <1>2, PendingTypes DEF Pending
  <2>2. Pending(l)' = buf \o (urc_rb \o l)
    BY DEF Pending
  <2> HIDE DEF p, l
  <2> QED
    <3>1. buf \in Seq(Characters) /\ urc_rb \in Seq(Characters)
      BY PendingTypes
    <3>2. (buf \o urc_rb) \o l = buf \o (urc_rb \o l)
      BY <1>3, <3>1, ConcatAssociative
    <3> QED
      BY <2>1, <2>2, <3>2
<1>8. Rest(l)'
  BY <1>2 DEF Rest
<1>9. Handled' = Handled
  BY DEF Handled
<1> HIDE DEF p, l
<1>10. \E more \in Comings : /\ Rest(more)' /\ WholeLines(Pending(more)')
                             /\ Numbered(Pending(more)', Handled', sent')
  BY <1>3, <1>6, <1>7, <1>8, <1>9
<1>11. /\ called' = [i \in 1 .. Len(called') |-> i]
       /\ callback' # Nobody => callback' = Handled'
       /\ Handled' <= sent'
       /\ \A i \in DOMAIN buf' : buf'[i] # Char("cr")
  BY <1>4, <1>5, <1>9 DEF Ordered
<1> QED
  BY <1>10, <1>11 DEF Ordered

LEMMA NotifyOrdered ==
  ASSUME TypeOK, OInv, Notify PROVE OInv'
<1>1. /\ wire = <<>> /\ ~overrun /\ sent' = sent + 1
      /\ wire' = Notification(sent') /\ sent < MaxSent
      /\ UNCHANGED <<in_urc, urc_rb, buf, callback, called>>
  BY DEF Notify, reader, urc, thread
<1>2. sent' \in 0 .. MaxSent
  BY <1>1, HandledTypes, Constants
<1> QED
  BY <1>1, <1>2, LineSent DEF OInv

LEMMA ReplyOrdered ==
  ASSUME TypeOK, OInv, Reply PROVE OInv'
<1>1. /\ wire = <<>> /\ wire' \in Answers
      /\ UNCHANGED <<prev, in_urc, overrun, urc_rb, buf, callback, called,
                     sent>>
  BY DEF Reply, reader, urc, thread
<1>2. SUFFICES ASSUME ~overrun PROVE Ordered'
  BY <1>1 DEF OInv
<1>3. Ordered
  BY <1>2 DEF OInv
<1>4. CASE wire' = Notification(0)
  <2>1. 0 \in 0 .. MaxSent
    BY Constants
  <2> QED
    BY <1>1, <1>3, <1>4, <2>1, LineSent
<1>5. CASE wire' = <<Char("cr"), Char("lf"), Char("text"), Char("cr"),
                     Char("lf")>>
  <2>1. PICK coming \in Comings : /\ Rest(coming)
                                  /\ WholeLines(Pending(coming))
                                  /\ Numbered(Pending(coming), Handled, sent)
    BY <1>3 DEF Ordered
  <2>2. ~in_urc /\ coming = <<>>
    BY <1>1, <2>1, NothingComes
  <2>3. Rest(coming)'
    BY <1>1, <1>5, <2>2 DEF Rest
  <2>4. Pending(coming)' = Pending(coming) /\ Handled' = Handled
    BY <1>1 DEF Pending, Handled
  <2>5. \E more \in Comings : /\ Rest(more)' /\ WholeLines(Pending(more)')
                              /\ Numbered(Pending(more)', Handled', sent')
    BY <1>1, <2>1, <2>3, <2>4
  <2> QED
    BY <1>1, <1>3, <2>4, <2>5 DEF Ordered
<1> QED
  BY <1>1, <1>4, <1>5 DEF Answers

\* What comes is copied character by character, nothing else is.
LEMMA Copied ==
  ASSUME TypeOK, NEW coming \in Comings, Rest(coming), ReadFromRxFifo,
         ~overrun'
  PROVE  \E more \in Comings :
           /\ Rest(more)'
           /\ \/ coming = more /\ urc_rb' = urc_rb
              \/ \E c \in Characters : /\ coming = <<c>> \o more
                                       /\ urc_rb' = Append(urc_rb, c)
<1> DEFINE c == Head(wire)
           inside == in_urc \/ StartsUrc(c)
<1>1. /\ wire # <<>> /\ wire' = Tail(wire) /\ HandleChar(c)
      /\ c \in Characters
  BY Taken DEF ReadFromRxFifo, TypeOK
<1>2. /\ in_urc' = (inside /\ c # Char("cr")) /\ prev' = c
      /\ inside => urc_rb' = Append(urc_rb, c)
      /\ ~inside => urc_rb' = urc_rb
  <2>1. Len(rx_rb) # RxSize /\ ~(inside /\ Len(urc_rb) = UrcSize)
    BY <1>1 DEF HandleChar
  <2>2. prev' = c
    BY <1>1, <2>1 DEF HandleChar, Store
  <2>3. /\ inside => urc_rb' = Put(urc_rb, UrcSize, c)
        /\ ~inside => urc_rb' = urc_rb
    BY <1>1 DEF HandleChar, CopyToUrc, urc
  <2>4. inside => Len(urc_rb) < UrcSize
    BY <2>1, Constants DEF TypeOK
  <2>5. in_urc' = (inside /\ c # Char("cr"))
    BY <1>1 DEF HandleChar
  <2> HIDE DEF c, inside
  <2> QED
    BY <2>2, <2>3, <2>4, <2>5 DEF Put
<1>3. /\ Char("cr").c = "cr" /\ Char("lf").c = "lf"
      /\ Char("text").c = "text" /\ Char("comma").c = "comma"
  BY CharacterFacts
<1>4. CASE /\ ~in_urc /\ coming = <<>>
           /\ wire \in {<<>>, <<Char("lf")>>, <<Char("cr"), Char("lf")>>,
                        <<Char("text"), Char("cr"), Char("lf")>>,
                        <<Char("lf"), Char("text"), Char("cr"), Char("lf")>>,
                        <<Char("cr"), Char("lf"), Char("text"), Char("cr"),
                          Char("lf")>>}
  <2>1. /\ c \in {Char("cr"), Char("lf"), Char("text")}
        /\ wire' \in {<<>>, <<Char("lf")>>, <<Char("cr"), Char("lf")>>,
                      <<Char("text"), Char("cr"), Char("lf")>>,
                      <<Char("lf"), Char("text"), Char("cr"), Char("lf")>>}
    <3>1. CASE wire = <<Char("lf")>>
      BY <1>1, <3>1
    <3>2. CASE wire = <<Char("cr"), Char("lf")>>
      BY <1>1, <3>2
    <3>3. CASE wire = <<Char("text"), Char("cr"), Char("lf")>>
      BY <1>1, <3>3
    <3>4. CASE wire = <<Char("lf"), Char("text"), Char("cr"), Char("lf")>>
      BY <1>1, <3>4
    <3>5. CASE wire = <<Char("cr"), Char("lf"), Char("text"), Char("cr"),
                        Char("lf")>>
      BY <1>1, <3>5
    <3> QED
      BY <1>1, <1>4, <3>1, <3>2, <3>3, <3>4, <3>5
  <2>2. ~inside
    BY <1>3, <1>4, <2>1 DEF StartsUrc
  <2>3. Rest(coming)'
    BY <1>2, <1>4, <2>1, <2>2 DEF Rest
  <2> QED
    BY <1>2, <2>2, <2>3
<1>5. CASE /\ in_urc /\ coming = <<Char("cr")>>
           /\ wire = <<Char("cr"), Char("lf")>>
  <2>1. c = Char("cr") /\ wire' = <<Char("lf")>> /\ inside
    BY <1>1, <1>5
  <2>2. Rest(<<>>)' /\ <<>> \in Comings
    BY <1>2, <2>1 DEF Rest, Comings
  <2>3. coming = <<c>> \o <<>>
    BY <1>5, <2>1
  <2> QED
    BY <1>1, <1>2, <2>1, <2>2, <2>3
<1>6. CASE /\ in_urc /\ coming = <<Char("comma"), Char("cr")>>
           /\ wire = <<Char("comma"), Char("cr"), Char("lf")>>
  <2>1. c = Char("comma") /\ wire' = <<Char("cr"), Char("lf")>> /\ inside
    BY <1>1, <1>6
  <2>2. Rest(<<Char("cr")>>)' /\ <<Char("cr")>> \in Comings
    BY <1>2, <1>3, <2>1 DEF Rest, Comings
  <2>3. coming = <<c>> \o <<Char("cr")>>
    BY <1>6, <2>1
  <2> QED
    BY <1>1, <1>2, <2>1, <2>2, <2>3
<1>7. ASSUME NEW n \in 0 .. MaxSent, ~in_urc, coming = UrcLine(n),
             \/ wire = Notification(n)
             \/ wire = <<Char("lf"), Plus(n), Char("comma"), Char("cr"),
                         Char("lf")>>
             \/ /\ wire = <<Plus(n), Char("comma"), Char("cr"), Char("lf")>>
                /\ prev = Char("lf")
      PROVE  \E more \in Comings :
               /\ Rest(more)'
               /\ \/ coming = more /\ urc_rb' = urc_rb
                  \/ \E x \in Characters : /\ coming = <<x>> \o more
                                           /\ urc_rb' = Append(urc_rb, x)
  <2>1. CASE wire = Notification(n)
    <3>1. /\ c = Char("cr")
          /\ wire' = <<Char("lf"), Plus(n), Char("comma"), Char("cr"),
                       Char("lf")>>
      BY <1>1, <2>1 DEF Notification
    <3>2. ~inside
      BY <1>3, <1>7, <3>1 DEF StartsUrc
    <3>3. Rest(coming)'
      BY <1>2, <1>7, <3>1, <3>2 DEF Rest
    <3> QED
      BY <1>2, <3>2, <3>3
  <2>2. CASE wire = <<Char("lf"), Plus(n), Char("comma"), Char("cr"),
                      Char("lf")>>
    <3>1. /\ c = Char("lf")
          /\ wire' = <<Plus(n), Char("comma"), Char("cr"), Char("lf")>>
      BY <1>1, <2>2
    <3>2. ~inside
      BY <1>3, <1>7, <3>1 DEF StartsUrc
    <3>3. Rest(coming)'
      BY <1>2, <1>7, <3>1, <3>2 DEF Rest
    <3> QED
      BY <1>2, <3>2, <3>3
  <2>3. CASE /\ wire = <<Plus(n), Char("comma"), Char("cr"), Char("lf")>>
             /\ prev = Char("lf")
    <3>1. /\ c = Plus(n)
          /\ wire' = <<Char("comma"), Char("cr"), Char("lf")>>
      BY <1>1, <2>3
    <3>2. Plus(n).c = "plus" /\ Plus(n) # Char("cr")
      BY <1>3, CharacterFacts
    <3>3. inside
      BY <2>3, <3>1, <3>2 DEF StartsUrc
    <3>4. Rest(<<Char("comma"), Char("cr")>>)'
      BY <1>2, <3>1, <3>2, <3>3 DEF Rest
    <3>5. <<Char("comma"), Char("cr")>> \in Comings
      BY DEF Comings
    <3>6. coming = <<c>> \o <<Char("comma"), Char("cr")>>
      BY <1>7, <3>1 DEF UrcLine
    <3> QED
      BY <1>1, <1>2, <3>3, <3>4, <3>5, <3>6
  <2> QED
    BY <1>7, <2>1, <2>2, <2>3
<1> QED
  BY <1>4, <1>5, <1>6, <1>7 DEF Rest

LEMMA ReaderOrdered ==
  ASSUME TypeOK, OInv, ReadFromRxFifo PROVE OInv'
<1>1. SUFFICES ASSUME ~overrun' PROVE Ordered'
  BY DEF OInv
<1>2. Ordered
  <2>1. overrun => overrun'
    BY DEF ReadFromRxFifo, HandleChar
  <2> QED
    BY <1>1, <2>1 DEF OInv
<1>3. UNCHANGED <<buf, callback, called, sent>>
  BY DEF ReadFromRxFifo, thread, modem
<1>4. PICK coming \in Comings : /\ Rest(coming)
                                /\ WholeLines(Pending(coming))
                                /\ Numbered(Pending(coming), Handled, sent)
  BY <1>2 DEF Ordered
<1>5. PICK more \in Comings :
        /\ Rest(more)'
        /\ \/ coming = more /\ urc_rb' = urc_rb
           \/ \E c \in Characters : /\ coming = <<c>> \o more
                                    /\ urc_rb' = Append(urc_rb, c)
  BY <1>1, <1>4, Copied
<1>6. urc_rb' \o more = urc_rb \o coming
  <2>1. CASE coming = more /\ urc_rb' = urc_rb
    BY <2>1
  <2>2. ASSUME NEW c \in Characters, coming = <<c>> \o more,
               urc_rb' = Append(urc_rb, c)
        PROVE  urc_rb' \o more = urc_rb \o coming
    BY <2>2, PassedOn, PendingTypes
  <2> QED
    BY <1>5, <2>1, <2>2
<1>7. Pending(more)' = Pending(coming) /\ Handled' = Handled
  BY <1>3, <1>6 DEF Pending, Handled
<1>8. \E m \in Comings : /\ Rest(m)' /\ WholeLines(Pending(m)')
                         /\ Numbered(Pending(m)', Handled', sent')
  BY <1>3, <1>4, <1>5, <1>7
<1> QED
  BY <1>2, <1>3, <1>7, <1>8 DEF Ordered

\* The URC thread takes the next character of a line, or its end.
LEMMA UrcOrdered ==
  ASSUME TypeOK, OInv, UrcThread PROVE OInv'
<1>1. UNCHANGED <<wire, prev, in_urc, overrun, called, sent>>
  BY DEF UrcThread, reader, modem
<1>2. CASE urc_rb = <<>>
  <2>1. UNCHANGED <<urc_rb, buf, callback>>
    BY <1>2 DEF UrcThread
  <2> QED
    BY <1>1, <2>1, OrderedUnchanged
<1>3. ASSUME urc_rb # <<>>, ~overrun PROVE Ordered'
  <2>1. PICK coming \in Comings : /\ Rest(coming)
                                  /\ WholeLines(Pending(coming))
                                  /\ Numbered(Pending(coming), Handled, sent)
    BY <1>3 DEF OInv, Ordered
  <2> DEFINE b == Head(urc_rb)
             q == Tail(urc_rb) \o coming
  <2>2. /\ urc_rb' = Tail(urc_rb) /\ callback = Nobody
        /\ buf' = CASE b = Char("cr") -> <<>>
                    [] b = Char("lf") -> buf
                    [] OTHER -> Append(buf, b)
        /\ callback' = IF b = Char("cr") /\ IsNotification(buf)
                       THEN buf[1].n ELSE Nobody
    BY <1>3 DEF UrcThread
  <2>3. /\ b \in Characters /\ Tail(urc_rb) \in Seq(Characters)
        /\ buf \in Seq(Characters) /\ coming \in Seq(Characters)
        /\ q \in Seq(Characters)
    <3>1. /\ buf \in Seq(Characters) /\ coming \in Seq(Characters)
          /\ urc_rb \in Seq(Characters)
      BY PendingTypes
    <3>2. b \in Characters /\ Tail(urc_rb) \in Seq(Characters)
      BY <1>3, <3>1
    <3> QED
      BY <3>1, <3>2, ConcatProperties
  <2>4. /\ urc_rb \o coming = <<b>> \o q
        /\ Append(buf, b) \in Seq(Characters)
        /\ Pending(coming) = Append(buf, b) \o q
    <3>1. urc_rb = <<b>> \o Tail(urc_rb)
      BY <1>3, PendingTypes, HeadFirst
    <3>2. urc_rb \o coming = <<b>> \o q
      <4>1. <<b>> \in Seq(Characters)
        BY <2>3
      <4> QED
        BY <2>3, <3>1, <4>1, ConcatAssociative
    <3> HIDE DEF b, q
    <3> QED
      <4>1. /\ Append(buf, b) \in Seq(Characters)
            /\ Append(buf, b) \o q = buf \o (<<b>> \o q)
        BY <2>3, PassedOn
      <4>2. Pending(coming) = buf \o (urc_rb \o coming)
        BY DEF Pending
      <4> QED
        BY <3>2, <4>1, <4>2
  <2>5. Pending(coming)' = buf' \o q
    BY <2>2 DEF Pending
  <2>6. \A i \in DOMAIN buf : buf[i] # Char("cr")
    BY <1>3 DEF OInv, Ordered
  <2>7. /\ b # Char("lf")
        /\ b = Char("cr") => /\ Len(buf) = 2 /\ buf[1].c = "plus"
                             /\ buf[2] = Char("comma")
    <3> DEFINE r == urc_rb \o coming
    <3>1. r \in Seq(Characters) /\ r # <<>> /\ r[1] = b
      <4>1. r \in Seq(Characters)
        BY PendingTypes
      <4>2. r = <<b>> \o q /\ <<b>> \in Seq(Characters)
        BY <2>3, <2>4
      <4> HIDE DEF r, b, q
      <4>3. Len(r) = 1 + Len(q) /\ r[1] = b
        BY <2>3, <4>2
      <4> QED
        BY <2>3, <4>1, <4>3
    <3>2. WholeLines(buf \o r)
      BY <2>1 DEF Pending
    <3> HIDE DEF r, b, q
    <3> QED
      BY <2>3, <2>6, <3>1, <3>2, Beginning
  <2> HIDE DEF b, q
  <2>8. Handled = Len(called) /\ Handled \in Nat /\ sent \in Nat
        /\ Handled <= sent /\ called = [i \in 1 .. Len(called) |-> i]
    BY <1>3, <2>2, HandledTypes DEF Handled, OInv, Ordered
  <2>9. Rest(coming)'
    BY <1>1, <2>1 DEF Rest
  <2>10. CASE b # Char("cr")
    <3>1. buf' = Append(buf, b) /\ callback' = Nobody
      BY <2>2, <2>7, <2>10
    <3>2. Pending(coming)' = Pending(coming) /\ Handled' = Handled
      BY <1>1, <2>2, <2>4, <2>5, <3>1 DEF Handled
    <3>3. \A i \in DOMAIN buf' : buf'[i] # Char("cr")
      BY <2>3, <2>6, <2>10, <3>1
    <3>4. \E m \in Comings : /\ Rest(m)' /\ WholeLines(Pending(m)')
                             /\ Numbered(Pending(m)', Handled', sent')
      BY <1>1, <2>1, <2>9, <3>2
    <3> QED
      BY <1>1, <2>8, <3>1, <3>2, <3>3, <3>4 DEF Ordered
  <2>11. CASE b = Char("cr")
    <3> DEFINE a == Append(buf, b)
    <3>1. /\ a \in Seq(Characters) /\ Len(a) = 3 /\ a[1] = buf[1]
          /\ a[1].c = "plus" /\ a[2] = Char("comma") /\ a[3] = Char("cr")
      <4>1. /\ a \in Seq(Characters) /\ Len(a) = Len(buf) + 1
            /\ \A i \in 1 .. Len(buf) : a[i] = buf[i]
            /\ a[Len(buf) + 1] = b
        BY <2>3
      <4>2. Len(buf) = 2 /\ 1 \in 1 .. Len(buf) /\ 2 \in 1 .. Len(buf)
        <5>1. Len(buf) = 2
          BY <2>7, <2>11
        <5> QED
          BY <5>1
      <4> HIDE DEF a
      <4>3. Len(a) = 3 /\ a[3] = b /\ a[1] = buf[1] /\ a[2] = buf[2]
        BY <4>1, <4>2
      <4> QED
        BY <2>7, <2>11, <4>1, <4>3
    <3>2. WholeLines(a \o q) /\ Numbered(a \o q, Handled, sent)
      BY <2>1, <2>4
    <3> HIDE DEF a
    <3>3. /\ WholeLines(q)
          /\ a[1].n > 0 => /\ a[1].n = Handled + 1 /\ Handled + 1 <= sent
                           /\ Numbered(q, Handled + 1, sent)
          /\ a[1].n = 0 => Numbered(q, Handled, sent)
      BY <2>3, <2>8, <3>1, <3>2, LineRead
    <3>4. buf' = <<>> /\ Pending(coming)' = q
      <4>1. buf' = <<>>
        BY <2>2, <2>7, <2>11
      <4> QED
        BY <2>3, <2>5, <4>1
    <3>5. buf[1] \in Characters /\ buf[1].n \in Nat
          /\ (IsNotification(buf) <=> buf[1].n > 0)
      <4>1. buf[1] \in Characters /\ buf # <<>>
        <5>1. Len(buf) = 2
          BY <2>7, <2>11
        <5>2. 1 \in 1 .. Len(buf) /\ buf # <<>>
          BY <5>1
        <5> QED
          BY <2>3, <5>2
      <4> QED
        BY <3>1, <4>1, CharacterFacts DEF IsNotification
    <3>6. /\ Numbered(q, Handled', sent) /\ Handled' <= sent
          /\ callback' # Nobody => callback' = Handled'
      <4>1. CASE buf[1].n > 0
        <5>1. callback' = buf[1].n /\ callback' = Handled + 1
          BY <2>2, <2>11, <3>1, <3>3, <3>5, <4>1
        <5>2. Handled' = Handled + 1
          <6>1. callback' # Nobody
            BY <2>8, <5>1 DEF Nobody
          <6> QED
            BY <1>1, <2>8, <6>1 DEF Handled
        <5> QED
          BY <3>1, <3>3, <4>1, <5>1, <5>2
      <4>2. CASE buf[1].n = 0
        <5>1. callback' = Nobody
          BY <2>2, <3>5, <4>2
        <5>2. Handled' = Handled
          BY <1>1, <2>2, <5>1 DEF Handled
        <5> QED
          BY <2>8, <3>1, <3>3, <4>2, <5>1, <5>2
      <4> QED
        BY <3>5, <4>1, <4>2
    <3>7. \E m \in Comings : /\ Rest(m)' /\ WholeLines(Pending(m)')
                             /\ Numbered(Pending(m)', Handled', sent')
      BY <1>1, <2>9, <3>3, <3>4, <3>6
    <3>8. \A i \in DOMAIN buf' : buf'[i] # Char("cr")
      BY <3>4
    <3> QED
      BY <1>1, <2>8, <3>6, <3>7, <3>8 DEF Ordered
  <2> QED
    BY <2>10, <2>11
<1> QED
  BY <1>1, <1>2, <1>3 DEF OInv

LEMMA CallbackOrdered ==
  ASSUME TypeOK, OInv, Callback PROVE OInv'
<1>1. /\ callback # Nobody /\ called' = Append(called, callback)
      /\ callback' = Nobody
      /\ UNCHANGED <<wire, prev, in_urc, overrun, urc_rb, buf, sent>>
  BY DEF Callback, reader, urc, modem
<1>2. SUFFICES ASSUME ~overrun PROVE Ordered'
  BY <1>1 DEF OInv
<1>3. Ordered
  BY <1>2 DEF OInv
<1>4. /\ called \in Seq(0 .. MaxSent) /\ Len(called) \in Nat
      /\ callback \in 0 .. MaxSent
      /\ callback = Len(called) + 1
      /\ called = [i \in 1 .. Len(called) |-> i]
  BY <1>1, <1>3, Constants DEF TypeOK, Ordered, Handled, Nobody
<1>5. Handled = Len(called) + 1
  BY <1>1 DEF Handled
<1>6. /\ Len(called') = Len(called) + 1
      /\ DOMAIN called' = 1 .. Len(called) + 1
      /\ \A i \in 1 .. Len(called) + 1 :
           called'[i] = IF i <= Len(called) THEN called[i] ELSE callback
      /\ called' \in Seq(0 .. MaxSent)
  BY <1>1, <1>4
<1>7. called' = [i \in 1 .. Len(called') |-> i]
  <2>1. \A i \in 1 .. Len(called) + 1 : called'[i] = i
    BY <1>4, <1>6
  <2> QED
    BY <1>6, <2>1
<1>8. Handled' = Handled
  BY <1>1, <1>5, <1>6 DEF Handled
<1>9. \E m \in Comings : /\ Rest(m)' /\ WholeLines(Pending(m)')
                         /\ Numbered(Pending(m)', Handled', sent')
  <2>1. PICK coming \in Comings : /\ Rest(coming)
                                  /\ WholeLines(Pending(coming))
                                  /\ Numbered(Pending(coming), Handled, sent)
    BY <1>3 DEF Ordered
  <2>2. Rest(coming)' /\ Pending(coming)' = Pending(coming)
    BY <1>1, <2>1 DEF Rest, Pending
  <2> QED
    BY <1>1, <1>8, <2>1, <2>2
<1> QED
  BY <1>1, <1>3, <1>7, <1>8, <1>9 DEF Ordered

LEMMA NextOrdered == IInv /\ OInv /\ [Next]_vars => OInv'
<1> SUFFICES ASSUME IInv, OInv, [Next]_vars PROVE OInv'
  OBVIOUS
<1>1. TypeOK
  BY DEF IInv
<1>2. CASE UNCHANGED vars
  BY <1>2, OrderedUnchanged DEF vars, reader, urc, thread, modem
<1>3. CASE Command \/ ReadTake \/ ReadGet \/ Done
  BY <1>3, OrderedUnchanged
  DEF Command, ReadTake, ReadGet, Done, reader, urc, thread, modem
<1> QED
  BY <1>1, <1>2, <1>3, NotifyOrdered, ReplyOrdered, ReaderOrdered,
     UrcOrdered, CallbackOrdered DEF Next, Threads

\* What is in buf is the beginning of a line, whose rest is still to come.
LEMMA WholeInBuf == ASSUME TypeOK, Ordered PROVE LineIntact
<1>1. PICK coming \in Comings : WholeLines(Pending(coming))
  BY DEF Ordered
<1> DEFINE r == urc_rb \o coming
<1>2. /\ buf \in Seq(Characters) /\ r \in Seq(Characters)
      /\ \A i \in DOMAIN buf : buf[i] # Char("cr")
      /\ WholeLines(buf \o r)
  BY <1>1, PendingTypes DEF Ordered, Pending
<1>3. ASSUME urc_rb # <<>> PROVE r # <<>> /\ r[1] = Head(urc_rb)
  <2>1. Len(urc_rb) > 0 /\ urc_rb \in Seq(Characters)
        /\ coming \in Seq(Characters) /\ Head(urc_rb) = urc_rb[1]
    BY <1>3, PendingTypes
  <2>2. Len(r) = Len(urc_rb) + Len(coming) /\ r[1] = urc_rb[1]
    BY <2>1
  <2> QED
    BY <1>2, <2>1, <2>2
<1> HIDE DEF r
<1> QED
  BY <1>2, <1>3, Beginning DEF LineIntact

\* While no ring was full, receive_cb() is called for the notifications in
\* order, none left out and none twice, and each with its own number.
THEOREM CallsInOrder == Spec => []CalledInOrder
<1>1. Spec => [](IInv /\ OInv)
  BY InitInv, InitOrdered, NextInv, NextOrdered, PTL DEF Spec
<1>2. IInv /\ OInv => CalledInOrder
  BY WholeInBuf DEF IInv, OInv, Ordered, CalledInOrder
<1> QED
  BY <1>1, <1>2, PTL
=============================================================================
