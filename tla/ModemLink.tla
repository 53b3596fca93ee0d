------------------------------ MODULE ModemLink ------------------------------
(***************************************************************************)
(* The serial link to the modem (comms.c, max14830.c).  The reader thread  *)
(* passes every character to comms_handle_char(), which copies the lines   *)
(* that start with '+' to a second ring buffer for the URC thread; the     *)
(* main thread reads everything from the first one.  Each ring has a       *)
(* counting semaphore of its size.  The reader and the URC thread are      *)
(* cooperative: a character and an iteration of the URC thread are atomic, *)
(* except that receive_cb() waits for mdm_sem, which main holds from a     *)
(* command to its answer.                                                  *)
(*                                                                         *)
(* A character stands for a part of a line: the number of a notification   *)
(* is in its "plus", its length behind the "comma"; number 0 is another    *)
(* line that starts with '+', as the answer to AT+CGPADDR.                 *)
(***************************************************************************)
EXTENDS Integers, SequencesExt

CONSTANTS RxSize,   \* RB_SIZE, in parts
          UrcSize,  \* URC_SIZE, in parts
          MaxSent,  \* bound: notifications
          MaxAsked  \* bound: commands

Nobody == -1

ASSUME ModemLinkAssumption ==
  /\ RxSize \in Nat \ {0} /\ UrcSize \in Nat \ {0}
  /\ MaxSent \in Nat /\ MaxAsked \in Nat

Char(c)   == [c |-> c, n |-> 0]
Plus(n)   == [c |-> "plus", n |-> n]
Characters == {Char(c) : c \in {"cr", "lf", "comma", "text"}}
                \cup {Plus(n) : n \in 0 .. MaxSent}

\* \r\n+NSONMI: <n>,<length>\r\n  and  \r\nOK\r\n
Notification(n) == <<Char("cr"), Char("lf"), Plus(n), Char("comma"),
                     Char("cr"), Char("lf")>>
Answers == {<<Char("cr"), Char("lf"), Char("text"), Char("cr"), Char("lf")>>,
            Notification(0)}

VARIABLES
  wire,            \* sent by the modem, not read from the MAX14830
  prev, in_urc,    \* the static variables of comms_handle_char()
  rx_rb, rx_sem,   \* everything, for modem_read()
  urc_rb, urc_sem, \* the URCs, for the URC thread
  buf,             \* buf[0 .. index - 1] of the URC thread
  callback,        \* the number in receive_cb(), Nobody if the thread reads
  main,            \* "idle", "reading" (holds mdm_sem, between calls of
                   \* modem_read()), "taken" (inside, rx_sem taken)
  due,             \* the modem owes an answer
  asked, sent,     \* counters for the bounds
  called,          \* history: arguments of recv_cb
  overrun          \* history: a ring was full when a character came

reader == <<prev, in_urc, overrun>>
rx     == <<rx_rb, rx_sem>>
urc    == <<urc_rb, urc_sem>>
thread == <<buf, callback, called>>
modem  == <<due, asked, sent>>
vars   == <<wire, reader, rx, urc, thread, main, modem>>

TypeOK ==
  /\ wire \in Seq(Characters)
  /\ prev \in Characters /\ in_urc \in BOOLEAN /\ overrun \in BOOLEAN
  /\ rx_rb \in Seq(Characters) /\ Len(rx_rb) <= RxSize /\ rx_sem \in 0 .. RxSize
  /\ urc_rb \in Seq(Characters) /\ Len(urc_rb) <= UrcSize
  /\ urc_sem \in 0 .. UrcSize
  /\ buf \in Seq(Characters)
  /\ callback \in Nobody .. MaxSent /\ called \in Seq(0 .. MaxSent)
  /\ main \in {"idle", "reading", "taken"} /\ due \in BOOLEAN
  /\ asked \in 0 .. MaxAsked /\ sent \in 0 .. MaxSent

Init ==
  /\ wire = <<>> /\ prev = Char("lf") /\ in_urc = FALSE /\ overrun = FALSE
  /\ rx_rb = <<>> /\ rx_sem = 0
  /\ urc_rb = <<>> /\ urc_sem = 0
  /\ buf = <<>> /\ callback = Nobody /\ called = <<>>
  /\ main = "idle" /\ due = FALSE
  /\ asked = 0 /\ sent = 0

-----------------------------------------------------------------------------
(* The modem (external). *)

\* Bound: the line that overruns a ring is the last one.
Notify ==
  /\ wire = <<>>
  /\ ~overrun
  /\ sent < MaxSent /\ sent' = sent + 1
  /\ wire' = Notification(sent')
  /\ UNCHANGED <<reader, rx, urc, thread, main, due, asked>>

Reply ==
  /\ wire = <<>>
  /\ due /\ due' = FALSE
  /\ wire' \in Answers
  /\ UNCHANGED <<reader, rx, urc, thread, main, asked, sent>>

-----------------------------------------------------------------------------
(* The reader thread: max_proc() and comms_handle_char(). *)

Put(ring, size, c) == IF Len(ring) < size THEN Append(ring, c) ELSE ring

\* k_sem_give() stops at the limit.
Give(sem, limit) == IF sem < limit THEN sem + 1 ELSE sem

StartsUrc(c) == prev = Char("lf") /\ c.c = "plus"

\* (mutated) the semaphore counts what was dropped too
StoreCounted(c) ==
  /\ rx_rb' = Put(rx_rb, RxSize, c)
  /\ rx_sem' = Give(rx_sem, RxSize)
  /\ prev' = c

\* With a full rx_rb neither prev nor rx_sem changes.
Store(c) ==
  \/ /\ Len(rx_rb) < RxSize
     /\ rx_rb' = Append(rx_rb, c)
     /\ rx_sem' = Give(rx_sem, RxSize)
     /\ prev' = c
  \/ /\ Len(rx_rb) = RxSize
     /\ UNCHANGED <<rx, prev>>

\* (mutated) the end of the line is not copied
CopyToUrcBody(c, inside) ==
  IF inside /\ c # Char("cr")
    THEN urc_rb' = Put(urc_rb, UrcSize, c) /\ urc_sem' = Give(urc_sem, UrcSize)
    ELSE UNCHANGED urc

\* (mutated) the thread is woken once a line
CopyGivesOnce(c, inside) ==
  IF inside
    THEN /\ urc_rb' = Put(urc_rb, UrcSize, c)
         /\ urc_sem' = IF c = Char("cr") THEN Give(urc_sem, UrcSize) ELSE urc_sem
    ELSE UNCHANGED urc

CopyToUrc(c, inside) ==
  IF inside
    THEN urc_rb' = Put(urc_rb, UrcSize, c) /\ urc_sem' = Give(urc_sem, UrcSize)
    ELSE UNCHANGED urc

HandleChar(c) ==
  LET inside == in_urc \/ StartsUrc(c)
  IN  /\ CopyToUrc(c, inside)
      /\ in_urc' = (inside /\ c # Char("cr"))
      /\ overrun' = \/ overrun
                    \/ Len(rx_rb) = RxSize
                    \/ inside /\ Len(urc_rb) = UrcSize
      /\ Store(c)

\* One turn of read_from_rx_fifo().
ReadFromRxFifo ==
  /\ wire # <<>> /\ wire' = Tail(wire)
  /\ HandleChar(Head(wire))
  /\ UNCHANGED <<thread, main, modem>>

-----------------------------------------------------------------------------
(* The URC thread: urc_threadproc(). *)

\* (mutated) any URC
IsUrc(line) == line # <<>>
IsNotification(line) == line # <<>> /\ line[1].c = "plus" /\ line[1].n > 0

UrcThread ==
  /\ callback = Nobody
  /\ urc_sem > 0 /\ urc_sem' = urc_sem - 1
  /\ IF urc_rb = <<>> THEN UNCHANGED <<urc_rb, buf, callback>>
     ELSE LET b == Head(urc_rb)
          IN  /\ urc_rb' = Tail(urc_rb)
              /\ buf' = CASE b = Char("cr") -> <<>>
                          [] b = Char("lf") -> buf
                          [] OTHER -> Append(buf, b)
              /\ callback' = IF b = Char("cr") /\ IsNotification(buf)
                             THEN buf[1].n ELSE Nobody
  /\ UNCHANGED <<wire, reader, rx, called, main, modem>>

\* receive_cb() gets mdm_sem and gives it back.
Callback ==
  /\ callback # Nobody
  /\ main = "idle"
  /\ called' = Append(called, callback)
  /\ callback' = Nobody
  /\ UNCHANGED <<wire, reader, rx, urc, buf, main, modem>>

-----------------------------------------------------------------------------
(* The main thread, which only runs while the URC thread waits. *)

MainRuns == urc_sem = 0 \/ callback # Nobody

\* max_send() writes the characters and waits until the MAX14830 has sent them.
MaxSend == due' = TRUE

\* modem_write() of a command, with mdm_sem taken.
Command ==
  /\ MainRuns
  /\ main = "idle" /\ main' = "reading"
  /\ asked < MaxAsked /\ asked' = asked + 1
  /\ MaxSend
  /\ UNCHANGED <<wire, reader, rx, urc, thread, sent>>

\* modem_read(): k_sem_take() and ring_buf_get().
ReadTake ==
  /\ MainRuns
  /\ main = "reading" /\ main' = "taken"
  /\ rx_sem > 0 /\ rx_sem' = rx_sem - 1
  /\ UNCHANGED <<wire, reader, rx_rb, urc, thread, modem>>

ReadGet ==
  /\ MainRuns
  /\ main = "taken" /\ main' = "reading"
  /\ rx_rb' = IF rx_rb = <<>> THEN rx_rb ELSE Tail(rx_rb)
  /\ UNCHANGED <<wire, reader, rx_sem, urc, thread, modem>>

\* The decoder has its answer or gives up.
Done ==
  /\ MainRuns
  /\ main = "reading" /\ main' = "idle"
  /\ UNCHANGED <<wire, reader, rx, urc, thread, modem>>

-----------------------------------------------------------------------------
Threads == ReadFromRxFifo \/ UrcThread \/ Callback \/ ReadTake \/ ReadGet \/ Done

Next == Notify \/ Reply \/ Command \/ Threads

Spec == Init /\ [][Next]_vars

\* The threads run; decoders have time-outs.
FairSpec == /\ Spec
            /\ WF_vars(ReadFromRxFifo) /\ WF_vars(UrcThread)
            /\ WF_vars(Callback) /\ WF_vars(ReadGet) /\ WF_vars(Done)

-----------------------------------------------------------------------------
(* Properties. *)

\* A semaphore never counts less than its ring holds, or a character would
\* wait until the next one comes; rx_sem, which main waits for with a
\* time-out, counts exactly, or modem_read() fails without having waited
\* (comms_handle_char, modem_read).
SemaphoresCount ==
  /\ rx_sem + (IF main = "taken" THEN 1 ELSE 0) = Len(rx_rb)
  /\ urc_sem >= Len(urc_rb)

\* A line in buf is one notification, so that it has a length when it ends and
\* fits buf: atoi() would get NULL otherwise (urc_threadproc).
LineIntact ==
  /\ Len(buf) <= 2
  /\ urc_rb # <<>> /\ Head(urc_rb) = Char("cr") =>
       /\ Len(buf) = 2 /\ buf[1].c = "plus" /\ buf[2] = Char("comma")

\* While neither ring was full, receive_cb() is called once for each
\* notification, in order, with its own number, and its lines are whole
\* (urc_threadproc).
CalledInOrder == ~overrun =>
  LineIntact /\ called = [i \in 1 .. Len(called) |-> i]

\* Every notification leads to a call, unless a ring was full
\* (comms_handle_char, urc_threadproc).
AllCalled ==
  \A n \in 1 .. MaxSent : sent = n ~> Contains(called, n) \/ overrun
=============================================================================
