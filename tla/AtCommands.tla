------------------------------ MODULE AtCommands ------------------------------
(***************************************************************************)
(* The decoders of the modem's answers (at_commands.c), one character at a *)
(* time.  decode_input() reads until OK, ERROR or a time-out, and calls    *)
(* back for every character and at the end of every line; the callbacks of *)
(* a command pick its results out of the lines.  Notifications come        *)
(* between the lines of an answer, and an answer may come after the        *)
(* time-out: nothing is flushed before the next command.                   *)
(*                                                                         *)
(* A character stands for a token: OK, ERROR, a name with its plus sign, a *)
(* number, or an octet of data (two digits).  N2Sockets takes an answer to *)
(* be one record; RightAnswer and OneAnswerEach are why it may.            *)
(***************************************************************************)
EXTENDS Integers, SequencesExt, FiniteSetsExt

CONSTANTS Numbers,  \* socket numbers, addresses and identities
          MaxData,  \* bound: octets of a datagram
          MaxAsked, \* bound: commands
          MaxUrcs,  \* bound: notifications in an answer
          MaxLate   \* bound: time-outs before the answer is complete

ASSUME AtAssumption ==
  /\ Numbers \subseteq Nat
  /\ {MaxData, MaxAsked, MaxUrcs, MaxLate} \subseteq Nat

Char(c) == [c |-> c, n |-> 0]
Num(n)  == [c |-> "num", n |-> n]
cr == Char("cr")
lf == Char("lf")
comma == Char("comma")
OK    == <<Char("OK"), cr, lf>>
ERROR == <<Char("ERROR"), cr, lf>>
Names == {"+NSONMI", "+CGPADDR", "+CGSN"}

VARIABLES
  rx,      \* rx_rb and what is on the way
  cmd,     \* the decoder that runs, "none" between commands
  rb,      \* struct buf: the line so far
  prev, is_urc,
  ctx,     \* the results and the context of the callbacks
  answer,  \* history: [ok, ctx] the modem answered to cmd
  aligned, \* history: no earlier answer, and no part of a line, was left
           \* when cmd was written
  first,   \* history: the character that was left over first, cr if none
  read,    \* history: ends of answers that cmd's decoder has read
  asked, late

vars == <<rx, cmd, rb, prev, is_urc, ctx, answer, aligned, first, read, asked,
          late>>

\* What the decoders start from: sockfd -2, len and received 0.
Blank == [fd |-> -2, len |-> 0, text |-> <<>>, port |-> 0, data |-> <<>>,
          fieldno |-> 0, field |-> <<>>, in_address |-> FALSE, done |-> FALSE]

-----------------------------------------------------------------------------
(* The modem (external): what it may answer to a command. *)

Line(tokens) == tokens \o <<cr, lf>>
Blanks == <<cr, lf>>
Urc    == Blanks \o Line(<<Char("+NSONMI"), Num(0), comma, Num(1)>>)

\* Each field has a value of its own, so that none passes for another.
Sent == 11
Addr == 12
Port == 13
Octets(k) == [i \in 1 .. k |-> Num(20 + i)]

\* The information line of an answer and what it says.
Info(c) ==
  CASE c = "generic" -> {}
    [] c = "nsocr" -> {[line |-> <<Num(n)>>, ctx |-> [Blank EXCEPT !.fd = n]] :
                         n \in Numbers}
    [] c = "nsost" -> {[line |-> <<Num(n), comma, Num(Sent)>>,
                        ctx |-> [Blank EXCEPT !.fd = n, !.len = Sent]] :
                         n \in Numbers}
    [] c = "nsorf" ->
         {[line |-> <<Num(n), comma, Num(Addr), comma, Num(Port), comma, Num(k),
                      comma>> \o Octets(k) \o <<comma, Num(0)>>,
           ctx |-> [Blank EXCEPT !.fd = n, !.text = <<Num(Addr)>>, !.port = Port,
                                 !.data = Octets(k)]] :
            n \in Numbers, k \in 1 .. MaxData}
    [] c = "cgpaddr" -> {[line |-> <<Char("+CGPADDR"), Num(0), comma, Char("quote"),
                                     Num(a), Char("quote")>>,
                          ctx |-> [Blank EXCEPT !.text = <<Num(a)>>, !.len = 1]] :
                           a \in Numbers}
                   \cup {[line |-> <<Char("+CGPADDR"), Num(0)>>, ctx |-> Blank]}
    [] c = "cimi" -> {[line |-> <<Num(n)>>,
                       ctx |-> [Blank EXCEPT !.text = <<Num(n)>>]] :
                        n \in Numbers}
    [] c = "cgsn" -> {[line |-> <<Char("+CGSN"), Num(n)>>,
                       ctx |-> [Blank EXCEPT !.text = <<Char("+CGSN"), Num(n)>>]] : n \in Numbers}

\* AT+NSORF with nothing to read, and the commands without results.
MayBeBare == {"generic", "nsorf"}

\* k of them.
Urcs(k) == [i \in 1 .. k * Len(Urc) |-> Urc[1 + ((i - 1) % Len(Urc))]]

\* [sent, ok, ctx]: notifications may come before the information line, and
\* before and after the final one; a modem that restarts does not answer.
Answers(c) ==
  {[sent |-> Urcs(i) \o Blanks \o Line(info.line) \o Urcs(j) \o Blanks \o OK \o Urcs(k),
    ok |-> TRUE, ctx |-> info.ctx] :
     info \in Info(c), i \in 0 .. MaxUrcs, j \in 0 .. MaxUrcs, k \in 0 .. MaxUrcs}
  \cup {[sent |-> Urcs(i) \o Blanks \o final \o Urcs(k), ok |-> final = OK, ctx |-> Blank] :
          final \in {ERROR} \cup IF c \in MayBeBare THEN {OK} ELSE {},
          i \in 0 .. MaxUrcs, k \in 0 .. MaxUrcs}
  \cup {[sent |-> <<>>, ok |-> FALSE, ctx |-> Blank]}

-----------------------------------------------------------------------------
(* The callbacks. *)

IsSpace(b) == b \in {cr, lf}

\* atoi() of the start of a string that is not one number is abstracted to
\* its first token.
Atoi(s) == IF s = <<>> \/ s[1].c # "num" THEN 0 ELSE s[1].n

CgpaddrChar(c, line, b, urc) ==
  [c EXCEPT !.field = IF c.in_address /\ ~IsSpace(b) THEN Append(@, b) ELSE @,
            !.in_address = @ \/ (urc /\ line = <<Char("+CGPADDR")>>)]

\* The text between the quotes.
CgpaddrEol(c) ==
  LET quotes == {i \in DOMAIN c.field : c.field[i] = Char("quote")}
      text   == IF quotes = {} THEN <<>>
                ELSE SubSeq(c.field, Min(quotes) + 1, Max(quotes) - 1)
  IN  IF c.in_address
        THEN [c EXCEPT !.in_address = FALSE, !.text = text, !.len = Len(text)]
        ELSE c

\* (mutated) the number of a notification is taken as well
NsocrEolAny(c, line, urc) == IF Len(line) > 2 THEN [c EXCEPT !.fd = Atoi(line)] ELSE c
NsocrEol(c, line, urc) ==
  IF ~urc /\ Len(line) > 2 THEN [c EXCEPT !.fd = Atoi(line)] ELSE c

NsostEol(c, line, urc) ==
  IF ~urc /\ c.len = 0 /\ Len(line) > 2 /\ line[2] = comma
    THEN [c EXCEPT !.fd = Atoi(line), !.len = Atoi(Tail(Tail(line)))]
    ELSE c

NextField(c) == [c EXCEPT !.field = <<>>, !.fieldno = @ + 1]

\* A comma stores the field before it; the one behind the data ends it all.
NsorfComma(c) ==
  CASE c.fieldno = 0 -> [NextField(c) EXCEPT !.fd = Atoi(c.field)]
    [] c.fieldno = 1 -> [NextField(c) EXCEPT !.text = c.field]
    [] c.fieldno = 2 -> [NextField(c) EXCEPT !.port = Atoi(c.field)]
    [] c.fieldno = 3 -> NextField(c)
    [] OTHER -> [c EXCEPT !.done = TRUE, !.field = <<>>]

\* An octet of field 4 is stored at once.
NsorfChar(c, line, b, urc) ==
  IF urc \/ IsSpace(b) \/ c.done THEN c
  ELSE CASE b = comma -> NsorfComma(c)
         [] b = Char("quote") -> c
         [] OTHER -> IF c.fieldno = 4 THEN [c EXCEPT !.data = Append(@, b)]
                     ELSE [c EXCEPT !.field = Append(@, b)]

CimiChar(c, line, b, urc) ==
  IF ~c.done /\ ~urc /\ ~IsSpace(b) THEN [c EXCEPT !.text = Append(@, b)] ELSE c

\* The answer to AT+CGSN starts with a plus sign itself.
CgsnChar(c, line, b, urc) ==
  IF ~c.done /\ ~IsSpace(b) THEN [c EXCEPT !.text = Append(@, b)] ELSE c

CimiEol(c) == [c EXCEPT !.done = @ \/ c.text # <<>>]

CharCb(c, line, b, urc) ==
  CASE cmd = "cgpaddr" -> CgpaddrChar(c, line, b, urc)
    [] cmd = "nsorf"   -> NsorfChar(c, line, b, urc)
    [] cmd = "cimi"    -> CimiChar(c, line, b, urc)
    [] cmd = "cgsn"    -> CgsnChar(c, line, b, urc)
    [] OTHER           -> c

EolCb(c, line, urc) ==
  CASE cmd = "cgpaddr" -> CgpaddrEol(c)
    [] cmd = "nsocr"   -> NsocrEol(c, line, urc)
    [] cmd = "nsost"   -> NsostEol(c, line, urc)
    [] cmd \in {"cimi", "cgsn"} -> CimiEol(c)
    [] OTHER           -> c   \* nsorf_eol() only sets *remaining to 0

-----------------------------------------------------------------------------
Commands == {"generic", "cgpaddr", "nsocr", "nsost", "nsorf", "cimi", "cgsn"}

Init ==
  /\ rx = <<>> /\ cmd = "none"
  /\ rb = <<>> /\ prev = Char("space") /\ is_urc = FALSE
  /\ ctx = Blank /\ answer = [ok |-> TRUE, ctx |-> Blank] /\ aligned = TRUE
  /\ first = cr /\ read = 0
  /\ asked = 0 /\ late = 0

\* The characters that end an answer, and the answers that are not read yet.
Ending(x) == x.c \in {"OK", "ERROR"}
Finals == Cardinality({i \in DOMAIN rx : Ending(rx[i])})

\* A time-out may leave the rest of a notification, which no later decoder
\* knows for one.
AtLineStart == rx = <<>> \/ Head(rx).c \in {"cr", "+NSONMI"}

\* modem_write(), and the call of the decoder.  The modem answers AT+CGSN
\* before any socket exists, so that no notification comes between.
Ask(c, a) ==
  /\ cmd = "none" /\ cmd' = c
  /\ asked < MaxAsked /\ asked' = asked + 1
  /\ c = "cgsn" => "+NSONMI" \notin {x.c : x \in ToSet(rx \o a.sent)}
  /\ rx' = rx \o a.sent
  /\ answer' = [ok |-> a.ok, ctx |-> a.ctx]
  /\ aligned' = (Finals = 0 /\ AtLineStart)
  /\ first' = IF rx = <<>> THEN cr ELSE Head(rx)
  /\ read' = 0
  /\ rb' = <<>> /\ prev' = Char("space") /\ is_urc' = FALSE
  /\ ctx' = Blank
  /\ UNCHANGED late

\* (mutated) an error does not end an answer
IsFinalOk(line) == line = OK
IsFinal(line) == line \in {OK, ERROR}

ResetLine(line) == <<>>

\* One round of the loop of decode_input().
DecodeChar ==
  /\ cmd # "none" /\ ~IsFinal(rb)
  /\ rx # <<>> /\ rx' = Tail(rx)
  /\ LET b    == Head(rx)
         line == Append(rb, b)
         urc  == is_urc \/ (rb = <<>> /\ b.c \in Names)
         c    == CharCb(ctx, line, b, urc)
         eol  == prev = cr /\ b = lf /\ ~IsFinal(line)
     IN  /\ ctx'    = IF eol THEN EolCb(c, line, urc) ELSE c
         /\ rb'     = IF eol THEN ResetLine(line) ELSE line
         /\ is_urc' = (urc /\ ~eol)
         /\ prev'   = b
         /\ read'   = read + IF Ending(b) THEN 1 ELSE 0
  /\ UNCHANGED <<cmd, answer, aligned, first, asked, late>>

\* AT_OK or AT_ERROR.
Return ==
  /\ cmd # "none" /\ IsFinal(rb)
  /\ cmd' = "none"
  /\ UNCHANGED <<rx, rb, prev, is_urc, ctx, answer, aligned, first, read,
                 asked, late>>

\* AT_TIMEOUT: modem_read() got nothing in time.
TimeOut ==
  /\ cmd # "none" /\ ~IsFinal(rb)
  /\ \/ rx = <<>> /\ UNCHANGED late
     \/ rx # <<>> /\ late < MaxLate /\ late' = late + 1
  /\ cmd' = "none"
  /\ UNCHANGED <<rx, rb, prev, is_urc, ctx, answer, aligned, first, read,
                 asked>>

Next == \/ \E c \in Commands : \E a \in Answers(c) : Ask(c, a)
        \/ DecodeChar \/ Return \/ TimeOut

Spec == Init /\ [][Next]_vars

-----------------------------------------------------------------------------
(* Properties. *)

TypeOK ==
  /\ cmd \in Commands \cup {"none"}
  /\ {is_urc, aligned} \subseteq BOOLEAN
  /\ asked \in 0 .. MaxAsked /\ late \in 0 .. MaxLate

\* The results the caller reads.
Results(c) == [fd |-> c.fd, len |-> c.len, text |-> c.text, port |-> c.port,
               data |-> c.data]

\* A decoder that found nothing left of an earlier answer, nor the rest of a
\* notification that was cut in two by a time-out, returns the modem's verdict
\* and exactly the values of its information line, whatever notifications
\* came before, between and after the lines (decode_input and the callbacks).
RightAnswer ==
  cmd # "none" /\ IsFinal(rb) /\ aligned =>
    /\ answer.ok = (rb = OK)
    /\ answer.ok => Results(ctx) = Results(answer.ctx)

Running == IF cmd # "none" THEN 1 ELSE 0

\* 1 when the line that is read is the end of an answer, or was.
Started == IF cmd # "none" /\ rb # <<>> /\ Ending(rb[1]) THEN 1 ELSE 0

\* A decoder takes one answer and nothing of the next.  It stops at the first
\* end of an answer it comes to, whether that is its own or one that came
\* late, and passes none by; so as many answers wait as commands timed out
\* before their own was complete.  N2Sockets lets each decoder take one record
\* because of this.  (A time-out that leaves the second half of a line's end
\* makes the next decoder run the two lines together: it is left out.)
OneAnswerEach ==
  /\ Finals + Started <= late + Running
  /\ cmd # "none" /\ first # lf => read = Started
=============================================================================
