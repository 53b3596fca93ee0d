--------------------------------- MODULE Gps ---------------------------------
(***************************************************************************)
(* From the GPS receiver to the sample (gps.c, nmealib.c, gps_std.c,       *)
(* gps_cache.c): the interrupt handler decodes sentences into gps_fix, the *)
(* GPS thread copies it to current every five seconds, and main copies     *)
(* that into each sample.  The handler interrupts both copies, the thread  *)
(* that of main; the mutex excludes neither, since the handler runs as the *)
(* thread it interrupts.                                                   *)
(*                                                                         *)
(* A sentence is a sequence of tokens, and the interrupts of one sentence  *)
(* are one action: all but that of the line feed touch nmea_buffer alone.  *)
(* Tokens may be lost, at most one of a sentence.                          *)
(***************************************************************************)
EXTENDS Integers, SequencesExt, FiniteSetsExt

CONSTANTS BufferSize, \* MAX_NMEA_BUFFER, in tokens
          RetryLimit, \* GPS_FIX_RETRY_LIMIT
          Acquire,    \* rounds of the thread the receiver needs for a fix
          MaxFix,     \* bound: times and positions
          MaxLost     \* bound: lost tokens

\* A receiver that needs longer than the limit (ten minutes) never has a fix.
\* The buffer takes the longest sentence (82 characters of 254), of 12 tokens.
ASSUME GpsAssumption ==
  /\ {BufferSize, RetryLimit, Acquire, MaxFix, MaxLost} \subseteq Nat
  /\ BufferSize >= 12
  /\ Acquire \in 1 .. RetryLimit /\ MaxFix > 0

VARIABLES
  nmea,     \* nmea_buffer up to nmea_pos
  fix,      \* gps_fix of gps_cache.c
  current,  \* current of gps.c
  sample,   \* last_message.gps_fix of main()
  gps, main, \* what the threads do
  retries,  \* gps_retries_before_fix
  sky, acquired, now, \* the receiver: reception, its progress, its clock
  heard,    \* the receiver has sent in this round of the thread
  lost

vars == <<nmea, fix, current, sample, gps, main, retries, sky, acquired, now,
          heard, lost>>

\* [what, number, checksum]
Tok(c)  == <<c, 0, {}>>
Sum(s)  == <<"sum", 0, s>>
dollar == Tok("$")
comma  == Tok(",")
Ends   == {Tok("*"), Tok("CR"), Tok("LF")}

\* What an undefined value may be, other than any value that was sent.
Junk  == -1
NoFix == [time |-> 0, pos |-> 0, q |-> 0]

-----------------------------------------------------------------------------
(* nmealib.c *)

\* Up to the first star, CR, LF or NUL that is not the first character.
Body(buf) ==
  SubSeq(buf, 1, Min({i \in 2 .. Len(buf) : buf[i] \in Ends} \cup {Len(buf) + 1}) - 1)

\* Exclusive or of what follows the last dollar: tokens cancel in pairs.
Checksum(s) ==
  LET from == Max({i \in DOMAIN s : s[i] = dollar} \cup {0}) + 1
  IN  {c \in ToSet(SubSeq(s, from, Len(s))) :
         Cardinality({i \in from .. Len(s) : s[i] = c}) % 2 = 1}

\* (mutated) the digits behind the star are not compared
ValidUnchecked(buf) == dollar \in ToSet(Body(buf))
Valid(buf) ==
  LET e == Len(Body(buf)) + 1
  IN  /\ dollar \in ToSet(Body(buf))
      /\ e <= Len(buf) /\ buf[e] = Tok("*") =>
           e < Len(buf) /\ buf[e + 1] = Sum(Checksum(Body(buf)))

\* A comma or the end closes a field that starts behind the last comma or
\* dollar: a second dollar keeps the fields before it.
Fields(body) ==
  LET starts == {i \in DOMAIN body : body[i] \in {comma, dollar}}
      closes == {i \in DOMAIN body : body[i] = comma /\ dollar \in ToSet(SubSeq(body, 1, i))}
      End(k) == CHOOSE e \in closes \cup {Len(body) + 1} :
                  Cardinality({i \in closes : i < e}) = k - 1
  IN  [k \in 1 .. Cardinality(closes) + 1 |->
         SubSeq(body, Max({i \in starts : i < End(k)}) + 1, End(k) - 1)]

-----------------------------------------------------------------------------
(* gps_std.c and gps_cache.c: a decoder that finds too few fields leaves its
   output undefined, and the cache takes it. *)

Value(field) == IF field = <<>> THEN 0 ELSE field[1][2]

DecodeGga(f) ==
  IF Len(f) < 4 THEN [time |-> Junk, pos |-> Junk, q |-> Junk]
  ELSE [time |-> Value(f[2]), pos |-> Value(f[3]), q |-> Value(f[4])]

\* (mutated) the time is stored before the quality is looked at
UpdateGgaEarly(x, gga) ==
  IF gga.q = 0 THEN [x EXCEPT !.time = gga.time]
  ELSE [x EXCEPT !.time = gga.time, !.pos = gga.pos, !.q = gga.q]
UpdateGga(x, gga) ==
  IF gga.q = 0 THEN x
  ELSE [x EXCEPT !.time = gga.time, !.pos = gga.pos, !.q = gga.q]

UpdateGsa(x, f) == [x EXCEPT !.dop = IF Len(f) < 2 THEN Junk ELSE Value(f[2])]

\* Field 3 counted from 0 is the latitude, not the status: it is never A.
UpdateRmc(x, f) ==
  IF Len(f) >= 4 /\ f[4] = <<Tok("A")>> THEN [x EXCEPT !.track = Value(f[2])] ELSE x

Dispatch(x, f) ==
  CASE f[1] = <<Tok("GGA")>> -> UpdateGga(x, DecodeGga(f))
    [] f[1] = <<Tok("GSA")>> -> UpdateGsa(x, f)
    [] f[1] = <<Tok("RMC")>> -> UpdateRmc(x, f)
    [] OTHER                 -> x   \* VTG stores nothing

\* rxData() of each character of s: a full buffer is dropped, the character
\* that filled it too, and a line feed empties it.
RxData(was, s) ==
  LET all == was.nmea \o s
      buf == SubSeq(all, IF Len(all) >= BufferSize THEN BufferSize + 1 ELSE 1, Len(all))
  IN  IF buf = <<>> \/ Last(buf) # Tok("LF") THEN [was EXCEPT !.nmea = buf]
      ELSE [nmea |-> <<>>,
            fix  |-> IF Valid(buf) THEN Dispatch(was.fix, Fields(Body(buf)))
                     ELSE was.fix]

-----------------------------------------------------------------------------
Init ==
  /\ nmea = <<>> /\ fix = [time |-> 0, pos |-> 0, q |-> 0, dop |-> 0, track |-> 0]
  /\ current = NoFix /\ sample = NoFix
  /\ gps = "sleep" /\ main = "idle" /\ retries = 0
  /\ sky \in BOOLEAN /\ acquired = 0 /\ now = 0
  /\ heard = FALSE /\ lost = 0

(* The receiver (external). *)

HasFix == acquired = Acquire
Field(c, n) == IF n = 0 THEN <<>> ELSE <<<<c, n, {}>>>>

\* The clock goes on without a fix, the position is empty then.
Content(kind, t, p) ==
  CASE kind = "GGA" -> <<Tok("GGA"), comma>> \o Field("T", t) \o <<comma>> \o Field("P", p)
                         \o <<comma>> \o Field("Q", IF p = 0 THEN 0 ELSE 1)
    [] kind = "GSA" -> <<Tok("GSA"), comma>> \o Field("D", IF p = 0 THEN 0 ELSE 1)
    [] kind = "RMC" -> <<Tok("RMC"), comma>> \o Field("T", t) \o
                       <<comma, Tok(IF p = 0 THEN "V" ELSE "A"), comma>> \o Field("P", p)
    [] OTHER        -> <<Tok("VTG"), comma>> \o Field("V", IF p = 0 THEN 0 ELSE 1)

Sentence(kind, t, p) ==
  <<dollar>> \o Content(kind, t, p) \o
    <<Tok("*"), Sum(Checksum(Content(kind, t, p))), Tok("CR"), Tok("LF")>>

Kinds == {"GGA", "GSA", "RMC", "VTG"}

Arrives(kind, t, gone) ==
  {RxData([nmea |-> nmea, fix |-> fix], IF gone = 0 THEN s ELSE RemoveAt(s, gone)) :
     s \in {x \in {IF HasFix THEN Sentence(kind, t, t) ELSE Sentence(kind, now + 1, 0)} :
             gone <= Len(x)}}

\* gone is the place of the lost token, 0 for none.  The positions are as
\* many as the times, and both only move forward.
Receive(kind, gone) ==
  LET later == IF HasFix /\ kind = "GGA" /\ now < MaxFix THEN now + 1 ELSE now IN
  /\ \E r \in Arrives(kind, later, gone) : nmea' = r.nmea /\ fix' = r.fix
  /\ gone = 0 \/ lost < MaxLost
  /\ lost' = lost + (IF gone = 0 THEN 0 ELSE 1)
  /\ now' = later
  /\ heard' = (heard \/ kind = "GGA")
  /\ UNCHANGED <<current, sample, gps, main, retries, sky, acquired>>

Reception ==
  /\ sky' = ~sky /\ acquired' = 0
  /\ UNCHANGED <<nmea, fix, current, sample, gps, main, retries, now, heard, lost>>

-----------------------------------------------------------------------------
(* The copies: memcpy() goes upwards, and the time comes first.  The fields
   that are not sent are left out. *)

CopyFirst(to, from) == [to EXCEPT !.time = from.time]
CopyRest(to, from)  == [to EXCEPT !.pos = from.pos, !.q = from.q]

\* Five seconds are over, in which the receiver, that sends every second, has
\* come closer to a fix.
GpsWake ==
  /\ gps = "sleep" /\ heard
  /\ gps' = "copy" /\ heard' = FALSE
  /\ acquired' = IF sky /\ ~HasFix THEN acquired + 1 ELSE acquired
  /\ current' = CopyFirst(current, fix)
  /\ UNCHANGED <<nmea, fix, sample, main, retries, sky, now, lost>>

\* (mutated) the count goes on after a reset
RetriesKept(r) == IF r > RetryLimit THEN r ELSE r + 1
Retries(r) == IF r + 1 > RetryLimit THEN 0 ELSE r + 1

\* The rest of the copy and of the round, with gps_reset().
GpsRound ==
  /\ gps = "copy" /\ gps' = "sleep"
  /\ current' = CopyRest(current, fix)
  /\ IF current'.q # 0 THEN UNCHANGED <<retries, acquired>>
     ELSE /\ retries' = Retries(retries)
          /\ acquired' = IF retries + 1 > RetryLimit THEN 0 ELSE acquired
  /\ UNCHANGED <<nmea, fix, sample, main, sky, now, heard, lost>>

\* gps_get_sample(): the thread, of a higher priority, may run in between.
MainCopies ==
  /\ gps = "sleep" /\ main = "idle" /\ main' = "copy"
  /\ sample' = CopyFirst(sample, current)
  /\ UNCHANGED <<nmea, fix, current, gps, retries, sky, acquired, now, heard, lost>>

MainSends ==
  /\ gps = "sleep" /\ main = "copy" /\ main' = "idle"
  /\ sample' = CopyRest(sample, current)
  /\ UNCHANGED <<nmea, fix, current, gps, retries, sky, acquired, now, heard, lost>>

Next == \/ \E kind \in Kinds, gone \in 0 .. BufferSize : Receive(kind, gone)
        \/ Reception \/ GpsWake \/ GpsRound \/ MainCopies \/ MainSends

Spec == Init /\ [][Next]_vars

\* The receiver never falls silent, the timer ends every sleep of the thread,
\* and main, whose loop is in NodeMain, comes back for a sample.
FairSpec == /\ Spec
            /\ []<>heard
            /\ WF_vars(GpsWake) /\ WF_vars(GpsRound)
            /\ SF_vars(MainCopies) /\ SF_vars(MainSends)

-----------------------------------------------------------------------------
(* Properties. *)

\* The cache is one fix of the receiver, though a token of each sentence may
\* be lost, the line feed and the star included (nmea_valid, nmea_parse).
RightFix == fix.time = fix.pos /\ fix.q = (IF fix.time = 0 THEN 0 ELSE 1)

\* However the copies are interrupted, a sample's position is at least as new
\* as its time (gps_update_gga, gps_get_fix, gps_get_sample).
SampleOrdered == main = "idle" => sample.time <= sample.pos

\* Neither a lost token nor an interrupted copy takes a sample back to an older
\* time or position, nor to one that the receiver never sent.  Without a fix
\* they may be zeroed, which is what aq.proto:25 promises; the code does not do
\* it, it goes on sending the last fix (gps_update_gga).
NeverBackwards ==
  [][/\ sample'.time >= sample.time \/ sample'.time = 0
     /\ sample'.pos >= sample.pos \/ sample'.pos = 0]_vars

\* With lasting reception the samples get a fix, through the resets of the
\* receiver by the thread (GPS_entry_point).
FixReachesSample == <>[]sky => <>[](sample.time # 0 /\ sample.pos # 0)
=============================================================================
