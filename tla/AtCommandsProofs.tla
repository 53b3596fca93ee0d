--------------------------- MODULE AtCommandsProofs ---------------------------
(***************************************************************************)
(* Proofs about the decoders of at_commands.c, for every number of         *)
(* commands, notifications, time-outs and octets: they take one answer     *)
(* each, and where nothing of an earlier answer and no part of a line is   *)
(* left, the results are those of the answer.                              *)
(*                                                                         *)
(* What is left in rx is Trailing: blank lines and notifications (Noise)   *)
(* behind the last end of an answer.  A decoder that starts there goes     *)
(* through the phases of Reading: noise, the tokens of the information     *)
(* line (Along), noise again, the end.  Noise leaves the context of the    *)
(* callbacks alone (NoiseRead), each token of a line adds its part         *)
(* (LineRead), and the callback of the line's end settles the results      *)
(* (LineEnds); OK itself changes none of them (Unheard).                   *)
(***************************************************************************)
EXTENDS AtCommands, SequenceTheorems, FiniteSetTheorems, FunctionTheorems,
        TLAPS

-----------------------------------------------------------------------------
(* What the decoders read. *)

Marks  == {"OK", "ERROR", "cr", "lf", "comma", "quote", "space"} \cup Names
Tokens == {Char(c) : c \in Marks} \cup {Num(n) : n \in Nat}

nsonmi == Char("+NSONMI")

Quiet(s) == \A i \in DOMAIN s : ~Ending(s[i])

\* The order of the tokens in blank lines and notifications.
Follows(a, b) == \/ a = cr /\ b = lf
                 \/ a = lf /\ b \in {cr, nsonmi}
                 \/ a = nsonmi /\ b = Num(0)
                 \/ a = Num(0) /\ b = comma
                 \/ a = comma /\ b = Num(1)
                 \/ a = Num(1) /\ b = cr

\* Blank lines and notifications, the first perhaps without its beginning.
Noise(w) == /\ w # <<>> => w[Len(w)] = lf
            /\ \A i \in 1 .. Len(w) - 1 : Follows(w[i], w[i + 1])

FromStart(w) == Noise(w) /\ (w # <<>> => w[1] \in {cr, nsonmi})

\* Nothing but noise after the last end of an answer.
Trailing(s) ==
  \/ Noise(s)
  \/ \E y \in Seq(Tokens), f \in {OK, ERROR}, t \in Seq(Tokens) :
       FromStart(t) /\ s = y \o (f \o t)

\* The tokens, told apart by their first field.
LEMMA TokenFacts ==
  /\ \A c \in Marks : Char(c) \in Tokens /\ Char(c).c = c /\ Char(c).n = 0
  /\ \A n \in Nat : Num(n) \in Tokens /\ Num(n).c = "num" /\ Num(n).n = n
  /\ cr \in Tokens /\ lf \in Tokens /\ comma \in Tokens /\ nsonmi \in Tokens
  /\ cr.c = "cr" /\ lf.c = "lf" /\ comma.c = "comma"
  /\ nsonmi.c = "+NSONMI"
<1>1. ASSUME NEW c \in Marks
      PROVE  Char(c) \in Tokens /\ Char(c).c = c /\ Char(c).n = 0
  <2>1. Char(c) \in Tokens
    BY DEF Tokens
  <2> QED
    BY <2>1 DEF Char
<1>2. ASSUME NEW n \in Nat
      PROVE  Num(n) \in Tokens /\ Num(n).c = "num" /\ Num(n).n = n
  <2>1. Num(n) \in Tokens
    BY DEF Tokens
  <2> QED
    BY <2>1 DEF Num
<1>3. {"cr", "lf", "comma", "+NSONMI"} \subseteq Marks
  BY DEF Marks, Names
<1>4. /\ cr \in Tokens /\ lf \in Tokens /\ comma \in Tokens
      /\ nsonmi \in Tokens /\ cr.c = "cr" /\ lf.c = "lf"
      /\ comma.c = "comma" /\ nsonmi.c = "+NSONMI"
  BY <1>1, <1>3 DEF cr, lf, comma, nsonmi
<1> QED
  BY <1>1, <1>2, <1>4

\* What the assumption says of each constant.
LEMMA Constants ==
  /\ Numbers \subseteq Nat /\ MaxData \in Nat /\ MaxAsked \in Nat
  /\ MaxUrcs \in Nat /\ MaxLate \in Nat
BY AtAssumption

\* The ends of answers.
LEMMA FinalFacts ==
  /\ OK \in Seq(Tokens) /\ Len(OK) = 3 /\ OK[1] = Char("OK")
  /\ OK[2] = cr /\ OK[3] = lf
  /\ ERROR \in Seq(Tokens) /\ Len(ERROR) = 3 /\ ERROR[1] = Char("ERROR")
  /\ ERROR[2] = cr /\ ERROR[3] = lf
  /\ OK # ERROR /\ Ending(OK[1]) /\ Ending(ERROR[1])
<1>0. /\ Char("OK") \in Tokens /\ Char("OK").c = "OK"
      /\ Char("ERROR") \in Tokens /\ Char("ERROR").c = "ERROR"
  <2>1. "OK" \in Marks /\ "ERROR" \in Marks
    BY DEF Marks
  <2> QED
    BY <2>1, TokenFacts
<1>1. /\ OK \in Seq(Tokens) /\ Len(OK) = 3 /\ OK[1] = Char("OK")
      /\ OK[2] = cr /\ OK[3] = lf
  BY <1>0, TokenFacts DEF OK
<1>2. /\ ERROR \in Seq(Tokens) /\ Len(ERROR) = 3 /\ ERROR[1] = Char("ERROR")
      /\ ERROR[2] = cr /\ ERROR[3] = lf
  BY <1>0, TokenFacts DEF ERROR
<1>3. OK # ERROR
  BY <1>0, <1>1, <1>2
<1> QED
  BY <1>0, <1>1, <1>2, <1>3 DEF Ending

-----------------------------------------------------------------------------
(* Sequences. *)

\* Sequences of tokens can be taken together in any order.
LEMMA Regrouped ==
  ASSUME NEW r \in Seq(Tokens), NEW s \in Seq(Tokens), NEW t \in Seq(Tokens)
  PROVE  (r \o s) \o t = r \o (s \o t)
BY ConcatAssociative

\* The parts of a concatenation.
LEMMA Parts ==
  ASSUME NEW S, NEW a \in Seq(S), NEW b \in Seq(S)
  PROVE  /\ a \o b \in Seq(S)
         /\ Len(a \o b) = Len(a) + Len(b)
         /\ DOMAIN (a \o b) = 1 .. Len(a) + Len(b)
         /\ DOMAIN a = 1 .. Len(a) /\ DOMAIN b = 1 .. Len(b)
         /\ Len(a) \in Nat /\ Len(b) \in Nat
         /\ \A i \in 1 .. Len(a) : (a \o b)[i] = a[i] /\ a[i] \in S
         /\ \A i \in 1 .. Len(b) : (a \o b)[i + Len(a)] = b[i] /\ b[i] \in S
         /\ \A i \in 1 .. Len(a) + Len(b) : i > Len(a) =>
              /\ i - Len(a) \in 1 .. Len(b)
              /\ (a \o b)[i] = b[i - Len(a)]
<1>1. /\ a \o b \in Seq(S) /\ Len(a \o b) = Len(a) + Len(b)
      /\ \A i \in 1 .. Len(a) + Len(b) :
           (a \o b)[i] = IF i <= Len(a) THEN a[i] ELSE b[i - Len(a)]
  BY ConcatProperties
<1>2. /\ Len(a) \in Nat /\ Len(b) \in Nat /\ DOMAIN a = 1 .. Len(a)
      /\ DOMAIN b = 1 .. Len(b) /\ DOMAIN (a \o b) = 1 .. Len(a \o b)
      /\ \A i \in 1 .. Len(a) : a[i] \in S
      /\ \A i \in 1 .. Len(b) : b[i] \in S
  BY <1>1
<1>3. \A i \in 1 .. Len(a) : (a \o b)[i] = a[i]
  BY <1>1, <1>2
<1>4. ASSUME NEW i \in 1 .. Len(b) PROVE (a \o b)[i + Len(a)] = b[i]
  <2>1. i + Len(a) \in 1 .. Len(a) + Len(b) /\ ~ (i + Len(a) <= Len(a))
    BY <1>2
  <2>2. (i + Len(a)) - Len(a) = i
    BY <1>2
  <2> QED
    BY <1>1, <2>1, <2>2
<1>5. ASSUME NEW i \in 1 .. Len(a) + Len(b), i > Len(a)
      PROVE  i - Len(a) \in 1 .. Len(b) /\ (a \o b)[i] = b[i - Len(a)]
  <2>1. i - Len(a) \in 1 .. Len(b) /\ ~ (i <= Len(a))
    BY <1>2, <1>5
  <2> QED
    BY <1>1, <2>1
<1> QED
  BY <1>1, <1>2, <1>3, <1>4, <1>5

\* Taking the first element.
LEMMA Taken ==
  ASSUME NEW S, NEW s \in Seq(S), s # <<>>
  PROVE  /\ Head(s) = s[1] /\ Head(s) \in S /\ Tail(s) \in Seq(S)
         /\ Len(s) \in Nat /\ Len(s) > 0 /\ Len(Tail(s)) = Len(s) - 1
         /\ \A i \in 1 .. Len(s) - 1 : Tail(s)[i] = s[i + 1]
OBVIOUS

LEMMA TakenFromFirst ==
  ASSUME NEW S, NEW a \in Seq(S), NEW b \in Seq(S), a # <<>>
  PROVE  /\ a \o b # <<>> /\ Head(a \o b) = a[1]
         /\ Tail(a \o b) = Tail(a) \o b
<1> DEFINE s == a \o b
           t == Tail(a) \o b
<1>1. /\ s \in Seq(S) /\ Len(s) = Len(a) + Len(b) /\ Len(a) \in Nat
      /\ Len(b) \in Nat
      /\ \A i \in 1 .. Len(a) : s[i] = a[i]
      /\ \A i \in 1 .. Len(a) + Len(b) : i > Len(a) => s[i] = b[i - Len(a)]
  BY Parts
<1>2. /\ Tail(a) \in Seq(S) /\ Len(a) > 0 /\ Len(Tail(a)) = Len(a) - 1
      /\ \A i \in 1 .. Len(a) - 1 : Tail(a)[i] = a[i + 1]
  BY Taken
<1>3. /\ t \in Seq(S) /\ Len(t) = Len(Tail(a)) + Len(b)
      /\ \A i \in 1 .. Len(Tail(a)) : t[i] = Tail(a)[i]
      /\ \A i \in 1 .. Len(Tail(a)) + Len(b) :
           i > Len(Tail(a)) => t[i] = b[i - Len(Tail(a))]
  BY <1>2, Parts
<1> HIDE DEF s, t
<1>4. s # <<>>
  <2>1. Len(s) > 0
    BY <1>1, <1>2
  <2> QED
    BY <2>1
<1>5. /\ Head(s) = s[1] /\ Tail(s) \in Seq(S) /\ Len(Tail(s)) = Len(s) - 1
      /\ \A i \in 1 .. Len(s) - 1 : Tail(s)[i] = s[i + 1]
  BY <1>1, <1>4, Taken
<1>6. ASSUME NEW i \in 1 .. Len(s) - 1 PROVE Tail(s)[i] = t[i]
  <2>1. CASE i <= Len(a) - 1
    <3>1. /\ i \in 1 .. Len(a) - 1 /\ i + 1 \in 1 .. Len(a)
          /\ i \in 1 .. Len(Tail(a))
      BY <1>1, <1>2, <2>1
    <3> QED
      BY <1>1, <1>2, <1>3, <1>5, <3>1
  <2>2. CASE i > Len(a) - 1
    <3>1. /\ i + 1 \in 1 .. Len(a) + Len(b) /\ i + 1 > Len(a)
          /\ i \in 1 .. Len(Tail(a)) + Len(b) /\ i > Len(Tail(a))
          /\ (i + 1) - Len(a) = i - Len(Tail(a))
      BY <1>1, <1>2, <2>2
    <3> QED
      BY <1>1, <1>3, <1>5, <3>1
  <2> QED
    BY <1>1, <1>2, <2>1, <2>2
<1>7. Len(Tail(s)) = Len(t)
  BY <1>1, <1>2, <1>3, <1>5
<1>8. Tail(s) = t
  BY <1>3, <1>5, <1>6, <1>7, SeqEqual
<1>9. 1 \in 1 .. Len(a)
  BY <1>1, <1>2
<1> QED
  BY <1>1, <1>4, <1>5, <1>8, <1>9 DEF s, t

\* A line that is read up to one place.
LEMMA ReadUpTo ==
  ASSUME NEW S, NEW l \in Seq(S), NEW p \in Nat, p < Len(l)
  PROVE  /\ SubSeq(l, 1, p) \in Seq(S) /\ Len(SubSeq(l, 1, p)) = p
         /\ p > 0 => SubSeq(l, 1, p) # <<>> /\ SubSeq(l, 1, p)[1] = l[1]
         /\ Append(SubSeq(l, 1, p), l[p + 1]) = SubSeq(l, 1, p + 1)
         /\ l[p + 1] \in S
         /\ SubSeq(l, p + 1, Len(l)) \in Seq(S)
         /\ SubSeq(l, p + 1, Len(l)) # <<>>
         /\ SubSeq(l, p + 1, Len(l))[1] = l[p + 1]
         /\ Tail(SubSeq(l, p + 1, Len(l))) = SubSeq(l, p + 2, Len(l))
<1>1. /\ Len(l) \in Nat /\ p + 1 \in 1 .. Len(l) /\ l[p + 1] \in S
      /\ DOMAIN l = 1 .. Len(l)
  OBVIOUS
<1>2. /\ SubSeq(l, 1, p) \in Seq(S) /\ Len(SubSeq(l, 1, p)) = p
      /\ \A i \in 1 .. p : SubSeq(l, 1, p)[i] = l[i]
  BY <1>1
<1>3. p > 0 => SubSeq(l, 1, p) # <<>> /\ SubSeq(l, 1, p)[1] = l[1]
  BY <1>1, <1>2
<1>4. Append(SubSeq(l, 1, p), l[p + 1]) = SubSeq(l, 1, p + 1)
  BY <1>1
<1>5. /\ SubSeq(l, p + 1, Len(l)) \in Seq(S)
      /\ Len(SubSeq(l, p + 1, Len(l))) = Len(l) - p
      /\ \A i \in 1 .. Len(l) - p : SubSeq(l, p + 1, Len(l))[i] = l[i + p]
  BY <1>1
<1>6. SubSeq(l, p + 1, Len(l)) # <<>> /\ SubSeq(l, p + 1, Len(l))[1] = l[p + 1]
  <2> DEFINE s == SubSeq(l, p + 1, Len(l))
  <2>1. Len(s) > 0 /\ 1 \in 1 .. Len(l) - p /\ s[1] = l[1 + p]
    BY <1>1, <1>5
  <2>2. 1 + p = p + 1
    OBVIOUS
  <2> HIDE DEF s
  <2>3. s # <<>> /\ s[1] = l[p + 1]
    BY <2>1, <2>2
  <2> QED
    BY <2>3 DEF s
<1>7. Tail(SubSeq(l, p + 1, Len(l))) = SubSeq(l, p + 2, Len(l))
  <2>1. Len(l) \in (p + 1) .. Len(l) /\ (p + 1) + 1 = p + 2
    BY <1>1
  <2> QED
    BY <1>1, <2>1, HeadTailOfSubSeq
<1> QED
  BY <1>1, <1>2, <1>3, <1>4, <1>5, <1>6, <1>7

-----------------------------------------------------------------------------
(* Noise. *)

\* Noise that starts a line may follow other noise.
LEMMA NoiseJoined ==
  ASSUME NEW u \in Seq(Tokens), NEW v \in Seq(Tokens),
         Noise(u), FromStart(v)
  PROVE  /\ Noise(u \o v)
         /\ FromStart(u) => FromStart(u \o v)
<1> DEFINE s == u \o v
<1>1. /\ s \in Seq(Tokens) /\ Len(s) = Len(u) + Len(v) /\ Len(u) \in Nat
      /\ Len(v) \in Nat
      /\ \A i \in 1 .. Len(u) : s[i] = u[i]
      /\ \A i \in 1 .. Len(u) + Len(v) : i > Len(u) =>
           i - Len(u) \in 1 .. Len(v) /\ s[i] = v[i - Len(u)]
  BY Parts
<1>2. /\ u = <<>> <=> Len(u) = 0
      /\ v = <<>> <=> Len(v) = 0
  OBVIOUS
<1>3. /\ u # <<>> => u[Len(u)] = lf
      /\ \A i \in 1 .. Len(u) - 1 : Follows(u[i], u[i + 1])
      /\ v # <<>> => v[Len(v)] = lf /\ v[1] \in {cr, nsonmi}
      /\ \A i \in 1 .. Len(v) - 1 : Follows(v[i], v[i + 1])
  BY DEF Noise, FromStart
<1> HIDE DEF s
<1>4. s = <<>> <=> Len(s) = 0
  BY <1>1
<1>5. ASSUME s # <<>> PROVE s[Len(s)] = lf
  <2>1. CASE Len(v) = 0
    <3>1. Len(s) \in 1 .. Len(u) /\ Len(s) = Len(u) /\ u # <<>>
      BY <1>1, <1>2, <1>4, <1>5, <2>1
    <3> QED
      BY <1>1, <1>3, <3>1
  <2>2. CASE Len(v) > 0
    <3>1. /\ Len(s) \in 1 .. Len(u) + Len(v) /\ Len(s) > Len(u)
          /\ Len(s) - Len(u) = Len(v) /\ v # <<>>
      BY <1>1, <1>2, <2>2
    <3> QED
      BY <1>1, <1>3, <3>1
  <2> QED
    BY <1>1, <2>1, <2>2
<1>6. ASSUME NEW i \in 1 .. Len(s) - 1 PROVE Follows(s[i], s[i + 1])
  <2>1. CASE i + 1 <= Len(u)
    <3>1. i \in 1 .. Len(u) /\ i + 1 \in 1 .. Len(u) /\ i \in 1 .. Len(u) - 1
      BY <1>1, <2>1
    <3> QED
      BY <1>1, <1>3, <3>1
  <2>2. CASE i = Len(u)
    <3>1. /\ i \in 1 .. Len(u) /\ i + 1 \in 1 .. Len(u) + Len(v)
          /\ i + 1 > Len(u) /\ (i + 1) - Len(u) = 1
          /\ Len(u) # 0 /\ Len(v) # 0
      BY <1>1, <2>2
    <3>2. s[i] = lf /\ s[i + 1] = v[1] /\ v[1] \in {cr, nsonmi}
      <4>1. s[i + 1] = v[(i + 1) - Len(u)]
        BY <1>1, <3>1
      <4> QED
        BY <1>1, <1>2, <1>3, <2>2, <3>1, <4>1
    <3> QED
      BY <3>2 DEF Follows
  <2>3. CASE i > Len(u)
    <3>1. /\ i \in 1 .. Len(u) + Len(v) /\ i + 1 \in 1 .. Len(u) + Len(v)
          /\ i + 1 > Len(u) /\ i - Len(u) \in 1 .. Len(v) - 1
          /\ (i + 1) - Len(u) = (i - Len(u)) + 1
      BY <1>1, <2>3
    <3>2. s[i] = v[i - Len(u)] /\ s[i + 1] = v[(i - Len(u)) + 1]
      <4>1. s[i + 1] = v[(i + 1) - Len(u)]
        BY <1>1, <3>1
      <4> QED
        BY <1>1, <2>3, <3>1, <4>1
    <3> QED
      BY <1>3, <3>1, <3>2
  <2> QED
    BY <1>1, <2>1, <2>2, <2>3
<1>7. ASSUME FromStart(u), s # <<>> PROVE s[1] \in {cr, nsonmi}
  <2>1. CASE Len(u) > 0
    <3>1. 1 \in 1 .. Len(u) /\ u # <<>>
      BY <1>1, <1>2, <2>1
    <3> QED
      BY <1>1, <1>7, <3>1 DEF FromStart
  <2>2. CASE Len(u) = 0
    <3>1. /\ 1 \in 1 .. Len(u) + Len(v) /\ 1 > Len(u) /\ v # <<>>
          /\ 1 - Len(u) = 1
      BY <1>1, <1>2, <1>4, <1>7, <2>2
    <3>2. s[1] = v[1 - Len(u)]
      BY <1>1, <3>1
    <3> QED
      BY <1>3, <3>1, <3>2
  <2> QED
    BY <1>1, <2>1, <2>2
<1> QED
  BY <1>5, <1>6, <1>7 DEF Noise, FromStart, s

\* Its tokens.
LEMMA NoiseTokens ==
  ASSUME NEW w \in Seq(Tokens), Noise(w), NEW i \in DOMAIN w
  PROVE  w[i].c \in {"cr", "lf", "+NSONMI", "num", "comma"}
<1>1. /\ Len(w) \in Nat /\ DOMAIN w = 1 .. Len(w) /\ w # <<>>
      /\ w[i] \in Tokens
  OBVIOUS
<1>2. CASE i = Len(w)
  BY <1>1, <1>2, TokenFacts DEF Noise
<1>3. CASE i # Len(w)
  <2>1. i \in 1 .. Len(w) - 1
    BY <1>1, <1>3
  <2>2. Follows(w[i], w[i + 1])
    BY <2>1 DEF Noise
  <2> QED
    BY <2>2, TokenFacts DEF Follows
<1> QED
  BY <1>2, <1>3

\* The rest of noise is noise, and its next token is known.
LEMMA NoiseTail ==
  ASSUME NEW w \in Seq(Tokens), Noise(w), w # <<>>
  PROVE  /\ Tail(w) \in Seq(Tokens) /\ Noise(Tail(w)) /\ w[1] \in Tokens
         /\ w[1] # lf => Tail(w) # <<>>
         /\ Tail(w) # <<>> => Follows(w[1], Tail(w)[1])
<1>1. /\ w[1] \in Tokens /\ Tail(w) \in Seq(Tokens) /\ Len(w) \in Nat
      /\ Len(w) > 0 /\ Len(Tail(w)) = Len(w) - 1
      /\ \A i \in 1 .. Len(w) - 1 : Tail(w)[i] = w[i + 1]
  BY Taken
<1>2. /\ w[Len(w)] = lf
      /\ \A i \in 1 .. Len(w) - 1 : Follows(w[i], w[i + 1])
  BY DEF Noise
<1> DEFINE t == Tail(w)
<1> HIDE DEF t
<1>3. /\ t \in Seq(Tokens) /\ Len(t) = Len(w) - 1
      /\ \A i \in 1 .. Len(w) - 1 : t[i] = w[i + 1]
  BY <1>1 DEF t
<1>3a. t = <<>> <=> Len(t) = 0
  BY <1>3
<1>4. w[1] # lf => t # <<>>
  <2>1. t = <<>> => Len(w) = 1
    <3>1. Len(w) \in Nat /\ Len(t) = Len(w) - 1
      BY <1>1, <1>3
    <3> QED
      BY <1>3a, <3>1
  <2> QED
    BY <1>2, <2>1
<1>5. ASSUME t # <<>>
      PROVE  Follows(w[1], t[1]) /\ t[Len(t)] = lf
  <2>1. 1 \in 1 .. Len(w) - 1 /\ Len(t) \in 1 .. Len(w) - 1
        /\ 1 + 1 = 2 /\ Len(t) + 1 = Len(w)
    BY <1>1, <1>3, <1>3a, <1>5
  <2> QED
    BY <1>2, <1>3, <2>1
<1>6. ASSUME NEW i \in 1 .. Len(t) - 1 PROVE Follows(t[i], t[i + 1])
  <2>1. i \in 1 .. Len(w) - 1 /\ i + 1 \in 1 .. Len(w) - 1
    BY <1>1, <1>3
  <2> QED
    BY <1>2, <1>3, <2>1
<1>7. Noise(t)
  BY <1>5, <1>6 DEF Noise
<1> QED
  BY <1>1, <1>4, <1>5, <1>7 DEF t

\* A notification, token by token.
LEMMA UrcFacts ==
  /\ Urc \in Seq(Tokens) /\ Len(Urc) = 8
  /\ Urc[1] = cr /\ Urc[2] = lf /\ Urc[3] = nsonmi /\ Urc[4] = Num(0)
  /\ Urc[5] = comma /\ Urc[6] = Num(1) /\ Urc[7] = cr /\ Urc[8] = lf
  /\ Blanks \in Seq(Tokens) /\ FromStart(Blanks)
<1>1. Num(0) \in Tokens /\ Num(1) \in Tokens
  BY TokenFacts
<1>2. /\ Urc \in Seq(Tokens) /\ Len(Urc) = 8
      /\ Urc[1] = cr /\ Urc[2] = lf /\ Urc[3] = nsonmi /\ Urc[4] = Num(0)
      /\ Urc[5] = comma /\ Urc[6] = Num(1) /\ Urc[7] = cr /\ Urc[8] = lf
  <2> DEFINE e == <<cr, lf>>
             m == <<nsonmi, Num(0), comma, Num(1)>>
  <2>1. /\ e \in Seq(Tokens) /\ Len(e) = 2 /\ e[1] = cr /\ e[2] = lf
        /\ m \in Seq(Tokens) /\ Len(m) = 4 /\ m[1] = nsonmi
        /\ m[2] = Num(0) /\ m[3] = comma /\ m[4] = Num(1)
    BY <1>1, TokenFacts
  <2>2. Urc = e \o (m \o e)
    BY DEF Urc, Blanks, Line, nsonmi
  <2> HIDE DEF e, m
  <2> DEFINE l == m \o e
  <2>3. /\ l \in Seq(Tokens) /\ Len(l) = 6
        /\ l[1] = m[1] /\ l[2] = m[2] /\ l[3] = m[3] /\ l[4] = m[4]
        /\ l[1 + 4] = e[1] /\ l[2 + 4] = e[2]
    <3>1. /\ l \in Seq(Tokens) /\ Len(l) = Len(m) + Len(e)
          /\ \A i \in 1 .. Len(m) : l[i] = m[i]
          /\ \A i \in 1 .. Len(e) : l[i + Len(m)] = e[i]
      <4>1. e \in Seq(Tokens) /\ m \in Seq(Tokens)
        BY <2>1
      <4> QED
        BY <4>1, Parts
    <3> HIDE DEF l
    <3>2. /\ Len(m) = 4 /\ Len(e) = 2
          /\ {1, 2, 3, 4} \subseteq 1 .. 4 /\ {1, 2} \subseteq 1 .. 2
      BY <2>1
    <3> QED
      BY <3>1, <3>2
  <2> HIDE DEF l
  <2>4. /\ e \o l \in Seq(Tokens) /\ Len(e \o l) = 8
        /\ (e \o l)[1] = e[1] /\ (e \o l)[2] = e[2]
        /\ (e \o l)[1 + 2] = l[1] /\ (e \o l)[2 + 2] = l[2]
        /\ (e \o l)[3 + 2] = l[3] /\ (e \o l)[4 + 2] = l[4]
        /\ (e \o l)[5 + 2] = l[5] /\ (e \o l)[6 + 2] = l[6]
    <3> DEFINE u == e \o l
    <3>1. /\ u \in Seq(Tokens) /\ Len(u) = Len(e) + Len(l)
          /\ \A i \in 1 .. Len(e) : u[i] = e[i]
          /\ \A i \in 1 .. Len(l) : u[i + Len(e)] = l[i]
      <4>1. e \in Seq(Tokens) /\ l \in Seq(Tokens)
        BY <2>1, <2>3
      <4> QED
        BY <4>1, Parts
    <3> HIDE DEF u
    <3>2. /\ Len(l) = 6 /\ Len(e) = 2
          /\ {1, 2, 3, 4, 5, 6} \subseteq 1 .. 6 /\ {1, 2} \subseteq 1 .. 2
      BY <2>1, <2>3
    <3>3. /\ u \in Seq(Tokens) /\ Len(u) = 8
          /\ u[1] = e[1] /\ u[2] = e[2]
          /\ u[1 + 2] = l[1] /\ u[2 + 2] = l[2]
          /\ u[3 + 2] = l[3] /\ u[4 + 2] = l[4]
          /\ u[5 + 2] = l[5] /\ u[6 + 2] = l[6]
      BY <3>1, <3>2
    <3> QED
      BY <3>3 DEF u
  <2> DEFINE u == e \o l
  <2>5. Urc = u
    BY <2>2 DEF l
  <2> HIDE DEF u
  <2>6. /\ u \in Seq(Tokens) /\ Len(u) = 8
        /\ u[1] = cr /\ u[2] = lf /\ u[3] = nsonmi /\ u[4] = Num(0)
        /\ u[5] = comma /\ u[6] = Num(1) /\ u[7] = cr /\ u[8] = lf
    BY <2>1, <2>3, <2>4 DEF u
  <2> QED
    BY <2>5, <2>6
<1>3. Blanks \in Seq(Tokens) /\ FromStart(Blanks)
  <2>1. Blanks = <<cr, lf>>
    BY DEF Blanks
  <2> QED
    BY <2>1, TokenFacts DEF FromStart, Noise, Follows
<1> QED
  BY <1>1, <1>2, <1>3, TokenFacts

\* Notifications are noise.
LEMMA UrcsAreNoise ==
  ASSUME NEW k \in Nat
  PROVE  Urcs(k) \in Seq(Tokens) /\ FromStart(Urcs(k))
<1> DEFINE n == k * 8
           s == Urcs(k)
<1>1. n \in Nat
  OBVIOUS
<1>2. s = [i \in 1 .. n |-> Urc[1 + ((i - 1) % 8)]]
  BY UrcFacts DEF Urcs
<1> DEFINE at(i) == 1 + ((i - 1) % 8)
<1>3. \A i \in 1 .. n : at(i) \in 1 .. 8
  OBVIOUS
<1>4. ASSUME NEW i \in 1 .. n - 1
      PROVE  at(i + 1) = IF at(i) = 8 THEN 1 ELSE at(i) + 1
  BY <1>1
<1>5. n > 0 => at(n) = 8 /\ at(1) = 1
  BY <1>1
<1>6. \A i \in 1 .. n : s[i] = Urc[at(i)]
  BY <1>2
<1>7. s \in Seq(Tokens) /\ Len(s) = n
  <2>1. \A i \in 1 .. n : Urc[at(i)] \in Tokens
    <3>1. \A j \in 1 .. 8 : Urc[j] \in Tokens
      <4>1. Urc \in Seq(Tokens) /\ Len(Urc) = 8
        BY UrcFacts
      <4> QED
        BY <4>1, ElementOfSeq
    <3> HIDE DEF n, at
    <3> QED
      BY <1>3, <3>1
  <2> HIDE DEF n, at
  <2>2. s = [i \in 1 .. n |-> Urc[at(i)]]
    BY <1>2 DEF at
  <2> HIDE DEF s
  <2> QED
    BY <1>1, <2>1, <2>2
<1> HIDE DEF n, s, at
<1>8. s # <<>> => n > 0
  BY <1>1, <1>7
<1>9. s # <<>> => s[Len(s)] = lf /\ s[1] = cr
  BY <1>1, <1>5, <1>6, <1>7, <1>8, UrcFacts
<1>10. ASSUME NEW i \in 1 .. Len(s) - 1 PROVE Follows(s[i], s[i + 1])
  <2>1. i \in 1 .. n /\ i + 1 \in 1 .. n /\ i \in 1 .. n - 1
    BY <1>1, <1>7
  <2>2. s[i] = Urc[at(i)] /\ s[i + 1] = Urc[at(i + 1)] /\ at(i) \in 1 .. 8
    BY <1>3, <1>6, <2>1
  <2>3. at(i + 1) = IF at(i) = 8 THEN 1 ELSE at(i) + 1
    BY <1>4, <2>1
  <2> HIDE DEF at
  <2>4. at(i) \in {1, 2, 3, 4, 5, 6, 7, 8}
    BY <2>2
  <2>5. CASE at(i) = 8
    BY <2>2, <2>3, <2>5, UrcFacts DEF Follows
  <2>6. CASE at(i) \in {1, 2, 3, 4, 5, 6, 7}
    BY <2>2, <2>3, <2>6, UrcFacts DEF Follows
  <2> QED
    BY <2>4, <2>5, <2>6
<1> QED
  BY <1>7, <1>9, <1>10 DEF FromStart, Noise, s

-----------------------------------------------------------------------------
(* What the modem answers. *)

\* The tokens of an information line: none ends a line or an answer.
LineTokens == {"num", "comma", "quote", "+CGPADDR", "+CGSN"}

\* The other tokens of answers.
LEMMA MoreTokens ==
  /\ Char("quote") \in Tokens /\ Char("quote").c = "quote"
  /\ Char("+CGPADDR") \in Tokens /\ Char("+CGPADDR").c = "+CGPADDR"
  /\ Char("+CGSN") \in Tokens /\ Char("+CGSN").c = "+CGSN"
  /\ Char("space") \in Tokens /\ Char("space").c = "space"
<1>1. {"quote", "+CGPADDR", "+CGSN", "space"} \subseteq Marks
  BY DEF Marks, Names
<1> QED
  BY <1>1, TokenFacts

\* What an information line looks like, and what it says.
Gives(info, line, fd, len, text, port, data) ==
  /\ info.line = line
  /\ Results(info.ctx) = [fd |-> fd, len |-> len, text |-> text,
                          port |-> port, data |-> data]

ReceivedLine(n, k) ==
  <<Num(n), comma, Num(Addr), comma, Num(Port), comma, Num(k), comma>>
    \o Octets(k) \o <<comma, Num(0)>>

AddressLine(a) ==
  <<Char("+CGPADDR"), Num(0), comma, Char("quote"), Num(a), Char("quote")>>

\* Info, one command at a time.
LEMMA InfoSets ==
  /\ Info("generic") = {}
  /\ Info("nsocr") =
       {[line |-> <<Num(n)>>, ctx |-> [Blank EXCEPT !.fd = n]] : n \in Numbers}
  /\ Info("nsost") =
       {[line |-> <<Num(n), comma, Num(Sent)>>,
         ctx |-> [Blank EXCEPT !.fd = n, !.len = Sent]] : n \in Numbers}
  /\ \A info \in Info("nsorf") : \E n \in Numbers : \E k \in 1 .. MaxData :
       info = [line |-> ReceivedLine(n, k),
               ctx |-> [Blank EXCEPT !.fd = n, !.text = <<Num(Addr)>>,
                                     !.port = Port, !.data = Octets(k)]]
  /\ Info("cgpaddr") =
       {[line |-> AddressLine(a),
         ctx |-> [Blank EXCEPT !.text = <<Num(a)>>, !.len = 1]] :
          a \in Numbers}
          \cup {[line |-> <<Char("+CGPADDR"), Num(0)>>, ctx |-> Blank]}
  /\ Info("cimi") =
       {[line |-> <<Num(n)>>, ctx |-> [Blank EXCEPT !.text = <<Num(n)>>]] :
          n \in Numbers}
  /\ Info("cgsn") =
       {[line |-> <<Char("+CGSN"), Num(n)>>,
         ctx |-> [Blank EXCEPT !.text = <<Char("+CGSN"), Num(n)>>]] :
          n \in Numbers}
<1> DEFINE S(n, k) ==
             [line |-> ReceivedLine(n, k),
              ctx |-> [Blank EXCEPT !.fd = n, !.text = <<Num(Addr)>>,
                                    !.port = Port, !.data = Octets(k)]]
<1>1. Info("nsorf") = {S(n, k) : n \in Numbers, k \in 1 .. MaxData}
  BY SMT DEF Info, ReceivedLine
<1>2. \A info \in Info("nsorf") : \E n \in Numbers : \E k \in 1 .. MaxData :
        info = S(n, k)
  <2> HIDE DEF S
  <2> QED
    BY <1>1
<1>3. /\ Info("generic") = {}
      /\ Info("nsocr") =
           {[line |-> <<Num(n)>>, ctx |-> [Blank EXCEPT !.fd = n]] :
              n \in Numbers}
      /\ Info("nsost") =
           {[line |-> <<Num(n), comma, Num(Sent)>>,
             ctx |-> [Blank EXCEPT !.fd = n, !.len = Sent]] : n \in Numbers}
  BY SMT DEF Info
<1>4. Info("cgpaddr") =
        {[line |-> AddressLine(a),
          ctx |-> [Blank EXCEPT !.text = <<Num(a)>>, !.len = 1]] :
           a \in Numbers}
           \cup {[line |-> <<Char("+CGPADDR"), Num(0)>>, ctx |-> Blank]}
  BY SMT DEF Info, AddressLine
<1>5. /\ Info("cimi") =
           {[line |-> <<Num(n)>>, ctx |-> [Blank EXCEPT !.text = <<Num(n)>>]] :
              n \in Numbers}
      /\ Info("cgsn") =
           {[line |-> <<Char("+CGSN"), Num(n)>>,
             ctx |-> [Blank EXCEPT !.text = <<Char("+CGSN"), Num(n)>>]] :
              n \in Numbers}
  BY SMT DEF Info
<1> QED
  BY <1>2, <1>3, <1>4, <1>5, Zenon

\* The information lines of each command.
LEMMA InfoOf ==
  ASSUME NEW c, NEW info \in Info(c)
  PROVE  /\ c # "generic"
         /\ c = "nsocr" => \E n \in Numbers :
              Gives(info, <<Num(n)>>, n, 0, <<>>, 0, <<>>)
         /\ c = "nsost" => \E n \in Numbers :
              Gives(info, <<Num(n), comma, Num(Sent)>>, n, Sent, <<>>, 0, <<>>)
         /\ c = "nsorf" => \E n \in Numbers : \E k \in 1 .. MaxData :
              Gives(info, ReceivedLine(n, k),
                    n, 0, <<Num(Addr)>>, Port, Octets(k))
         /\ c = "cgpaddr" =>
              \/ Gives(info, <<Char("+CGPADDR"), Num(0)>>,
                       -2, 0, <<>>, 0, <<>>)
              \/ \E a \in Numbers :
                   Gives(info, AddressLine(a), -2, 1, <<Num(a)>>, 0, <<>>)
         /\ c = "cimi" => \E n \in Numbers :
              Gives(info, <<Num(n)>>, -2, 0, <<Num(n)>>, 0, <<>>)
         /\ c = "cgsn" => \E n \in Numbers :
              Gives(info, <<Char("+CGSN"), Num(n)>>,
                    -2, 0, <<Char("+CGSN"), Num(n)>>, 0, <<>>)
<1>1. c # "generic"
  <2>1. Info("generic") = {}
    BY InfoSets
  <2> QED
    BY <2>1
<1>2. ASSUME c = "nsocr"
      PROVE  \E n \in Numbers :
               Gives(info, <<Num(n)>>, n, 0, <<>>, 0, <<>>)
  <2> DEFINE L(n) == <<Num(n)>>
             X(n) == [Blank EXCEPT !.fd = n]
  <2>1. Info("nsocr") =
          {[line |-> L(n), ctx |-> X(n)] : n \in Numbers}
    BY InfoSets
  <2>2. ASSUME NEW n \in Numbers
        PROVE  Results(X(n)) = [fd |-> n, len |-> 0, text |-> <<>>,
                                port |-> 0, data |-> <<>>]
    BY DEF Results, Blank
  <2> HIDE DEF L, X
  <2>3. \E n \in Numbers :
          info = [line |-> L(n), ctx |-> X(n)]
    BY <1>2, <2>1
  <2>4. \E n \in Numbers :
          info.line = L(n) /\ info.ctx = X(n)
    BY <2>3
  <2>5. \E n \in Numbers :
          /\ info.line = L(n)
          /\ Results(info.ctx) = [fd |-> n, len |-> 0, text |-> <<>>,
                                  port |-> 0, data |-> <<>>]
    BY <2>2, <2>4
  <2> QED
    BY <2>5 DEF Gives, L
<1>3. ASSUME c = "nsost"
      PROVE  \E n \in Numbers :
               Gives(info, <<Num(n), comma, Num(Sent)>>,
                     n, Sent, <<>>, 0, <<>>)
  <2> DEFINE L(n) == <<Num(n), comma, Num(Sent)>>
             X(n) == [Blank EXCEPT !.fd = n, !.len = Sent]
  <2>1. Info("nsost") =
          {[line |-> L(n), ctx |-> X(n)] : n \in Numbers}
    BY InfoSets
  <2>2. ASSUME NEW n \in Numbers
        PROVE  Results(X(n)) = [fd |-> n, len |-> Sent, text |-> <<>>,
                                port |-> 0, data |-> <<>>]
    BY DEF Results, Blank
  <2> HIDE DEF L, X
  <2>3. \E n \in Numbers :
          info = [line |-> L(n), ctx |-> X(n)]
    BY <1>3, <2>1
  <2>4. \E n \in Numbers :
          info.line = L(n) /\ info.ctx = X(n)
    BY <2>3
  <2>5. \E n \in Numbers :
          /\ info.line = L(n)
          /\ Results(info.ctx) = [fd |-> n, len |-> Sent, text |-> <<>>,
                                  port |-> 0, data |-> <<>>]
    BY <2>2, <2>4
  <2> QED
    BY <2>5 DEF Gives, L
<1>4. ASSUME c = "nsorf"
      PROVE  \E n \in Numbers : \E k \in 1 .. MaxData :
               Gives(info, ReceivedLine(n, k),
                     n, 0, <<Num(Addr)>>, Port, Octets(k))
  <2> DEFINE L(n, k) == ReceivedLine(n, k)
             X(n, k) == [Blank EXCEPT !.fd = n, !.text = <<Num(Addr)>>,
                                     !.port = Port, !.data = Octets(k)]
  <2>1. \E n \in Numbers : \E k \in 1 .. MaxData :
          info = [line |-> L(n, k), ctx |-> X(n, k)]
    BY <1>4, InfoSets
  <2>2. ASSUME NEW n \in Numbers, NEW k \in 1 .. MaxData
        PROVE  Results(X(n, k)) = [fd |-> n, len |-> 0, text |-> <<Num(Addr)>>,
                                port |-> Port, data |-> Octets(k)]
    BY DEF Results, Blank
  <2> HIDE DEF L, X
  <2>3. \E n \in Numbers : \E k \in 1 .. MaxData :
          info = [line |-> L(n, k), ctx |-> X(n, k)]
    BY <1>4, <2>1
  <2>4. \E n \in Numbers : \E k \in 1 .. MaxData :
          info.line = L(n, k) /\ info.ctx = X(n, k)
    BY <2>3
  <2>5. \E n \in Numbers : \E k \in 1 .. MaxData :
          /\ info.line = L(n, k)
          /\ Results(info.ctx) = [fd |-> n, len |-> 0, text |-> <<Num(Addr)>>,
                                  port |-> Port, data |-> Octets(k)]
    BY <2>2, <2>4
  <2> QED
    BY <2>5 DEF Gives, L
<1>5. ASSUME c = "cgpaddr"
      PROVE  \/ Gives(info, <<Char("+CGPADDR"), Num(0)>>,
                      -2, 0, <<>>, 0, <<>>)
             \/ \E a \in Numbers :
                  Gives(info, AddressLine(a), -2, 1, <<Num(a)>>, 0, <<>>)
  <2> DEFINE X(a) == [Blank EXCEPT !.text = <<Num(a)>>, !.len = 1]
             N == <<Char("+CGPADDR"), Num(0)>>
  <2>1. Info("cgpaddr") =
          {[line |-> AddressLine(a), ctx |-> X(a)] : a \in Numbers}
             \cup {[line |-> N, ctx |-> Blank]}
    BY InfoSets
  <2>2. /\ \A a \in Numbers :
             Results(X(a)) = [fd |-> -2, len |-> 1, text |-> <<Num(a)>>,
                              port |-> 0, data |-> <<>>]
        /\ Results(Blank) = [fd |-> -2, len |-> 0, text |-> <<>>,
                             port |-> 0, data |-> <<>>]
    BY DEF Results, Blank
  <2> HIDE DEF X, N
  <2>3. \/ info = [line |-> N, ctx |-> Blank]
        \/ \E a \in Numbers : info = [line |-> AddressLine(a), ctx |-> X(a)]
    BY <1>5, <2>1
  <2>4. \/ info.line = N /\ info.ctx = Blank
        \/ \E a \in Numbers :
             info.line = AddressLine(a) /\ info.ctx = X(a)
    BY <2>3
  <2>5. CASE info.line = N /\ info.ctx = Blank
    BY <2>2, <2>5 DEF Gives, N
  <2>6. ASSUME NEW a \in Numbers,
               info.line = AddressLine(a) /\ info.ctx = X(a)
        PROVE  Gives(info, AddressLine(a), -2, 1, <<Num(a)>>, 0, <<>>)
    BY <2>2, <2>6 DEF Gives
  <2> QED
    BY <2>4, <2>5, <2>6 DEF N
<1>6. ASSUME c = "cimi"
      PROVE  \E n \in Numbers :
               Gives(info, <<Num(n)>>, -2, 0, <<Num(n)>>, 0, <<>>)
  <2> DEFINE L(n) == <<Num(n)>>
             X(n) == [Blank EXCEPT !.text = <<Num(n)>>]
  <2>1. Info("cimi") =
          {[line |-> L(n), ctx |-> X(n)] : n \in Numbers}
    BY InfoSets
  <2>2. ASSUME NEW n \in Numbers
        PROVE  Results(X(n)) = [fd |-> -2, len |-> 0, text |-> <<Num(n)>>,
                                port |-> 0, data |-> <<>>]
    BY DEF Results, Blank
  <2> HIDE DEF L, X
  <2>3. \E n \in Numbers :
          info = [line |-> L(n), ctx |-> X(n)]
    BY <1>6, <2>1
  <2>4. \E n \in Numbers :
          info.line = L(n) /\ info.ctx = X(n)
    BY <2>3
  <2>5. \E n \in Numbers :
          /\ info.line = L(n)
          /\ Results(info.ctx) = [fd |-> -2, len |-> 0, text |-> <<Num(n)>>,
                                  port |-> 0, data |-> <<>>]
    BY <2>2, <2>4
  <2> QED
    BY <2>5 DEF Gives, L
<1>7. ASSUME c = "cgsn"
      PROVE  \E n \in Numbers :
               Gives(info, <<Char("+CGSN"), Num(n)>>,
                     -2, 0, <<Char("+CGSN"), Num(n)>>, 0, <<>>)
  <2> DEFINE L(n) == <<Char("+CGSN"), Num(n)>>
             X(n) == [Blank EXCEPT !.text = <<Char("+CGSN"), Num(n)>>]
  <2>1. Info("cgsn") =
          {[line |-> L(n), ctx |-> X(n)] : n \in Numbers}
    BY InfoSets
  <2>2. ASSUME NEW n \in Numbers
        PROVE  Results(X(n)) = [fd |-> -2, len |-> 0,
                                text |-> <<Char("+CGSN"), Num(n)>>,
                                port |-> 0, data |-> <<>>]
    BY DEF Results, Blank
  <2> HIDE DEF L, X
  <2>3. \E n \in Numbers :
          info = [line |-> L(n), ctx |-> X(n)]
    BY <1>7, <2>1
  <2>4. \E n \in Numbers :
          info.line = L(n) /\ info.ctx = X(n)
    BY <2>3
  <2>5. \E n \in Numbers :
          /\ info.line = L(n)
          /\ Results(info.ctx) = [fd |-> -2, len |-> 0,
                                  text |-> <<Char("+CGSN"), Num(n)>>,
                                  port |-> 0, data |-> <<>>]
    BY <2>2, <2>4
  <2> QED
    BY <2>5 DEF Gives, L
<1> QED
  BY <1>1, <1>2, <1>3, <1>4, <1>5, <1>6, <1>7

\* The answer to AT+NSORF.
LEMMA ReceivedFacts ==
  ASSUME NEW n \in Nat, NEW k \in Nat, k >= 1
  PROVE  LET L == ReceivedLine(n, k) IN
         /\ L \in Seq(Tokens) /\ Len(L) = 10 + k
         /\ L[1] = Num(n) /\ L[2] = comma /\ L[3] = Num(Addr) /\ L[4] = comma
         /\ L[5] = Num(Port) /\ L[6] = comma /\ L[7] = Num(k)
         /\ L[8] = comma
         /\ \A i \in 1 .. k : L[8 + i] = Octets(k)[i]
         /\ L[9 + k] = comma /\ L[10 + k] = Num(0)
         /\ Octets(k) \in Seq(Tokens) /\ Len(Octets(k)) = k
         /\ \A i \in 1 .. k : Octets(k)[i].c = "num"
<1> DEFINE L == ReceivedLine(n, k)
           h == <<Num(n), comma, Num(Addr), comma, Num(Port), comma, Num(k),
                  comma>>
           o == Octets(k)
           z == <<comma, Num(0)>>
<1>1. /\ h \in Seq(Tokens) /\ Len(h) = 8
      /\ h[1] = Num(n) /\ h[2] = comma /\ h[3] = Num(Addr) /\ h[4] = comma
      /\ h[5] = Num(Port) /\ h[6] = comma /\ h[7] = Num(k) /\ h[8] = comma
  <2>1. /\ Num(n) \in Tokens /\ Num(k) \in Tokens /\ Num(Addr) \in Tokens
        /\ Num(Port) \in Tokens /\ comma \in Tokens
    BY TokenFacts DEF Addr, Port
  <2> QED
    BY <2>1
<1>2. /\ o \in Seq(Tokens) /\ Len(o) = k
      /\ \A i \in 1 .. k : o[i] = Num(20 + i) /\ o[i].c = "num"
  <2>1. \A i \in 1 .. k : Num(20 + i) \in Tokens /\ Num(20 + i).c = "num"
    BY TokenFacts
  <2>2. o = [i \in 1 .. k |-> Num(20 + i)]
    BY DEF Octets
  <2> HIDE DEF o
  <2> QED
    BY <2>1, <2>2
<1>3. z \in Seq(Tokens) /\ Len(z) = 2 /\ z[1] = comma /\ z[2] = Num(0)
  BY TokenFacts
<1>4. L = (h \o o) \o z
  BY DEF ReceivedLine
<1> HIDE DEF h, o, z, L
<1> DEFINE u == h \o o
<1>5. /\ u \in Seq(Tokens) /\ Len(u) = 8 + k
      /\ \A i \in 1 .. 8 : u[i] = h[i]
      /\ \A i \in 1 .. k : u[8 + i] = o[i]
  <2>1. h \in Seq(Tokens) /\ o \in Seq(Tokens)
    BY <1>1, <1>2
  <2>2. /\ u \in Seq(Tokens) /\ Len(u) = Len(h) + Len(o)
        /\ \A i \in 1 .. Len(h) : u[i] = h[i]
        /\ \A i \in 1 .. Len(o) : u[i + Len(h)] = o[i]
    BY <2>1, Parts
  <2>3. \A i \in 1 .. k : 8 + i = i + 8
    OBVIOUS
  <2> HIDE DEF u
  <2> QED
    BY <1>1, <1>2, <2>2, <2>3
<1> HIDE DEF u
<1>6. /\ L \in Seq(Tokens) /\ Len(L) = 10 + k
      /\ \A i \in 1 .. 8 + k : L[i] = u[i]
      /\ L[9 + k] = z[1] /\ L[10 + k] = z[2]
  <2>1. u \in Seq(Tokens) /\ z \in Seq(Tokens)
    BY <1>3, <1>5
  <2> DEFINE m == u \o z
  <2>2. L = m
    BY <1>4 DEF u
  <2>3. /\ m \in Seq(Tokens) /\ Len(m) = Len(u) + Len(z)
        /\ \A i \in 1 .. Len(u) : m[i] = u[i]
        /\ \A i \in 1 .. Len(z) : m[i + Len(u)] = z[i]
    BY <2>1, Parts
  <2> HIDE DEF m
  <2>4. /\ 1 \in 1 .. 2 /\ 2 \in 1 .. 2
        /\ 1 + (8 + k) = 9 + k /\ 2 + (8 + k) = 10 + k
        /\ (8 + k) + 2 = 10 + k
    OBVIOUS
  <2>5. Len(u) = 8 + k /\ Len(z) = 2
    BY <1>3, <1>5
  <2>6. /\ L \in Seq(Tokens) /\ Len(L) = (8 + k) + 2
        /\ \A i \in 1 .. 8 + k : L[i] = u[i]
        /\ L[1 + (8 + k)] = z[1] /\ L[2 + (8 + k)] = z[2]
    BY <2>2, <2>3, <2>4, <2>5
  <2> QED
    BY <2>4, <2>6
<1>7. /\ {1, 2, 3, 4, 5, 6, 7, 8} \subseteq 1 .. 8
      /\ \A i \in 1 .. 8 : i \in 1 .. 8 + k
      /\ \A i \in 1 .. k : 8 + i \in 1 .. 8 + k
  OBVIOUS
<1>8. /\ \A i \in 1 .. 8 : L[i] = h[i]
      /\ \A i \in 1 .. k : L[8 + i] = o[i]
  BY <1>5, <1>6, <1>7
<1> QED
  BY <1>1, <1>2, <1>3, <1>6, <1>7, <1>8 DEF o, L

\* Whatever the command, its information line is one line of its own.
LEMMA InfoLines ==
  ASSUME NEW c \in Commands, NEW info \in Info(c)
  PROVE  /\ info.line \in Seq(Tokens) /\ Len(info.line) >= 1
         /\ \A i \in 1 .. Len(info.line) : info.line[i].c \in LineTokens
         /\ info.line[1].c \in Names <=> c \in {"cgpaddr", "cgsn"}
         /\ c # "generic"
<1>0. \A n \in Numbers : n \in Nat
  BY Constants
<1>1. CASE c = "generic"
  BY <1>1, InfoOf
<1>2. CASE c \in {"nsocr", "cimi"}
  <2>1. PICK n \in Numbers : info.line = <<Num(n)>>
    BY <1>2, InfoOf DEF Gives
  <2>2. Num(n) \in Tokens /\ Num(n).c = "num"
    BY <1>0, TokenFacts
  <2>3. <<Num(n)>> \in Seq(Tokens) /\ Len(<<Num(n)>>) = 1
    BY <2>2
  <2> QED
    BY <1>2, <2>1, <2>2, <2>3 DEF LineTokens, Names
<1>3. CASE c = "nsost"
  <2>1. PICK n \in Numbers : info.line = <<Num(n), comma, Num(Sent)>>
    BY <1>3, InfoOf DEF Gives
  <2>2. /\ Num(n) \in Tokens /\ Num(n).c = "num" /\ comma \in Tokens
        /\ Num(Sent) \in Tokens /\ Num(Sent).c = "num" /\ comma.c = "comma"
    BY <1>0, TokenFacts DEF Sent
  <2>3. info.line \in Seq(Tokens) /\ Len(info.line) = 3
    BY <2>1, <2>2
  <2> QED
    BY <1>3, <2>1, <2>2, <2>3 DEF LineTokens, Names
<1>4. CASE c = "nsorf"
  <2>1. PICK n \in Numbers : \E k \in 1 .. MaxData :
          info.line = ReceivedLine(n, k)
    BY <1>4, InfoOf DEF Gives
  <2>1a. PICK k \in 1 .. MaxData : info.line = ReceivedLine(n, k)
    BY <2>1
  <2>2. n \in Nat /\ k \in Nat /\ k >= 1
    BY <1>0, Constants
  <2> DEFINE L == ReceivedLine(n, k)
  <2>3. /\ L \in Seq(Tokens) /\ Len(L) = 10 + k
        /\ L[1] = Num(n) /\ L[2] = comma /\ L[3] = Num(Addr) /\ L[4] = comma
        /\ L[5] = Num(Port) /\ L[6] = comma /\ L[7] = Num(k) /\ L[8] = comma
        /\ \A i \in 1 .. k : L[8 + i] = Octets(k)[i]
        /\ L[9 + k] = comma /\ L[10 + k] = Num(0)
        /\ \A i \in 1 .. k : Octets(k)[i].c = "num"
    BY <2>2, ReceivedFacts
  <2> HIDE DEF L
  <2>4. /\ Num(n).c = "num" /\ Num(k).c = "num" /\ Num(0).c = "num"
        /\ Num(Addr).c = "num" /\ Num(Port).c = "num" /\ comma.c = "comma"
    BY <2>2, TokenFacts DEF Addr, Port
  <2>5. ASSUME NEW i \in 1 .. Len(L) PROVE L[i].c \in LineTokens
    <3>1. CASE i \in 1 .. 8
      <4>1. i \in {1, 2, 3, 4, 5, 6, 7, 8}
        BY <3>1
      <4> QED
        BY <2>3, <2>4, <4>1 DEF LineTokens
    <3>2. CASE i \in 9 .. 8 + k
      <4>1. i - 8 \in 1 .. k /\ 8 + (i - 8) = i
        BY <2>2, <3>2
      <4>2. L[8 + (i - 8)] = Octets(k)[i - 8]
        BY <2>3, <4>1
      <4>3. L[i].c = "num"
        BY <2>3, <4>1, <4>2
      <4> QED
        BY <4>3 DEF LineTokens
    <3>3. CASE i = 9 + k \/ i = 10 + k
      BY <2>3, <2>4, <3>3 DEF LineTokens
    <3>4. i \in 1 .. 10 + k
      BY <2>3
    <3> QED
      BY <2>2, <3>1, <3>2, <3>3, <3>4
  <2>6. L[1].c \notin Names
    BY <2>3, <2>4 DEF Names
  <2>7. Len(L) >= 1
    BY <2>2, <2>3
  <2> QED
    BY <1>4, <2>1a, <2>3, <2>5, <2>6, <2>7 DEF L
<1>5. CASE c = "cgpaddr"
  <2>1. CASE info.line = <<Char("+CGPADDR"), Num(0)>>
    <3>1. /\ Char("+CGPADDR") \in Tokens /\ Num(0) \in Tokens
          /\ Char("+CGPADDR").c = "+CGPADDR" /\ Num(0).c = "num"
      BY MoreTokens, TokenFacts
    <3>2. info.line \in Seq(Tokens) /\ Len(info.line) = 2
      BY <2>1, <3>1
    <3> QED
      BY <1>5, <2>1, <3>1, <3>2 DEF LineTokens, Names
  <2>2. ASSUME NEW a \in Numbers,
               info.line = <<Char("+CGPADDR"), Num(0), comma, Char("quote"),
                             Num(a), Char("quote")>>
        PROVE  /\ info.line \in Seq(Tokens) /\ Len(info.line) >= 1
               /\ \A i \in 1 .. Len(info.line) :
                    info.line[i].c \in LineTokens
               /\ info.line[1].c \in Names
    <3>1. /\ Char("+CGPADDR") \in Tokens /\ Num(0) \in Tokens
          /\ Num(a) \in Tokens /\ comma \in Tokens /\ Char("quote") \in Tokens
          /\ Char("+CGPADDR").c = "+CGPADDR" /\ Num(0).c = "num"
          /\ Num(a).c = "num" /\ comma.c = "comma"
          /\ Char("quote").c = "quote"
      BY <1>0, MoreTokens, TokenFacts
    <3>2. info.line \in Seq(Tokens) /\ Len(info.line) = 6
      BY <2>2, <3>1
    <3>3. \A i \in 1 .. 6 : info.line[i].c \in LineTokens
      BY <2>2, <3>1 DEF LineTokens
    <3>4. info.line[1].c \in Names
      BY <2>2, <3>1 DEF Names
    <3> QED
      BY <3>2, <3>3, <3>4
  <2>3. \/ info.line = <<Char("+CGPADDR"), Num(0)>>
        \/ \E a \in Numbers :
             info.line = <<Char("+CGPADDR"), Num(0), comma, Char("quote"),
                           Num(a), Char("quote")>>
    BY <1>5, InfoOf DEF Gives, AddressLine
  <2> QED
    BY <1>5, <2>1, <2>2, <2>3
<1>6. CASE c = "cgsn"
  <2>1. PICK n \in Numbers : info.line = <<Char("+CGSN"), Num(n)>>
    BY <1>6, InfoOf DEF Gives
  <2>2. /\ Num(n) \in Tokens /\ Num(n).c = "num"
        /\ Char("+CGSN") \in Tokens /\ Char("+CGSN").c = "+CGSN"
    BY <1>0, MoreTokens, TokenFacts
  <2>3. info.line \in Seq(Tokens) /\ Len(info.line) = 2
    BY <2>1, <2>2
  <2> QED
    BY <1>6, <2>1, <2>2, <2>3 DEF LineTokens, Names
<1> QED
  BY <1>1, <1>2, <1>3, <1>4, <1>5, <1>6 DEF Commands

\* Whole information lines are sequences of tokens.
LEMMA LineTyped ==
  ASSUME NEW c \in Commands, NEW info \in Info(c)
  PROVE  Line(info.line) \in Seq(Tokens)
<1>1. info.line \in Seq(Tokens) /\ <<cr, lf>> \in Seq(Tokens)
  BY InfoLines, TokenFacts
<1> QED
  BY <1>1, Parts DEF Line

\* What the modem may answer: nothing; an information line and OK; or the end
\* alone.  Around the lines there is noise.
WithLine(a, c) ==
  \E info \in Info(c), w \in Seq(Tokens), v \in Seq(Tokens),
     t \in Seq(Tokens) :
    /\ FromStart(w) /\ FromStart(v) /\ FromStart(t)
    /\ a.sent = w \o (Line(info.line) \o (v \o (OK \o t)))
    /\ a.ok = TRUE /\ a.ctx = info.ctx

Bare(a, c) ==
  \E final \in {OK, ERROR}, w \in Seq(Tokens), t \in Seq(Tokens) :
    /\ FromStart(w) /\ FromStart(t)
    /\ a.sent = w \o (final \o t)
    /\ a.ok = (final = OK) /\ a.ctx = Blank
    /\ final = OK => c \in MayBeBare

\* Answers, one form at a time.
LEMMA SentForms ==
  ASSUME NEW c
  PROVE  \A a \in Answers(c) :
           \/ a.sent = <<>> /\ a.ok = FALSE
           \/ \E info \in Info(c), i \in Nat, j \in Nat, k \in Nat :
                /\ a.sent = Urcs(i) \o Blanks \o Line(info.line) \o Urcs(j)
                              \o Blanks \o OK \o Urcs(k)
                /\ a.ok = TRUE /\ a.ctx = info.ctx
           \/ \E final \in {OK, ERROR}, i \in Nat, k \in Nat :
                /\ a.sent = Urcs(i) \o Blanks \o final \o Urcs(k)
                /\ a.ok = (final = OK) /\ a.ctx = Blank
                /\ final = OK => c \in MayBeBare
<1> DEFINE N == 0 .. MaxUrcs
           F == {ERROR} \cup IF c \in MayBeBare THEN {OK} ELSE {}
           one(info, i, j, k) ==
             Urcs(i) \o Blanks \o Line(info.line) \o Urcs(j) \o Blanks \o OK
               \o Urcs(k)
           two(f, i, k) == Urcs(i) \o Blanks \o f \o Urcs(k)
           R1(info, i, j, k) ==
             [sent |-> one(info, i, j, k), ok |-> TRUE, ctx |-> info.ctx]
           R2(f, i, k) == [sent |-> two(f, i, k), ok |-> f = OK, ctx |-> Blank]
           R3 == [sent |-> <<>>, ok |-> FALSE, ctx |-> Blank]
<1>1. Answers(c) =
        {R1(info, i, j, k) : info \in Info(c), i \in N, j \in N, k \in N}
          \cup {R2(f, i, k) : f \in F, i \in N, k \in N} \cup {R3}
  BY SMT DEF Answers
<1>2. \A n \in N : n \in Nat
  BY Constants
<1>3. \A f \in F : f \in {OK, ERROR} /\ (f = OK => c \in MayBeBare)
  BY FinalFacts
<1> HIDE DEF N, F, one, two
<1>4. /\ \A info, i, j, k : /\ R1(info, i, j, k).sent = one(info, i, j, k)
                            /\ R1(info, i, j, k).ok = TRUE
                            /\ R1(info, i, j, k).ctx = info.ctx
      /\ \A f, i, k : /\ R2(f, i, k).sent = two(f, i, k)
                      /\ R2(f, i, k).ok = (f = OK)
                      /\ R2(f, i, k).ctx = Blank
      /\ R3.sent = <<>> /\ R3.ok = FALSE
  OBVIOUS
<1> HIDE DEF R1, R2, R3
<1>5. ASSUME NEW a \in Answers(c)
      PROVE  \/ a = R3
             \/ \E info \in Info(c), i \in N, j \in N, k \in N :
                  a = R1(info, i, j, k)
             \/ \E f \in F, i \in N, k \in N : a = R2(f, i, k)
  BY <1>1
<1>6. ASSUME NEW a \in Answers(c)
      PROVE  \/ a.sent = <<>> /\ a.ok = FALSE
             \/ \E info \in Info(c), i \in Nat, j \in Nat, k \in Nat :
                  /\ a.sent = one(info, i, j, k)
                  /\ a.ok = TRUE /\ a.ctx = info.ctx
             \/ \E f \in {OK, ERROR}, i \in Nat, k \in Nat :
                  /\ a.sent = two(f, i, k)
                  /\ a.ok = (f = OK) /\ a.ctx = Blank
                  /\ f = OK => c \in MayBeBare
  <2>1. CASE a = R3
    BY <1>4, <2>1
  <2>2. ASSUME NEW info \in Info(c), NEW i \in N, NEW j \in N, NEW k \in N,
               a = R1(info, i, j, k)
        PROVE  /\ i \in Nat /\ j \in Nat /\ k \in Nat
               /\ a.sent = one(info, i, j, k)
               /\ a.ok = TRUE /\ a.ctx = info.ctx
    BY <1>2, <1>4, <2>2
  <2>3. ASSUME NEW f \in F, NEW i \in N, NEW k \in N, a = R2(f, i, k)
        PROVE  /\ i \in Nat /\ k \in Nat /\ f \in {OK, ERROR}
               /\ a.sent = two(f, i, k)
               /\ a.ok = (f = OK) /\ a.ctx = Blank
               /\ f = OK => c \in MayBeBare
    BY <1>2, <1>3, <1>4, <2>3
  <2> QED
    <3>1. CASE \E info \in Info(c), i \in N, j \in N, k \in N :
                 a = R1(info, i, j, k)
      <4>1. PICK info \in Info(c), i \in N, j \in N, k \in N :
              a = R1(info, i, j, k)
        BY <3>1
      <4>2. /\ i \in Nat /\ j \in Nat /\ k \in Nat
            /\ a.sent = one(info, i, j, k)
            /\ a.ok = TRUE /\ a.ctx = info.ctx
        BY <2>2, <4>1
      <4> QED
        BY <4>2
    <3>2. CASE \E f \in F, i \in N, k \in N : a = R2(f, i, k)
      <4>1. PICK f \in F, i \in N, k \in N : a = R2(f, i, k)
        BY <3>2
      <4>2. /\ i \in Nat /\ k \in Nat /\ f \in {OK, ERROR}
            /\ a.sent = two(f, i, k)
            /\ a.ok = (f = OK) /\ a.ctx = Blank
            /\ f = OK => c \in MayBeBare
        BY <2>3, <4>1
      <4> QED
        BY <4>2
    <3> QED
      BY <1>5, <2>1, <3>1, <3>2
<1> QED
  BY <1>6 DEF one, two

\* Every answer has one of three forms, with noise around its lines.
LEMMA AnswerForms ==
  ASSUME NEW c \in Commands, NEW a \in Answers(c)
  PROVE  a.sent = <<>> \/ WithLine(a, c) \/ Bare(a, c)
<1>1. ASSUME NEW n \in Nat
      PROVE  /\ Urcs(n) \in Seq(Tokens) /\ FromStart(Urcs(n))
             /\ Urcs(n) \o Blanks \in Seq(Tokens)
             /\ FromStart(Urcs(n) \o Blanks)
  <2>1. /\ Urcs(n) \in Seq(Tokens) /\ FromStart(Urcs(n))
        /\ Blanks \in Seq(Tokens) /\ FromStart(Blanks)
    BY UrcsAreNoise, UrcFacts
  <2>2. FromStart(Urcs(n) \o Blanks)
    BY <2>1, NoiseJoined DEF FromStart
  <2> QED
    BY <2>1, <2>2, Parts
<1>2. OK \in Seq(Tokens) /\ ERROR \in Seq(Tokens)
  BY FinalFacts
<1>3. ASSUME NEW info \in Info(c), NEW i \in Nat, NEW j \in Nat, NEW k \in Nat,
             a.sent = Urcs(i) \o Blanks \o Line(info.line) \o Urcs(j)
                        \o Blanks \o OK \o Urcs(k),
             a.ok = TRUE, a.ctx = info.ctx
      PROVE  WithLine(a, c)
  <2> DEFINE w == Urcs(i) \o Blanks
             l == Line(info.line)
             u == Urcs(j)
             v == u \o Blanks
             t == Urcs(k)
  <2>1. /\ w \in Seq(Tokens) /\ v \in Seq(Tokens) /\ t \in Seq(Tokens)
        /\ u \in Seq(Tokens)
        /\ FromStart(w) /\ FromStart(v) /\ FromStart(t)
    BY <1>1
  <2>2. l \in Seq(Tokens)
    BY LineTyped
  <2>3. Blanks \in Seq(Tokens)
    BY UrcFacts
  <2>4. a.sent = ((((w \o l) \o u) \o Blanks) \o OK) \o t
    BY <1>3
  <2> HIDE DEF w, l, t, u
  <2> DEFINE x == w \o l
             y == v \o (OK \o t)
  <2>5. x \in Seq(Tokens)
    BY <2>1, <2>2, Parts
  <2>6. a.sent = (((x \o u) \o Blanks) \o OK) \o t
    BY <2>4
  <2> HIDE DEF x
  <2>7. (x \o u) \o Blanks = x \o v
    BY <2>1, <2>3, <2>5, Regrouped, SMTT(20)
  <2>8. a.sent = ((x \o v) \o OK) \o t
    BY <2>6, <2>7
  <2> HIDE DEF v
  <2>9. ((x \o v) \o OK) \o t = x \o y
    <3>1. /\ x \in Seq(Tokens) /\ v \in Seq(Tokens) /\ OK \in Seq(Tokens)
          /\ t \in Seq(Tokens)
      BY <1>2, <2>1, <2>5
    <3>2. x \o v \in Seq(Tokens) /\ OK \o t \in Seq(Tokens)
      BY <3>1, Parts
    <3> DEFINE p == x \o v
               q == OK \o t
    <3>3. p \in Seq(Tokens) /\ q \in Seq(Tokens)
      BY <3>2
    <3> HIDE DEF q, y
    <3>4. p \o q = x \o (v \o q)
      <4>1. x \in Seq(Tokens) /\ v \in Seq(Tokens) /\ q \in Seq(Tokens)
        BY <3>1, <3>3
      <4> QED
        BY <4>1, Regrouped, SMTT(20)
    <3> HIDE DEF p
    <3>5. (p \o OK) \o t = p \o (OK \o t)
      BY <3>1, <3>3, Regrouped, SMTT(20)
    <3> QED
      BY <3>4, <3>5 DEF p, q, y
  <2>10. y \in Seq(Tokens)
    <3>1. OK \o t \in Seq(Tokens)
      BY <1>2, <2>1, Parts
    <3> QED
      BY <2>1, <3>1, Parts
  <2>11. a.sent = x \o y
    BY <2>8, <2>9
  <2> HIDE DEF y
  <2>12. x \o y = w \o (l \o y)
    BY <2>1, <2>2, <2>10, Regrouped, SMTT(20) DEF x
  <2> QED
    BY <1>3, <2>1, <2>11, <2>12 DEF WithLine, l, y
<1>4. ASSUME NEW final \in {OK, ERROR}, NEW i \in Nat, NEW k \in Nat,
             a.sent = Urcs(i) \o Blanks \o final \o Urcs(k),
             a.ok = (final = OK), a.ctx = Blank,
             final = OK => c \in MayBeBare
      PROVE  Bare(a, c)
  <2> DEFINE w == Urcs(i) \o Blanks
             t == Urcs(k)
  <2>1. /\ w \in Seq(Tokens) /\ t \in Seq(Tokens) /\ final \in Seq(Tokens)
        /\ FromStart(w) /\ FromStart(t)
    BY <1>1, <1>2
  <2>2. a.sent = (w \o final) \o t
    BY <1>4
  <2> HIDE DEF w, t
  <2>3. a.sent = w \o (final \o t)
    BY <2>1, <2>2, Regrouped, SMTT(20)
  <2> QED
    BY <1>4, <2>1, <2>3 DEF Bare
<1>5. \/ a.sent = <<>> /\ a.ok = FALSE
      \/ \E info \in Info(c), i \in Nat, j \in Nat, k \in Nat :
           /\ a.sent = Urcs(i) \o Blanks \o Line(info.line) \o Urcs(j)
                         \o Blanks \o OK \o Urcs(k)
           /\ a.ok = TRUE /\ a.ctx = info.ctx
      \/ \E final \in {OK, ERROR}, i \in Nat, k \in Nat :
           /\ a.sent = Urcs(i) \o Blanks \o final \o Urcs(k)
           /\ a.ok = (final = OK) /\ a.ctx = Blank
           /\ final = OK => c \in MayBeBare
  BY SentForms, Zenon
<1> QED
  BY <1>3, <1>4, <1>5, Zenon

-----------------------------------------------------------------------------
(* Counting the ends of answers. *)

Ends(s) == Cardinality({i \in DOMAIN s : Ending(s[i])})

\* The ends of answers in a sequence are finitely many.
LEMMA EndsType ==
  ASSUME NEW S, NEW s \in Seq(S)
  PROVE  /\ IsFiniteSet({i \in DOMAIN s : Ending(s[i])})
         /\ Ends(s) \in Nat
         /\ Ends(s) = 0 <=> Quiet(s)
<1> DEFINE at == {i \in DOMAIN s : Ending(s[i])}
<1>1. DOMAIN s = 1 .. Len(s) /\ Len(s) \in Nat
  OBVIOUS
<1>2. IsFiniteSet(1 .. Len(s)) /\ at \in SUBSET (1 .. Len(s))
  BY <1>1, FS_Interval
<1>3. IsFiniteSet(at)
  <2> HIDE DEF at
  <2> QED
    BY <1>2, FS_Subset
<1>4. Cardinality(at) \in Nat /\ (Cardinality(at) = 0 <=> at = {})
  <2> HIDE DEF at
  <2> QED
    BY <1>3, FS_CardinalityType, FS_EmptySet
<1>5. at = {} <=> Quiet(s)
  BY DEF Quiet
<1> QED
  BY <1>3, <1>4, <1>5 DEF Ends

\* Ends add up.
LEMMA EndsJoined ==
  ASSUME NEW S, NEW a \in Seq(S), NEW b \in Seq(S)
  PROVE  Ends(a \o b) = Ends(a) + Ends(b)
<1> DEFINE s == a \o b
           A == {i \in DOMAIN a : Ending(a[i])}
           B == {i \in DOMAIN b : Ending(b[i])}
           C == {i \in DOMAIN s : Ending(s[i])}
           D == C \ A
           shift == [i \in B |-> i + Len(a)]
<1>1. /\ s \in Seq(S) /\ DOMAIN s = 1 .. Len(a) + Len(b)
      /\ DOMAIN a = 1 .. Len(a) /\ DOMAIN b = 1 .. Len(b)
      /\ Len(a) \in Nat /\ Len(b) \in Nat
      /\ \A i \in 1 .. Len(a) : s[i] = a[i]
      /\ \A i \in 1 .. Len(b) : s[i + Len(a)] = b[i]
      /\ \A i \in 1 .. Len(a) + Len(b) :
           i > Len(a) => i - Len(a) \in 1 .. Len(b) /\ s[i] = b[i - Len(a)]
  BY Parts
<1>2. IsFiniteSet(A) /\ IsFiniteSet(B) /\ IsFiniteSet(C)
  <2> HIDE DEF s
  <2> QED
    BY <1>1, EndsType
<1> HIDE DEF s
<1>3. A \subseteq C
  BY <1>1
<1>4. \A i \in D : i > Len(a) /\ i \in 1 .. Len(a) + Len(b)
  BY <1>1
<1>5. shift \in [B -> D]
  BY <1>1
<1>6. \A i, j \in B : shift[i] = shift[j] => i = j
  BY <1>1
<1>7. \A k \in D : k - Len(a) \in B /\ shift[k - Len(a)] = k
  BY <1>1, <1>4
<1> HIDE DEF shift, B
<1>8. shift \in Bijection(B, D)
  BY <1>5, <1>6, <1>7, Fun_IsBij
<1>9. IsFiniteSet(D) /\ Cardinality(D) = Cardinality(B)
  BY <1>2, <1>8, FS_Bijection DEF ExistsBijection
<1>10. A \cap D = {} /\ C = A \cup D
  BY <1>3
<1> HIDE DEF A, C, D
<1>11. Cardinality(A \cap D) = 0
  BY <1>10, FS_EmptySet
<1>12. Cardinality(C) = Cardinality(A) + Cardinality(D) - 0
  BY <1>2, <1>9, <1>10, <1>11, FS_Union
<1>13. Cardinality(A) \in Nat /\ Cardinality(D) \in Nat
  BY <1>2, <1>9, FS_CardinalityType
<1>14. Cardinality(C) = Cardinality(A) + Cardinality(B)
  BY <1>9, <1>12, <1>13
<1> QED
  BY <1>14 DEF Ends, A, B, C, s

\* Taking a token takes its end.
LEMMA EndsTaken ==
  ASSUME NEW S, NEW s \in Seq(S), s # <<>>
  PROVE  Ends(s) = Ends(Tail(s)) + (IF Ending(Head(s)) THEN 1 ELSE 0)
<1> DEFINE h == <<Head(s)>>
           t == Tail(s)
           m == h \o t
           at == {i \in DOMAIN h : Ending(h[i])}
<1>1. /\ Head(s) = s[1] /\ Head(s) \in S /\ t \in Seq(S)
      /\ Len(s) \in Nat /\ Len(s) > 0 /\ Len(t) = Len(s) - 1
      /\ \A i \in 1 .. Len(s) - 1 : t[i] = s[i + 1]
  BY Taken
<1>2. h \in Seq(S) /\ Len(h) = 1 /\ h[1] = Head(s) /\ DOMAIN h = {1}
  BY <1>1
<1> HIDE DEF h, t
<1>3. /\ m \in Seq(S) /\ Len(m) = Len(h) + Len(t)
      /\ \A i \in 1 .. Len(h) : m[i] = h[i]
      /\ \A i \in 1 .. Len(h) + Len(t) : i > Len(h) => m[i] = t[i - Len(h)]
  <2>1. h \in Seq(S) /\ t \in Seq(S)
    BY <1>1, <1>2
  <2> QED
    BY <2>1, Parts
<1> HIDE DEF m
<1>4. ASSUME NEW i \in 1 .. Len(s) PROVE s[i] = m[i]
  <2>1. CASE i = 1
    <3>1. i \in 1 .. Len(h)
      BY <1>2, <2>1
    <3> QED
      BY <1>1, <1>2, <1>3, <2>1, <3>1
  <2>2. CASE i > 1
    <3>1. /\ i \in 1 .. Len(h) + Len(t) /\ i > Len(h)
          /\ i - 1 \in 1 .. Len(s) - 1 /\ (i - 1) + 1 = i
      BY <1>1, <1>2, <2>2
    <3> QED
      BY <1>1, <1>2, <1>3, <3>1
  <2> QED
    BY <1>1, <2>1, <2>2
<1>5. Len(s) = Len(m)
  BY <1>1, <1>2, <1>3
<1>6. s = m
  BY <1>3, <1>4, <1>5, SeqEqual
<1>7. at = IF Ending(Head(s)) THEN {1} ELSE {}
  BY <1>2
<1>8. Ends(h) = IF Ending(Head(s)) THEN 1 ELSE 0
  <2> HIDE DEF at
  <2>1. Cardinality(at) = IF Ending(Head(s)) THEN 1 ELSE 0
    BY <1>7, FS_Singleton, FS_EmptySet
  <2> QED
    BY <2>1 DEF Ends, at
<1>9. Ends(m) = Ends(h) + Ends(t)
  <2>1. h \in Seq(S) /\ t \in Seq(S)
    BY <1>1, <1>2
  <2> QED
    BY <2>1, EndsJoined DEF m
<1>10. Ends(t) \in Nat
  BY <1>1, EndsType
<1> QED
  BY <1>6, <1>8, <1>9, <1>10 DEF t

\* Noise ends no answer.
LEMMA NoiseIsQuiet ==
  ASSUME NEW w \in Seq(Tokens), Noise(w)
  PROVE  Quiet(w) /\ Ends(w) = 0
<1>1. ASSUME NEW i \in DOMAIN w PROVE ~Ending(w[i])
  BY NoiseTokens DEF Ending
<1> QED
  BY <1>1, EndsType DEF Quiet

\* The tokens of a whole line.
LEMMA LineFacts ==
  ASSUME NEW L \in Seq(Tokens)
  PROVE  /\ Line(L) \in Seq(Tokens) /\ Len(Line(L)) = Len(L) + 2
         /\ \A i \in 1 .. Len(L) : Line(L)[i] = L[i]
         /\ Line(L)[Len(L) + 1] = cr /\ Line(L)[Len(L) + 2] = lf
<1> DEFINE e == <<cr, lf>>
           l == L \o e
<1>1. e \in Seq(Tokens) /\ Len(e) = 2 /\ e[1] = cr /\ e[2] = lf
  BY TokenFacts
<1> HIDE DEF e
<1>2. /\ l \in Seq(Tokens) /\ Len(l) = Len(L) + Len(e) /\ Len(L) \in Nat
      /\ \A i \in 1 .. Len(L) : l[i] = L[i]
      /\ \A i \in 1 .. Len(e) : l[i + Len(L)] = e[i]
  <2>1. e \in Seq(Tokens)
    BY <1>1
  <2> QED
    BY <2>1, Parts
<1> HIDE DEF l
<1>3. 1 \in 1 .. 2 /\ 2 \in 1 .. 2 /\ 1 + Len(L) = Len(L) + 1
      /\ 2 + Len(L) = Len(L) + 2
  BY <1>2
<1>4. /\ l \in Seq(Tokens) /\ Len(l) = Len(L) + 2
      /\ \A i \in 1 .. Len(L) : l[i] = L[i]
      /\ l[Len(L) + 1] = cr /\ l[Len(L) + 2] = lf
  BY <1>1, <1>2, <1>3
<1>5. Line(L) = l
  BY DEF Line, l, e
<1> QED
  BY <1>4, <1>5

\* An information line ends no answer.
LEMMA LineIsQuiet ==
  ASSUME NEW c \in Commands, NEW info \in Info(c)
  PROVE  Quiet(Line(info.line)) /\ Ends(Line(info.line)) = 0
<1> DEFINE L == info.line
           l == Line(L)
<1>1. /\ L \in Seq(Tokens)
      /\ \A i \in 1 .. Len(L) : L[i].c \in LineTokens
  BY InfoLines
<1> HIDE DEF L
<1>2. /\ l \in Seq(Tokens) /\ Len(l) = Len(L) + 2 /\ Len(L) \in Nat
      /\ \A i \in 1 .. Len(L) : l[i] = L[i]
      /\ l[Len(L) + 1] = cr /\ l[Len(L) + 2] = lf
  BY <1>1, LineFacts
<1> HIDE DEF l
<1>3. ASSUME NEW i \in DOMAIN l PROVE ~Ending(l[i])
  <2>1. i \in 1 .. Len(L) + 2
    BY <1>2
  <2>2. CASE i \in 1 .. Len(L)
    BY <1>1, <1>2, <2>2 DEF LineTokens, Ending
  <2>3. CASE i = Len(L) + 1 \/ i = Len(L) + 2
    BY <1>2, <2>3, TokenFacts DEF Ending
  <2> QED
    BY <1>2, <2>1, <2>2, <2>3
<1>4. Quiet(l)
  BY <1>3 DEF Quiet
<1>5. Ends(l) = 0
  BY <1>2, <1>4, EndsType
<1> QED
  BY <1>4, <1>5 DEF l, L

\* OK and ERROR each end one.
LEMMA EndsOfFinal ==
  ASSUME NEW final \in {OK, ERROR}
  PROVE  final \in Seq(Tokens) /\ Ends(final) = 1
<1> DEFINE at == {i \in DOMAIN final : Ending(final[i])}
<1>1. /\ final \in Seq(Tokens) /\ Len(final) = 3 /\ Ending(final[1])
      /\ final[2] = cr /\ final[3] = lf
  BY FinalFacts
<1>2. DOMAIN final = {1, 2, 3}
  BY <1>1
<1>3. ~Ending(final[2]) /\ ~Ending(final[3])
  BY <1>1, TokenFacts DEF Ending
<1>4. at = {1}
  BY <1>1, <1>2, <1>3
<1>5. Cardinality(at) = 1
  <2> HIDE DEF at
  <2> QED
    BY <1>4, FS_Singleton
<1> QED
  BY <1>1, <1>5 DEF Ends

\* An answer is typed and has one end.
LEMMA SentFacts ==
  ASSUME NEW c \in Commands, NEW a \in Answers(c)
  PROVE  a.sent \in Seq(Tokens) /\ Ends(a.sent) \in {0, 1}
<1>1. ASSUME NEW final \in {OK, ERROR}, NEW w \in Seq(Tokens),
             NEW t \in Seq(Tokens), FromStart(w), FromStart(t)
      PROVE  w \o (final \o t) \in Seq(Tokens) /\ Ends(w \o (final \o t)) = 1
  <2> DEFINE q == final \o t
  <2>1. final \in Seq(Tokens) /\ Ends(final) = 1
    BY EndsOfFinal
  <2>2. Ends(w) = 0 /\ Ends(t) = 0
    BY <1>1, NoiseIsQuiet DEF FromStart
  <2>3. q \in Seq(Tokens)
    BY <2>1, Parts
  <2>4. Ends(q) = Ends(final) + Ends(t)
    BY <2>1, EndsJoined
  <2> HIDE DEF q
  <2>5. w \o q \in Seq(Tokens)
    BY <2>3, Parts
  <2>6. Ends(w \o q) = Ends(w) + Ends(q)
    BY <2>3, EndsJoined
  <2>7. w \o q \in Seq(Tokens) /\ Ends(w \o q) = 1
    BY <2>1, <2>2, <2>4, <2>5, <2>6
  <2> QED
    BY <2>7 DEF q
<1>2. CASE a.sent = <<>>
  <2>1. <<>> \in Seq(Tokens) /\ Quiet(<<>>)
    BY DEF Quiet
  <2> QED
    BY <1>2, <2>1, EndsType
<1>3. CASE WithLine(a, c)
  <2>1. PICK info \in Info(c), w \in Seq(Tokens), v \in Seq(Tokens),
             t \in Seq(Tokens) :
          /\ FromStart(w) /\ FromStart(v) /\ FromStart(t)
          /\ a.sent = w \o (Line(info.line) \o (v \o (OK \o t)))
    BY <1>3 DEF WithLine
  <2> DEFINE q == v \o (OK \o t)
             l == Line(info.line)
             r == l \o q
  <2>2. q \in Seq(Tokens) /\ Ends(q) = 1
    BY <1>1, <2>1
  <2>3. l \in Seq(Tokens) /\ Ends(l) = 0
    BY LineTyped, LineIsQuiet
  <2>4. Ends(w) = 0
    BY <2>1, NoiseIsQuiet DEF FromStart
  <2> HIDE DEF q, l
  <2>5. r \in Seq(Tokens)
    <3>1. l \in Seq(Tokens) /\ q \in Seq(Tokens)
      BY <2>2, <2>3
    <3> QED
      BY <3>1, Parts
  <2>6. Ends(r) = Ends(l) + Ends(q)
    BY <2>2, <2>3, EndsJoined
  <2> HIDE DEF r
  <2>7. w \o r \in Seq(Tokens)
    BY <2>5, Parts
  <2>8. Ends(w \o r) = Ends(w) + Ends(r)
    BY <2>5, EndsJoined
  <2>9. w \o r \in Seq(Tokens) /\ Ends(w \o r) = 1
    BY <2>2, <2>3, <2>4, <2>6, <2>7, <2>8
  <2>10. a.sent = w \o r
    BY <2>1 DEF r, l, q
  <2> QED
    BY <2>9, <2>10
<1>4. CASE Bare(a, c)
  <2>1. PICK final \in {OK, ERROR}, w \in Seq(Tokens), t \in Seq(Tokens) :
          FromStart(w) /\ FromStart(t) /\ a.sent = w \o (final \o t)
    BY <1>4 DEF Bare
  <2> QED
    BY <1>1, <2>1
<1> QED
  BY <1>2, <1>3, <1>4, AnswerForms

-----------------------------------------------------------------------------
(* The steps. *)

Typed == TypeOK /\ rx \in Seq(Tokens) /\ rb \in Seq(Tokens) /\ prev \in Tokens

\* The character that decode_input() reads, the line with it, and what the
\* callback for a character makes of the context.
Byte   == Head(rx)
Longer == Append(rb, Byte)
InUrc  == is_urc \/ (rb = <<>> /\ Byte.c \in Names)
Eol    == prev = cr /\ Byte = lf /\ ~IsFinal(Longer)
Called == CharCb(ctx, Longer, Byte, InUrc)

\* One round of decode_input().
LEMMA Decoded ==
  ASSUME DecodeChar
  PROVE  /\ cmd # "none" /\ ~IsFinal(rb) /\ rx # <<>> /\ rx' = Tail(rx)
         /\ ctx' = (IF Eol THEN EolCb(Called, Longer, InUrc) ELSE Called)
         /\ rb' = (IF Eol THEN <<>> ELSE Longer)
         /\ is_urc' = (InUrc /\ ~Eol) /\ prev' = Byte
         /\ read' = read + (IF Ending(Byte) THEN 1 ELSE 0)
         /\ UNCHANGED <<cmd, answer, aligned, first, asked, late>>
BY DEF DecodeChar, Byte, Longer, InUrc, Eol, Called, ResetLine

\* The types hold at the start,
LEMMA TypedStart == Init => Typed
<1>1. <<>> \in Seq(Tokens) /\ Char("space") \in Tokens
  BY MoreTokens
<1>2. 0 \in 0 .. MaxAsked /\ 0 \in 0 .. MaxLate
  BY Constants
<1> QED
  BY <1>1, <1>2 DEF Init, Typed, TypeOK

\* and every step keeps them.
LEMMA TypedStep == Typed /\ [Next]_vars => Typed'
<1> SUFFICES ASSUME Typed, [Next]_vars PROVE Typed'
  OBVIOUS
<1> USE DEF Typed, TypeOK
<1>0. /\ MaxAsked \in Nat /\ MaxLate \in Nat
      /\ <<>> \in Seq(Tokens) /\ Char("space") \in Tokens
  BY Constants, MoreTokens
<1>1. ASSUME NEW c \in Commands, NEW a \in Answers(c), Ask(c, a) PROVE Typed'
  <2>1. rx \o a.sent \in Seq(Tokens)
    BY SentFacts, Parts
  <2>2. /\ rx' \in Seq(Tokens) /\ rb' \in Seq(Tokens) /\ prev' \in Tokens
        /\ cmd' \in Commands \cup {"none"} /\ is_urc' = FALSE
        /\ asked' \in 0 .. MaxAsked /\ late' \in 0 .. MaxLate
    BY <1>0, <1>1, <2>1 DEF Ask
  <2>3. aligned' \in BOOLEAN
    BY <1>1 DEF Ask
  <2> QED
    BY <2>2, <2>3
<1>2. ASSUME DecodeChar PROVE Typed'
  <2>1. Byte \in Tokens /\ Tail(rx) \in Seq(Tokens)
    BY <1>2, Decoded, Taken DEF Byte
  <2>2. Longer \in Seq(Tokens)
    BY <2>1 DEF Longer
  <2>3. /\ rx' = Tail(rx) /\ rb' = (IF Eol THEN <<>> ELSE Longer)
        /\ is_urc' = (InUrc /\ ~Eol) /\ prev' = Byte
        /\ UNCHANGED <<cmd, answer, aligned, first, asked, late>>
    BY <1>2, Decoded
  <2>4. is_urc' \in BOOLEAN
    BY <2>3
  <2> QED
    BY <1>0, <2>1, <2>2, <2>3, <2>4
<1>3. ASSUME Return PROVE Typed'
  BY <1>3 DEF Return
<1>4. ASSUME TimeOut PROVE Typed'
  BY <1>0, <1>4 DEF TimeOut
<1>5. CASE UNCHANGED vars
  BY <1>5 DEF vars
<1> QED
  BY <1>1, <1>2, <1>3, <1>4, <1>5 DEF Next

\* The types of what decode_input() keeps, and the bounds.
THEOREM TypeCorrect == Spec => []TypeOK
<1>1. Typed => TypeOK
  BY DEF Typed
<1> QED
  BY <1>1, TypedStart, TypedStep, PTL DEF Spec

-----------------------------------------------------------------------------
(* One answer for each decoder. *)

Waiting == Finals + Started <= late + Running

\* Finals, counted with Ends.
LEMMA EachIsCounted ==
  Waiting <=> Ends(rx) + Started <= late + Running
BY DEF Waiting, Ends, Finals

\* No answer is there at the start.
LEMMA EachStart == Init => Waiting
<1> SUFFICES ASSUME Init PROVE Waiting
  OBVIOUS
<1>1. rx = <<>> /\ late = 0 /\ cmd = "none"
  BY DEF Init
<1>2. <<>> \in Seq(Tokens) /\ Quiet(<<>>)
  BY DEF Quiet
<1>3. Ends(rx) = 0
  BY <1>1, <1>2, EndsType
<1> QED
  BY <1>1, <1>3, EachIsCounted DEF Started, Running

\* A time-out leaves at most one answer more, a decoder takes one.
LEMMA EachStep ==
  Typed /\ Waiting /\ [Next]_vars => Waiting'
<1> SUFFICES ASSUME Typed, Waiting, [Next]_vars PROVE Waiting'
  OBVIOUS
<1>1. /\ rx \in Seq(Tokens) /\ rb \in Seq(Tokens) /\ late \in Nat
      /\ Ends(rx) \in Nat /\ Ends(rx) + Started <= late + Running
  <2>1. rx \in Seq(Tokens) /\ rb \in Seq(Tokens) /\ late \in Nat
    BY Constants DEF Typed, TypeOK
  <2> QED
    BY <2>1, EndsType, EachIsCounted
<1>2. Waiting' <=> Ends(rx)' + Started' <= late' + Running'
  <2>1. (Waiting <=> Ends(rx) + Started <= late + Running)'
    BY EachIsCounted, PTL
  <2> QED
    BY <2>1
<1>3. Ends(rx)' = Ends(rx')
  BY DEF Ends, Ending
<1>4. /\ Started \in {0, 1} /\ Started' \in {0, 1}
      /\ Running \in {0, 1} /\ Running' \in {0, 1}
  BY DEF Started, Running
<1>5. ASSUME NEW c \in Commands, NEW a \in Answers(c), Ask(c, a)
      PROVE  Waiting'
  <2>1. /\ cmd = "none" /\ cmd' # "none" /\ rx' = rx \o a.sent /\ rb' = <<>>
        /\ late' = late
    BY <1>5 DEF Ask, Commands
  <2>2. a.sent \in Seq(Tokens) /\ Ends(a.sent) \in {0, 1}
    BY SentFacts
  <2>3. Ends(rx') = Ends(rx) + Ends(a.sent)
    BY <1>1, <2>1, <2>2, EndsJoined
  <2>4. Running = 0 /\ Running' = 1 /\ Started' = 0
    BY <2>1 DEF Running, Started
  <2> QED
    BY <1>1, <1>2, <1>3, <1>4, <2>1, <2>2, <2>3, <2>4
<1>6. ASSUME DecodeChar PROVE Waiting'
  <2>1. /\ cmd # "none" /\ cmd' = cmd /\ rx # <<>> /\ rx' = Tail(rx)
        /\ late' = late /\ rb' = (IF Eol THEN <<>> ELSE Longer)
    BY <1>6, Decoded
  <2>2. /\ Ends(rx) = Ends(Tail(rx)) + (IF Ending(Byte) THEN 1 ELSE 0)
        /\ Tail(rx) \in Seq(Tokens) /\ Byte \in Tokens
    BY <1>1, <2>1, EndsTaken, Taken DEF Byte
  <2>3. Ends(Tail(rx)) \in Nat
    BY <2>2, EndsType
  <2>4. Running = 1 /\ Running' = 1
    BY <2>1 DEF Running
  <2>5. CASE rb = <<>>
    <3>1. Started = 0
      BY <2>5 DEF Started
    <3>2. ~Eol => Longer # <<>> /\ Longer[1] = Byte
      BY <2>2, <2>5 DEF Longer
    <3>3. Started' <= IF Ending(Byte) THEN 1 ELSE 0
      BY <2>1, <3>2 DEF Started, Ending
    <3> QED
      BY <1>1, <1>2, <1>3, <1>4, <2>1, <2>2, <2>3, <2>4, <3>1, <3>3
  <2>6. CASE rb # <<>>
    <3>1. Longer # <<>> /\ Longer[1] = rb[1]
      BY <1>1, <2>2, <2>6 DEF Longer
    <3>2. Started' <= Started
      BY <2>1, <2>6, <3>1 DEF Started
    <3> QED
      BY <1>1, <1>2, <1>3, <1>4, <2>1, <2>2, <2>3, <2>4, <3>2
  <2> QED
    BY <2>5, <2>6
<1>7. ASSUME Return PROVE Waiting'
  <2>1. /\ cmd # "none" /\ cmd' = "none" /\ IsFinal(rb) /\ rx' = rx
        /\ late' = late
    BY <1>7 DEF Return
  <2>2. rb # <<>> /\ Ending(rb[1])
    <3>1. rb \in {OK, ERROR}
      BY <2>1 DEF IsFinal
    <3> QED
      BY <1>1, <3>1, FinalFacts DEF Ending
  <2>3. Started = 1 /\ Started' = 0 /\ Running = 1 /\ Running' = 0
    BY <2>1, <2>2 DEF Started, Running
  <2> QED
    BY <1>1, <1>2, <1>3, <2>1, <2>3
<1>8. ASSUME TimeOut PROVE Waiting'
  <2>1. /\ cmd # "none" /\ cmd' = "none" /\ rx' = rx
        /\ \/ rx = <<>> /\ late' = late
           \/ late' = late + 1
    BY <1>8 DEF TimeOut
  <2>2. Running = 1 /\ Running' = 0 /\ Started' = 0
    BY <2>1 DEF Started, Running
  <2>3. rx = <<>> => Ends(rx) = 0
    <3>1. rx = <<>> => Quiet(rx)
      BY DEF Quiet
    <3> QED
      BY <1>1, <3>1, EndsType
  <2> QED
    BY <1>1, <1>2, <1>3, <1>4, <2>1, <2>2, <2>3
<1>9. CASE UNCHANGED vars
  <2>1. /\ rx' = rx /\ late' = late /\ cmd' = cmd /\ rb' = rb
    BY <1>9 DEF vars
  <2>2. Started' = Started /\ Running' = Running
    BY <2>1 DEF Started, Running
  <2> QED
    BY <1>1, <1>2, <1>3, <2>1, <2>2
<1> QED
  BY <1>5, <1>6, <1>7, <1>8, <1>9 DEF Next

-----------------------------------------------------------------------------
(* A decoder stops at the first end it comes to. *)

\* Where the end of an answer is in s, it is a line of its own.
Framed(s) ==
  \A i \in DOMAIN s : Ending(s[i]) =>
    /\ i + 2 <= Len(s) /\ s[i + 1] = cr /\ s[i + 2] = lf
    /\ i > 1 => s[i - 1] = lf
    /\ i > 2 => s[i - 2] = cr

\* s starts with a whole line that is not the end of an answer.
Led(s) == \A i \in DOMAIN s : Ending(s[i]) => i > 2

\* An end behind a blank line, nothing but it around.
LEMMA FramedEnd ==
  ASSUME NEW P \in Seq(Tokens), Quiet(P), NEW t \in Seq(Tokens), Quiet(t),
         NEW final \in {OK, ERROR}
  PROVE  Framed(P \o Blanks \o final \o t) /\ Led(P \o Blanks \o final \o t)
<1> DEFINE b == Blanks
           q == P \o b
           r == q \o final
           s == r \o t
           n == Len(P)
<1>1. /\ b \in Seq(Tokens) /\ Len(b) = 2 /\ b[1] = cr /\ b[2] = lf
      /\ final \in Seq(Tokens) /\ Len(final) = 3 /\ final[2] = cr
      /\ final[3] = lf
  <2>1. b = <<cr, lf>>
    BY DEF Blanks
  <2> QED
    BY <2>1, FinalFacts, TokenFacts
<1> HIDE DEF b
<1>2. /\ q \in Seq(Tokens) /\ Len(q) = n + 2 /\ n \in Nat
      /\ DOMAIN P = 1 .. n
      /\ \A i \in 1 .. n : q[i] = P[i]
      /\ q[n + 1] = cr /\ q[n + 2] = lf
  <2>1. /\ q \in Seq(Tokens) /\ Len(q) = n + Len(b) /\ n \in Nat
        /\ \A i \in 1 .. n : q[i] = P[i]
        /\ \A i \in 1 .. Len(b) : q[i + n] = b[i]
        /\ DOMAIN P = 1 .. n
    <3>1. b \in Seq(Tokens)
      BY <1>1
    <3> QED
      BY <3>1, Parts
  <2>2. 1 \in 1 .. Len(b) /\ 2 \in 1 .. Len(b) /\ 1 + n = n + 1 /\ 2 + n = n + 2
    BY <1>1, <2>1
  <2> HIDE DEF q, n
  <2> QED
    BY <1>1, <2>1, <2>2
<1> HIDE DEF q, n
<1>3. /\ r \in Seq(Tokens) /\ Len(r) = n + 5
      /\ \A i \in 1 .. n + 2 : r[i] = q[i]
      /\ r[n + 4] = cr /\ r[n + 5] = lf
  <2>1. /\ r \in Seq(Tokens) /\ Len(r) = Len(q) + Len(final)
        /\ \A i \in 1 .. Len(q) : r[i] = q[i]
        /\ \A i \in 1 .. Len(final) : r[i + Len(q)] = final[i]
    <3>1. q \in Seq(Tokens) /\ final \in Seq(Tokens)
      BY <1>1, <1>2
    <3> QED
      BY <3>1, Parts
  <2>2. /\ 2 \in 1 .. Len(final) /\ 3 \in 1 .. Len(final)
        /\ 2 + Len(q) = n + 4 /\ 3 + Len(q) = n + 5
    BY <1>1, <1>2
  <2> HIDE DEF r
  <2> QED
    BY <1>1, <1>2, <2>1, <2>2
<1> HIDE DEF r
<1>4. /\ s \in Seq(Tokens) /\ DOMAIN s = 1 .. Len(s) /\ Len(s) = n + 5 + Len(t)
      /\ Len(t) \in Nat
      /\ \A i \in 1 .. n + 5 : s[i] = r[i]
      /\ \A i \in 1 .. Len(s) : i > n + 5 =>
           i - (n + 5) \in 1 .. Len(t) /\ s[i] = t[i - (n + 5)]
  <2>1. /\ r \in Seq(Tokens) /\ t \in Seq(Tokens)
    BY <1>3
  <2>2. /\ s \in Seq(Tokens) /\ Len(s) = Len(r) + Len(t) /\ Len(t) \in Nat
        /\ \A i \in 1 .. Len(r) : s[i] = r[i]
        /\ \A i \in 1 .. Len(r) + Len(t) : i > Len(r) =>
             i - Len(r) \in 1 .. Len(t) /\ s[i] = t[i - Len(r)]
    BY <2>1, Parts
  <2> HIDE DEF s
  <2> QED
    BY <1>3, <2>2
<1> HIDE DEF s
<1>a. /\ \A i \in 1 .. n : s[i] = P[i]
      /\ n + 1 \in 1 .. n + 2 /\ n + 2 \in 1 .. n + 2
      /\ s[n + 4] = cr /\ s[n + 5] = lf /\ n + 5 <= Len(s)
  <2>1. \A i \in 1 .. n : i \in 1 .. n + 2 /\ i \in 1 .. n + 5
    BY <1>2
  <2>2. /\ n + 4 \in 1 .. n + 5 /\ n + 5 \in 1 .. n + 5
        /\ n + 1 \in 1 .. n + 2 /\ n + 2 \in 1 .. n + 2 /\ n + 5 <= Len(s)
    BY <1>2, <1>4
  <2> QED
    BY <1>2, <1>3, <1>4, <2>1, <2>2
<1>b. s[n + 1] = cr /\ s[n + 2] = lf
  <2>1. n + 1 \in 1 .. n + 5 /\ n + 2 \in 1 .. n + 5
    BY <1>2
  <2> QED
    BY <1>2, <1>3, <1>4, <1>a, <2>1
<1>5. ASSUME NEW i \in DOMAIN s, Ending(s[i]) PROVE i = n + 3
  <2>1. i \in 1 .. Len(s) /\ i \in Int
    BY <1>4
  <2>2. ASSUME i \in 1 .. n PROVE FALSE
    <3>1. s[i] = P[i] /\ i \in DOMAIN P
      BY <1>2, <1>a, <2>2
    <3> QED
      BY <1>5, <3>1 DEF Quiet
  <2>3. ASSUME i \in {n + 1, n + 2, n + 4, n + 5} PROVE FALSE
    <3>1. s[i] \in {cr, lf}
      BY <1>a, <1>b, <2>3
    <3> QED
      BY <1>5, <3>1, TokenFacts DEF Ending
  <2>4. ASSUME i > n + 5 PROVE FALSE
    <3>1. s[i] = t[i - (n + 5)] /\ i - (n + 5) \in DOMAIN t
      BY <1>4, <2>1, <2>4
    <3> QED
      BY <1>5, <3>1 DEF Quiet
  <2>5. n \in Nat
    BY <1>2
  <2>6. i \in Int /\ i >= 1
    BY <2>1
  <2> QED
    BY <2>2, <2>3, <2>4, <2>5, <2>6
<1>6. /\ n + 5 <= Len(s) /\ s[n + 1] = cr /\ s[n + 2] = lf
      /\ s[n + 4] = cr /\ s[n + 5] = lf
  BY <1>a, <1>b
<1>7. Framed(s)
  <2>1. ASSUME NEW i \in DOMAIN s, Ending(s[i])
        PROVE  /\ i + 2 <= Len(s) /\ s[i + 1] = cr /\ s[i + 2] = lf
               /\ s[i - 1] = lf /\ s[i - 2] = cr
    <3>1. /\ i = n + 3 /\ i + 2 = n + 5 /\ i + 1 = n + 4 /\ i - 1 = n + 2
          /\ i - 2 = n + 1
      BY <1>2, <1>5, <2>1
    <3> HIDE DEF n
    <3> QED
      BY <1>6, <3>1
  <2> QED
    BY <2>1 DEF Framed
<1>8. Led(s)
  BY <1>2, <1>5 DEF Led
<1> QED
  BY <1>7, <1>8 DEF s, r, q, b

\* What follows a whole line may come behind anything.
LEMMA FramedJoined ==
  ASSUME NEW a \in Seq(Tokens), NEW b \in Seq(Tokens), Framed(a), Framed(b),
         Led(b)
  PROVE  Framed(a \o b)
<1> DEFINE s == a \o b
           n == Len(a)
<1>1. /\ s \in Seq(Tokens) /\ Len(s) = n + Len(b) /\ DOMAIN s = 1 .. Len(s)
      /\ DOMAIN a = 1 .. n /\ DOMAIN b = 1 .. Len(b) /\ n \in Nat
      /\ Len(b) \in Nat
      /\ \A i \in 1 .. n : s[i] = a[i]
      /\ \A i \in 1 .. Len(b) : s[i + n] = b[i]
      /\ \A i \in 1 .. Len(s) : i > n =>
           i - n \in 1 .. Len(b) /\ s[i] = b[i - n]
  BY Parts
<1> HIDE DEF s, n
<1>2. ASSUME NEW i \in DOMAIN s, Ending(s[i])
      PROVE  /\ i + 2 <= Len(s) /\ s[i + 1] = cr /\ s[i + 2] = lf
             /\ i > 1 => s[i - 1] = lf
             /\ i > 2 => s[i - 2] = cr
  <2>1. i \in 1 .. Len(s)
    BY <1>1
  <2>2. CASE i <= n
    <3>1. i \in DOMAIN a /\ s[i] = a[i] /\ i \in Nat /\ n \in Nat /\ n <= Len(s)
      BY <1>1, <2>1, <2>2
    <3>2. /\ i + 2 <= n /\ a[i + 1] = cr /\ a[i + 2] = lf
          /\ i > 1 => a[i - 1] = lf
          /\ i > 2 => a[i - 2] = cr
      BY <1>2, <3>1 DEF Framed, n
    <3>3. /\ i + 1 \in 1 .. n /\ i + 2 \in 1 .. n
          /\ i > 1 => i - 1 \in 1 .. n
          /\ i > 2 => i - 2 \in 1 .. n
      BY <2>2, <3>1, <3>2
    <3>4. \A k \in 1 .. n : s[k] = a[k]
      BY <1>1
    <3>5. i + 2 <= Len(s)
      <4>1. Len(s) \in Nat
        BY <1>1
      <4> QED
        BY <3>1, <3>2, <4>1
    <3> QED
      BY <3>2, <3>3, <3>4, <3>5
  <2>3. CASE i > n
    <3> DEFINE j == i - n
    <3>1. j \in DOMAIN b /\ s[i] = b[j]
      BY <1>1, <2>1, <2>3
    <3>2. j > 2
      BY <1>2, <3>1 DEF Led
    <3>3. /\ j + 2 <= Len(b) /\ b[j + 1] = cr /\ b[j + 2] = lf
          /\ b[j - 1] = lf /\ b[j - 2] = cr
      <4> HIDE DEF j
      <4>1. /\ j + 2 <= Len(b) /\ b[j + 1] = cr /\ b[j + 2] = lf
            /\ j > 1 => b[j - 1] = lf
            /\ j > 2 => b[j - 2] = cr
        BY <1>2, <3>1 DEF Framed
      <4>2. j > 1
        BY <1>1, <3>1, <3>2
      <4> QED
        BY <3>2, <4>1, <4>2
    <3>a. i \in Int /\ n \in Int /\ Len(b) \in Int /\ Len(s) = n + Len(b)
      BY <1>1, <2>1
    <3>4. /\ j + 1 \in 1 .. Len(b) /\ j + 2 \in 1 .. Len(b)
          /\ j - 1 \in 1 .. Len(b) /\ j - 2 \in 1 .. Len(b)
      BY <3>2, <3>3, <3>a
    <3>5. /\ (j + 1) + n = i + 1 /\ (j + 2) + n = i + 2
          /\ (j - 1) + n = i - 1 /\ (j - 2) + n = i - 2
      BY <3>a
    <3>6. /\ s[i + 1] = cr /\ s[i + 2] = lf /\ s[i - 1] = lf /\ s[i - 2] = cr
      <4>1. /\ s[(j + 1) + n] = cr /\ s[(j + 2) + n] = lf
            /\ s[(j - 1) + n] = lf /\ s[(j - 2) + n] = cr
        <5> HIDE DEF j
        <5> QED
          BY <1>1, <3>3, <3>4
      <4> HIDE DEF j
      <4> QED
        BY <3>5, <4>1
    <3>7. i + 2 <= Len(s)
      BY <3>3, <3>a
    <3> QED
      BY <3>6, <3>7
  <2> QED
    BY <1>1, <2>1, <2>2, <2>3
<1>3. Framed(s)
  BY <1>2 DEF Framed
<1> QED
  BY <1>3 DEF s

\* What is left after one character.
LEMMA FramedTail ==
  ASSUME NEW s \in Seq(Tokens), s # <<>>, Framed(s)
  PROVE  Framed(Tail(s))
<1> DEFINE u == Tail(s)
<1>1. /\ u \in Seq(Tokens) /\ Len(u) = Len(s) - 1 /\ Len(s) \in Nat /\ Len(s) > 0
      /\ DOMAIN u = 1 .. Len(u) /\ DOMAIN s = 1 .. Len(s)
      /\ \A i \in 1 .. Len(s) - 1 : u[i] = s[i + 1]
  BY Taken
<1> HIDE DEF u
<1>2. ASSUME NEW i \in DOMAIN u, Ending(u[i])
      PROVE  /\ i + 2 <= Len(u) /\ u[i + 1] = cr /\ u[i + 2] = lf
             /\ i > 1 => u[i - 1] = lf
             /\ i > 2 => u[i - 2] = cr
  <2> DEFINE j == i + 1
  <2>1. i \in 1 .. Len(s) - 1 /\ j \in DOMAIN s /\ u[i] = s[j]
    BY <1>1
  <2>2. /\ j + 2 <= Len(s) /\ s[j + 1] = cr /\ s[j + 2] = lf
        /\ j > 1 => s[j - 1] = lf
        /\ j > 2 => s[j - 2] = cr
    <3> HIDE DEF j
    <3> QED
      BY <1>2, <2>1 DEF Framed
  <2>a. i \in Int /\ Len(s) \in Int /\ Len(u) = Len(s) - 1 /\ i >= 1
        /\ i <= Len(s) - 1
    BY <1>1, <2>1
  <2>3. /\ i + 1 \in 1 .. Len(s) - 1 /\ i + 2 \in 1 .. Len(s) - 1
        /\ i > 1 => i - 1 \in 1 .. Len(s) - 1
        /\ i > 2 => i - 2 \in 1 .. Len(s) - 1
    BY <2>2, <2>a
  <2>4. /\ (i + 1) + 1 = j + 1 /\ (i + 2) + 1 = j + 2
        /\ (i - 1) + 1 = j - 1 /\ (i - 2) + 1 = j - 2
    BY <2>a
  <2>b. \A k \in 1 .. Len(s) - 1 : u[k] = s[k + 1]
    BY <1>1
  <2>5. u[i + 1] = s[j + 1] /\ u[i + 2] = s[j + 2]
    BY <2>3, <2>4, <2>b
  <2>6. /\ i > 1 => u[i - 1] = s[j - 1]
        /\ i > 2 => u[i - 2] = s[j - 2]
    BY <2>3, <2>4, <2>b
  <2>7. i > 2 => j > 2
    BY <2>a
  <2>8. i > 1 => j > 1
    BY <2>a
  <2>9. i + 2 <= Len(u)
    BY <2>2, <2>a
  <2> HIDE DEF j
  <2> QED
    BY <2>2, <2>5, <2>6, <2>7, <2>8, <2>9
<1>3. Framed(u)
  BY <1>2 DEF Framed
<1> QED
  BY <1>3 DEF u

\* Every answer is framed, and starts with a line that is not its end.
LEMMA FramedSent ==
  ASSUME NEW c \in Commands, NEW a \in Answers(c)
  PROVE  a.sent \in Seq(Tokens) /\ Framed(a.sent) /\ Led(a.sent)
<1>1. a.sent \in Seq(Tokens)
  BY SentFacts
<1>2. ASSUME NEW n \in Nat
      PROVE  Urcs(n) \in Seq(Tokens) /\ Quiet(Urcs(n))
  BY UrcsAreNoise, NoiseIsQuiet DEF FromStart
<1>3. Blanks \in Seq(Tokens) /\ Quiet(Blanks)
  BY UrcFacts, NoiseIsQuiet DEF FromStart
<1>4. ASSUME NEW r \in Seq(Tokens), Quiet(r), NEW s \in Seq(Tokens), Quiet(s)
      PROVE  r \o s \in Seq(Tokens) /\ Quiet(r \o s)
  <2>1. r \o s \in Seq(Tokens) /\ Ends(r \o s) = Ends(r) + Ends(s)
    BY Parts, EndsJoined
  <2>2. Ends(r) = 0 /\ Ends(s) = 0
    BY <1>4, EndsType
  <2>3. Ends(r \o s) = 0
    BY <2>1, <2>2
  <2> DEFINE q == r \o s
  <2> HIDE DEF q
  <2>4. q \in Seq(Tokens) /\ Ends(q) = 0
    BY <2>1, <2>3 DEF q
  <2>5. Quiet(q)
    BY <2>4, EndsType
  <2> QED
    BY <2>1, <2>5 DEF q
<1>5. CASE a.sent = <<>>
  BY <1>1, <1>5 DEF Framed, Led
<1>6. CASE \E info \in Info(c), i \in Nat, j \in Nat, k \in Nat :
             /\ a.sent = Urcs(i) \o Blanks \o Line(info.line) \o Urcs(j)
                           \o Blanks \o OK \o Urcs(k)
             /\ a.ok = TRUE /\ a.ctx = info.ctx
  <2>1. PICK info \in Info(c), i \in Nat, j \in Nat, k \in Nat :
             /\ a.sent = Urcs(i) \o Blanks \o Line(info.line) \o Urcs(j)
                           \o Blanks \o OK \o Urcs(k)
             /\ a.ok = TRUE /\ a.ctx = info.ctx
    BY <1>6
  <2> DEFINE l == Line(info.line)
             p == Urcs(i) \o Blanks
             q == p \o l
             r == q \o Urcs(j)
  <2>2. l \in Seq(Tokens) /\ Quiet(l)
    BY LineTyped, LineIsQuiet
  <2> HIDE DEF l
  <2>3. p \in Seq(Tokens) /\ Quiet(p)
    BY <1>2, <1>3, <1>4
  <2> HIDE DEF p
  <2>4. q \in Seq(Tokens) /\ Quiet(q)
    BY <1>4, <2>2, <2>3
  <2> HIDE DEF q
  <2>5. r \in Seq(Tokens) /\ Quiet(r)
    BY <1>2, <1>4, <2>4
  <2> HIDE DEF r
  <2>6. OK \in {OK, ERROR} /\ Urcs(k) \in Seq(Tokens) /\ Quiet(Urcs(k))
    BY <1>2
  <2>7. Framed(r \o Blanks \o OK \o Urcs(k)) /\ Led(r \o Blanks \o OK \o Urcs(k))
    BY <2>5, <2>6, FramedEnd
  <2>8. a.sent = r \o Blanks \o OK \o Urcs(k)
    BY <2>1 DEF r, q, p, l
  <2> DEFINE z == r \o Blanks \o OK \o Urcs(k)
  <2>9. Framed(z) /\ Led(z)
    BY <2>7
  <2>10. a.sent = z
    BY <2>8
  <2> HIDE DEF z
  <2> QED
    BY <1>1, <2>9, <2>10
<1>7. CASE \E final \in {OK, ERROR}, i \in Nat, k \in Nat :
             /\ a.sent = Urcs(i) \o Blanks \o final \o Urcs(k)
             /\ a.ok = (final = OK) /\ a.ctx = Blank
             /\ final = OK => c \in MayBeBare
  <2>1. PICK final \in {OK, ERROR}, i \in Nat, k \in Nat :
             /\ a.sent = Urcs(i) \o Blanks \o final \o Urcs(k)
             /\ a.ok = (final = OK) /\ a.ctx = Blank
             /\ final = OK => c \in MayBeBare
    BY <1>7
  <2>2. /\ Urcs(i) \in Seq(Tokens) /\ Quiet(Urcs(i))
        /\ Urcs(k) \in Seq(Tokens) /\ Quiet(Urcs(k))
    BY <1>2
  <2> DEFINE z == Urcs(i) \o Blanks \o final \o Urcs(k)
  <2>3. Framed(z) /\ Led(z)
    BY <2>2, FramedEnd
  <2>4. a.sent = z
    BY <2>1
  <2> HIDE DEF z
  <2> QED
    BY <1>1, <2>3, <2>4
<1> QED
  BY <1>1, <1>5, <1>6, <1>7, SentForms

\* No end is read yet, and the next one will start a line.
Before == /\ rb # <<>> => ~Ending(rb[1])
          /\ rx # <<>> /\ Ending(rx[1]) => rb = <<>>
          /\ Len(rx) > 1 /\ Ending(rx[2]) => prev = cr

\* The end of an answer is being read.
Within == \E x \in Tokens :
  /\ Ending(x)
  /\ \/ rb = <<x>> /\ Len(rx) > 1 /\ rx[1] = cr /\ rx[2] = lf
     \/ rb = <<x, cr>> /\ rx # <<>> /\ rx[1] = lf

Exact == cmd # "none" /\ first # lf => read = Started

Stops ==
  /\ Framed(rx)
  /\ cmd # "none" /\ first # lf =>
       \/ IsFinal(rb) /\ read = 1
       \/ ~IsFinal(rb) /\ Before /\ read = 0
       \/ ~IsFinal(rb) /\ Within /\ read = 1

\* The ends are OK and ERROR, each three characters.
LEMMA EndForms ==
  /\ \A x \in Tokens : Ending(x) => <<x, cr, lf>> \in {OK, ERROR}
  /\ \A s \in Seq(Tokens) : IsFinal(s) => s # <<>> /\ Ending(s[1]) /\ Len(s) = 3
<1>1. ASSUME NEW x \in Tokens, Ending(x) PROVE <<x, cr, lf>> \in {OK, ERROR}
  <2>1. x = Char("OK") \/ x = Char("ERROR")
    <3>1. CASE \E c \in Marks : x = Char(c)
      <4>1. PICK c \in Marks : x = Char(c)
        BY <3>1
      <4>2. x.c = c
        BY <4>1, TokenFacts
      <4> QED
        BY <1>1, <4>1, <4>2 DEF Ending
    <3>2. CASE \E n \in Nat : x = Num(n)
      <4>1. x.c = "num"
        BY <3>2, TokenFacts
      <4> QED
        BY <1>1, <4>1 DEF Ending
    <3> QED
      BY <3>1, <3>2 DEF Tokens
  <2> QED
    BY <2>1 DEF OK, ERROR
<1>2. ASSUME NEW s \in Seq(Tokens), IsFinal(s)
      PROVE  s # <<>> /\ Ending(s[1]) /\ Len(s) = 3
  <2>1. s \in {OK, ERROR}
    BY <1>2 DEF IsFinal
  <2>2. s \in Seq(Tokens) /\ Len(s) = 3 /\ Ending(s[1])
    BY <2>1, FinalFacts
  <2>3. s # <<>>
    BY <2>2
  <2> QED
    BY <2>2, <2>3
<1> QED
  BY <1>1, <1>2

\* Stops is as strong as Exact.
LEMMA StopsIsExact == Typed /\ Stops => Exact
<1> SUFFICES ASSUME Typed, Stops, cmd # "none", first # lf PROVE read = Started
  BY DEF Exact
<1>1. rb \in Seq(Tokens)
  BY DEF Typed
<1>2. CASE IsFinal(rb) /\ read = 1
  <2>1. rb # <<>> /\ Ending(rb[1])
    BY <1>1, <1>2, EndForms
  <2> QED
    BY <1>2, <2>1 DEF Started
<1>3. CASE Before /\ read = 0
  BY <1>3 DEF Before, Started
<1>4. CASE Within /\ read = 1
  <2>1. PICK x \in Tokens : Ending(x) /\ (rb = <<x>> \/ rb = <<x, cr>>)
    BY <1>4 DEF Within
  <2>2. rb # <<>> /\ rb[1] = x
    BY <2>1
  <2> QED
    BY <1>4, <2>1, <2>2 DEF Started
<1> QED
  BY <1>2, <1>3, <1>4 DEF Stops

\* Lines of two and three characters.
LEMMA Appended ==
  ASSUME NEW x \in Tokens, NEW y \in Tokens, NEW z \in Tokens
  PROVE  Append(<<x>>, y) = <<x, y>> /\ Append(<<x, y>>, z) = <<x, y, z>>
<1> DEFINE a == Append(<<x>>, y)
           b == <<x, y>>
           c == Append(<<x, y>>, z)
           d == <<x, y, z>>
<1>1. /\ a \in Seq(Tokens) /\ b \in Seq(Tokens) /\ Len(a) = 2 /\ Len(b) = 2
      /\ c \in Seq(Tokens) /\ d \in Seq(Tokens) /\ Len(c) = 3 /\ Len(d) = 3
  OBVIOUS
<1>2. a[1] = x /\ a[2] = y /\ b[1] = x /\ b[2] = y
  OBVIOUS
<1>3. c[1] = x /\ c[2] = y /\ c[3] = z /\ d[1] = x /\ d[2] = y /\ d[3] = z
  OBVIOUS
<1> HIDE DEF a, b, c, d
<1>4. \A i \in 1 .. 2 : a[i] = b[i]
  BY <1>2
<1>5. \A i \in 1 .. 3 : c[i] = d[i]
  BY <1>3
<1>6. a = b
  BY <1>1, <1>4, SeqEqual
<1>7. c = d
  BY <1>1, <1>5, SeqEqual
<1> QED
  BY <1>6, <1>7 DEF a, b, c, d

\* One character more.
LEMMA StopsRead ==
  ASSUME Typed, Stops, DecodeChar
  PROVE  Stops'
<1>1. /\ rx \in Seq(Tokens) /\ rb \in Seq(Tokens) /\ rx # <<>>
      /\ cmd # "none" /\ ~IsFinal(rb) /\ cmd' = cmd /\ first' = first
      /\ rx' = Tail(rx) /\ prev' = Byte
      /\ rb' = (IF Eol THEN <<>> ELSE Longer)
      /\ read' = read + (IF Ending(Byte) THEN 1 ELSE 0)
  BY Decoded DEF Typed
<1>2. /\ Byte = rx[1] /\ Byte \in Tokens /\ rx' \in Seq(Tokens)
      /\ Len(rx) \in Nat /\ Len(rx) > 0 /\ Len(rx') = Len(rx) - 1
      /\ \A i \in 1 .. Len(rx) - 1 : rx'[i] = rx[i + 1]
  BY <1>1, Taken DEF Byte
<1>3. /\ Len(rx) > 1 => rx'[1] = rx[2] /\ rx' # <<>>
      /\ Len(rx) > 2 => rx'[2] = rx[3]
      /\ rx' # <<>> => Len(rx) > 1
      /\ Len(rx') > 1 <=> Len(rx) > 2
  <2>1. Len(rx) > 1 => 1 \in 1 .. Len(rx) - 1 /\ 1 + 1 = 2
    BY <1>2
  <2>2. Len(rx) > 2 => 2 \in 1 .. Len(rx) - 1 /\ 2 + 1 = 3
    BY <1>2
  <2> QED
    BY <1>2, <2>1, <2>2
<1>4. Framed(rx) /\ Framed(rx')
  BY <1>1, FramedTail DEF Stops
<1>5. /\ Ending(rx[1]) => Len(rx) > 2 /\ rx[2] = cr /\ rx[3] = lf
      /\ Len(rx) > 1 /\ Ending(rx[2]) => rx[1] = lf
      /\ Len(rx) > 2 /\ Ending(rx[3]) => rx[2] = lf /\ rx[1] = cr
  <2>1. DOMAIN rx = 1 .. Len(rx)
    BY <1>1
  <2>2. \A i \in 1 .. Len(rx) : Ending(rx[i]) =>
          /\ i + 2 <= Len(rx) /\ rx[i + 1] = cr /\ rx[i + 2] = lf
          /\ i > 1 => rx[i - 1] = lf
          /\ i > 2 => rx[i - 2] = cr
    BY <1>4, <2>1 DEF Framed
  <2>3. /\ 1 \in 1 .. Len(rx)
        /\ Len(rx) > 1 => 2 \in 1 .. Len(rx)
        /\ Len(rx) > 2 => 3 \in 1 .. Len(rx)
    BY <1>2
  <2>4. /\ 1 + 1 = 2 /\ 1 + 2 = 3 /\ 2 - 1 = 1 /\ 3 - 1 = 2 /\ 3 - 2 = 1
        /\ 2 > 1 /\ 3 > 1 /\ 3 > 2
    OBVIOUS
  <2>5. Ending(rx[1]) => Len(rx) > 2 /\ rx[2] = cr /\ rx[3] = lf
    <3>1. Ending(rx[1]) => 1 + 2 <= Len(rx) /\ rx[1 + 1] = cr /\ rx[1 + 2] = lf
      BY <2>2, <2>3
    <3> QED
      BY <1>2, <2>4, <3>1
  <2>6. Len(rx) > 1 /\ Ending(rx[2]) => rx[2 - 1] = lf
    BY <2>2, <2>3, <2>4
  <2>7. Len(rx) > 2 /\ Ending(rx[3]) => rx[3 - 1] = lf /\ rx[3 - 2] = cr
    BY <2>2, <2>3, <2>4
  <2> QED
    BY <2>4, <2>5, <2>6, <2>7
<1>6. /\ ~Ending(cr) /\ ~Ending(lf) /\ cr # lf
  BY TokenFacts DEF Ending
<1>7. /\ Longer \in Seq(Tokens) /\ Longer # <<>>
      /\ rb = <<>> => Longer = <<Byte>>
      /\ rb # <<>> => Longer[1] = rb[1]
      /\ \A x \in Tokens : rb = <<x>> => Longer = <<x, Byte>>
      /\ \A x \in Tokens : rb = <<x, cr>> => Longer = <<x, cr, Byte>>
  <2>1. Longer \in Seq(Tokens) /\ Longer # <<>>
    BY <1>1, <1>2 DEF Longer
  <2>2. rb # <<>> => Longer[1] = rb[1]
    BY <1>1, <1>2 DEF Longer
  <2>3. rb = <<>> => Longer = <<Byte>>
    BY <1>2 DEF Longer
  <2>4. ASSUME NEW x \in Tokens, rb = <<x>> PROVE Longer = <<x, Byte>>
    <3>1. Longer = Append(<<x>>, Byte)
      BY <2>4 DEF Longer
    <3> QED
      BY <1>2, <3>1, Appended
  <2>5. ASSUME NEW x \in Tokens, rb = <<x, cr>> PROVE Longer = <<x, cr, Byte>>
    <3>1. Longer = Append(<<x, cr>>, Byte)
      BY <2>5 DEF Longer
    <3> QED
      BY <1>2, <3>1, TokenFacts, Appended
  <2> QED
    BY <2>1, <2>2, <2>3, <2>4, <2>5
<1>8. SUFFICES ASSUME first # lf
               PROVE  \/ IsFinal(rb') /\ read' = 1
                      \/ ~IsFinal(rb') /\ Before' /\ read' = 0
                      \/ ~IsFinal(rb') /\ Within' /\ read' = 1
  <2>1. Stops' <=>
          /\ Framed(rx')
          /\ cmd' # "none" /\ first' # lf =>
               \/ IsFinal(rb') /\ read' = 1
               \/ ~IsFinal(rb') /\ Before' /\ read' = 0
               \/ ~IsFinal(rb') /\ Within' /\ read' = 1
    BY DEF Stops, Framed, IsFinal, Ending, OK, ERROR, Char, cr, lf
  <2> QED
    BY <1>1, <1>4, <2>1
<1>9. ~IsFinal(<<>>)
  <2>1. <<>> \in Seq(Tokens)
    OBVIOUS
  <2> QED
    BY <2>1, EndForms
<1>10. Before' <=> /\ rb' # <<>> => ~Ending(rb'[1])
                   /\ rx' # <<>> /\ Ending(rx'[1]) => rb' = <<>>
                   /\ Len(rx') > 1 /\ Ending(rx'[2]) => prev' = cr
  BY DEF Before, Ending, cr, Char
<1>11. ASSUME NEW x \in Tokens, Ending(x),
              \/ rb' = <<x>> /\ Len(rx') > 1 /\ rx'[1] = cr /\ rx'[2] = lf
              \/ rb' = <<x, cr>> /\ rx' # <<>> /\ rx'[1] = lf
       PROVE  Within'
  BY <1>11 DEF Within, Ending, cr, lf, Char
<1>12. CASE Before /\ read = 0 /\ Ending(Byte)
  <2>1. rb = <<>> /\ Longer = <<Byte>> /\ ~Eol
    BY <1>1, <1>2, <1>6, <1>7, <1>12 DEF Before, Eol
  <2>2. rb' = <<Byte>> /\ read' = 1
    BY <1>1, <1>12, <2>1
  <2>3. Len(rx') > 1 /\ rx'[1] = cr /\ rx'[2] = lf
    BY <1>2, <1>3, <1>5, <1>12
  <2>4. Within'
    BY <1>2, <1>11, <1>12, <2>2, <2>3
  <2>5. ~IsFinal(rb')
    <3>1. rb' \in Seq(Tokens) /\ Len(rb') = 1
      BY <1>2, <2>2
    <3> QED
      BY <3>1, EndForms
  <2> QED
    BY <2>2, <2>4, <2>5
<1>13. CASE Before /\ read = 0 /\ ~Ending(Byte)
  <2>1. read' = 0
    BY <1>1, <1>13
  <2>2. ~Ending(Longer[1])
    <3>1. CASE rb = <<>>
      <4>1. Longer[1] = Byte
        BY <1>7, <3>1
      <4> QED
        BY <1>13, <4>1
    <3>2. CASE rb # <<>>
      BY <1>7, <1>13, <3>2 DEF Before
    <3> QED
      BY <3>1, <3>2
  <2>3. ~IsFinal(Longer)
    BY <1>7, <2>2, EndForms
  <2>4. rx' # <<>> /\ Ending(rx'[1]) => rb' = <<>>
    <3> SUFFICES ASSUME rx' # <<>>, Ending(rx'[1]) PROVE rb' = <<>>
      OBVIOUS
    <3>1. Len(rx) > 1 /\ Ending(rx[2])
      BY <1>3
    <3>2. Byte = lf /\ prev = cr
      BY <1>2, <1>5, <1>13, <3>1 DEF Before
    <3>3. Eol
      BY <2>3, <3>2 DEF Eol
    <3> QED
      BY <1>1, <3>3
  <2>5. Len(rx') > 1 /\ Ending(rx'[2]) => prev' = cr
    BY <1>1, <1>2, <1>3, <1>5
  <2>6. rb' # <<>> => ~Ending(rb'[1])
    BY <1>1, <2>2
  <2>7. Before'
    BY <1>10, <2>4, <2>5, <2>6
  <2>8. ~IsFinal(rb')
    BY <1>1, <1>9, <2>3
  <2> QED
    BY <2>1, <2>7, <2>8
<1>14. CASE Within /\ read = 1
  <2>1. PICK x \in Tokens :
          /\ Ending(x)
          /\ \/ rb = <<x>> /\ Len(rx) > 1 /\ rx[1] = cr /\ rx[2] = lf
             \/ rb = <<x, cr>> /\ rx # <<>> /\ rx[1] = lf
    BY <1>14 DEF Within
  <2>2. CASE rb = <<x>> /\ Len(rx) > 1 /\ rx[1] = cr /\ rx[2] = lf
    <3>1. Byte = cr /\ ~Eol /\ Longer = <<x, cr>>
      BY <1>2, <1>6, <1>7, <2>2 DEF Eol
    <3>2. rb' = <<x, cr>> /\ read' = 1
      BY <1>1, <1>6, <1>14, <3>1
    <3>3. rx' # <<>> /\ rx'[1] = lf
      BY <1>3, <2>2
    <3>4. Within'
      BY <1>11, <2>1, <3>2, <3>3
    <3>5. ~IsFinal(rb')
      <4>1. rb' \in Seq(Tokens) /\ Len(rb') = 2
        BY <3>2, TokenFacts
      <4> QED
        BY <4>1, EndForms
    <3> QED
      BY <3>2, <3>4, <3>5
  <2>3. CASE rb = <<x, cr>> /\ rx # <<>> /\ rx[1] = lf
    <3>1. Byte = lf /\ Longer = <<x, cr, lf>>
      BY <1>2, <1>7, <2>3
    <3>2. IsFinal(Longer)
      BY <2>1, <3>1, EndForms DEF IsFinal
    <3>3. rb' = Longer /\ read' = 1
      BY <1>1, <1>6, <1>14, <3>1, <3>2 DEF Eol
    <3> QED
      BY <3>2, <3>3
  <2> QED
    BY <2>1, <2>2, <2>3
<1> QED
  BY <1>1, <1>8, <1>12, <1>13, <1>14 DEF Stops

\* A decoder starts before the end of any answer.
LEMMA StopsAsked ==
  ASSUME Typed, Stops, NEW c \in Commands, NEW a \in Answers(c), Ask(c, a)
  PROVE  Stops'
<1>1. /\ rx \in Seq(Tokens) /\ rx' = rx \o a.sent /\ rb' = <<>> /\ read' = 0
      /\ first' = (IF rx = <<>> THEN cr ELSE Head(rx))
  BY DEF Typed, Ask
<1>2. a.sent \in Seq(Tokens) /\ Framed(a.sent) /\ Led(a.sent)
  BY FramedSent
<1>3. Framed(rx') /\ rx' \in Seq(Tokens)
  <2>1. Framed(rx \o a.sent) /\ rx \o a.sent \in Seq(Tokens)
    BY <1>1, <1>2, FramedJoined, Parts DEF Stops
  <2> QED
    BY <1>1, <2>1
<1>4. ASSUME first' # lf, Len(rx') > 1, Ending(rx'[2]) PROVE FALSE
  <2>1. DOMAIN rx' = 1 .. Len(rx') /\ Len(rx') \in Nat
    BY <1>3
  <2>2. 2 \in DOMAIN rx' /\ 2 - 1 = 1
    BY <1>4, <2>1
  <2>3. 2 > 1 => rx'[2 - 1] = lf
    BY <1>3, <1>4, <2>2 DEF Framed
  <2>4. rx'[1] = lf
    BY <2>2, <2>3
  <2>5. CASE rx = <<>>
    <3>1. rx' = a.sent
      BY <1>1, <1>2, <2>5
    <3>2. 2 > 2
      BY <1>2, <1>4, <2>2, <3>1 DEF Led
    <3> QED
      BY <3>2
  <2>6. CASE rx # <<>>
    <3>1. Head(rx \o a.sent) = rx[1] /\ rx \o a.sent # <<>> /\ Head(rx) = rx[1]
      BY <1>1, <1>2, <2>6, TakenFromFirst, Taken
    <3>2. Head(rx') = rx[1] /\ rx' # <<>>
      BY <1>1, <3>1
    <3>3. Head(rx') = rx'[1]
      BY <1>3, <3>2, Taken
    <3> QED
      BY <1>1, <1>4, <2>4, <2>6, <3>1, <3>2, <3>3
  <2> QED
    BY <2>5, <2>6
<1>5. ~IsFinal(<<>>)
  <2>1. <<>> \in Seq(Tokens)
    OBVIOUS
  <2> QED
    BY <2>1, EndForms
<1>6. Stops' <=>
        /\ Framed(rx')
        /\ cmd' # "none" /\ first' # lf =>
             \/ IsFinal(rb') /\ read' = 1
             \/ ~IsFinal(rb') /\ Before' /\ read' = 0
             \/ ~IsFinal(rb') /\ Within' /\ read' = 1
  BY DEF Stops, Framed, IsFinal, Ending, OK, ERROR, Char, cr, lf
<1>7. Before' <=> /\ rb' # <<>> => ~Ending(rb'[1])
                  /\ rx' # <<>> /\ Ending(rx'[1]) => rb' = <<>>
                  /\ Len(rx') > 1 /\ Ending(rx'[2]) => prev' = cr
  BY DEF Before, Ending, cr, Char
<1>8. first' # lf => Before'
  BY <1>1, <1>4, <1>7
<1> QED
  BY <1>1, <1>3, <1>5, <1>6, <1>8

\* Every step.
LEMMA StopsStep == Typed /\ Stops /\ [Next]_vars => Stops'
<1> SUFFICES ASSUME Typed, Stops, [Next]_vars PROVE Stops'
  OBVIOUS
<1>1. ASSUME NEW c \in Commands, NEW a \in Answers(c), Ask(c, a) PROVE Stops'
  BY <1>1, StopsAsked
<1>2. CASE DecodeChar
  BY <1>2, StopsRead
<1>3. CASE Return \/ TimeOut
  <2>1. cmd' = "none" /\ rx' = rx
    BY <1>3 DEF Return, TimeOut
  <2> QED
    BY <2>1 DEF Stops, Framed, Ending, cr, lf, Char
<1>4. CASE UNCHANGED vars
  BY <1>4 DEF vars, Stops, Framed, Before, Within, IsFinal, Ending, OK, ERROR,
              cr, lf, Char
<1> QED
  BY <1>1, <1>2, <1>3, <1>4 DEF Next

\* However notifications, late answers and time-outs come, a decoder stops at
\* the first end of an answer it comes to: it has read as many ends as the line
\* it stands in is one.  So the ends that wait are at most as many as the
\* time-outs that came too early and the decoder that runs.
THEOREM OneEach == Spec => []OneAnswerEach
<1>1. Init => Typed /\ Waiting /\ Stops
  <2>1. Init => Stops
    BY DEF Init, Stops, Framed
  <2> QED
    BY <2>1, TypedStart, EachStart
<1>2. Typed /\ Waiting /\ Stops /\ [Next]_vars => (Typed /\ Waiting /\ Stops)'
  BY TypedStep, EachStep, StopsStep
<1>3. Typed /\ Waiting /\ Stops => OneAnswerEach
  BY StopsIsExact DEF Waiting, Exact, OneAnswerEach
<1> QED
  BY <1>1, <1>2, <1>3, PTL DEF Spec

-----------------------------------------------------------------------------
(* Noise passes the callbacks by. *)

IsContext(c) ==
  c = [fd |-> c.fd, len |-> c.len, text |-> c.text, port |-> c.port,
       data |-> c.data, fieldno |-> c.fieldno, field |-> c.field,
       in_address |-> c.in_address, done |-> c.done]

\* Between two lines: no address is open, and a text that is not empty is done.
Calm ==
  /\ IsContext(ctx)
  /\ cmd = "cgpaddr" => ctx.in_address = FALSE
  /\ cmd \in {"cimi", "cgsn"} =>
       ctx.done = TRUE \/ (ctx.done = FALSE /\ ctx.text = <<>>)

\* What is read is part of a notification or of an empty line.
Passing ==
  \/ InUrc = TRUE /\ cmd # "cgsn" /\ Longer # <<>> /\ Longer[1] = nsonmi
  \/ /\ InUrc = FALSE /\ Longer[1] = cr /\ Len(Longer) <= 2
     /\ Byte \in {cr, lf}

\* An assignment of the same value changes nothing.
LEMMA SameContext ==
  ASSUME NEW c, IsContext(c)
  PROVE  /\ [c EXCEPT !.field = c.field, !.in_address = c.in_address] = c
         /\ [c EXCEPT !.done = c.done] = c
BY DEF IsContext

\* No callback keeps anything of a notification or an empty line.
LEMMA PassedBy ==
  ASSUME Typed, Calm, Passing, cmd # "none"
  PROVE  Called = ctx /\ EolCb(ctx, Longer, InUrc) = ctx
<1>1. /\ cmd \in Commands /\ IsContext(ctx)
      /\ ~InUrc => IsSpace(Byte) /\ Len(Longer) <= 2
      /\ cmd = "cgsn" => ~InUrc
      /\ InUrc \in BOOLEAN
  <2>1. cmd \in Commands
    BY DEF Typed, TypeOK
  <2> QED
    BY <2>1 DEF Calm, Passing, IsSpace
<1>2. Longer # <<Char("+CGPADDR")>>
  <2>1. Longer[1] \in {nsonmi, cr}
    BY DEF Passing
  <2>2. <<Char("+CGPADDR")>>[1] \notin {nsonmi, cr}
    BY TokenFacts, MoreTokens
  <2> QED
    BY <2>1, <2>2
<1>3. CASE cmd = "cgpaddr"
  <2>1. ctx.in_address = FALSE
    BY <1>3 DEF Calm
  <2>2. CgpaddrChar(ctx, Longer, Byte, InUrc) = ctx
    <3> DEFINE f == IF ctx.in_address /\ ~IsSpace(Byte)
                    THEN Append(ctx.field, Byte) ELSE ctx.field
               a == ctx.in_address
                      \/ (InUrc /\ Longer = <<Char("+CGPADDR")>>)
    <3>1. CgpaddrChar(ctx, Longer, Byte, InUrc)
            = [ctx EXCEPT !.field = f, !.in_address = a]
      BY DEF CgpaddrChar
    <3>2. f = ctx.field /\ a = ctx.in_address
      BY <1>2, <2>1
    <3> HIDE DEF f, a
    <3> QED
      BY <1>1, <3>1, <3>2, SameContext
  <2>3. CgpaddrEol(ctx) = ctx
    BY <2>1 DEF CgpaddrEol
  <2> QED
    BY <1>3, <2>2, <2>3 DEF Called, CharCb, EolCb
<1>4. CASE cmd = "nsocr"
  <2>1. NsocrEol(ctx, Longer, InUrc) = ctx
    BY <1>1 DEF NsocrEol
  <2> QED
    BY <1>4, <2>1 DEF Called, CharCb, EolCb
<1>5. CASE cmd = "nsost"
  <2>1. NsostEol(ctx, Longer, InUrc) = ctx
    BY <1>1 DEF NsostEol
  <2> QED
    BY <1>5, <2>1 DEF Called, CharCb, EolCb
<1>6. CASE cmd = "nsorf"
  <2>1. InUrc \/ IsSpace(Byte) \/ ctx.done
    BY <1>1
  <2>2. NsorfChar(ctx, Longer, Byte, InUrc) = ctx
    BY <2>1 DEF NsorfChar
  <2> QED
    BY <1>6, <2>2 DEF Called, CharCb, EolCb
<1>7. cmd \in {"cimi", "cgsn"} => CimiEol(ctx) = ctx
  <2>1. ASSUME cmd \in {"cimi", "cgsn"} PROVE CimiEol(ctx) = ctx
    <3> DEFINE d == ctx.done \/ ctx.text # <<>>
    <3>1. CimiEol(ctx) = [ctx EXCEPT !.done = d]
      BY DEF CimiEol
    <3>2. d = ctx.done
      BY <2>1 DEF Calm
    <3> HIDE DEF d
    <3> QED
      BY <1>1, <3>1, <3>2, SameContext
  <2> QED
    BY <2>1
<1>8. CASE cmd = "cimi"
  <2>1. CimiChar(ctx, Longer, Byte, InUrc) = ctx
    BY <1>1 DEF CimiChar
  <2> QED
    BY <1>7, <1>8, <2>1 DEF Called, CharCb, EolCb
<1>9. CASE cmd = "cgsn"
  <2>1. CgsnChar(ctx, Longer, Byte, InUrc) = ctx
    BY <1>1, <1>9 DEF CgsnChar
  <2> QED
    BY <1>7, <1>9, <2>1 DEF Called, CharCb, EolCb
<1>10. CASE cmd = "generic"
  BY <1>10 DEF Called, CharCb, EolCb
<1> QED
  BY <1>1, <1>3, <1>4, <1>5, <1>6, <1>8, <1>9, <1>10 DEF Commands

\* The decoder is in noise, of which w is still to come.
InNoise(w) ==
  /\ Noise(w)
  /\ cmd = "cgsn" => is_urc = FALSE
  /\ \/ rb = <<>> /\ is_urc = FALSE /\ FromStart(w)
     \/ rb = <<cr>> /\ is_urc = FALSE /\ prev = cr /\ w # <<>> /\ w[1] = lf
     \/ /\ is_urc = TRUE /\ rb # <<>> /\ rb[1] = nsonmi /\ prev # lf
        /\ w # <<>> /\ Follows(prev, w[1])

NoUrc == cmd = "cgsn" => \A i \in DOMAIN rx : rx[i] # nsonmi

\* Whatever begins with one of these does not end an answer.
LEMMA NotFinal ==
  ASSUME NEW line, line[1] \in {cr, lf, nsonmi} \/ line = <<>>
  PROVE  ~IsFinal(line)
<1>1. /\ OK[1].c = "OK" /\ ERROR[1].c = "ERROR"
      /\ OK # <<>> /\ ERROR # <<>>
  <2>1. Char("OK").c = "OK" /\ Char("ERROR").c = "ERROR"
    BY DEF Char
  <2>2. Len(OK) # Len(<<>>) /\ Len(ERROR) # Len(<<>>)
    BY FinalFacts
  <2> QED
    BY <2>1, <2>2, FinalFacts
<1> QED
  BY <1>1, TokenFacts DEF IsFinal

\* What may follow a line end.
LEMMA NextToken ==
  ASSUME NEW x
  PROVE  /\ Follows(cr, x) => x = lf
         /\ Follows(lf, x) => x \in {cr, nsonmi}
         /\ Follows(x, lf) => x = cr
<1>1. /\ cr.c = "cr" /\ lf.c = "lf" /\ comma.c = "comma"
      /\ nsonmi.c = "+NSONMI" /\ Num(0).c = "num" /\ Num(1).c = "num"
  BY TokenFacts
<1> QED
  BY <1>1 DEF Follows

\* A token of noise leaves the decoder in noise and the context alone.
LEMMA NoiseRead ==
  ASSUME Typed, NoUrc, DecodeChar, NEW w \in Seq(Tokens), InNoise(w),
         w # <<>>, Byte = w[1]
  PROVE  InNoise(Tail(w))' /\ (Calm => ctx' = ctx)
<1> DEFINE t == Tail(w)
<1>1. /\ t \in Seq(Tokens) /\ Noise(t) /\ w[1] \in Tokens
      /\ w[1] # lf => t # <<>>
      /\ t # <<>> => Follows(w[1], t[1])
  BY NoiseTail DEF InNoise
<1>2. /\ cmd # "none" /\ rx # <<>> /\ cmd' = cmd
      /\ ctx' = (IF Eol THEN EolCb(Called, Longer, InUrc) ELSE Called)
      /\ rb' = (IF Eol THEN <<>> ELSE Longer)
      /\ is_urc' = (InUrc /\ ~Eol) /\ prev' = Byte
  BY Decoded
<1>3. rx \in Seq(Tokens) /\ rb \in Seq(Tokens)
  BY DEF Typed
<1>4. cmd = "cgsn" => Byte # nsonmi
  <2>1. Byte = rx[1] /\ 1 \in DOMAIN rx
    BY <1>2, <1>3 DEF Byte
  <2> QED
    BY <2>1 DEF NoUrc
<1>5. /\ cr # lf /\ nsonmi # cr /\ nsonmi # lf
      /\ cr.c \notin Names /\ lf.c \notin Names /\ nsonmi.c \in Names
  BY TokenFacts DEF Names
<1> HIDE DEF t
<1>6. CASE rb = <<>> /\ is_urc = FALSE /\ FromStart(w) /\ w[1] = cr
  <2>1. Longer = <<cr>> /\ InUrc = FALSE /\ Eol = FALSE
    BY <1>5, <1>6 DEF Longer, InUrc, Eol
  <2>2. Passing
    BY <1>6, <2>1 DEF Passing
  <2>3. t # <<>> /\ t[1] = lf
    BY <1>1, <1>5, <1>6, NextToken
  <2>4. /\ rb' = <<cr>> /\ is_urc' = FALSE /\ prev' = cr
    BY <1>2, <1>6, <2>1
  <2>5. InNoise(t)'
    BY <1>1, <2>3, <2>4 DEF InNoise
  <2> QED
    BY <1>2, <2>1, <2>2, <2>5, PassedBy DEF t
<1>7. CASE rb = <<>> /\ is_urc = FALSE /\ FromStart(w) /\ w[1] = nsonmi
  <2>1. Longer = <<nsonmi>> /\ InUrc = TRUE /\ Eol = FALSE
    BY <1>5, <1>7 DEF Longer, InUrc, Eol
  <2>2. Passing
    BY <1>4, <1>7, <2>1 DEF Passing
  <2>3. t # <<>> /\ Follows(nsonmi, t[1])
    BY <1>1, <1>5, <1>7
  <2>4. /\ rb' # <<>> /\ rb'[1] = nsonmi /\ is_urc' = TRUE
        /\ prev' = nsonmi /\ cmd' # "cgsn"
    BY <1>2, <1>4, <1>7, <2>1
  <2>5. InNoise(t)'
    BY <1>1, <1>5, <2>3, <2>4 DEF InNoise
  <2> QED
    BY <1>2, <2>1, <2>2, <2>5, PassedBy DEF t
<1>8. CASE rb = <<cr>> /\ is_urc = FALSE /\ prev = cr /\ w[1] = lf
  <2>1. Longer[1] = cr /\ Len(Longer) = 2
    <3>1. rb \in Seq(Tokens) /\ Len(rb) = 1 /\ rb[1] = cr
      BY <1>3, <1>8
    <3> QED
      BY <1>1, <1>8, <3>1, AppendProperties DEF Longer
  <2>2. InUrc = FALSE /\ Eol = TRUE
    BY <1>5, <1>8, <2>1, NotFinal DEF InUrc, Eol
  <2>3. Passing
    BY <1>8, <2>1, <2>2 DEF Passing
  <2>4. FromStart(t)
    BY <1>1, <1>5, <1>8, NextToken DEF FromStart
  <2>5. rb' = <<>> /\ is_urc' = FALSE
    BY <1>2, <2>2
  <2>6. InNoise(t)'
    BY <1>1, <2>4, <2>5 DEF InNoise
  <2> QED
    BY <1>2, <2>2, <2>3, <2>6, PassedBy DEF t
<1>9. CASE /\ is_urc = TRUE /\ rb # <<>> /\ rb[1] = nsonmi /\ prev # lf
           /\ Follows(prev, w[1]) /\ cmd # "cgsn"
  <2>1. Longer # <<>> /\ Longer[1] = nsonmi
    BY <1>1, <1>3, <1>9 DEF Longer
  <2>2. InUrc = TRUE /\ (Eol <=> prev = cr /\ w[1] = lf)
    BY <1>9, <2>1, NotFinal DEF InUrc, Eol
  <2>3. Passing
    BY <1>9, <2>1, <2>2 DEF Passing
  <2>4. CASE w[1] = lf
    <3>1. prev = cr
      BY <1>9, <2>4, NextToken
    <3>2. FromStart(t)
      BY <1>1, <1>5, <2>4, NextToken DEF FromStart
    <3>3. rb' = <<>> /\ is_urc' = FALSE
      BY <1>2, <2>2, <2>4, <3>1
    <3>4. InNoise(t)'
      BY <1>1, <3>2, <3>3 DEF InNoise
    <3> QED
      BY <1>2, <2>3, <3>4, PassedBy DEF t
  <2>5. CASE w[1] # lf
    <3>1. t # <<>> /\ Follows(w[1], t[1])
      BY <1>1, <2>5
    <3>2. rb' = Longer /\ is_urc' = TRUE /\ prev' = w[1]
      BY <1>2, <2>2, <2>5
    <3>3. InNoise(t)'
      BY <1>1, <1>2, <1>9, <2>1, <2>5, <3>1, <3>2 DEF InNoise
    <3> QED
      BY <1>2, <2>3, <3>3, PassedBy DEF t
  <2> QED
    BY <2>4, <2>5
<1> QED
  BY <1>6, <1>7, <1>8, <1>9 DEF InNoise, FromStart

-----------------------------------------------------------------------------
(* The callbacks along an information line. *)

Holds(c, fd, len, text, port, data, fieldno, field) ==
  /\ IsContext(c) /\ c.fd = fd /\ c.len = len /\ c.text = text
  /\ c.port = port /\ c.data = data /\ c.fieldno = fieldno /\ c.field = field

\* The context behind p tokens of an answer L to AT+NSORF with k octets.
PartlyReceived(c, L, n, k, p) ==
  /\ Holds(c, IF p >= 2 THEN n ELSE -2, 0,
              IF p >= 4 THEN <<Num(Addr)>> ELSE <<>>,
              IF p >= 6 THEN Port ELSE 0,
              SubSeq(L, 9, IF p <= 8 + k THEN p ELSE 8 + k),
              IF p >= 8 THEN 4 ELSE p \div 2,
              IF p \in {1, 3, 5, 7} THEN <<L[p]>> ELSE <<>>)
  /\ IF p >= 9 + k THEN c.done = TRUE ELSE c.done = FALSE

\* The context of each command behind p tokens of its line L.
Partial(c, L, p) ==
  /\ cmd \in {"cimi", "cgsn"} =>
       /\ Holds(c, -2, 0, SubSeq(L, 1, p), 0, <<>>, 0, <<>>)
       /\ c.done = FALSE
  /\ cmd = "cgpaddr" =>
       /\ Holds(c, -2, 0, <<>>, 0, <<>>, 0, SubSeq(L, 2, p))
       /\ IF p > 0 THEN c.in_address = TRUE ELSE c.in_address = FALSE
  /\ cmd = "nsorf" =>
       \E n \in Numbers : \E k \in 1 .. MaxData :
         L = ReceivedLine(n, k) /\ PartlyReceived(c, L, n, k, p)
  /\ cmd \in {"generic", "nsocr", "nsost"} => c = Blank

\* What the decoders start from.
LEMMA BlankFacts ==
  /\ IsContext(Blank) /\ Holds(Blank, -2, 0, <<>>, 0, <<>>, 0, <<>>)
  /\ Blank.in_address = FALSE /\ Blank.done = FALSE
BY DEF Blank, IsContext, Holds

\* The decoder reads token p + 1 of the line L.
AtToken(L, p) ==
  /\ L \in Seq(Tokens) /\ p \in Nat /\ p < Len(L)
  /\ Longer = SubSeq(L, 1, p + 1) /\ Byte = L[p + 1]
  /\ InUrc <=> L[1].c \in Names
  /\ Partial(ctx, L, p)

\* A token of an identity is appended to the text.
LEMMA TextRead ==
  ASSUME NEW L, NEW p, AtToken(L, p), cmd \in {"cimi", "cgsn"},
         Byte.c \in LineTokens, cmd = "cimi" => L[1].c \notin Names
  PROVE  Partial(Called, L, p + 1)
<1>1. /\ L \in Seq(Tokens) /\ p \in Nat /\ p < Len(L) /\ Byte = L[p + 1]
      /\ Holds(ctx, -2, 0, SubSeq(L, 1, p), 0, <<>>, 0, <<>>)
      /\ ctx.done = FALSE
      /\ cmd = "cimi" => ~InUrc
  BY DEF AtToken, Partial
<1>2. ~IsSpace(Byte)
  BY TokenFacts DEF IsSpace, LineTokens
<1>3. Append(SubSeq(L, 1, p), Byte) = SubSeq(L, 1, p + 1)
  BY <1>1, ReadUpTo
<1>4. Called = [ctx EXCEPT !.text = Append(ctx.text, Byte)]
  <2>1. CASE cmd = "cimi"
    BY <1>1, <1>2, <2>1 DEF Called, CharCb, CimiChar
  <2>2. CASE cmd = "cgsn"
    BY <1>1, <1>2, <2>2 DEF Called, CharCb, CgsnChar
  <2> QED
    BY <2>1, <2>2
<1>5. /\ Holds(Called, -2, 0, Append(SubSeq(L, 1, p), Byte), 0, <<>>, 0, <<>>)
      /\ Called.done = FALSE
  BY <1>1, <1>4 DEF Holds, IsContext
<1> QED
  BY <1>3, <1>5 DEF Partial

\* A token behind +CGPADDR is appended to the field.
LEMMA AddressRead ==
  ASSUME NEW L, NEW p, AtToken(L, p), cmd = "cgpaddr",
         L[1] = Char("+CGPADDR"), Byte.c \in LineTokens
  PROVE  Partial(Called, L, p + 1)
<1>1. /\ L \in Seq(Tokens) /\ p \in Nat /\ p < Len(L) /\ Len(L) \in Nat
      /\ Byte = L[p + 1] /\ Longer = SubSeq(L, 1, p + 1)
      /\ Holds(ctx, -2, 0, <<>>, 0, <<>>, 0, SubSeq(L, 2, p))
      /\ IF p > 0 THEN ctx.in_address = TRUE ELSE ctx.in_address = FALSE
      /\ InUrc
  <2>1. L \in Seq(Tokens) => Len(L) \in Nat
    OBVIOUS
  <2> QED
    BY <2>1, MoreTokens DEF AtToken, Partial, Names
<1>2. ~IsSpace(Byte)
  BY TokenFacts DEF IsSpace, LineTokens
<1> DEFINE f == IF ctx.in_address /\ ~IsSpace(Byte)
                THEN Append(ctx.field, Byte) ELSE ctx.field
           a == ctx.in_address \/ (InUrc /\ Longer = <<Char("+CGPADDR")>>)
<1>3. Called = [ctx EXCEPT !.field = f, !.in_address = a]
  BY DEF Called, CharCb, CgpaddrChar
<1>4. f = SubSeq(L, 2, p + 1)
  <2>1. CASE p = 0
    <3>1. SubSeq(L, 2, 0) = <<>> /\ SubSeq(L, 2, 1) = <<>>
      <4>1. \A m \in Int : m < 2 => SubSeq(L, 2, m) = <<>>
        BY <1>1
      <4> QED
        BY <4>1
    <3>2. ctx.in_address = FALSE /\ ctx.field = SubSeq(L, 2, 0)
      BY <1>1, <2>1 DEF Holds
    <3>3. f = ctx.field
      BY <3>2
    <3> QED
      BY <2>1, <3>1, <3>2, <3>3
  <2>2. CASE p > 0
    <3>1. Append(SubSeq(L, 2, p), L[p + 1]) = SubSeq(L, 2, p + 1)
      BY <1>1, <2>2
    <3>2. f = Append(ctx.field, Byte) /\ ctx.field = SubSeq(L, 2, p)
      BY <1>1, <1>2, <2>2 DEF Holds
    <3> QED
      BY <1>1, <3>1, <3>2
  <2>3. p = 0 \/ p > 0
    BY <1>1
  <2> QED
    BY <2>1, <2>2, <2>3
<1>5. a = TRUE
  <2>1. CASE p = 0
    <3>1. 1 \in 1 .. Len(L)
      BY <1>1, <2>1
    <3>2. Longer = SubSeq(L, 1, 1)
      BY <1>1, <2>1
    <3>3. SubSeq(L, 1, 1) = <<L[1]>>
      <4>1. 0 \in Nat /\ 0 < Len(L) /\ 0 + 1 = 1
        BY <1>1, <2>1
      <4>2. Append(SubSeq(L, 1, 0), L[1]) = SubSeq(L, 1, 1)
        BY <1>1, <4>1, ReadUpTo
      <4>3. SubSeq(L, 1, 0) = <<>>
        BY SubSeqEmpty
      <4>4. L[1] \in Tokens
        BY <1>1, <3>1
      <4>5. Append(<<>>, L[1]) = <<L[1]>>
        BY <4>4
      <4> QED
        BY <4>2, <4>3, <4>5
    <3> QED
      BY <1>1, <3>2, <3>3
  <2>2. CASE p > 0
    BY <1>1, <2>2
  <2>3. p = 0 \/ p > 0
    BY <1>1
  <2> QED
    BY <2>1, <2>2, <2>3
<1> HIDE DEF f, a
<1>6. /\ Holds(Called, -2, 0, <<>>, 0, <<>>, 0, f)
      /\ Called.in_address = a
  BY <1>1, <1>3 DEF Holds, IsContext
<1>7. p + 1 > 0
  BY <1>1
<1> QED
  BY <1>4, <1>5, <1>6, <1>7 DEF Partial

\* What NextField() changes.
LEMMA FieldEnds ==
  ASSUME NEW c, IsContext(c)
  PROVE  LET d == NextField(c) IN
         /\ IsContext(d) /\ d.field = <<>> /\ d.fieldno = c.fieldno + 1
         /\ d.fd = c.fd /\ d.len = c.len /\ d.text = c.text
         /\ d.port = c.port /\ d.data = c.data /\ d.done = c.done
<1> DEFINE e == [c EXCEPT !.field = <<>>]
           m == e.fieldno + 1
           d == [e EXCEPT !.fieldno = m]
<1>1. NextField(c) = d
  BY DEF NextField
<1>2. /\ IsContext(e) /\ e.field = <<>> /\ e.fieldno = c.fieldno
      /\ e.fd = c.fd /\ e.len = c.len /\ e.text = c.text
      /\ e.port = c.port /\ e.data = c.data /\ e.done = c.done
  BY DEF IsContext
<1> HIDE DEF m, e
<1>3. /\ IsContext(d) /\ d.field = e.field /\ d.fieldno = m
      /\ d.fd = e.fd /\ d.len = e.len /\ d.text = e.text
      /\ d.port = e.port /\ d.data = e.data /\ d.done = e.done
  BY <1>2 DEF IsContext
<1> HIDE DEF d
<1> QED
  BY <1>1, <1>2, <1>3 DEF m

\* A token of the answer to AT+NSORF: commas store the fields, the octets of
\* the data are stored one by one, and the last comma ends it.
LEMMA ReceivedRead ==
  ASSUME NEW L, NEW p, NEW n \in Nat, NEW k \in Nat, k >= 1,
         L = ReceivedLine(n, k), p \in Nat, p < Len(L),
         PartlyReceived(ctx, L, n, k, p),
         Byte = L[p + 1], ~InUrc, cmd = "nsorf"
  PROVE  PartlyReceived(Called, L, n, k, p + 1)
<1>1. /\ L \in Seq(Tokens) /\ Len(L) = 10 + k
      /\ L[1] = Num(n) /\ L[2] = comma /\ L[3] = Num(Addr) /\ L[4] = comma
      /\ L[5] = Num(Port) /\ L[6] = comma /\ L[7] = Num(k) /\ L[8] = comma
      /\ \A i \in 1 .. k : L[8 + i] = Octets(k)[i]
      /\ L[9 + k] = comma /\ L[10 + k] = Num(0)
      /\ \A i \in 1 .. k : Octets(k)[i].c = "num"
  <2> HIDE DEF ReceivedLine
  <2> QED
    BY ReceivedFacts, ZenonT(30)
<1>2. /\ \A m \in Nat : Num(m).c = "num" /\ Num(m).n = m
      /\ comma.c = "comma" /\ cr.c = "cr" /\ lf.c = "lf"
      /\ Char("quote").c = "quote"
  BY TokenFacts, MoreTokens
<1>3. Called = NsorfChar(ctx, Longer, Byte, InUrc)
  BY DEF Called, CharCb
<1>4. IsContext(ctx)
  BY DEF PartlyReceived, Holds
\* Numbers go to the field, octets to the data.
<1>5. ASSUME Byte.c = "num", ctx.done = FALSE
      PROVE  Called = IF ctx.fieldno = 4
                      THEN [ctx EXCEPT !.data = Append(ctx.data, Byte)]
                      ELSE [ctx EXCEPT !.field = Append(ctx.field, Byte)]
  BY <1>2, <1>3, <1>5 DEF NsorfChar, IsSpace
<1>6. ASSUME Byte = comma, ctx.done = FALSE
      PROVE  Called = NsorfComma(ctx)
  BY <1>2, <1>3, <1>6 DEF NsorfChar, IsSpace
<1>7. \A i \in Int : i < 9 => SubSeq(L, 9, i) = <<>>
  BY SubSeqEmpty
<1>8. ASSUME NEW q \in {0, 2, 4, 6}, p = q
      PROVE  PartlyReceived(Called, L, n, k, p + 1)
  <2>1. Byte.c = "num" /\ ctx.done = FALSE /\ ctx.fieldno # 4
        /\ ctx.field = <<>>
    BY <1>1, <1>2, <1>8, SMTT(20) DEF PartlyReceived, Holds, Addr, Port
  <2>2. Called = [ctx EXCEPT !.field = Append(ctx.field, Byte)]
    BY <1>5, <2>1
  <2>3. Append(ctx.field, Byte) = <<L[p + 1]>>
    BY <2>1
  <2>4. /\ IsContext(Called) /\ Called.field = <<L[p + 1]>>
        /\ Called.fd = ctx.fd /\ Called.len = ctx.len
        /\ Called.text = ctx.text /\ Called.port = ctx.port
        /\ Called.data = ctx.data /\ Called.fieldno = ctx.fieldno
        /\ Called.done = ctx.done
    BY <1>4, <2>2, <2>3 DEF IsContext
  <2>5. ctx.data = <<>> /\ SubSeq(L, 9, p + 1) = <<>>
    BY <1>7, <1>8 DEF PartlyReceived, Holds
  <2>6. CASE q = 0
    BY <1>8, <2>4, <2>5, <2>6 DEF PartlyReceived, Holds
  <2>7. CASE q = 2
    BY <1>8, <2>4, <2>5, <2>7 DEF PartlyReceived, Holds
  <2>8. CASE q = 4
    BY <1>8, <2>4, <2>5, <2>8 DEF PartlyReceived, Holds
  <2>9. CASE q = 6
    BY <1>8, <2>4, <2>5, <2>9 DEF PartlyReceived, Holds
  <2> QED
    BY <2>6, <2>7, <2>8, <2>9
<1>9. ASSUME NEW q \in {1, 3, 5, 7}, p = q
      PROVE  PartlyReceived(Called, L, n, k, p + 1)
  <2>1. Byte = comma /\ ctx.done = FALSE /\ ctx.fieldno = q \div 2
        /\ ctx.field = <<L[q]>>
    BY <1>1, <1>2, <1>9, SMTT(20) DEF PartlyReceived, Holds
  <2>2. Called = NsorfComma(ctx)
    BY <1>6, <2>1
  <2>3. ctx.data = <<>> /\ SubSeq(L, 9, p + 1) = <<>>
    BY <1>7, <1>9 DEF PartlyReceived, Holds
  <2> DEFINE d == NextField(ctx)
  <2>0. /\ IsContext(d) /\ d.field = <<>> /\ d.fieldno = (q \div 2) + 1
        /\ d.fd = ctx.fd /\ d.len = ctx.len /\ d.text = ctx.text
        /\ d.port = ctx.port /\ d.data = ctx.data /\ d.done = ctx.done
    BY <1>4, <2>1, FieldEnds
  <2>0a. (1 \div 2) + 1 = 1 /\ (3 \div 2) + 1 = 2 /\ (5 \div 2) + 1 = 3
         /\ (7 \div 2) + 1 = 4
    OBVIOUS
  <2>4. CASE q = 1
    <3>1. Atoi(ctx.field) = n
      BY <1>1, <1>2, <2>1, <2>4 DEF Atoi
    <3>2. Called = [d EXCEPT !.fd = n]
      BY <2>1, <2>2, <2>4, <3>1 DEF NsorfComma
    <3> HIDE DEF d
    <3>3. /\ IsContext(Called) /\ Called.field = <<>> /\ Called.fieldno = 1
          /\ Called.fd = n /\ Called.len = ctx.len
          /\ Called.text = ctx.text /\ Called.port = ctx.port
          /\ Called.data = ctx.data /\ Called.done = ctx.done
      BY <2>0, <2>0a, <2>4, <3>2 DEF IsContext
    <3> QED
      BY <1>9, <2>3, <2>4, <3>3 DEF PartlyReceived, Holds
  <2>5. CASE q = 3
    <3>1. Called = [d EXCEPT !.text = <<Num(Addr)>>]
      BY <1>1, <2>1, <2>2, <2>5, SMTT(20) DEF NsorfComma
    <3> HIDE DEF d
    <3>2. /\ IsContext(Called) /\ Called.field = <<>> /\ Called.fieldno = 2
          /\ Called.fd = ctx.fd /\ Called.len = ctx.len
          /\ Called.text = <<Num(Addr)>> /\ Called.port = ctx.port
          /\ Called.data = ctx.data /\ Called.done = ctx.done
      BY <2>0, <2>0a, <2>5, <3>1 DEF IsContext
    <3> QED
      BY <1>9, <2>3, <2>5, <3>2 DEF PartlyReceived, Holds
  <2>6. CASE q = 5
    <3>1. Atoi(ctx.field) = Port
      BY <1>1, <1>2, <2>1, <2>6 DEF Atoi, Port
    <3>2. Called = [d EXCEPT !.port = Port]
      BY <2>1, <2>2, <2>6, <3>1 DEF NsorfComma
    <3> HIDE DEF d
    <3>3. /\ IsContext(Called) /\ Called.field = <<>> /\ Called.fieldno = 3
          /\ Called.fd = ctx.fd /\ Called.len = ctx.len
          /\ Called.text = ctx.text /\ Called.port = Port
          /\ Called.data = ctx.data /\ Called.done = ctx.done
      BY <2>0, <2>0a, <2>6, <3>2 DEF IsContext
    <3> QED
      BY <1>9, <2>3, <2>6, <3>3 DEF PartlyReceived, Holds
  <2>7. CASE q = 7
    <3>1. Called = d
      BY <2>1, <2>2, <2>7 DEF NsorfComma
    <3> HIDE DEF d
    <3>2. /\ IsContext(Called) /\ Called.field = <<>> /\ Called.fieldno = 4
          /\ Called.fd = ctx.fd /\ Called.len = ctx.len
          /\ Called.text = ctx.text /\ Called.port = ctx.port
          /\ Called.data = ctx.data /\ Called.done = ctx.done
      BY <2>0, <2>0a, <2>7, <3>1
    <3> QED
      BY <1>9, <2>3, <2>7, <3>2 DEF PartlyReceived, Holds
  <2> QED
    BY <1>9, <2>4, <2>5, <2>6, <2>7
<1>10. ASSUME p \in 8 .. 7 + k
       PROVE  PartlyReceived(Called, L, n, k, p + 1)
  <2>1. /\ p >= 8 /\ p <= 8 + k /\ p + 1 <= 8 + k /\ ~ (p >= 9 + k)
        /\ ~ (p + 1 >= 9 + k) /\ p - 7 \in 1 .. k /\ 8 + (p - 7) = p + 1
        /\ p \notin {1, 3, 5, 7} /\ p + 1 \notin {1, 3, 5, 7}
    BY <1>10
  <2>2. Byte = Octets(k)[p - 7] /\ Byte.c = "num"
    <3>1. L[8 + (p - 7)] = Octets(k)[p - 7] /\ Octets(k)[p - 7].c = "num"
      BY <1>1, <2>1
    <3> QED
      BY <2>1, <3>1
  <2>3. /\ Holds(ctx, n, 0, <<Num(Addr)>>, Port, SubSeq(L, 9, p), 4, <<>>)
        /\ ctx.done = FALSE
    BY <2>1 DEF PartlyReceived
  <2>4. Called = [ctx EXCEPT !.data = Append(ctx.data, Byte)]
    BY <1>5, <2>2, <2>3 DEF Holds
  <2>5. Append(SubSeq(L, 9, p), L[p + 1]) = SubSeq(L, 9, p + 1)
    BY <1>1, <2>1
  <2>6. /\ Holds(Called, n, 0, <<Num(Addr)>>, Port, SubSeq(L, 9, p + 1), 4,
                 <<>>)
        /\ Called.done = FALSE
    BY <2>3, <2>4, <2>5 DEF Holds, IsContext
  <2>7. /\ p + 1 >= 2 /\ p + 1 >= 4 /\ p + 1 >= 6 /\ p + 1 >= 8
    BY <2>1
  <2> QED
    BY <2>1, <2>6, <2>7 DEF PartlyReceived
<1>11. ASSUME p = 8 + k \/ p = 9 + k
       PROVE  PartlyReceived(Called, L, n, k, p + 1)
  <2>1. /\ p >= 2 /\ p >= 4 /\ p >= 6 /\ p >= 8
        /\ p + 1 >= 2 /\ p + 1 >= 4 /\ p + 1 >= 6 /\ p + 1 >= 8
        /\ ~ (p + 1 <= 8 + k) /\ p + 1 >= 9 + k
        /\ p \notin {1, 3, 5, 7} /\ p + 1 \notin {1, 3, 5, 7}
    BY <1>11
  <2>2. Holds(ctx, n, 0, <<Num(Addr)>>, Port, SubSeq(L, 9, 8 + k), 4, <<>>)
    BY <1>11, <2>1 DEF PartlyReceived
  <2>3. /\ Holds(Called, n, 0, <<Num(Addr)>>, Port, SubSeq(L, 9, 8 + k), 4,
                 <<>>)
        /\ Called.done = TRUE
    <3>1. CASE p = 8 + k
      <4>1. ~ (p >= 9 + k) /\ p + 1 = 9 + k
        BY <3>1
      <4>2. Byte = comma /\ ctx.done = FALSE
        BY <1>1, <4>1 DEF PartlyReceived
      <4>3. Called = NsorfComma(ctx)
        BY <1>6, <4>2
      <4>4. ctx.fieldno = 4
        BY <2>2 DEF Holds
      <4>5. Called = [ctx EXCEPT !.done = TRUE, !.field = <<>>]
        BY <4>3, <4>4 DEF NsorfComma
      <4> QED
        BY <2>2, <4>5 DEF Holds, IsContext
    <3>2. CASE p = 9 + k
      <4>1. ctx.done = TRUE
        BY <3>2 DEF PartlyReceived
      <4>2. Called = ctx
        BY <1>3, <4>1 DEF NsorfChar
      <4> QED
        BY <2>2, <4>1, <4>2
    <3> QED
      BY <1>11, <3>1, <3>2
  <2> QED
    BY <2>1, <2>3 DEF PartlyReceived
<1>12. \/ p \in {0, 2, 4, 6} \/ p \in {1, 3, 5, 7} \/ p \in 8 .. 7 + k
       \/ p = 8 + k \/ p = 9 + k
  BY <1>1
<1> QED
  BY <1>8, <1>9, <1>10, <1>11, <1>12

-----------------------------------------------------------------------------
(* The end of an information line. *)

\* A line that is read to its end.
LEMMA Whole ==
  ASSUME NEW S, NEW s \in Seq(S)
  PROVE  SubSeq(s, 1, Len(s)) = s
<1>1. /\ SubSeq(s, 1, Len(s)) \in Seq(S) /\ Len(s) \in Nat
      /\ Len(SubSeq(s, 1, Len(s))) = Len(s)
      /\ \A i \in 1 .. Len(s) : SubSeq(s, 1, Len(s))[i] = s[i]
  OBVIOUS
<1> QED
  BY <1>1, SeqEqual

\* The end of a line adds nothing to what is held.
LEMMA SpaceRead ==
  ASSUME Typed, cmd # "none", NEW L \in Seq(Tokens), L # <<>>,
         Partial(ctx, L, Len(L)), Byte \in {cr, lf}
  PROVE  Called = ctx
<1>1. /\ cmd \in Commands /\ IsSpace(Byte)
  BY DEF Typed, TypeOK, IsSpace
<1>2. CASE cmd = "cgpaddr"
  <2> DEFINE f == IF ctx.in_address /\ ~IsSpace(Byte)
                  THEN Append(ctx.field, Byte) ELSE ctx.field
             a == ctx.in_address \/ (InUrc /\ Longer = <<Char("+CGPADDR")>>)
  <2>1. Called = [ctx EXCEPT !.field = f, !.in_address = a]
    BY <1>2 DEF Called, CharCb, CgpaddrChar
  <2>2. Len(L) > 0
    OBVIOUS
  <2>3. IsContext(ctx) /\ ctx.in_address = TRUE
    BY <1>2, <2>2 DEF Partial, Holds
  <2>4. f = ctx.field /\ a = ctx.in_address
    BY <1>1, <2>3
  <2> HIDE DEF f, a
  <2> QED
    BY <2>1, <2>3, <2>4, SameContext
<1>3. CASE cmd = "nsorf"
  BY <1>1, <1>3 DEF Called, CharCb, NsorfChar
<1>4. CASE cmd = "cimi"
  BY <1>1, <1>4 DEF Called, CharCb, CimiChar
<1>5. CASE cmd = "cgsn"
  BY <1>1, <1>5 DEF Called, CharCb, CgsnChar
<1>6. CASE cmd \in {"generic", "nsocr", "nsost"}
  BY <1>6 DEF Called, CharCb
<1> QED
  BY <1>1, <1>2, <1>3, <1>4, <1>5, <1>6 DEF Commands

\* What the last callback of a line leaves.
Settled(d, info) ==
  /\ IsContext(d) /\ Results(d) = Results(info.ctx)
  /\ cmd = "cgpaddr" => d.in_address = FALSE
  /\ cmd \in {"cimi", "cgsn", "nsorf"} => d.done = TRUE

\* The results of a context.
Finds(d, fd, len, text, port, data) ==
  /\ d.fd = fd /\ d.len = len /\ d.text = text /\ d.port = port
  /\ d.data = data

\* The results an information line gives.
LEMMA FoundResults ==
  ASSUME NEW info, NEW line, NEW fd, NEW len, NEW text, NEW port, NEW data,
         Gives(info, line, fd, len, text, port, data),
         NEW d, Finds(d, fd, len, text, port, data)
  PROVE  Results(d) = Results(info.ctx)
BY DEF Gives, Finds, Results

\* AT+NSOCR and AT+NSOST: the numbers are taken at the end of the line.
LEMMA SocketLineEnds ==
  ASSUME cmd \in {"nsocr", "nsost"}, NEW info \in Info(cmd),
         Partial(ctx, info.line, Len(info.line)),
         Longer = Line(info.line), ~InUrc
  PROVE  Settled(EolCb(ctx, Longer, InUrc), info)
<1>0. /\ \A n \in Numbers : n \in Nat
      /\ ctx = Blank
  BY Constants DEF Partial
<1>1. CASE cmd = "nsocr"
  <2>1. PICK n \in Numbers : Gives(info, <<Num(n)>>, n, 0, <<>>, 0, <<>>)
    BY <1>1, InfoOf
  <2> DEFINE L == <<Num(n)>>
             d == [Blank EXCEPT !.fd = n]
  <2>2. L \in Seq(Tokens) /\ Len(L) = 1 /\ L[1] = Num(n) /\ 1 \in 1 .. 1
    BY <1>0, TokenFacts
  <2>3. info.line = L
    BY <2>1 DEF Gives
  <2> HIDE DEF L
  <2>4. /\ Longer \in Seq(Tokens) /\ Len(Longer) = 3 /\ Longer[1] = Num(n)
    <3> DEFINE l == Line(L)
    <3>1. /\ l \in Seq(Tokens) /\ Len(l) = Len(L) + 2
          /\ \A i \in 1 .. Len(L) : l[i] = L[i]
      BY <2>2, LineFacts
    <3>2. Longer = l
      BY <2>3
    <3> HIDE DEF l
    <3> QED
      BY <2>2, <3>1, <3>2
  <2>5. Atoi(Longer) = n
    <3>1. Longer # <<>> /\ Num(n).c = "num" /\ Num(n).n = n
      BY <1>0, <2>4, TokenFacts
    <3> QED
      BY <2>4, <3>1 DEF Atoi
  <2>6. EolCb(ctx, Longer, InUrc) = d
    BY <1>0, <1>1, <2>4, <2>5 DEF EolCb, NsocrEol
  <2>7. IsContext(d) /\ Finds(d, n, 0, <<>>, 0, <<>>)
    BY BlankFacts DEF Holds, IsContext, Finds
  <2> HIDE DEF d
  <2> QED
    BY <1>1, <2>1, <2>6, <2>7, FoundResults DEF Settled
<1>2. CASE cmd = "nsost"
  <2>1. PICK n \in Numbers :
          Gives(info, <<Num(n), comma, Num(Sent)>>, n, Sent, <<>>, 0, <<>>)
    BY <1>2, InfoOf
  <2> DEFINE L == <<Num(n), comma, Num(Sent)>>
             d == [Blank EXCEPT !.fd = n, !.len = Sent]
  <2>2. /\ L \in Seq(Tokens) /\ Len(L) = 3 /\ L[1] = Num(n) /\ L[2] = comma
        /\ L[3] = Num(Sent) /\ 1 \in 1 .. 3 /\ 2 \in 1 .. 3 /\ 3 \in 1 .. 3
    <3>1. Num(n) \in Tokens /\ comma \in Tokens /\ Num(Sent) \in Tokens
      BY <1>0, TokenFacts DEF Sent
    <3> QED
      BY <3>1
  <2>3. info.line = L
    BY <2>1 DEF Gives
  <2> HIDE DEF L
  <2>4. /\ Longer \in Seq(Tokens) /\ Len(Longer) = 5 /\ Longer[1] = Num(n)
        /\ Longer[2] = comma /\ Longer[3] = Num(Sent)
    <3> DEFINE l == Line(L)
    <3>1. /\ l \in Seq(Tokens) /\ Len(l) = Len(L) + 2
          /\ \A i \in 1 .. Len(L) : l[i] = L[i]
      BY <2>2, LineFacts
    <3>2. Longer = l
      BY <2>3
    <3> HIDE DEF l
    <3> QED
      BY <2>2, <3>1, <3>2
  <2>5. Atoi(Longer) = n
    <3>1. Longer # <<>> /\ Num(n).c = "num" /\ Num(n).n = n
      BY <1>0, <2>4, TokenFacts
    <3> QED
      BY <2>4, <3>1 DEF Atoi
  <2>6. Atoi(Tail(Tail(Longer))) = Sent
    <3> DEFINE s == Longer
               t == Tail(s)
               u == Tail(t)
    <3>1. s \in Seq(Tokens) /\ Len(s) = 5 /\ s[3] = Num(Sent)
      BY <2>4
    <3> HIDE DEF s
    <3>2. t \in Seq(Tokens) /\ Len(t) = 4 /\ t[2] = s[3]
      <4>1. s # <<>> /\ 2 \in 1 .. 4 /\ 2 + 1 = 3
        <5>1. Len(<<>>) = 0 /\ 2 \in 1 .. 4 /\ 2 + 1 = 3
          OBVIOUS
        <5>2. Len(s) # Len(<<>>)
          BY <3>1, <5>1
        <5> QED
          BY <5>1, <5>2
      <4>2. /\ t \in Seq(Tokens) /\ Len(t) = Len(s) - 1
            /\ \A i \in 1 .. Len(s) - 1 : t[i] = s[i + 1]
        BY <3>1, <4>1, Taken
      <4>3. Len(s) - 1 = 4
        BY <3>1
      <4> HIDE DEF t
      <4>4. t[2] = s[2 + 1]
        BY <4>1, <4>2, <4>3
      <4> QED
        BY <4>1, <4>2, <4>3, <4>4
    <3> HIDE DEF t
    <3>3. u \in Seq(Tokens) /\ Len(u) = 3 /\ u[1] = t[2]
      <4>0. t \in Seq(Tokens) /\ Len(t) = 4
        BY <3>2
      <4>1. t # <<>> /\ 1 \in 1 .. 3 /\ 1 + 1 = 2
        <5>1. Len(<<>>) = 0 /\ 1 \in 1 .. 3 /\ 1 + 1 = 2
          OBVIOUS
        <5>2. Len(t) # Len(<<>>)
          BY <4>0, <5>1
        <5> QED
          BY <5>1, <5>2
      <4>2. /\ u \in Seq(Tokens) /\ Len(u) = Len(t) - 1
            /\ \A i \in 1 .. Len(t) - 1 : u[i] = t[i + 1]
        BY <3>2, <4>1, Taken
      <4>3. Len(t) - 1 = 3
        BY <3>2
      <4> HIDE DEF u
      <4>4. u[1] = t[1 + 1]
        BY <4>1, <4>2, <4>3
      <4> QED
        BY <4>1, <4>2, <4>3, <4>4
    <3> HIDE DEF u
    <3>4. u # <<>> /\ Num(Sent).c = "num" /\ Num(Sent).n = Sent
      <4>1. Len(<<>>) = 0 /\ 3 # 0
        OBVIOUS
      <4>2. Len(u) # Len(<<>>)
        BY <3>3, <4>1
      <4>3. Num(Sent).c = "num" /\ Num(Sent).n = Sent
        BY TokenFacts DEF Sent
      <4> QED
        BY <4>2, <4>3
    <3>5. Atoi(u) = Sent
      BY <3>1, <3>2, <3>3, <3>4 DEF Atoi
    <3> QED
      BY <3>5 DEF s, t, u
  <2>7. EolCb(ctx, Longer, InUrc) = d
    <3>1. Blank.len = 0
      BY BlankFacts DEF Holds
    <3>2. EolCb(ctx, Longer, InUrc) = NsostEol(Blank, Longer, InUrc)
      BY <1>0, <1>2 DEF EolCb
    <3>3. Len(Longer) > 2
      BY <2>4
    <3> QED
      BY <2>4, <2>5, <2>6, <3>1, <3>2, <3>3 DEF NsostEol
  <2>8. IsContext(d) /\ Finds(d, n, Sent, <<>>, 0, <<>>)
    <3> DEFINE b == [Blank EXCEPT !.fd = n]
               e == [b EXCEPT !.len = Sent]
    <3>1. IsContext(b) /\ Finds(b, n, 0, <<>>, 0, <<>>)
      BY BlankFacts DEF Holds, IsContext, Finds
    <3> HIDE DEF b
    <3>2. IsContext(e) /\ Finds(e, n, Sent, <<>>, 0, <<>>)
      BY <3>1 DEF IsContext, Finds
    <3> QED
      BY <3>2 DEF b
  <2> HIDE DEF d
  <2> QED
    BY <1>2, <2>1, <2>7, <2>8, FoundResults DEF Settled
<1> QED
  BY <1>1, <1>2

\* AT+CIMI and AT+CGSN: the text is complete.
LEMMA TextLineEnds ==
  ASSUME cmd \in {"cimi", "cgsn"}, NEW info \in Info(cmd),
         Partial(ctx, info.line, Len(info.line))
  PROVE  Settled(EolCb(ctx, Longer, InUrc), info)
<1>0. cmd \in Commands
  BY DEF Commands
<1>1. /\ info.line \in Seq(Tokens) /\ Len(info.line) >= 1
  BY <1>0, InfoLines
<1>2. Gives(info, info.line, -2, 0, info.line, 0, <<>>)
  <2>1. CASE cmd = "cimi"
    <3>1. PICK n \in Numbers :
            Gives(info, <<Num(n)>>, -2, 0, <<Num(n)>>, 0, <<>>)
      BY <2>1, InfoOf
    <3> QED
      BY <3>1 DEF Gives
  <2>2. CASE cmd = "cgsn"
    <3>1. PICK n \in Numbers :
            Gives(info, <<Char("+CGSN"), Num(n)>>,
                  -2, 0, <<Char("+CGSN"), Num(n)>>, 0, <<>>)
      BY <2>2, InfoOf
    <3> QED
      BY <3>1 DEF Gives
  <2> QED
    BY <2>1, <2>2
<1>3. Holds(ctx, -2, 0, info.line, 0, <<>>, 0, <<>>)
  BY <1>1, Whole DEF Partial
<1> DEFINE v == ctx.done \/ ctx.text # <<>>
           d == [ctx EXCEPT !.done = v]
<1>4. EolCb(ctx, Longer, InUrc) = d
  BY DEF EolCb, CimiEol
<1>5. v = TRUE
  BY <1>1, <1>3 DEF Holds
<1> HIDE DEF v
<1>6. IsContext(d) /\ Finds(d, -2, 0, info.line, 0, <<>>) /\ d.done = v
  BY <1>3 DEF Holds, IsContext, Finds
<1> HIDE DEF d
<1>7. Results(d) = Results(info.ctx)
  BY <1>2, <1>6, FoundResults
<1> QED
  BY <1>4, <1>5, <1>6, <1>7 DEF Settled

\* AT+NSORF: every field has been stored.
LEMMA ReceivedLineEnds ==
  ASSUME cmd = "nsorf", NEW info \in Info(cmd),
         Partial(ctx, info.line, Len(info.line))
  PROVE  Settled(EolCb(ctx, Longer, InUrc), info)
<1>1. PICK n \in Numbers : \E k \in 1 .. MaxData :
        Gives(info, ReceivedLine(n, k), n, 0, <<Num(Addr)>>, Port, Octets(k))
  BY InfoOf
<1>2. PICK k \in 1 .. MaxData :
        Gives(info, ReceivedLine(n, k), n, 0, <<Num(Addr)>>, Port, Octets(k))
  BY <1>1
<1>3. PICK m \in Numbers : \E j \in 1 .. MaxData :
        /\ info.line = ReceivedLine(m, j)
        /\ PartlyReceived(ctx, info.line, m, j, Len(info.line))
  BY DEF Partial
<1>4. PICK j \in 1 .. MaxData :
        /\ info.line = ReceivedLine(m, j)
        /\ PartlyReceived(ctx, info.line, m, j, Len(info.line))
  BY <1>3
<1> DEFINE L == info.line
<1>5. /\ n \in Nat /\ m \in Nat /\ j \in Nat /\ j >= 1 /\ k \in Nat
      /\ k >= 1
  BY Constants
<1>6. /\ L \in Seq(Tokens) /\ Len(L) = 10 + j /\ L[1] = Num(m)
      /\ \A i \in 1 .. j : L[8 + i] = Octets(j)[i]
      /\ Octets(j) \in Seq(Tokens) /\ Len(Octets(j)) = j
  <2>1. L = ReceivedLine(m, j)
    BY <1>4
  <2> HIDE DEF L
  <2> QED
    BY <1>5, <2>1, ReceivedFacts
<1>7. Len(L) = 10 + k /\ L[1] = Num(n)
  <2>1. L = ReceivedLine(n, k)
    BY <1>2 DEF Gives
  <2> HIDE DEF L
  <2> QED
    BY <1>5, <2>1, ReceivedFacts
<1>8. j = k /\ m = n
  <2>1. Num(m).n = m /\ Num(n).n = n
    BY <1>5, TokenFacts
  <2> QED
    BY <1>5, <1>6, <1>7, <2>1
<1>9. SubSeq(L, 9, 8 + j) = Octets(j)
  <2> HIDE DEF L
  <2> DEFINE s == SubSeq(L, 9, 8 + j)
  <2>1. /\ s \in Seq(Tokens) /\ Len(s) = j
        /\ \A i \in 1 .. j : s[i] = L[8 + i]
    BY <1>5, <1>6, SMTT(20)
  <2> HIDE DEF s
  <2>2. s = Octets(j)
    BY <1>6, <2>1, SeqEqual
  <2> QED
    BY <2>2 DEF s
<1>10. /\ Holds(ctx, n, 0, <<Num(Addr)>>, Port, Octets(k), 4, <<>>)
       /\ ctx.done = TRUE
  <2> DEFINE p == Len(L)
  <2>1. /\ p >= 2 /\ p >= 4 /\ p >= 6 /\ p >= 8 /\ p >= 9 + j
        /\ ~ (p <= 8 + j) /\ p \notin {1, 3, 5, 7}
    BY <1>5, <1>6
  <2>2. PartlyReceived(ctx, L, m, j, p)
    BY <1>4
  <2> HIDE DEF p, L
  <2> QED
    BY <1>8, <1>9, <2>1, <2>2 DEF PartlyReceived
<1>11. EolCb(ctx, Longer, InUrc) = ctx
  BY DEF EolCb
<1>12. Finds(ctx, n, 0, <<Num(Addr)>>, Port, Octets(k)) /\ IsContext(ctx)
  BY <1>10 DEF Holds, Finds
<1>13. Results(ctx) = Results(info.ctx)
  BY <1>2, <1>12, FoundResults
<1> QED
  BY <1>10, <1>11, <1>12, <1>13 DEF Settled

\* AT+CGPADDR: the text between the quotes, or none.
LEMMA AddressLineEnds ==
  ASSUME cmd = "cgpaddr", NEW info \in Info(cmd),
         Partial(ctx, info.line, Len(info.line))
  PROVE  Settled(EolCb(ctx, Longer, InUrc), info)
<1> DEFINE L == info.line
           quotes == {i \in DOMAIN ctx.field : ctx.field[i] = Char("quote")}
           text == IF quotes = {} THEN <<>>
                   ELSE SubSeq(ctx.field, Min(quotes) + 1, Max(quotes) - 1)
           d == [ctx EXCEPT !.in_address = FALSE, !.text = text,
                            !.len = Len(text)]
<1>0. \A n \in Numbers : n \in Nat
  BY Constants
<1>1. L \in Seq(Tokens) /\ Len(L) >= 1
  <2>1. cmd \in Commands
    BY DEF Commands
  <2> QED
    BY <2>1, InfoLines
<1>2. /\ Holds(ctx, -2, 0, <<>>, 0, <<>>, 0, SubSeq(L, 2, Len(L)))
      /\ ctx.in_address = TRUE
  <2>1. Len(L) > 0
    BY <1>1
  <2> HIDE DEF L
  <2> QED
    BY <2>1 DEF Partial, L
<1>3. EolCb(ctx, Longer, InUrc) = d
  BY <1>2 DEF EolCb, CgpaddrEol
<1>4. /\ Num(0) # Char("quote") /\ comma # Char("quote")
      /\ \A n \in Nat : Num(n) # Char("quote")
  <2>1. /\ \A n \in Nat : Num(n).c = "num"
        /\ comma.c = "comma" /\ Char("quote").c = "quote"
    BY TokenFacts, MoreTokens
  <2> QED
    BY <2>1
<1>5. ASSUME NEW x, NEW m, text = x, Len(x) = m,
             Gives(info, L, -2, m, x, 0, <<>>)
      PROVE  Settled(d, info)
  <2> HIDE DEF text, L
  <2> DEFINE no == FALSE
             b == [ctx EXCEPT !.in_address = no]
             e == [b EXCEPT !.text = x]
             f == [e EXCEPT !.len = m]
  <2>1. d = f
    BY <1>5
  <2> HIDE DEF no
  <2>2. IsContext(b) /\ Finds(b, -2, 0, <<>>, 0, <<>>) /\ b.in_address = no
    BY <1>2 DEF Holds, IsContext, Finds
  <2> HIDE DEF b
  <2>3. IsContext(e) /\ Finds(e, -2, 0, x, 0, <<>>) /\ e.in_address = no
    BY <2>2 DEF IsContext, Finds
  <2> HIDE DEF e
  <2>4. IsContext(f) /\ Finds(f, -2, m, x, 0, <<>>) /\ f.in_address = no
    BY <2>3 DEF IsContext, Finds
  <2> HIDE DEF f
  <2>5. Results(f) = Results(info.ctx)
    BY <1>5, <2>4, FoundResults
  <2> QED
    BY <2>1, <2>4, <2>5 DEF Settled, no
<1>6. CASE Gives(info, <<Char("+CGPADDR"), Num(0)>>, -2, 0, <<>>, 0, <<>>)
  <2> DEFINE M == <<Char("+CGPADDR"), Num(0)>>
             g == SubSeq(M, 2, 2)
  <2>1. /\ M \in Seq(Tokens) /\ Len(M) = 2 /\ M[2] = Num(0)
    <3>1. Char("+CGPADDR") \in Tokens /\ Num(0) \in Tokens
      BY TokenFacts, MoreTokens
    <3> QED
      BY <3>1
  <2>2. L = M
    BY <1>6 DEF Gives
  <2> HIDE DEF M
  <2>3. DOMAIN g = {1} /\ g[1] = Num(0)
    BY <2>1
  <2>4. ctx.field = g
    BY <1>2, <2>1, <2>2 DEF Holds
  <2> HIDE DEF g
  <2>5. quotes = {}
    BY <1>4, <2>3, <2>4
  <2>6. text = <<>>
    BY <2>5
  <2>7. Len(<<>>) = 0
    OBVIOUS
  <2>8. Gives(info, L, -2, 0, <<>>, 0, <<>>)
    BY <1>6, <2>2 DEF Gives, M
  <2> HIDE DEF text, d, L
  <2> QED
    BY <1>3, <1>5, <2>6, <2>7, <2>8
<1>7. ASSUME NEW a \in Numbers,
             Gives(info, AddressLine(a), -2, 1, <<Num(a)>>, 0, <<>>)
      PROVE  Settled(d, info)
  <2> DEFINE M == AddressLine(a)
             g == SubSeq(M, 2, 6)
             h == SubSeq(g, 4, 4)
  <2>1. /\ M \in Seq(Tokens) /\ Len(M) = 6 /\ M[2] = Num(0) /\ M[3] = comma
        /\ M[4] = Char("quote") /\ M[5] = Num(a) /\ M[6] = Char("quote")
    <3>1. /\ Char("+CGPADDR") \in Tokens /\ Num(0) \in Tokens
          /\ Num(a) \in Tokens /\ comma \in Tokens /\ Char("quote") \in Tokens
      BY <1>0, TokenFacts, MoreTokens
    <3> QED
      BY <3>1 DEF AddressLine
  <2>2. L = M
    BY <1>7 DEF Gives
  <2> HIDE DEF M
  <2>3. /\ g \in Seq(Tokens) /\ Len(g) = 5 /\ g[1] = M[2] /\ g[2] = M[3]
        /\ g[3] = M[4] /\ g[4] = M[5] /\ g[5] = M[6]
    <3>1. /\ g \in Seq(Tokens) /\ Len(g) = 5
          /\ \A i \in 1 .. 5 : g[i] = M[i + 1]
      <4>1. ASSUME NEW i \in 2 .. 6 PROVE M[i] \in Tokens
        <5>1. i \in 1 .. Len(M)
          BY <2>1
        <5> QED
          BY <2>1, <5>1, ElementOfSeq
      <4>2. /\ g \in Seq(Tokens) /\ Len(g) = 6 - 2 + 1
            /\ \A i \in 1 .. 6 - 2 + 1 : g[i] = M[2 + i - 1]
        BY <4>1, SubSeqProperties
      <4>3. 6 - 2 + 1 = 5 /\ \A i \in 1 .. 5 : 2 + i - 1 = i + 1
        OBVIOUS
      <4> HIDE DEF g
      <4> QED
        BY <4>2, <4>3
    <3>2. /\ {1, 2, 3, 4, 5} \subseteq 1 .. 5 /\ 1 + 1 = 2 /\ 2 + 1 = 3
          /\ 3 + 1 = 4 /\ 4 + 1 = 5 /\ 5 + 1 = 6
      OBVIOUS
    <3> HIDE DEF g
    <3>3. /\ g[1] = M[1 + 1] /\ g[2] = M[2 + 1] /\ g[3] = M[3 + 1]
          /\ g[4] = M[4 + 1] /\ g[5] = M[5 + 1]
      BY <3>1, <3>2
    <3> QED
      BY <3>1, <3>2, <3>3
  <2>4. ctx.field = g
    BY <1>2, <2>1, <2>2 DEF Holds
  <2> HIDE DEF g
  <2>5. quotes = {3, 5}
    <3>1. DOMAIN g = {1, 2, 3, 4, 5}
      BY <2>3
    <3>2. /\ g[1] # Char("quote") /\ g[2] # Char("quote")
          /\ g[4] # Char("quote") /\ g[3] = Char("quote")
          /\ g[5] = Char("quote")
      BY <1>0, <1>4, <2>1, <2>3
    <3> QED
      BY <2>4, <3>1, <3>2
  <2>6. Min(quotes) = 3 /\ Max(quotes) = 5
    <3>1. quotes = {3, 5}
      BY <2>5
    <3> HIDE DEF quotes
    <3>2. Min({3, 5}) = 3
      <4>1. \A x \in {3, 5} : (\A y \in {3, 5} : x <= y) <=> x = 3
        OBVIOUS
      <4> QED
        BY <4>1 DEF Min
    <3>3. Max({3, 5}) = 5
      <4>1. \A x \in {3, 5} : (\A y \in {3, 5} : x >= y) <=> x = 5
        OBVIOUS
      <4> QED
        BY <4>1 DEF Max
    <3> QED
      BY <3>1, <3>2, <3>3
  <2>7. h = <<Num(a)>>
    <3>1. /\ h \in Seq(Tokens) /\ Len(h) = 1 /\ h[1] = g[4]
      <4>1. ASSUME NEW i \in 4 .. 4 PROVE g[i] \in Tokens
        <5>1. i \in 1 .. Len(g)
          BY <2>3
        <5> QED
          BY <2>3, <5>1, ElementOfSeq
      <4>2. /\ h \in Seq(Tokens) /\ Len(h) = 4 - 4 + 1
            /\ \A i \in 1 .. 4 - 4 + 1 : h[i] = g[4 + i - 1]
        BY <4>1, SubSeqProperties
      <4>3. 4 - 4 + 1 = 1 /\ 4 + 1 - 1 = 4 /\ 1 \in 1 .. 1
        OBVIOUS
      <4> HIDE DEF h
      <4>4. h[1] = g[4 + 1 - 1]
        BY <4>2, <4>3
      <4> QED
        BY <4>2, <4>3, <4>4
    <3>2. <<Num(a)>> \in Seq(Tokens) /\ Len(<<Num(a)>>) = 1
      BY <1>0, TokenFacts
    <3> HIDE DEF h
    <3>3. \A i \in 1 .. 1 : h[i] = <<Num(a)>>[i]
      BY <2>1, <2>3, <3>1
    <3> QED
      BY <3>1, <3>2, <3>3, SeqEqual
  <2>8. text = <<Num(a)>>
    <3>1. quotes # {} /\ 3 + 1 = 4 /\ 5 - 1 = 4
      BY <2>5
    <3>2. text = SubSeq(ctx.field, 3 + 1, 5 - 1)
      <4> HIDE DEF quotes
      <4> QED
        BY <2>6, <3>1
    <3> HIDE DEF text
    <3> QED
      BY <2>4, <2>7, <3>1, <3>2
  <2>9. Len(<<Num(a)>>) = 1
    OBVIOUS
  <2>10. Gives(info, L, -2, 1, <<Num(a)>>, 0, <<>>)
    BY <1>7, <2>2 DEF Gives, M
  <2> HIDE DEF text, d, L
  <2> QED
    BY <1>5, <2>8, <2>9, <2>10
<1>8. \/ Gives(info, <<Char("+CGPADDR"), Num(0)>>, -2, 0, <<>>, 0, <<>>)
      \/ \E a \in Numbers :
           Gives(info, AddressLine(a), -2, 1, <<Num(a)>>, 0, <<>>)
  BY InfoOf
<1> HIDE DEF d
<1> QED
  BY <1>3, <1>6, <1>7, <1>8

\* Whatever the command, the results are right when the line has ended.
LEMMA LineEnds ==
  ASSUME cmd \in Commands, NEW info \in Info(cmd),
         Partial(ctx, info.line, Len(info.line)), Longer = Line(info.line),
         InUrc <=> info.line[1].c \in Names
  PROVE  Settled(EolCb(ctx, Longer, InUrc), info)
<1>1. /\ cmd \in {"nsocr", "nsost"} => ~InUrc
      /\ cmd # "generic"
  BY InfoLines
<1> QED
  BY <1>1, SocketLineEnds, TextLineEnds, ReceivedLineEnds, AddressLineEnds
     DEF Commands

-----------------------------------------------------------------------------
(* The phases of a decoder that finds its own answer. *)

Says(info) == answer.ok = TRUE /\ answer.ctx = info.ctx

\* Noise is read, then comes s.
Awaits(s) == \E w \in Seq(Tokens) : InNoise(w) /\ rx = w \o s

\* p tokens of the line L are read, then comes s.
Along(L, p, s) ==
  /\ rb = SubSeq(Line(L), 1, p)
  /\ rx = SubSeq(Line(L), p + 1, Len(Line(L))) \o s
  /\ p = Len(L) + 1 => prev = cr
  /\ Partial(ctx, L, IF p <= Len(L) THEN p ELSE Len(L))

\* Noise, OK, and what comes behind.
Ended(s) == \E v \in Seq(Tokens) : \E t \in Seq(Tokens) :
              FromStart(v) /\ s = v \o (OK \o t)

BeforeLine ==
  \E info \in Info(cmd) : \E s \in Seq(Tokens) :
    Says(info) /\ ctx = Blank /\ Ended(s) /\ Awaits(Line(info.line) \o s)

InsideLine ==
  \E info \in Info(cmd) : \E s \in Seq(Tokens) :
    /\ Says(info) /\ Ended(s)
    /\ \E p \in 1 .. Len(info.line) + 1 : Along(info.line, p, s)
    /\ is_urc <=> info.line[1].c \in Names

\* The results are what the modem answered, and OK does not change them.
Ready ==
  /\ Results(ctx) = Results(answer.ctx)
  /\ cmd \in {"cimi", "cgsn"} => ctx.done = TRUE
  /\ cmd = "nsorf" => ctx.done = TRUE \/ ctx.fieldno = 0

BeforeEnd ==
  \E final \in {OK, ERROR} : \E t \in Seq(Tokens) :
    /\ answer.ok = (final = OK)
    /\ Calm /\ (final = OK => Ready)
    /\ Awaits(final \o t)

InsideEnd ==
  \E final \in {OK, ERROR} : \E t \in Seq(Tokens) : \E p \in 1 .. 3 :
    /\ answer.ok = (final = OK)
    /\ final = OK => IsContext(ctx) /\ Results(ctx) = Results(answer.ctx)
    /\ rb = SubSeq(final, 1, p) /\ is_urc = FALSE
    /\ rx = SubSeq(final, p + 1, 3) \o t

Reading ==
  cmd # "none" /\ aligned =>
    BeforeLine \/ InsideLine \/ BeforeEnd \/ InsideEnd \/ InNoise(rx)

Unmixed == Typed /\ Trailing(rx) /\ NoUrc /\ Reading

\* In noise, nothing has been read that could end an answer.
LEMMA NoiseNotFinal ==
  ASSUME NEW w, InNoise(w)
  PROVE  ~IsFinal(rb)
<1>1. rb = <<>> \/ rb = <<cr>> \/ rb[1] = nsonmi
  BY DEF InNoise
<1>2. <<cr>>[1] = cr
  OBVIOUS
<1> QED
  BY <1>1, <1>2, NotFinal

\* Nor has it along an information line.
LEMMA LineNotFinal ==
  ASSUME NEW c \in Commands, NEW info \in Info(c),
         NEW p \in 1 .. Len(info.line) + 1
  PROVE  /\ ~IsFinal(SubSeq(Line(info.line), 1, p))
         /\ ~IsFinal(Line(info.line))
<1> DEFINE L == info.line
           l == Line(L)
           s == SubSeq(l, 1, p)
<1>1. /\ L \in Seq(Tokens) /\ Len(L) >= 1 /\ Len(L) \in Nat
      /\ L[1].c \in LineTokens
  <2>1. /\ L \in Seq(Tokens) /\ Len(L) >= 1
        /\ \A i \in 1 .. Len(L) : L[i].c \in LineTokens
    BY InfoLines
  <2>2. Len(L) \in Nat /\ 1 \in 1 .. Len(L)
    BY <2>1
  <2> QED
    BY <2>1, <2>2
<1> HIDE DEF L
<1>2. l \in Seq(Tokens) /\ Len(l) = Len(L) + 2 /\ l[1] = L[1]
  <2>1. 1 \in 1 .. Len(L)
    BY <1>1
  <2> QED
    BY <1>1, <2>1, LineFacts
<1>3. p \in Nat /\ p < Len(l) /\ p > 0
  BY <1>1, <1>2 DEF L
<1>4. s[1] = l[1]
  <2> HIDE DEF l
  <2> QED
    BY <1>2, <1>3, ReadUpTo
<1>5. ~Ending(L[1])
  BY <1>1 DEF LineTokens, Ending
<1>6. \A x : x[1] = L[1] => ~IsFinal(x)
  BY <1>5, FinalFacts DEF IsFinal
<1> HIDE DEF s, l
<1> QED
  BY <1>2, <1>4, <1>6 DEF s, l, L

\* OK and the end of its line change no result.
LEMMA Unheard ==
  ASSUME Typed, cmd # "none", IsContext(ctx), ~InUrc,
         Byte \in {cr, lf} \/ (Byte = Char("OK") /\ Ready)
  PROVE  IsContext(Called) /\ Results(Called) = Results(ctx)
<1>1. cmd \in Commands
  BY DEF Typed, TypeOK
<1>2. Byte # comma /\ Byte # Char("quote")
  <2>1. /\ cr.c = "cr" /\ lf.c = "lf" /\ comma.c = "comma"
        /\ Char("quote").c = "quote" /\ Char("OK").c = "OK"
    BY TokenFacts, MoreTokens, FinalFacts DEF Char
  <2> QED
    BY <2>1
<1>3. ASSUME NEW f PROVE
        LET d == [ctx EXCEPT !.field = f] IN
        IsContext(d) /\ Results(d) = Results(ctx)
  <2> DEFINE d == [ctx EXCEPT !.field = f]
  <2>1. /\ IsContext(d) /\ d.fd = ctx.fd /\ d.len = ctx.len
        /\ d.text = ctx.text /\ d.port = ctx.port /\ d.data = ctx.data
    BY DEF IsContext
  <2> HIDE DEF d
  <2>2. Results(d) = Results(ctx)
    BY <2>1 DEF Results
  <2> QED
    BY <2>1, <2>2 DEF d
<1>4. ASSUME NEW c, IsContext(c), NEW a PROVE
        LET d == [c EXCEPT !.in_address = a] IN
        IsContext(d) /\ Results(d) = Results(c)
  <2> DEFINE d == [c EXCEPT !.in_address = a]
  <2>1. /\ IsContext(d) /\ d.fd = c.fd /\ d.len = c.len
        /\ d.text = c.text /\ d.port = c.port /\ d.data = c.data
    BY <1>4 DEF IsContext
  <2> HIDE DEF d
  <2>2. Results(d) = Results(c)
    BY <2>1 DEF Results
  <2> QED
    BY <2>1, <2>2 DEF d
<1>5. CASE cmd = "cgpaddr"
  <2> DEFINE f == IF ctx.in_address /\ ~IsSpace(Byte)
                  THEN Append(ctx.field, Byte) ELSE ctx.field
             a == ctx.in_address \/ (InUrc /\ Longer = <<Char("+CGPADDR")>>)
             e == [ctx EXCEPT !.field = f]
             d == [e EXCEPT !.in_address = a]
  <2>1. Called = d
    BY <1>5 DEF Called, CharCb, CgpaddrChar
  <2> HIDE DEF a, f
  <2>2. IsContext(e) /\ Results(e) = Results(ctx)
    BY <1>3
  <2> HIDE DEF e
  <2>3. IsContext(d) /\ Results(d) = Results(e)
    BY <1>4, <2>2
  <2> QED
    BY <2>1, <2>2, <2>3
<1>6. CASE cmd = "nsorf"
  <2>1. CASE IsSpace(Byte) \/ ctx.done
    <3>1. Called = ctx
      BY <1>6, <2>1 DEF Called, CharCb, NsorfChar
    <3> QED
      BY <3>1
  <2>2. CASE ~IsSpace(Byte) /\ ~ctx.done
    <3>1. ctx.fieldno # 4
      BY <1>6, <2>2 DEF Ready, IsSpace
    <3> DEFINE d == [ctx EXCEPT !.field = Append(ctx.field, Byte)]
    <3>2. Called = d
      BY <1>2, <1>6, <2>2, <3>1 DEF Called, CharCb, NsorfChar
    <3> HIDE DEF d
    <3> QED
      BY <1>3, <3>2 DEF d
  <2> QED
    BY <2>1, <2>2
<1>7. CASE cmd \in {"cimi", "cgsn"}
  <2>1. IsSpace(Byte) \/ ctx.done
    BY <1>7 DEF Ready, IsSpace
  <2>2. Called = ctx
    BY <1>7, <2>1 DEF Called, CharCb, CimiChar, CgsnChar
  <2> QED
    BY <2>2
<1>8. CASE cmd \in {"generic", "nsocr", "nsost"}
  <2>1. Called = ctx
    BY <1>8 DEF Called, CharCb
  <2> QED
    BY <2>1
<1> QED
  BY <1>1, <1>5, <1>6, <1>7, <1>8 DEF Commands

\* When the phases allow the end of an answer, it is the right one.
LEMMA ReadingIsRight == Typed /\ Reading => RightAnswer
<1> SUFFICES ASSUME Typed, Reading, cmd # "none", IsFinal(rb), aligned
             PROVE  /\ answer.ok = (rb = OK)
                    /\ answer.ok => Results(ctx) = Results(answer.ctx)
  BY DEF RightAnswer
<1>0. cmd \in Commands
  BY DEF Typed, TypeOK
<1>1. InsideEnd
  <2>1. ~BeforeLine /\ ~BeforeEnd /\ ~InNoise(rx)
    BY NoiseNotFinal DEF BeforeLine, BeforeEnd, Awaits
  <2>2. ~InsideLine
    BY <1>0, LineNotFinal DEF InsideLine, Along
  <2> QED
    BY <2>1, <2>2 DEF Reading
<1>2. PICK final \in {OK, ERROR} : \E p \in 1 .. 3 :
        /\ answer.ok = (final = OK)
        /\ final = OK => IsContext(ctx) /\ Results(ctx) = Results(answer.ctx)
        /\ rb = SubSeq(final, 1, p)
  BY <1>1 DEF InsideEnd
<1>3. PICK p \in 1 .. 3 :
        /\ answer.ok = (final = OK)
        /\ final = OK => IsContext(ctx) /\ Results(ctx) = Results(answer.ctx)
        /\ rb = SubSeq(final, 1, p)
  BY <1>2
<1>4. final \in Seq(Tokens) /\ Len(final) = 3
  BY FinalFacts
<1>5. Len(rb) = p /\ Len(rb) = 3
  BY <1>3, <1>4, FinalFacts DEF IsFinal
<1>6. rb = final
  BY <1>3, <1>4, <1>5, Whole
<1> QED
  BY <1>3, <1>6

\* Noise, and what comes behind it.
LEMMA AwaitsRead ==
  ASSUME Typed, NoUrc, DecodeChar, NEW s \in Seq(Tokens), Awaits(s)
  PROVE  \/ Awaits(s)' /\ (Calm => ctx' = ctx)
         \/ rb = <<>> /\ is_urc = FALSE /\ rx = s
<1>1. PICK w \in Seq(Tokens) : InNoise(w) /\ rx = w \o s
  BY DEF Awaits
<1>2. rx # <<>> /\ rx' = Tail(rx)
  BY Decoded
<1>3. CASE w = <<>>
  <2>1. rx = s
    BY <1>1, <1>3, ConcatEmptySeq
  <2> QED
    BY <1>1, <1>3, <2>1 DEF InNoise
<1>4. CASE w # <<>>
  <2>1. /\ Byte = w[1] /\ rx' = Tail(w) \o s /\ Tail(w) \in Seq(Tokens)
    BY <1>1, <1>2, <1>4, TakenFromFirst, Taken DEF Byte
  <2>2. InNoise(Tail(w))' /\ (Calm => ctx' = ctx)
    BY <1>1, <1>4, <2>1, NoiseRead
  <2>3. Awaits(s)'
    BY <2>1, <2>2 DEF Awaits
  <2> QED
    BY <2>2, <2>3
<1> QED
  BY <1>3, <1>4

\* The places of the formulas about the next state.
LEMMA PartialKept ==
  ASSUME NEW L, NEW q, Partial(Called, L, q), cmd' = cmd, ctx' = Called
  PROVE  Partial(ctx, L, q)'
BY DEF Partial, PartlyReceived, Holds, IsContext

\* A token of a whole line adds its part, and its last one settles the results.
LEMMA LineRead ==
  ASSUME Typed, DecodeChar, NEW info \in Info(cmd),
         NEW p \in 0 .. Len(info.line) + 1, NEW s \in Seq(Tokens),
         Along(info.line, p, s), InUrc <=> info.line[1].c \in Names
  PROVE  /\ p <= Len(info.line) =>
              /\ Along(info.line, p + 1, s)'
              /\ is_urc' <=> info.line[1].c \in Names
         /\ p = Len(info.line) + 1 =>
              /\ rb' = <<>> /\ is_urc' = FALSE /\ rx' = s
              /\ Settled(ctx', info)
<1> DEFINE L == info.line
           l == Line(L)
<1>1. /\ cmd \in Commands /\ cmd # "none" /\ rx # <<>> /\ rx' = Tail(rx)
      /\ cmd' = cmd
      /\ ctx' = (IF Eol THEN EolCb(Called, Longer, InUrc) ELSE Called)
      /\ rb' = (IF Eol THEN <<>> ELSE Longer)
      /\ is_urc' = (InUrc /\ ~Eol) /\ prev' = Byte
  BY Decoded DEF Typed, TypeOK
<1>2. /\ L \in Seq(Tokens) /\ Len(L) >= 1 /\ Len(L) \in Nat
      /\ \A i \in 1 .. Len(L) : L[i].c \in LineTokens
      /\ L # <<>>
  <2>1. L \in Seq(Tokens) /\ Len(L) >= 1
        /\ \A i \in 1 .. Len(L) : L[i].c \in LineTokens
    BY <1>1, InfoLines
  <2> QED
    BY <2>1
<1>3. ~IsFinal(l)
  <2>1. 1 \in 1 .. Len(L) + 1
    BY <1>2
  <2> QED
    BY <1>1, <2>1, LineNotFinal
<1>4. /\ L[1].c \in Names <=> cmd \in {"cgpaddr", "cgsn"}
      /\ cmd = "cgpaddr" => L[1] = Char("+CGPADDR")
  <2>1. L[1].c \in Names <=> cmd \in {"cgpaddr", "cgsn"}
    BY <1>1, InfoLines
  <2>2. ASSUME cmd = "cgpaddr" PROVE L[1] = Char("+CGPADDR")
    <3>1. \/ L = <<Char("+CGPADDR"), Num(0)>>
          \/ \E a \in Numbers : L = AddressLine(a)
      BY <2>2, InfoOf DEF Gives
    <3> HIDE DEF L
    <3> QED
      BY <3>1 DEF AddressLine
  <2> QED
    BY <2>1, <2>2
<1> HIDE DEF L
<1>5. /\ l \in Seq(Tokens) /\ Len(l) = Len(L) + 2
      /\ \A i \in 1 .. Len(L) : l[i] = L[i]
      /\ l[Len(L) + 1] = cr /\ l[Len(L) + 2] = lf
  BY <1>2, LineFacts
<1>6. /\ rb = SubSeq(l, 1, p) /\ rx = SubSeq(l, p + 1, Len(l)) \o s
      /\ p = Len(L) + 1 => prev = cr
      /\ Partial(ctx, L, IF p <= Len(L) THEN p ELSE Len(L))
      /\ InUrc <=> L[1].c \in Names
  BY DEF Along, L
<1> HIDE DEF l
<1>7. p \in Nat /\ p < Len(l) /\ p <= Len(L) + 1
  BY <1>2, <1>5 DEF L
<1>8. /\ Append(SubSeq(l, 1, p), l[p + 1]) = SubSeq(l, 1, p + 1)
      /\ SubSeq(l, p + 1, Len(l)) \in Seq(Tokens)
      /\ SubSeq(l, p + 1, Len(l)) # <<>>
      /\ SubSeq(l, p + 1, Len(l))[1] = l[p + 1]
      /\ Tail(SubSeq(l, p + 1, Len(l))) = SubSeq(l, p + 2, Len(l))
  BY <1>5, <1>7, ReadUpTo
<1>9. /\ Byte = l[p + 1] /\ rx' = SubSeq(l, p + 2, Len(l)) \o s
      /\ Longer = SubSeq(l, 1, p + 1)
  <2> DEFINE u == SubSeq(l, p + 1, Len(l))
  <2>1. /\ u \in Seq(Tokens) /\ u # <<>> /\ u[1] = l[p + 1]
        /\ Tail(u) = SubSeq(l, p + 2, Len(l)) /\ rx = u \o s
    BY <1>6, <1>8
  <2> HIDE DEF u
  <2>2. Head(rx) = u[1] /\ Tail(rx) = Tail(u) \o s
    BY <2>1, TakenFromFirst
  <2>3. Byte = l[p + 1]
    BY <2>1, <2>2 DEF Byte
  <2> QED
    BY <1>1, <1>6, <1>8, <2>1, <2>2, <2>3 DEF Longer
<1>10. /\ cr # lf /\ \A x : x.c \in LineTokens => x # lf
  BY TokenFacts DEF LineTokens
<1>11. CASE p < Len(L)
  <2>1. /\ p + 1 \in 1 .. Len(L) /\ p + 1 <= Len(L) /\ p <= Len(L)
        /\ p # Len(L) + 1 /\ p + 1 # Len(L) + 1 /\ (p + 1) + 1 = p + 2
    BY <1>2, <1>7, <1>11
  <2>2. Byte = L[p + 1] /\ Byte.c \in LineTokens
    BY <1>2, <1>5, <1>9, <2>1
  <2>3. Longer = SubSeq(L, 1, p + 1)
    <3> DEFINE a == SubSeq(l, 1, p + 1)
               b == SubSeq(L, 1, p + 1)
    <3>1. /\ a \in Seq(Tokens) /\ Len(a) = p + 1
          /\ \A i \in 1 .. p + 1 : a[i] = l[i]
      BY <1>5, <1>7, <2>1
    <3>2. /\ b \in Seq(Tokens) /\ Len(b) = p + 1
          /\ \A i \in 1 .. p + 1 : b[i] = L[i]
      BY <1>2, <1>7, <2>1
    <3>3. \A i \in 1 .. p + 1 : i \in 1 .. Len(L)
      BY <1>2, <1>7, <2>1
    <3> HIDE DEF a, b
    <3>4. a = b
      BY <1>5, <3>1, <3>2, <3>3, SeqEqual
    <3> QED
      BY <1>9, <3>4 DEF a, b
  <2>4. AtToken(L, p) /\ Partial(ctx, L, p)
    BY <1>2, <1>6, <1>7, <1>11, <2>1, <2>2, <2>3 DEF AtToken
  <2>5. Partial(Called, L, p + 1)
    <3>1. CASE cmd \in {"cimi", "cgsn"}
      BY <1>4, <2>2, <2>4, <3>1, TextRead
    <3>2. CASE cmd = "cgpaddr"
      BY <1>4, <2>2, <2>4, <3>2, AddressRead
    <3>3. CASE cmd = "nsorf"
      <4>1. PICK n \in Numbers : \E k \in 1 .. MaxData :
              L = ReceivedLine(n, k) /\ PartlyReceived(ctx, L, n, k, p)
        BY <2>4, <3>3 DEF Partial
      <4>2. PICK k \in 1 .. MaxData :
              L = ReceivedLine(n, k) /\ PartlyReceived(ctx, L, n, k, p)
        BY <4>1
      <4>3. n \in Nat /\ k \in Nat /\ k >= 1
        BY Constants
      <4>4. ~InUrc
        BY <1>4, <1>6, <3>3
      <4>5. PartlyReceived(Called, L, n, k, p + 1)
        BY <1>7, <1>11, <2>2, <3>3, <4>2, <4>3, <4>4, ReceivedRead
      <4> QED
        BY <3>3, <4>2, <4>5 DEF Partial
    <3>4. CASE cmd \in {"nsocr", "nsost"}
      <4>1. Called = ctx
        BY <3>4 DEF Called, CharCb
      <4> QED
        BY <2>4, <3>4, <4>1 DEF Partial
    <3>5. cmd # "generic"
      BY <1>1, InfoLines
    <3> QED
      BY <1>1, <3>1, <3>2, <3>3, <3>4, <3>5 DEF Commands
  <2>6. ~Eol
    BY <1>10, <2>2 DEF Eol
  <2>7. Partial(ctx, L, p + 1)'
    BY <1>1, <2>5, <2>6, PartialKept
  <2>8. Along(L, p + 1, s)'
    BY <1>1, <1>9, <2>1, <2>6, <2>7 DEF Along, l
  <2> QED
    BY <1>1, <1>6, <2>1, <2>6, <2>8 DEF L
<1>12. CASE p = Len(L)
  <2>1. /\ p <= Len(L) /\ ~ (p + 1 <= Len(L)) /\ p # Len(L) + 1
        /\ (p + 1) + 1 = p + 2
    BY <1>2, <1>12
  <2>2. Byte = cr /\ ~Eol
    BY <1>5, <1>9, <1>10, <1>12 DEF Eol
  <2>3. Partial(ctx, L, Len(L))
    BY <1>6, <1>12, <2>1
  <2>4. Called = ctx
    BY <1>1, <1>2, <2>2, <2>3, SpaceRead
  <2>5. Partial(ctx, L, Len(L))'
    <3>1. ctx' = Called /\ Partial(Called, L, Len(L))
      BY <1>1, <2>2, <2>3, <2>4
    <3> QED
      BY <1>1, <3>1, PartialKept
  <2>6. Along(L, p + 1, s)'
    BY <1>1, <1>9, <2>1, <2>2, <2>5 DEF Along, l
  <2> QED
    BY <1>1, <1>6, <2>1, <2>2, <2>6 DEF L
<1>13. CASE p = Len(L) + 1
  <2>1. ~ (p <= Len(L)) /\ p + 1 = Len(L) + 2 /\ p + 1 = Len(l)
        /\ p + 2 > Len(l)
    BY <1>2, <1>5, <1>13
  <2>2. Byte = lf /\ prev = cr
    BY <1>5, <1>6, <1>9, <1>13, <2>1
  <2>3. Longer = l
    BY <1>5, <1>9, <2>1, Whole
  <2>4. Eol
    BY <1>3, <2>2, <2>3 DEF Eol
  <2>5. Partial(ctx, L, Len(L))
    BY <1>6, <2>1
  <2>6. Called = ctx
    BY <1>1, <1>2, <2>2, <2>5, SpaceRead
  <2>7. Settled(EolCb(ctx, Longer, InUrc), info)
    BY <1>1, <1>6, <2>3, <2>5, LineEnds DEF L, l
  <2>8. ctx' = EolCb(ctx, Longer, InUrc)
    BY <1>1, <2>4, <2>6
  <2>9. rx' = s
    <3>1. SubSeq(l, p + 2, Len(l)) = <<>>
      BY <1>5, <1>7, <2>1, SubSeqEmpty
    <3> QED
      BY <1>9, <3>1, ConcatEmptySeq
  <2> QED
    BY <1>1, <2>1, <2>4, <2>7, <2>8, <2>9 DEF L
<1>14. p < Len(L) \/ p = Len(L) \/ p = Len(L) + 1
  BY <1>2, <1>7
<1> QED
  BY <1>11, <1>12, <1>13, <1>14

-----------------------------------------------------------------------------
(* What is left of earlier answers. *)

\* Reading leaves noise behind the last end,
LEMMA TrailingTail ==
  ASSUME NEW s \in Seq(Tokens), s # <<>>, Trailing(s)
  PROVE  Trailing(Tail(s))
<1>1. CASE Noise(s)
  BY <1>1, NoiseTail DEF Trailing
<1>2. ASSUME NEW y \in Seq(Tokens), NEW f \in {OK, ERROR},
             NEW t \in Seq(Tokens), FromStart(t), s = y \o (f \o t)
      PROVE  Trailing(Tail(s))
  <2>1. f \in Seq(Tokens) /\ Len(f) = 3 /\ f[2] = cr /\ f[3] = lf
    BY FinalFacts
  <2> DEFINE q == f \o t
  <2>2. q \in Seq(Tokens)
    BY <2>1, Parts
  <2>3. CASE y # <<>>
    <3> HIDE DEF q
    <3>1. Tail(y \o q) = Tail(y) \o q /\ Tail(y) \in Seq(Tokens)
      BY <2>2, <2>3, TakenFromFirst, Taken
    <3>2. Tail(s) = Tail(y) \o (f \o t)
      BY <1>2, <3>1 DEF q
    <3> QED
      BY <1>2, <3>1, <3>2 DEF Trailing
  <2>4. CASE y = <<>>
    <3>1. s = q
      <4> HIDE DEF q
      <4>1. <<>> \o q = q
        BY <2>2, ConcatEmptySeq
      <4> QED
        BY <1>2, <2>4, <4>1 DEF q
    <3>2. f # <<>>
      <4>1. Len(<<>>) = 0 /\ Len(f) = 3
        BY <2>1
      <4>2. Len(f) # Len(<<>>)
        BY <4>1
      <4> QED
        BY <4>2
    <3> DEFINE u == Tail(f)
    <3>3. u \in Seq(Tokens) /\ Len(u) = 2 /\ u[1] = cr /\ u[2] = lf
      <4>1. /\ u \in Seq(Tokens) /\ Len(u) = Len(f) - 1
            /\ \A i \in 1 .. Len(f) - 1 : u[i] = f[i + 1]
        BY <2>1, <3>2, Taken
      <4>2. /\ Len(f) - 1 = 2 /\ 1 \in 1 .. 2 /\ 2 \in 1 .. 2
            /\ 1 + 1 = 2 /\ 2 + 1 = 3
        BY <2>1
      <4> HIDE DEF u
      <4>3. u[1] = f[1 + 1] /\ u[2] = f[2 + 1]
        BY <4>1, <4>2
      <4> QED
        BY <2>1, <4>1, <4>2, <4>3
    <3>4. Tail(q) = u \o t
      BY <2>1, <3>2, TakenFromFirst
    <3> HIDE DEF u
    <3>5. FromStart(u)
      <4>1. \A i \in 1 .. 2 - 1 : i = 1 /\ i + 1 = 2
        OBVIOUS
      <4>2. Follows(cr, lf)
        BY DEF Follows
      <4> QED
        BY <3>3, <4>1, <4>2 DEF FromStart, Noise
    <3>6. Noise(u \o t)
      BY <1>2, <3>3, <3>5, NoiseJoined DEF FromStart
    <3> QED
      BY <3>1, <3>4, <3>6 DEF Trailing
  <2> QED
    BY <2>3, <2>4
<1> QED
  BY <1>1, <1>2 DEF Trailing

\* and so does a new answer.
LEMMA TrailingAsked ==
  ASSUME NEW s \in Seq(Tokens), Trailing(s),
         NEW c \in Commands, NEW a \in Answers(c)
  PROVE  Trailing(s \o a.sent)
<1>1. ASSUME NEW f \in {OK, ERROR}, NEW x \in Seq(Tokens),
             NEW t \in Seq(Tokens), FromStart(t), a.sent = x \o (f \o t)
      PROVE  Trailing(s \o a.sent)
  <2>1. f \in Seq(Tokens)
    BY FinalFacts
  <2> DEFINE q == f \o t
  <2>2. q \in Seq(Tokens) /\ s \o x \in Seq(Tokens)
    BY <2>1, Parts
  <2>3. s \o a.sent = (s \o x) \o q
    <3>1. a.sent = x \o q
      BY <1>1
    <3> HIDE DEF q
    <3>2. s \o (x \o q) = (s \o x) \o q
      BY <2>2, Regrouped, SMTT(20)
    <3> QED
      BY <3>1, <3>2
  <2> QED
    BY <1>1, <2>2, <2>3 DEF Trailing
<1>2. CASE a.sent = <<>>
  <2>1. s \o <<>> = s
    BY ConcatEmptySeq
  <2> QED
    BY <1>2, <2>1
<1>3. CASE WithLine(a, c)
  <2>1. PICK info \in Info(c), w \in Seq(Tokens), v \in Seq(Tokens),
             t \in Seq(Tokens) :
          /\ FromStart(t)
          /\ a.sent = w \o (Line(info.line) \o (v \o (OK \o t)))
    BY <1>3 DEF WithLine
  <2> DEFINE l == Line(info.line)
             q == OK \o t
             x == w \o (l \o v)
  <2>2. l \in Seq(Tokens) /\ OK \in Seq(Tokens)
    BY LineTyped, FinalFacts
  <2>3. q \in Seq(Tokens)
    BY <2>2, Parts
  <2>4. a.sent = w \o (l \o (v \o q))
    BY <2>1
  <2> HIDE DEF l, q
  <2> DEFINE lv == l \o v
  <2>5. lv \in Seq(Tokens)
    BY <2>2, Parts
  <2>6. lv \o q = l \o (v \o q)
    <3>1. l \in Seq(Tokens) /\ v \in Seq(Tokens) /\ q \in Seq(Tokens)
      BY <2>2, <2>3
    <3>2. (l \o v) \o q = l \o (v \o q)
      BY <3>1, Regrouped, SMTT(20)
    <3> QED
      BY <3>2 DEF lv
  <2> HIDE DEF lv
  <2> HIDE DEF x
  <2>7. (w \o lv) \o q = w \o (lv \o q)
    <3>1. w \in Seq(Tokens) /\ lv \in Seq(Tokens) /\ q \in Seq(Tokens)
      BY <2>3, <2>5
    <3> QED
      BY <3>1, Regrouped, SMTT(20)
  <2>8. x \in Seq(Tokens)
    BY <2>5, Parts DEF lv, x
  <2>9. a.sent = x \o (OK \o t)
    BY <2>4, <2>6, <2>7 DEF q, lv, x
  <2> HIDE DEF x
  <2> QED
    BY <1>1, <2>1, <2>8, <2>9
<1>4. CASE Bare(a, c)
  <2>1. PICK final \in {OK, ERROR}, w \in Seq(Tokens), t \in Seq(Tokens) :
          FromStart(t) /\ a.sent = w \o (final \o t)
    BY <1>4 DEF Bare
  <2> QED
    BY <1>1, <2>1
<1> QED
  BY <1>2, <1>3, <1>4, AnswerForms

\* Where no end of an answer is left, what is left is noise.
LEMMA QuietIsNoise ==
  ASSUME NEW s \in Seq(Tokens), Trailing(s), Ends(s) = 0
  PROVE  Noise(s)
<1>1. ASSUME NEW y \in Seq(Tokens), NEW f \in {OK, ERROR},
             NEW t \in Seq(Tokens), s = y \o (f \o t)
      PROVE  FALSE
  <2>1. f \in Seq(Tokens) /\ Ends(f) = 1
    BY EndsOfFinal
  <2> DEFINE q == f \o t
  <2>2. q \in Seq(Tokens) /\ Ends(q) = Ends(f) + Ends(t)
    BY <2>1, Parts, EndsJoined
  <2> HIDE DEF q
  <2>3. Ends(y \o q) = Ends(y) + Ends(q)
    BY <2>2, EndsJoined
  <2>4. Ends(y) \in Nat /\ Ends(t) \in Nat
    BY EndsType
  <2>5. s = y \o q
    BY <1>1 DEF q
  <2> QED
    BY <2>1, <2>2, <2>3, <2>4, <2>5
<1> QED
  BY <1>1 DEF Trailing

\* Noise at a line start begins with a blank line or a notification.
LEMMA StartsLine ==
  ASSUME Typed, Noise(rx), AtLineStart
  PROVE  FromStart(rx)
<1>1. CASE rx = <<>>
  BY <1>1 DEF FromStart
<1>2. CASE rx # <<>>
  <2>1. rx[1] \in Tokens /\ rx[1].c \in {"cr", "+NSONMI"}
    BY <1>2, Taken DEF Typed, AtLineStart
  <2>2. \A n \in Nat : Num(n).c = "num"
    BY TokenFacts
  <2>3. PICK m \in Marks : rx[1] = Char(m)
    BY <2>1, <2>2 DEF Tokens
  <2>4. m \in {"cr", "+NSONMI"}
    BY <2>1, <2>3 DEF Char
  <2> QED
    BY <2>3, <2>4 DEF FromStart, cr, nsonmi
<1> QED
  BY <1>1, <1>2

-----------------------------------------------------------------------------
(* The steps keep the phases. *)

\* No notification comes while AT+CGSN runs.
LEMMA NoUrcStep == Typed /\ NoUrc /\ [Next]_vars => NoUrc'
<1> SUFFICES ASSUME Typed, NoUrc, [Next]_vars PROVE NoUrc'
  OBVIOUS
<1>1. ASSUME NEW c \in Commands, NEW a \in Answers(c), Ask(c, a) PROVE NoUrc'
  <2>1. /\ cmd' = c /\ rx' = rx \o a.sent
        /\ c = "cgsn" =>
             "+NSONMI" \notin {x.c : x \in ToSet(rx \o a.sent)}
    BY <1>1 DEF Ask
  <2>2. ASSUME c = "cgsn", NEW i \in DOMAIN (rx \o a.sent)
        PROVE  (rx \o a.sent)[i] # nsonmi
    <3>1. (rx \o a.sent)[i] \in ToSet(rx \o a.sent)
      BY DEF ToSet
    <3>2. (rx \o a.sent)[i].c # "+NSONMI"
      BY <2>1, <2>2, <3>1
    <3> QED
      BY <3>2, TokenFacts
  <2> QED
    BY <2>1, <2>2 DEF NoUrc
<1>2. ASSUME DecodeChar PROVE NoUrc'
  <2>1. /\ rx # <<>> /\ rx' = Tail(rx) /\ cmd' = cmd /\ rx \in Seq(Tokens)
    BY <1>2, Decoded DEF Typed
  <2>2. /\ Tail(rx) \in Seq(Tokens) /\ Len(Tail(rx)) = Len(rx) - 1
        /\ Len(rx) \in Nat
        /\ \A i \in 1 .. Len(rx) - 1 : Tail(rx)[i] = rx[i + 1]
    BY <2>1, Taken
  <2>3. ASSUME NEW i \in DOMAIN Tail(rx)
        PROVE  i + 1 \in DOMAIN rx /\ Tail(rx)[i] = rx[i + 1]
    <3> DEFINE t == Tail(rx)
    <3>1. DOMAIN rx = 1 .. Len(rx)
      BY <2>1
    <3> HIDE DEF t
    <3>2. /\ t \in Seq(Tokens) /\ Len(t) = Len(rx) - 1 /\ i \in DOMAIN t
      BY <2>2 DEF t
    <3>3. i \in 1 .. Len(rx) - 1
      BY <3>2
    <3> QED
      BY <2>2, <3>1, <3>3
  <2> QED
    BY <2>1, <2>3 DEF NoUrc
<1>3. ASSUME Return PROVE NoUrc'
  BY <1>3 DEF Return, NoUrc
<1>4. ASSUME TimeOut PROVE NoUrc'
  BY <1>4 DEF TimeOut, NoUrc
<1>5. CASE UNCHANGED vars
  BY <1>5 DEF vars, NoUrc
<1> QED
  BY <1>1, <1>2, <1>3, <1>4, <1>5 DEF Next

\* What is left of answers stays Trailing.
LEMMA TrailingStep ==
  Typed /\ Trailing(rx) /\ [Next]_vars => Trailing(rx')
<1> SUFFICES ASSUME Typed, Trailing(rx), [Next]_vars PROVE Trailing(rx')
  OBVIOUS
<1>0. rx \in Seq(Tokens)
  BY DEF Typed
<1>1. ASSUME NEW c \in Commands, NEW a \in Answers(c), Ask(c, a)
      PROVE  Trailing(rx')
  BY <1>0, <1>1, TrailingAsked DEF Ask
<1>2. ASSUME DecodeChar PROVE Trailing(rx')
  BY <1>0, <1>2, Decoded, TrailingTail
<1>3. CASE rx' = rx
  BY <1>3
<1> QED
  BY <1>1, <1>2, <1>3 DEF Next, Return, TimeOut, vars

\* A command that finds nothing left starts in a phase.
LEMMA ReadingAsked ==
  ASSUME Unmixed, NEW c \in Commands, NEW a \in Answers(c), Ask(c, a), aligned'
  PROVE  (BeforeLine \/ BeforeEnd \/ InNoise(rx))'
<1>1. /\ cmd' = c /\ rx' = rx \o a.sent
      /\ answer' = [ok |-> a.ok, ctx |-> a.ctx] /\ Finals = 0 /\ AtLineStart
      /\ rb' = <<>> /\ is_urc' = FALSE /\ ctx' = Blank
  BY DEF Ask
<1>2. rx \in Seq(Tokens) /\ FromStart(rx) /\ Noise(rx)
  <2>1. rx \in Seq(Tokens) /\ Typed /\ Trailing(rx)
    BY DEF Unmixed, Typed
  <2>2. Ends(rx) = 0
    BY <1>1 DEF Ends, Finals, Ending
  <2>3. Noise(rx)
    BY <2>1, <2>2, QuietIsNoise
  <2> QED
    BY <1>1, <2>1, <2>3, StartsLine
<1>3. ASSUME NEW u \in Seq(Tokens), FromStart(u)
      PROVE  InNoise(u)'
  BY <1>1, <1>3 DEF InNoise, FromStart
<1>4. ASSUME NEW w \in Seq(Tokens), FromStart(w), NEW s \in Seq(Tokens),
             a.sent = w \o s
      PROVE  Awaits(s)'
  <2>1. rx \o w \in Seq(Tokens) /\ FromStart(rx \o w)
    BY <1>2, <1>4, Parts, NoiseJoined
  <2>2. (rx \o w) \o s = rx \o (w \o s)
    BY <1>2, Regrouped, SMTT(20)
  <2>3. PICK u \in Seq(Tokens) : u = rx \o w /\ FromStart(u)
    BY <2>1
  <2>4. rx' = u \o s /\ InNoise(u)'
    BY <1>1, <1>3, <1>4, <2>2, <2>3
  <2> QED
    BY <2>4 DEF Awaits
<1>5. CASE a.sent = <<>>
  <2>1. PICK u \in Seq(Tokens) : u = rx /\ FromStart(u)
    BY <1>2
  <2>2. rx' = u /\ InNoise(u)'
    BY <1>1, <1>2, <1>3, <1>5, <2>1, ConcatEmptySeq
  <2> QED
    BY <2>2 DEF InNoise
<1>6. CASE WithLine(a, c)
  <2>1. PICK info \in Info(c), w \in Seq(Tokens), v \in Seq(Tokens),
             t \in Seq(Tokens) :
          /\ FromStart(w) /\ FromStart(v)
          /\ a.sent = w \o (Line(info.line) \o (v \o (OK \o t)))
          /\ a.ok = TRUE /\ a.ctx = info.ctx
    BY <1>6 DEF WithLine
  <2> DEFINE l == Line(info.line)
             s == v \o (OK \o t)
  <2>2. l \in Seq(Tokens) /\ OK \in Seq(Tokens)
    BY LineTyped, FinalFacts
  <2>3. s \in Seq(Tokens)
    <3>1. OK \o t \in Seq(Tokens)
      BY <2>2, Parts
    <3> QED
      BY <3>1, Parts
  <2>4. Ended(s)
    BY <2>1 DEF Ended
  <2> HIDE DEF s
  <2>5. l \o s \in Seq(Tokens)
    BY <2>2, <2>3, Parts
  <2>6. a.sent = w \o (l \o s)
    BY <2>1 DEF s
  <2>7. Awaits(l \o s)'
    <3>1. PICK r \in Seq(Tokens) : r = l \o s
      BY <2>5
    <3>2. Awaits(r)'
      BY <1>4, <2>1, <2>6, <3>1
    <3> QED
      BY <3>1, <3>2 DEF Awaits
  <2>8. Says(info)'
    BY <1>1, <2>1 DEF Says
  <2>9. BeforeLine'
    BY <1>1, <2>3, <2>4, <2>7, <2>8 DEF BeforeLine
  <2> QED
    BY <2>9
<1>7. CASE Bare(a, c)
  <2>1. PICK final \in {OK, ERROR}, w \in Seq(Tokens), t \in Seq(Tokens) :
          /\ FromStart(w)
          /\ a.sent = w \o (final \o t)
          /\ a.ok = (final = OK) /\ a.ctx = Blank
          /\ final = OK => c \in MayBeBare
    BY <1>7 DEF Bare
  <2>2. final \o t \in Seq(Tokens)
    BY FinalFacts, Parts
  <2>3. Awaits(final \o t)'
    <3>1. PICK r \in Seq(Tokens) : r = final \o t
      BY <2>2
    <3>2. Awaits(r)'
      BY <1>4, <2>1, <3>1
    <3> QED
      BY <3>1, <3>2 DEF Awaits
  <2>4. Calm'
    BY <1>1, BlankFacts DEF Calm, Holds, IsContext
  <2>5. final = OK => Ready'
    <3>1. Blank.fieldno = 0
      BY BlankFacts DEF Holds
    <3> QED
      BY <1>1, <2>1, <3>1 DEF Ready, Results, MayBeBare
  <2>6. answer'.ok = (final = OK)
    BY <1>1, <2>1
  <2>7. BeforeEnd'
    BY <2>3, <2>4, <2>5, <2>6 DEF BeforeEnd
  <2> QED
    BY <2>7
<1> QED
  BY <1>5, <1>6, <1>7, AnswerForms

\* Nothing read, nothing held.
LEMMA BlankPartial ==
  ASSUME cmd \in Commands, NEW info \in Info(cmd)
  PROVE  Partial(Blank, info.line, 0)
<1> DEFINE L == info.line
<1>1. /\ SubSeq(L, 1, 0) = <<>> /\ SubSeq(L, 2, 0) = <<>>
      /\ SubSeq(L, 9, 0) = <<>> /\ ~ (0 > 0)
  BY SubSeqEmpty
<1>2. ASSUME cmd = "nsorf"
      PROVE  \E n \in Numbers : \E k \in 1 .. MaxData :
               L = ReceivedLine(n, k) /\ PartlyReceived(Blank, L, n, k, 0)
  <2>1. PICK n \in Numbers : \E k \in 1 .. MaxData : L = ReceivedLine(n, k)
    BY <1>2, InfoOf DEF Gives
  <2>2. PICK k \in 1 .. MaxData : L = ReceivedLine(n, k)
    BY <2>1
  <2>3. k \in Nat /\ k >= 1
    BY Constants
  <2>4. /\ ~ (0 >= 2) /\ ~ (0 >= 4) /\ ~ (0 >= 6) /\ ~ (0 >= 8)
        /\ ~ (0 >= 9 + k) /\ 0 <= 8 + k /\ 0 \div 2 = 0
        /\ 0 \notin {1, 3, 5, 7}
    BY <2>3
  <2>5. PartlyReceived(Blank, L, n, k, 0)
    BY <1>1, <2>4, BlankFacts DEF PartlyReceived
  <2> QED
    BY <2>2, <2>5
<1> HIDE DEF L
<1>3. Partial(Blank, L, 0)
  BY <1>1, <1>2, BlankFacts DEF Partial
<1> QED
  BY <1>3 DEF L

\* Each token leads to the same or the next phase.
LEMMA ReadingRead ==
  ASSUME Unmixed, DecodeChar, aligned
  PROVE  (BeforeLine \/ InsideLine \/ BeforeEnd \/ InsideEnd \/ InNoise(rx))'
<1>1. /\ cmd \in Commands /\ cmd # "none" /\ rx # <<>> /\ rx' = Tail(rx)
      /\ cmd' = cmd /\ answer' = answer
      /\ ctx' = (IF Eol THEN EolCb(Called, Longer, InUrc) ELSE Called)
      /\ rb' = (IF Eol THEN <<>> ELSE Longer)
      /\ is_urc' = (InUrc /\ ~Eol) /\ prev' = Byte
      /\ ~IsFinal(rb)
  BY Decoded DEF Unmixed, Typed, TypeOK
<1>2. /\ Typed /\ NoUrc /\ rx \in Seq(Tokens) /\ rb \in Seq(Tokens)
      /\ BeforeLine \/ InsideLine \/ BeforeEnd \/ InsideEnd \/ InNoise(rx)
  BY <1>1 DEF Unmixed, Typed, Reading
\* Of a whole line, the first p tokens are read.
<1>3. ASSUME NEW info \in Info(cmd), NEW s \in Seq(Tokens), Says(info),
             Ended(s), NEW p \in 0 .. Len(info.line) + 1,
             Along(info.line, p, s), InUrc <=> info.line[1].c \in Names
      PROVE  InsideLine' \/ BeforeEnd'
  <2>0. Len(info.line) \in Nat
    BY <1>1, InfoLines
  <2>1. CASE p <= Len(info.line)
    <3>1. p + 1 \in 1 .. Len(info.line) + 1
      BY <2>0, <2>1
    <3>2. /\ Along(info.line, p + 1, s)'
          /\ is_urc' <=> info.line[1].c \in Names
      BY <1>2, <1>3, <2>1, LineRead
    <3>3. PICK q \in 1 .. Len(info.line) + 1 : q = p + 1
      BY <3>1
    <3>4. Along(info.line, q, s)'
      BY <3>2, <3>3
    <3>5. Says(info)'
      BY <1>1, <1>3 DEF Says
    <3> QED
      BY <1>1, <1>3, <3>2, <3>4, <3>5 DEF InsideLine
  <2>2. CASE p = Len(info.line) + 1
    <3>1. /\ rb' = <<>> /\ is_urc' = FALSE /\ rx' = s /\ Settled(ctx', info)
      BY <1>2, <1>3, <2>2, LineRead
    <3>2. PICK v \in Seq(Tokens) : \E t \in Seq(Tokens) :
            FromStart(v) /\ s = v \o (OK \o t)
      BY <1>3 DEF Ended
    <3>3. PICK t \in Seq(Tokens) : FromStart(v) /\ s = v \o (OK \o t)
      BY <3>2
    <3>4. InNoise(v)'
      BY <3>1, <3>3 DEF InNoise, FromStart
    <3>5. Awaits(OK \o t)'
      BY <3>1, <3>3, <3>4 DEF Awaits
    <3>6. Calm' /\ Ready'
      BY <1>1, <1>3, <3>1 DEF Settled, Calm, Ready, Says, IsContext
    <3>7. answer'.ok = (OK = OK)
      BY <1>1, <1>3 DEF Says
    <3>8. BeforeEnd'
      BY <3>5, <3>6, <3>7 DEF BeforeEnd
    <3> QED
      BY <3>8
  <2> QED
    BY <2>0, <2>1, <2>2
<1>4. CASE BeforeLine
  <2>1. PICK info \in Info(cmd) : \E s \in Seq(Tokens) :
          Says(info) /\ ctx = Blank /\ Ended(s) /\ Awaits(Line(info.line) \o s)
    BY <1>4 DEF BeforeLine
  <2>2. PICK s \in Seq(Tokens) :
          Says(info) /\ ctx = Blank /\ Ended(s) /\ Awaits(Line(info.line) \o s)
    BY <2>1
  <2> DEFINE L == info.line
             l == Line(L)
  <2>3. /\ L \in Seq(Tokens) /\ Len(L) >= 1 /\ Len(L) \in Nat
        /\ l \in Seq(Tokens) /\ Len(l) = Len(L) + 2 /\ l[1] = L[1]
    <3>1. L \in Seq(Tokens) /\ Len(L) >= 1
      BY <1>1, InfoLines
    <3> HIDE DEF L
    <3>2. Len(L) \in Nat /\ 1 \in 1 .. Len(L)
      BY <3>1
    <3> QED
      BY <3>1, <3>2, LineFacts
  <2>4. PICK r \in Seq(Tokens) : r = l \o s
    <3>1. l \o s \in Seq(Tokens)
      BY <2>3, Parts
    <3> QED
      BY <3>1
  <2>5. Calm
    BY <2>2, BlankFacts DEF Calm, Holds, IsContext
  <2>6. CASE Awaits(r)' /\ ctx' = ctx
    <3>1. Awaits(Line(info.line) \o s)'
      BY <2>4, <2>6 DEF Awaits
    <3>2. Says(info)' /\ ctx' = Blank
      BY <1>1, <2>2, <2>6 DEF Says
    <3> QED
      BY <1>1, <2>2, <3>1, <3>2 DEF BeforeLine
  <2>7. CASE rb = <<>> /\ is_urc = FALSE /\ rx = r
    <3>1. Byte = L[1]
      <4>1. l # <<>>
        BY <2>3
      <4> HIDE DEF l, L
      <4> QED
        BY <2>3, <2>4, <2>7, <4>1, TakenFromFirst DEF Byte
    <3>2. InUrc <=> L[1].c \in Names
      BY <2>7, <3>1 DEF InUrc
    <3>3. Along(L, 0, s)
      <4> HIDE DEF L
      <4>1. SubSeq(l, 1, 0) = <<>>
        BY SubSeqEmpty
      <4>2. SubSeq(l, 0 + 1, Len(l)) = l
        <5> HIDE DEF l
        <5> QED
          BY <2>3, Whole
      <4>3. 0 # Len(L) + 1 /\ 0 <= Len(L)
        BY <2>3
      <4>4. Partial(ctx, L, 0)
        BY <1>1, <2>2, <2>3, BlankPartial DEF L
      <4> QED
        BY <2>4, <2>7, <4>1, <4>2, <4>3, <4>4 DEF Along
    <3>4. 0 \in 0 .. Len(L) + 1
      BY <2>3
    <3> HIDE DEF L
    <3> QED
      BY <1>3, <2>2, <3>2, <3>3, <3>4 DEF L
  <2>8. Awaits(r)
    BY <2>2, <2>4
  <2> QED
    BY <1>2, <2>5, <2>6, <2>7, <2>8, AwaitsRead
<1>5. CASE InsideLine
  <2>1. PICK info \in Info(cmd) : \E s \in Seq(Tokens) :
          /\ Says(info) /\ Ended(s)
          /\ \E p \in 1 .. Len(info.line) + 1 : Along(info.line, p, s)
          /\ is_urc <=> info.line[1].c \in Names
    BY <1>5 DEF InsideLine
  <2>2. PICK s \in Seq(Tokens) :
          /\ Says(info) /\ Ended(s)
          /\ \E p \in 1 .. Len(info.line) + 1 : Along(info.line, p, s)
          /\ is_urc <=> info.line[1].c \in Names
    BY <2>1
  <2>3. PICK p \in 1 .. Len(info.line) + 1 : Along(info.line, p, s)
    BY <2>2
  <2>4. Len(info.line) \in Nat /\ info.line \in Seq(Tokens)
    BY <1>1, InfoLines
  <2>5. p \in 0 .. Len(info.line) + 1
    BY <2>4
  <2>6. rb # <<>>
    <3> DEFINE l == Line(info.line)
    <3>1. l \in Seq(Tokens) /\ Len(l) = Len(info.line) + 2
      BY <2>4, LineFacts
    <3>2. rb = SubSeq(l, 1, p)
      BY <2>3 DEF Along
    <3> HIDE DEF l
    <3>3. p \in Nat /\ p > 0 /\ p < Len(l)
      BY <2>4, <3>1
    <3> QED
      BY <3>1, <3>2, <3>3, ReadUpTo
  <2>7. InUrc <=> info.line[1].c \in Names
    BY <2>2, <2>6 DEF InUrc
  <2> QED
    BY <1>3, <2>2, <2>3, <2>5, <2>7
<1>6. CASE BeforeEnd
  <2>1. PICK final \in {OK, ERROR} : \E t \in Seq(Tokens) :
          /\ answer.ok = (final = OK)
          /\ Calm /\ (final = OK => Ready)
          /\ Awaits(final \o t)
    BY <1>6 DEF BeforeEnd
  <2>2. PICK t \in Seq(Tokens) :
          /\ answer.ok = (final = OK)
          /\ Calm /\ (final = OK => Ready)
          /\ Awaits(final \o t)
    BY <2>1
  <2>3. /\ final \in Seq(Tokens) /\ Len(final) = 3 /\ final[1] \in Tokens
        /\ final[1].c \in {"OK", "ERROR"}
        /\ final = OK => final[1] = Char("OK")
    <3>1. /\ final \in Seq(Tokens) /\ Len(final) = 3
          /\ Ending(final[1])
          /\ final = OK => final[1] = Char("OK")
      BY FinalFacts
    <3>2. Len(final) = 3
      BY <3>1
    <3>3. 1 \in 1 .. Len(final)
      BY <3>2
    <3>4. final[1] \in Tokens
      BY <3>1, <3>3, ElementOfSeq
    <3> QED
      BY <3>1, <3>4 DEF Ending
  <2>4. PICK r \in Seq(Tokens) : r = final \o t
    <3>1. final \o t \in Seq(Tokens)
      BY <2>3, Parts
    <3> QED
      BY <3>1
  <2>5. CASE Awaits(r)' /\ ctx' = ctx
    <3>1. Awaits(final \o t)'
      BY <2>4, <2>5 DEF Awaits
    <3>2. Calm' /\ (final = OK => Ready')
      BY <1>1, <2>2, <2>5 DEF Calm, Ready, IsContext
    <3> QED
      BY <1>1, <2>2, <3>1, <3>2 DEF BeforeEnd
  <2>6. CASE rb = <<>> /\ is_urc = FALSE /\ rx = r
    <3>0. final # <<>>
      <4>1. Len(<<>>) = 0 /\ Len(final) = 3
        BY <2>3
      <4>2. Len(final) # Len(<<>>)
        BY <4>1
      <4> QED
        BY <4>2
    <3>1. Byte = final[1] /\ rx' = Tail(final) \o t
      BY <1>1, <2>3, <2>4, <2>6, <3>0, TakenFromFirst DEF Byte
    <3>2. ~InUrc
      BY <2>3, <2>6, <3>1 DEF InUrc, Names
    <3>3. ~Eol
      BY <2>3, <3>1, TokenFacts DEF Eol
    <3>4. Longer = SubSeq(final, 1, 1) /\ Tail(final) = SubSeq(final, 2, 3)
      <4>1. /\ 0 \in Nat /\ 0 < Len(final) /\ 0 + 1 = 1 /\ 0 + 2 = 2
        BY <2>3
      <4>2. /\ Append(SubSeq(final, 1, 0), final[1]) = SubSeq(final, 1, 1)
            /\ Tail(SubSeq(final, 1, 3)) = SubSeq(final, 2, 3)
        BY <2>3, <4>1, ReadUpTo
      <4>3. SubSeq(final, 1, 0) = <<>> /\ SubSeq(final, 1, 3) = final
        BY <2>3, SubSeqEmpty, Whole
      <4> QED
        BY <2>6, <3>1, <4>2, <4>3 DEF Longer
    <3>5. final = OK => IsContext(ctx)' /\ Results(ctx)' = Results(answer.ctx)'
      <4>1. ASSUME final = OK
            PROVE  /\ IsContext(Called) /\ Results(Called) = Results(ctx)
                   /\ Results(ctx) = Results(answer.ctx)
        <5>1. IsContext(ctx) /\ Ready
          BY <2>2, <4>1 DEF Calm
        <5>2. Byte = Char("OK")
          BY <2>3, <3>1, <4>1
        <5> QED
          BY <1>1, <1>2, <3>2, <5>1, <5>2, Unheard DEF Ready
      <4> QED
        BY <1>1, <3>3, <4>1 DEF IsContext, Results
    <3>6. 1 \in 1 .. 3 /\ 1 + 1 = 2
      OBVIOUS
    <3>7. /\ answer'.ok = (final = OK) /\ rb' = SubSeq(final, 1, 1)
          /\ is_urc' = FALSE /\ rx' = SubSeq(final, 2, 3) \o t
      BY <1>1, <2>2, <3>1, <3>2, <3>3, <3>4
    <3>8. InsideEnd'
      BY <3>5, <3>6, <3>7 DEF InsideEnd
    <3> QED
      BY <3>8
  <2>7. Awaits(r)
    BY <2>2, <2>4
  <2> QED
    BY <1>2, <2>2, <2>5, <2>6, <2>7, AwaitsRead
<1>7. CASE InsideEnd
  <2>1. PICK final \in {OK, ERROR} : \E t \in Seq(Tokens) : \E p \in 1 .. 3 :
          /\ answer.ok = (final = OK)
          /\ final = OK => IsContext(ctx) /\ Results(ctx) = Results(answer.ctx)
          /\ rb = SubSeq(final, 1, p) /\ is_urc = FALSE
          /\ rx = SubSeq(final, p + 1, 3) \o t
    BY <1>7 DEF InsideEnd
  <2>2. PICK t \in Seq(Tokens), p \in 1 .. 3 :
          /\ answer.ok = (final = OK)
          /\ final = OK => IsContext(ctx) /\ Results(ctx) = Results(answer.ctx)
          /\ rb = SubSeq(final, 1, p) /\ is_urc = FALSE
          /\ rx = SubSeq(final, p + 1, 3) \o t
    BY <2>1
  <2>3. /\ final \in Seq(Tokens) /\ Len(final) = 3 /\ final[2] = cr
        /\ final[3] = lf
    BY FinalFacts
  <2>4. SubSeq(final, 1, 3) = final
    BY <2>3, Whole
  <2>5. p \in {1, 2}
    <3>1. p # 3
      BY <1>1, <2>2, <2>4 DEF IsFinal
    <3> QED
      BY <3>1
  <2>6. /\ p \in Nat /\ p > 0 /\ p < Len(final) /\ p + 1 \in 1 .. 3
        /\ (p + 1) + 1 = p + 2
    BY <2>3, <2>5
  <2>7. /\ rb # <<>>
        /\ Append(rb, final[p + 1]) = SubSeq(final, 1, p + 1)
        /\ SubSeq(final, p + 1, 3) \in Seq(Tokens)
        /\ SubSeq(final, p + 1, 3) # <<>>
        /\ SubSeq(final, p + 1, 3)[1] = final[p + 1]
        /\ Tail(SubSeq(final, p + 1, 3)) = SubSeq(final, p + 2, 3)
    <3>1. Len(final) = 3 /\ rb = SubSeq(final, 1, p)
      BY <2>2, <2>3
    <3>2. /\ SubSeq(final, 1, p) # <<>>
          /\ Append(SubSeq(final, 1, p), final[p + 1])
               = SubSeq(final, 1, p + 1)
          /\ SubSeq(final, p + 1, Len(final)) \in Seq(Tokens)
          /\ SubSeq(final, p + 1, Len(final)) # <<>>
          /\ SubSeq(final, p + 1, Len(final))[1] = final[p + 1]
          /\ Tail(SubSeq(final, p + 1, Len(final)))
               = SubSeq(final, p + 2, Len(final))
      BY <2>3, <2>6, ReadUpTo
    <3> QED
      BY <3>1, <3>2
  <2>8. Byte = final[p + 1] /\ rx' = SubSeq(final, p + 2, 3) \o t
    <3> DEFINE u == SubSeq(final, p + 1, 3)
    <3>1. /\ u \in Seq(Tokens) /\ u # <<>> /\ u[1] = final[p + 1]
          /\ Tail(u) = SubSeq(final, p + 2, 3) /\ rx = u \o t
      BY <2>2, <2>7
    <3> HIDE DEF u
    <3>2. Head(rx) = u[1] /\ Tail(rx) = Tail(u) \o t
      BY <3>1, TakenFromFirst
    <3> QED
      BY <1>1, <3>1, <3>2 DEF Byte
  <2>9. ~InUrc
    BY <2>2, <2>7 DEF InUrc
  <2>10. Longer = SubSeq(final, 1, p + 1) /\ Byte \in {cr, lf}
    <3>1. final[p + 1] \in {cr, lf}
      <4>1. p + 1 = 2 \/ p + 1 = 3
        BY <2>5
      <4> QED
        BY <2>3, <4>1
    <3> QED
      BY <2>7, <2>8, <3>1 DEF Longer
  <2>11. ~Eol
    <3>1. CASE p = 1
      <4>1. Byte = cr
        BY <2>3, <2>8, <3>1
      <4> QED
        BY <4>1, TokenFacts DEF Eol
    <3>2. CASE p = 2
      <4>1. p + 1 = 3
        BY <3>2
      <4>2. Longer = final
        BY <2>4, <2>10, <4>1
      <4> QED
        BY <4>2 DEF Eol, IsFinal
    <3> QED
      BY <2>5, <3>1, <3>2
  <2>12. final = OK => IsContext(ctx)' /\ Results(ctx)' = Results(answer.ctx)'
    <3>1. ASSUME final = OK
          PROVE  /\ IsContext(Called) /\ Results(Called) = Results(ctx)
                 /\ Results(ctx) = Results(answer.ctx)
      BY <1>1, <1>2, <2>2, <2>9, <2>10, <3>1, Unheard
    <3> QED
      BY <1>1, <2>11, <3>1 DEF IsContext, Results
  <2>13. /\ answer'.ok = (final = OK) /\ rb' = SubSeq(final, 1, p + 1)
         /\ is_urc' = FALSE /\ rx' = SubSeq(final, (p + 1) + 1, 3) \o t
    BY <1>1, <2>2, <2>6, <2>8, <2>9, <2>10, <2>11
  <2>14. InsideEnd'
    BY <2>6, <2>12, <2>13 DEF InsideEnd
  <2> QED
    BY <2>14
<1>8. CASE InNoise(rx)
  <2>1. PICK w \in Seq(Tokens) : w = rx
    BY <1>2
  <2>2. InNoise(w) /\ w # <<>> /\ Byte = w[1]
    BY <1>1, <1>8, <2>1, Taken DEF Byte
  <2>3. InNoise(Tail(w))'
    BY <1>2, <2>2, NoiseRead
  <2>4. InNoise(rx)'
    BY <1>1, <2>1, <2>3 DEF InNoise
  <2> QED
    BY <2>4
<1> QED
  BY <1>2, <1>4, <1>5, <1>6, <1>7, <1>8

\* The inductive invariant of RightAnswer: it holds at the start,
LEMMA UnmixedStart == Init => Unmixed
<1> SUFFICES ASSUME Init PROVE Unmixed
  OBVIOUS
<1>1. Typed
  BY TypedStart
<1>2. Trailing(rx)
  <2>1. \A i \in 1 .. Len(<<>>) - 1 : Follows(<<>>[i], <<>>[i + 1])
    <3>1. Len(<<>>) = 0 /\ 1 .. 0 - 1 = {}
      OBVIOUS
    <3> QED
      BY <3>1
  <2>2. Noise(<<>>)
    BY <2>1 DEF Noise
  <2> QED
    BY <2>2 DEF Init, Trailing
<1>3. NoUrc /\ Reading
  BY DEF Init, NoUrc, Reading
<1> QED
  BY <1>1, <1>2, <1>3 DEF Unmixed

\* and every step keeps it.
LEMMA UnmixedStep == Unmixed /\ [Next]_vars => Unmixed'
<1> SUFFICES ASSUME Unmixed, [Next]_vars PROVE Unmixed'
  OBVIOUS
<1>1. Typed' /\ Trailing(rx') /\ NoUrc'
  BY TypedStep, TrailingStep, NoUrcStep DEF Unmixed
<1>2. Trailing(rx)'
  BY <1>1 DEF Trailing, FromStart, Noise
<1>3. Reading'
  <2>1. ASSUME NEW c \in Commands, NEW a \in Answers(c), Ask(c, a)
        PROVE  Reading'
    BY <2>1, ReadingAsked DEF Reading
  <2>2. ASSUME DecodeChar PROVE Reading'
    <3>1. cmd' = cmd /\ aligned' = aligned
      BY <2>2, Decoded
    <3> QED
      BY <2>2, <3>1, ReadingRead DEF Reading
  <2>3. ASSUME Return \/ TimeOut PROVE Reading'
    BY <2>3 DEF Return, TimeOut, Reading
  <2>4. CASE UNCHANGED vars
    <3>1. /\ rx' = rx /\ cmd' = cmd /\ rb' = rb /\ prev' = prev
          /\ is_urc' = is_urc /\ ctx' = ctx /\ answer' = answer
          /\ aligned' = aligned
      BY <2>4 DEF vars
    <3>2. \A w : InNoise(w) => InNoise(w)'
      BY <3>1 DEF InNoise
    <3>3. \A x : Awaits(x) => Awaits(x)'
      BY <3>1, <3>2 DEF Awaits
    <3>4. \A L, p, x : Along(L, p, x) => Along(L, p, x)'
      <4>1. ASSUME NEW L, NEW q, Partial(ctx, L, q) PROVE Partial(ctx, L, q)'
        BY <3>1, <4>1 DEF Partial, PartlyReceived, Holds, IsContext
      <4> QED
        BY <3>1, <4>1 DEF Along
    <3>5. \A info : Says(info) => Says(info)'
      BY <3>1 DEF Says
    <3>6. (Calm => Calm') /\ (Ready => Ready')
      BY <3>1 DEF Calm, Ready, Results, IsContext
    <3>7. BeforeLine => BeforeLine'
      BY <3>1, <3>3, <3>5 DEF BeforeLine
    <3>8. InsideLine => InsideLine'
      BY <3>1, <3>4, <3>5 DEF InsideLine
    <3>9. BeforeEnd => BeforeEnd'
      BY <3>1, <3>3, <3>6 DEF BeforeEnd
    <3>10. InsideEnd => InsideEnd'
      BY <3>1 DEF InsideEnd, Results, IsContext
    <3>11. InNoise(rx) => InNoise(rx)'
      BY <3>1 DEF InNoise
    <3> QED
      BY <3>1, <3>7, <3>8, <3>9, <3>10, <3>11 DEF Unmixed, Reading
  <2> QED
    BY <2>1, <2>2, <2>3, <2>4 DEF Next
<1> QED
  BY <1>1, <1>2, <1>3 DEF Unmixed

\* A decoder that starts at the beginning of a line, with no answer left over,
\* returns the verdict of its own answer and the values of its information
\* line, whatever notifications come before, between and after the lines:
\* decode_input() and the callbacks of all seven commands.
THEOREM RightResults == Spec => []RightAnswer
<1>1. Unmixed => RightAnswer
  BY ReadingIsRight DEF Unmixed
<1> QED
  BY <1>1, UnmixedStart, UnmixedStep, PTL DEF Spec
=============================================================================
