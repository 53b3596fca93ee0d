------------------------------ MODULE GpsProofs ------------------------------
(***************************************************************************)
(* The cache holds one fix of the receiver, though every sentence may lose *)
(* a token, and the copies never take a sample back in time.               *)
(*                                                                         *)
(* A sentence that lost a token of its content is not valid, because the   *)
(* sum changes by exactly that token (LossChangesSum).  One that lost its  *)
(* star is decoded, the sum still in its last field.  One that lost its    *)
(* line feed waits in nmea_buffer for the next (Waits), which brings       *)
(* either another carriage return before the dollar or a body that ends    *)
(* where the first did.                                                    *)
(***************************************************************************)
EXTENDS Gps, SequenceTheorems, FiniteSetTheorems, FunctionTheorems,
        WellFoundedInduction, TLAPS

\* The characters the decoder tells apart, the tokens without sums, and those
\* a body is made of.
Words  == {"$", ",", "*", "CR", "LF", "A", "V"} \cup Kinds
Plain  == {Tok(c) : c \in Words}
            \cup {<<c, n, {}>> : c \in {"T", "P", "Q", "D", "V"}, n \in Nat}
Tokens == Plain \cup {Sum(S) : S \in SUBSET Plain}
Inner  == Plain \ (Ends \cup {dollar})

star == Tok("*")
CR   == Tok("CR")
LF   == Tok("LF")

-----------------------------------------------------------------------------
(* Tokens, least and greatest elements, sequences. *)

\* The tokens, told apart by their first field.
LEMMA TokenFacts ==
  /\ \A c \in Words : Tok(c) \in Plain /\ Tok(c)[1] = c /\ Tok(c)[2] = 0
  /\ Ends = {star, CR, LF} /\ dollar = Tok("$") /\ comma = Tok(",")
  /\ {star, CR, LF, dollar, comma} \subseteq Plain
  /\ star[1] = "*" /\ CR[1] = "CR" /\ LF[1] = "LF" /\ dollar[1] = "$"
  /\ comma[1] = ","
  /\ \A S : Sum(S)[1] = "sum" /\ Sum(S)[2] = 0
  /\ \A S, R : Sum(S) = Sum(R) => S = R
  /\ \A S \in SUBSET Plain : Sum(S) \in Tokens
  /\ Plain \subseteq Tokens /\ Inner \subseteq Plain
<1>1. \A c \in Words : Tok(c) \in Plain /\ Tok(c)[1] = c /\ Tok(c)[2] = 0
  BY DEF Tok, Plain
<1>2. /\ "$" \in Words /\ "," \in Words /\ "*" \in Words /\ "CR" \in Words
      /\ "LF" \in Words
  BY DEF Words
<1>3. Ends = {star, CR, LF} /\ dollar = Tok("$") /\ comma = Tok(",")
  BY DEF Ends, star, CR, LF, dollar, comma
<1>4. /\ star \in Plain /\ CR \in Plain /\ LF \in Plain /\ dollar \in Plain
      /\ comma \in Plain
      /\ star[1] = "*" /\ CR[1] = "CR" /\ LF[1] = "LF" /\ dollar[1] = "$"
      /\ comma[1] = ","
  BY <1>1, <1>2, <1>3 DEF star, CR, LF
<1>5. \A S : Sum(S)[1] = "sum" /\ Sum(S)[2] = 0 /\ Sum(S)[3] = S
  BY DEF Sum
<1>6. \A S, R : Sum(S) = Sum(R) => S = R
  BY <1>5
<1>7. \A S \in SUBSET Plain : Sum(S) \in Tokens
  BY DEF Tokens
<1>8. Plain \subseteq Tokens /\ Inner \subseteq Plain
  BY DEF Tokens, Inner
<1> QED
  BY <1>1, <1>3, <1>4, <1>5, <1>6, <1>7, <1>8

\* A sum is none of the other tokens.
LEMMA SumApart ==
  ASSUME NEW S
  PROVE  Sum(S) \notin Ends /\ Sum(S) # dollar /\ Sum(S) # comma
BY TokenFacts

\* Less-than on the natural numbers is well-founded.
LEMMA LessWellFounded ==
  \E R : IsWellFoundedOn(R, Nat) /\ \A x, y \in Nat : x < y => <<x, y>> \in R
<1>1. IsWellFoundedOn(OpToRel(<, Nat), Nat)
  BY NatLessThanWellFounded
<1>2. \A x, y \in Nat : x < y => <<x, y>> \in OpToRel(<, Nat)
  BY DEF OpToRel
<1> QED
  BY <1>1, <1>2, Zenon

\* Min() of natural numbers.
LEMMA MinOfNats ==
  ASSUME NEW T \in SUBSET Nat, T # {}
  PROVE  Min(T) \in T /\ \A y \in T : Min(T) <= y
<1>1. PICK R : /\ IsWellFoundedOn(R, Nat)
               /\ \A x, y \in Nat : x < y => <<x, y>> \in R
  BY LessWellFounded
<1>2. \E x \in T : \A y \in T : ~ (<<y, x>> \in R)
  <2>1. IsWellFoundedOn(R, Nat)
    BY <1>1
  <2> QED
    BY <2>1, WFMin
<1>3. PICK x \in T : \A y \in T : ~ (<<y, x>> \in R)
  BY <1>2
<1>4. ASSUME NEW y \in T PROVE x <= y
  <2>1. x \in Nat /\ y \in Nat
    BY <1>3, <1>4
  <2>2. ~ (y < x)
    BY <1>1, <1>3, <2>1, Zenon
  <2> QED
    BY <2>1, <2>2
<1>5. \E z \in T : \A y \in T : z <= y
  BY <1>4
<1> QED
  BY <1>5 DEF Min

\* Min() of a set whose least element is known.
LEMMA MinIs ==
  ASSUME NEW T \in SUBSET Int, NEW e \in T, \A y \in T : e <= y
  PROVE  Min(T) = e
<1>1. \E x \in T : \A y \in T : x <= y
  OBVIOUS
<1>2. Min(T) \in T /\ \A y \in T : Min(T) <= y
  BY <1>1, Zenon DEF Min
<1>3. e \in Int /\ Min(T) \in Int /\ e <= Min(T) /\ Min(T) <= e
  BY <1>2
<1> QED
  BY <1>3

\* Max(), likewise.
LEMMA MaxIs ==
  ASSUME NEW T \in SUBSET Int, NEW e \in T, \A y \in T : y <= e
  PROVE  Max(T) = e
<1>1. \E x \in T : \A y \in T : x >= y
  OBVIOUS
<1>2. Max(T) \in T /\ \A y \in T : Max(T) >= y
  BY <1>1, Zenon DEF Max
<1>3. e \in Int /\ Max(T) \in Int /\ e >= Max(T) /\ Max(T) >= e
  BY <1>2
<1> QED
  BY <1>3

\* A sequence without one of its elements.
LEMMA Removed ==
  ASSUME NEW S, NEW s \in Seq(S), NEW g \in 1 .. Len(s)
  PROVE  LET r == RemoveAt(s, g) IN
         /\ r \in Seq(S) /\ Len(r) = Len(s) - 1
         /\ \A i \in 1 .. g - 1 : r[i] = s[i]
         /\ \A i \in g .. Len(s) - 1 : r[i] = s[i + 1]
<1> DEFINE a == SubSeq(s, 1, g - 1)
           b == SubSeq(s, g + 1, Len(s))
<1>1. Len(s) \in Nat /\ g \in Nat /\ \A i \in 1 .. Len(s) : s[i] \in S
  BY ElementOfSeq
<1>2. /\ a \in Seq(S) /\ Len(a) = g - 1
      /\ \A i \in 1 .. g - 1 : a[i] = s[i]
  <2>1. 1 \in Int /\ g - 1 \in Int /\ \A i \in 1 .. g - 1 : s[i] \in S
    BY <1>1
  <2>2. /\ a \in Seq(S) /\ Len(a) = IF 1 <= g - 1 THEN (g - 1) - 1 + 1 ELSE 0
        /\ \A i \in 1 .. (g - 1) - 1 + 1 : a[i] = s[1 + i - 1]
    BY <2>1, SubSeqProperties
  <2> HIDE DEF a
  <2> QED
    BY <1>1, <2>2
<1>3. /\ b \in Seq(S) /\ Len(b) = Len(s) - g
      /\ \A i \in 1 .. Len(s) - g : b[i] = s[g + i]
  <2>1. /\ g + 1 \in Int /\ Len(s) \in Int
        /\ \A i \in g + 1 .. Len(s) : s[i] \in S
    BY <1>1
  <2>2. /\ b \in Seq(S)
        /\ Len(b) = IF g + 1 <= Len(s) THEN Len(s) - (g + 1) + 1 ELSE 0
        /\ \A i \in 1 .. Len(s) - (g + 1) + 1 : b[i] = s[(g + 1) + i - 1]
    BY <2>1, SubSeqProperties
  <2> HIDE DEF b
  <2> QED
    BY <1>1, <2>2
<1>4. RemoveAt(s, g) = a \o b
  BY DEF RemoveAt
<1> HIDE DEF a, b
<1>5. /\ a \o b \in Seq(S) /\ Len(a \o b) = Len(a) + Len(b)
      /\ \A i \in 1 .. Len(a) + Len(b) :
           (a \o b)[i] = IF i <= Len(a) THEN a[i] ELSE b[i - Len(a)]
  BY <1>2, <1>3, ConcatProperties
<1> DEFINE r == a \o b
<1> HIDE DEF r
<1>6. \A i \in 1 .. g - 1 : r[i] = s[i]
  BY <1>1, <1>2, <1>3, <1>5 DEF r
<1>7. ASSUME NEW i \in g .. Len(s) - 1 PROVE r[i] = s[i + 1]
  <2>1. /\ i \in 1 .. Len(a) + Len(b) /\ ~ (i <= Len(a))
        /\ i - Len(a) \in 1 .. Len(s) - g /\ g + (i - Len(a)) = i + 1
    BY <1>1, <1>2, <1>3
  <2> QED
    BY <1>3, <1>5, <2>1 DEF r
<1>8. r \in Seq(S) /\ Len(r) = Len(s) - 1
  BY <1>1, <1>2, <1>3, <1>5 DEF r
<1> QED
  BY <1>4, <1>6, <1>7, <1>8 DEF r

\* The two parts of a concatenation.
LEMMA Joined ==
  ASSUME NEW S, NEW a \in Seq(S), NEW b \in Seq(S)
  PROVE  /\ a \o b \in Seq(S) /\ Len(a \o b) = Len(a) + Len(b)
         /\ Len(a) \in Nat /\ Len(b) \in Nat
         /\ \A i \in 1 .. Len(a) : (a \o b)[i] = a[i]
         /\ \A i \in 1 .. Len(b) : (a \o b)[Len(a) + i] = b[i]
<1>1. /\ a \o b \in Seq(S) /\ Len(a \o b) = Len(a) + Len(b)
      /\ \A i \in 1 .. Len(a) + Len(b) :
           (a \o b)[i] = IF i <= Len(a) THEN a[i] ELSE b[i - Len(a)]
  BY ConcatProperties
<1>2. Len(a) \in Nat /\ Len(b) \in Nat
  BY LenProperties
<1>3. \A i \in 1 .. Len(a) : (a \o b)[i] = a[i]
  BY <1>1, <1>2
<1>4. ASSUME NEW i \in 1 .. Len(b) PROVE (a \o b)[Len(a) + i] = b[i]
  <2>1. /\ Len(a) + i \in 1 .. Len(a) + Len(b) /\ ~ (Len(a) + i <= Len(a))
        /\ (Len(a) + i) - Len(a) = i
    BY <1>2
  <2> QED
    BY <1>1, <2>1
<1> QED
  BY <1>1, <1>2, <1>3, <1>4

\* A part of a sequence.
LEMMA Part ==
  ASSUME NEW S, NEW s \in Seq(S), NEW m \in 1 .. Len(s) + 1,
         NEW n \in 0 .. Len(s), m <= n + 1
  PROVE  /\ SubSeq(s, m, n) \in Seq(S) /\ Len(SubSeq(s, m, n)) = n + 1 - m
         /\ \A i \in 1 .. n + 1 - m : SubSeq(s, m, n)[i] = s[m - 1 + i]
<1> DEFINE q == SubSeq(s, m, n)
<1>1. /\ m \in Int /\ n \in Int /\ Len(s) \in Nat
      /\ \A i \in m .. n : s[i] \in S
  BY ElementOfSeq, LenProperties
<1>2. /\ q \in Seq(S) /\ Len(q) = IF m <= n THEN n - m + 1 ELSE 0
      /\ \A i \in 1 .. n - m + 1 : q[i] = s[m + i - 1]
  BY <1>1, SubSeqProperties
<1> HIDE DEF q
<1>3. /\ Len(q) = n + 1 - m
      /\ \A i \in 1 .. n + 1 - m :
           i \in 1 .. n - m + 1 /\ m + i - 1 = m - 1 + i
  BY <1>1, <1>2
<1>4. \A i \in 1 .. n + 1 - m : q[i] = s[m - 1 + i]
  BY <1>2, <1>3
<1> QED
  BY <1>2, <1>3, <1>4 DEF q

-----------------------------------------------------------------------------
(* nmea_valid() *)

\* The end of the body.
LEMMA BodyPart ==
  ASSUME NEW S, NEW b \in Seq(S)
  PROVE  \E e \in 1 .. Len(b) + 1 :
           /\ Body(b) = SubSeq(b, 1, e - 1)
           /\ \A i \in 2 .. Len(b) : b[i] \in Ends => e <= i
<1> DEFINE T == {i \in 2 .. Len(b) : b[i] \in Ends} \cup {Len(b) + 1}
<1>1. Len(b) \in Nat
  BY LenProperties
<1>2. T \in SUBSET Nat /\ T # {} /\ \A i \in T : i \in 1 .. Len(b) + 1
  BY <1>1
<1>3. Body(b) = SubSeq(b, 1, Min(T) - 1)
  BY DEF Body
<1>4. \A i \in 2 .. Len(b) : b[i] \in Ends => i \in T
  OBVIOUS
<1> HIDE DEF T
<1>5. Min(T) \in T /\ \A y \in T : Min(T) <= y
  BY <1>2, MinOfNats
<1> QED
  BY <1>2, <1>3, <1>4, <1>5

\* The body ends before the first end behind the first character.
LEMMA BodyIs ==
  ASSUME NEW S, NEW b \in Seq(S), NEW e \in 2 .. Len(b), b[e] \in Ends,
         \A i \in 2 .. e - 1 : b[i] \notin Ends
  PROVE  Body(b) = SubSeq(b, 1, e - 1)
<1> DEFINE T == {i \in 2 .. Len(b) : b[i] \in Ends} \cup {Len(b) + 1}
<1>1. Len(b) \in Nat
  BY LenProperties
<1>2. T \in SUBSET Int /\ e \in T /\ \A y \in T : e <= y
  BY <1>1
<1>3. Body(b) = SubSeq(b, 1, Min(T) - 1)
  BY DEF Body
<1> HIDE DEF T
<1>4. Min(T) = e
  BY <1>2, MinIs
<1> QED
  BY <1>3, <1>4

\* An end comes before the first dollar.
Headless(b) ==
  \E e \in 2 .. Len(b) : b[e] \in Ends /\ \A i \in 1 .. e - 1 : b[i] # dollar

\* Without a dollar before its end a line is not valid.
LEMMA NoPreamble ==
  ASSUME NEW S, NEW b \in Seq(S),
         Headless(b) \/ \A i \in 1 .. Len(b) : b[i] # dollar
  PROVE  ~Valid(b)
<1>1. PICK e \in 1 .. Len(b) + 1 :
        /\ Body(b) = SubSeq(b, 1, e - 1)
        /\ \A i \in 2 .. Len(b) : b[i] \in Ends => e <= i
  BY BodyPart
<1>2. Len(b) \in Nat
  BY LenProperties
<1>3. \A i \in 1 .. e - 1 : b[i] # dollar
  BY <1>1, <1>2 DEF Headless
<1> DEFINE q == SubSeq(b, 1, e - 1)
<1>4. /\ q \in Seq(S) /\ Len(q) = e - 1
      /\ \A i \in 1 .. e - 1 : q[i] = b[i]
  <2>1. /\ 1 \in 1 .. Len(b) + 1 /\ e - 1 \in 0 .. Len(b)
        /\ 1 <= (e - 1) + 1 /\ (e - 1) + 1 - 1 = e - 1
        /\ \A i \in 1 .. e - 1 : 1 - 1 + i = i
    BY <1>2
  <2>2. /\ q \in Seq(S) /\ Len(q) = (e - 1) + 1 - 1
        /\ \A i \in 1 .. (e - 1) + 1 - 1 : q[i] = b[1 - 1 + i]
    BY <2>1, Part
  <2> HIDE DEF q
  <2> QED
    BY <2>1, <2>2
<1> HIDE DEF q
<1>5. DOMAIN q = 1 .. e - 1
  BY <1>4, LenProperties
<1>6. dollar \notin ToSet(q)
  BY <1>3, <1>4, <1>5 DEF ToSet
<1> QED
  BY <1>1, <1>6 DEF Valid, q

\* The tokens that occur an odd number of times behind position d.
Places(s, d, c) == {i \in d + 1 .. Len(s) : s[i] = c}
OddBehind(s, d) ==
  {c \in {s[i] : i \in d + 1 .. Len(s)} : Cardinality(Places(s, d, c)) % 2 = 1}

\* The sum of what follows the only dollar.
LEMMA ChecksumIs ==
  ASSUME NEW S, NEW s \in Seq(S), NEW d \in 0 .. Len(s),
         d = 0 \/ s[d] = dollar,
         \A i \in d + 1 .. Len(s) : s[i] # dollar
  PROVE  Checksum(s) = OddBehind(s, d)
<1> DEFINE T == {i \in DOMAIN s : s[i] = dollar} \cup {0}
           q == SubSeq(s, d + 1, Len(s))
<1>1. Len(s) \in Nat /\ DOMAIN s = 1 .. Len(s)
  BY LenProperties
<1>2. T \in SUBSET Int /\ d \in T /\ \A y \in T : y <= d
  BY <1>1
<1>3. Max(T) = d
  <2> HIDE DEF T
  <2> QED
    BY <1>2, MaxIs
<1>4. q \in Seq(S) /\ Len(q) = Len(s) - d
      /\ \A i \in 1 .. Len(s) - d : q[i] = s[d + i]
  <2>0. \A i \in 1 .. Len(s) - d : (d + 1) - 1 + i = d + i
    BY <1>1
  <2>1. /\ d + 1 \in 1 .. Len(s) + 1 /\ Len(s) \in 0 .. Len(s)
        /\ d + 1 <= Len(s) + 1 /\ Len(s) + 1 - (d + 1) = Len(s) - d
    <3>1. d \in Nat /\ Len(s) \in Nat /\ d <= Len(s)
      BY <1>1
    <3> QED
      BY <3>1
  <2>2. /\ q \in Seq(S) /\ Len(q) = Len(s) + 1 - (d + 1)
        /\ \A i \in 1 .. Len(s) + 1 - (d + 1) : q[i] = s[(d + 1) - 1 + i]
    BY <2>1, Part
  <2> HIDE DEF q
  <2> QED
    BY <2>0, <2>1, <2>2
<1>5. ToSet(q) = {s[i] : i \in d + 1 .. Len(s)}
  <2> HIDE DEF q
  <2>1. DOMAIN q = 1 .. Len(s) - d
    BY <1>4, LenProperties
  <2>2. ASSUME NEW i \in 1 .. Len(s) - d
        PROVE  q[i] \in {s[k] : k \in d + 1 .. Len(s)}
    BY <1>1, <1>4
  <2>3. ASSUME NEW k \in d + 1 .. Len(s)
        PROVE  k - d \in 1 .. Len(s) - d /\ q[k - d] = s[k]
    <3>1. k - d \in 1 .. Len(s) - d /\ d + (k - d) = k
      BY <1>1
    <3> QED
      BY <1>4, <3>1
  <2> QED
    BY <2>1, <2>2, <2>3 DEF ToSet
<1>6. Checksum(s) =
        {c \in ToSet(SubSeq(s, Max(T) + 1, Len(s))) :
           Cardinality({i \in Max(T) + 1 .. Len(s) : s[i] = c}) % 2 = 1}
  BY DEF Checksum
<1>7. Checksum(s) =
        {c \in ToSet(q) :
           Cardinality({i \in d + 1 .. Len(s) : s[i] = c}) % 2 = 1}
  <2> HIDE DEF T
  <2> QED
    BY <1>3, <1>6
<1> HIDE DEF q
<1> QED
  BY <1>5, <1>7 DEF OddBehind, Places

\* The sum of a sentence.
LEMMA ChecksumType ==
  ASSUME NEW S, NEW s \in Seq(S), \A i \in 1 .. Len(s) : s[i] # dollar
  PROVE  Checksum(s) = OddBehind(s, 0) /\ Checksum(s) \in SUBSET S
<1>1. Len(s) \in Nat /\ \A i \in 1 .. Len(s) : s[i] \in S
  BY ElementOfSeq, LenProperties
<1>2. 0 \in 0 .. Len(s) /\ \A i \in 0 + 1 .. Len(s) : s[i] # dollar
  BY <1>1
<1>3. Checksum(s) = OddBehind(s, 0)
  BY <1>2, ChecksumIs
<1> QED
  BY <1>1, <1>3 DEF OddBehind

\* The places of a token are finitely many.
LEMMA PlacesFinite ==
  ASSUME NEW S, NEW s \in Seq(S), NEW d \in Nat, NEW c
  PROVE  /\ IsFiniteSet(Places(s, d, c))
         /\ Cardinality(Places(s, d, c)) \in Nat
         /\ Cardinality(Places(s, d, c)) = 0 <=> Places(s, d, c) = {}
<1> DEFINE P == Places(s, d, c)
<1>1. Len(s) \in Nat
  BY LenProperties
<1>2. IsFiniteSet(d + 1 .. Len(s)) /\ P \in SUBSET (d + 1 .. Len(s))
  BY <1>1, FS_Interval DEF Places
<1> HIDE DEF P
<1>3. IsFiniteSet(P)
  BY <1>2, FS_Subset
<1>4. Cardinality(P) \in Nat /\ (Cardinality(P) = 0 <=> P = {})
  BY <1>3, FS_CardinalityType, FS_EmptySet
<1> QED
  BY <1>3, <1>4 DEF P

\* The neighbours of an odd number are even.
LEMMA Alternates ==
  ASSUME NEW a \in Nat, NEW b \in Nat, b = a - 1
  PROVE  a % 2 = 1 <=> ~ (b % 2 = 1)
OBVIOUS

\* A token that is lost changes the sum: what occurred an odd number of times
\* now occurs an even number of times, or the other way round.
LEMMA LossChangesSum ==
  ASSUME NEW S, NEW s \in Seq(S), \A i \in 1 .. Len(s) : s[i] # dollar,
         NEW y \in Seq(S), NEW d \in Nat \ {0}, NEW j \in 1 .. Len(s),
         Len(y) = d + Len(s) - 1, y[d] = dollar,
         \A i \in 1 .. j - 1 : y[d + i] = s[i],
         \A i \in j .. Len(s) - 1 : y[d + i] = s[i + 1]
  PROVE  Checksum(y) # Checksum(s)
<1> DEFINE x == s[j]
           A == Places(s, 0, x)
           B == Places(y, d, x)
           R == A \ {j}
           f == [i \in R |-> IF i < j THEN i + d ELSE i + d - 1]
<1>1. Len(s) \in Nat /\ Len(y) \in Nat /\ j \in Nat
  BY LenProperties
<1>2. ASSUME NEW k \in d + 1 .. Len(y)
      PROVE  \/ k - d \in 1 .. j - 1 /\ y[k] = s[k - d]
             \/ k - d + 1 \in j + 1 .. Len(s) /\ y[k] = s[k - d + 1]
  <2>1. k - d \in 1 .. Len(s) - 1 /\ d + (k - d) = k
    BY <1>1
  <2>2. k - d \in 1 .. j - 1 \/ k - d \in j .. Len(s) - 1
    BY <1>1, <2>1
  <2>3. k - d \in j .. Len(s) - 1 => k - d + 1 \in j + 1 .. Len(s)
    BY <1>1
  <2> QED
    BY <2>1, <2>2, <2>3
<1>3. ASSUME NEW k \in d + 1 .. Len(y) PROVE y[k] # dollar
  <2>1. CASE k - d \in 1 .. j - 1 /\ y[k] = s[k - d]
    <3>1. k - d \in 1 .. Len(s)
      BY <1>1, <2>1
    <3> QED
      BY <2>1, <3>1
  <2>2. CASE k - d + 1 \in j + 1 .. Len(s) /\ y[k] = s[k - d + 1]
    <3>1. k - d + 1 \in 1 .. Len(s)
      BY <1>1, <2>2
    <3> QED
      BY <2>2, <3>1
  <2> QED
    BY <1>2, <2>1, <2>2
<1>4. Checksum(y) = OddBehind(y, d)
  BY <1>1, <1>3, ChecksumIs
<1>5. Checksum(s) = OddBehind(s, 0)
  BY ChecksumType
<1>6. /\ IsFiniteSet(A) /\ Cardinality(A) \in Nat
      /\ IsFiniteSet(B) /\ Cardinality(B) \in Nat
      /\ Cardinality(B) = 0 <=> B = {}
  BY PlacesFinite
<1>7. /\ \A i \in R : i \in 1 .. Len(s) /\ i # j /\ s[i] = x
      /\ j \in A
      /\ \A i \in 1 .. Len(s) : i # j /\ s[i] = x => i \in R
  BY <1>1 DEF Places
<1>8. f \in [R -> B]
  <2>1. ASSUME NEW i \in R, i < j PROVE i + d \in B
    <3>1. i \in 1 .. j - 1 /\ s[i] = x /\ d + i = i + d
          /\ i + d \in d + 1 .. Len(y)
      BY <1>1, <1>7, <2>1
    <3>2. y[i + d] = x
      BY <3>1
    <3> QED
      BY <3>1, <3>2 DEF Places
  <2>2. ASSUME NEW i \in R, ~ (i < j) PROVE i + d - 1 \in B
    <3>1. i - 1 \in j .. Len(s) - 1 /\ s[i] = x /\ d + (i - 1) = i + d - 1
          /\ (i - 1) + 1 = i /\ i + d - 1 \in d + 1 .. Len(y)
      BY <1>1, <1>7, <2>2, SMTT(30)
    <3>2. y[i + d - 1] = x
      BY <3>1
    <3> QED
      BY <3>1, <3>2 DEF Places
  <2> HIDE DEF B, R
  <2> QED
    BY <2>1, <2>2
<1>9. \A i, k \in R : f[i] = f[k] => i = k
  <2> HIDE DEF R
  <2> QED
    BY <1>1, <1>7
<1>10. ASSUME NEW k \in B PROVE \E i \in R : f[i] = k
  <2>1. k \in d + 1 .. Len(y) /\ y[k] = x
    BY DEF Places
  <2>2. CASE k - d \in 1 .. j - 1 /\ y[k] = s[k - d]
    <3>1. k - d \in 1 .. Len(s) /\ k - d # j /\ k - d < j /\ (k - d) + d = k
      <4> HIDE DEF A, B, R, f, x
      <4>1. k \in Int /\ k - d \in 1 .. j - 1
        BY <1>1, <2>1, <2>2
      <4> QED
        BY <1>1, <4>1
    <3>2. k - d \in R
      BY <1>7, <2>1, <2>2, <3>1
    <3> HIDE DEF R
    <3> QED
      BY <3>1, <3>2
  <2>3. CASE k - d + 1 \in j + 1 .. Len(s) /\ y[k] = s[k - d + 1]
    <3>1. /\ k - d + 1 \in 1 .. Len(s) /\ k - d + 1 # j /\ ~ (k - d + 1 < j)
          /\ (k - d + 1) + d - 1 = k
      BY <1>1, <2>1, <2>3
    <3>2. k - d + 1 \in R
      BY <1>7, <2>1, <2>3, <3>1
    <3> HIDE DEF R
    <3> QED
      BY <3>1, <3>2
  <2> QED
    BY <1>2, <2>1, <2>2, <2>3
<1> HIDE DEF f, B
<1>11. IsFiniteSet(R) /\ Cardinality(R) = Cardinality(A) - 1
  <2> HIDE DEF A
  <2> QED
    BY <1>6, <1>7, FS_RemoveElement DEF R
<1> HIDE DEF A, R
<1>12. f \in Bijection(R, B)
  BY <1>8, <1>9, <1>10, Fun_IsBij
<1>13. Cardinality(B) = Cardinality(A) - 1
  BY <1>11, <1>12, FS_Bijection DEF ExistsBijection
<1>14. x \in Checksum(s) <=> Cardinality(A) % 2 = 1
  <2>1. x \in {s[i] : i \in 0 + 1 .. Len(s)}
    BY <1>1
  <2> QED
    BY <1>5, <2>1 DEF OddBehind, A
<1>15. x \in Checksum(y) <=> Cardinality(B) % 2 = 1
  <2>1. Cardinality(B) % 2 = 1 => B # {}
    BY <1>6
  <2>2. B # {} => x \in {y[i] : i \in d + 1 .. Len(y)}
    BY DEF B, Places
  <2> QED
    BY <1>4, <2>1, <2>2 DEF OddBehind, B
<1>16. Cardinality(A) % 2 = 1 <=> ~ (Cardinality(B) % 2 = 1)
  BY <1>6, <1>13, Alternates
<1> QED
  BY <1>14, <1>15, <1>16

-----------------------------------------------------------------------------
(* nmea_parse() *)

Commas(y) == {i \in 1 .. Len(y) : y[i] = comma}
Before(y, e) == {i \in Commas(y) : i < e}

\* The commas of a body are finitely many.
LEMMA CommasFinite ==
  ASSUME NEW S, NEW y \in Seq(S), NEW e \in Int
  PROVE  /\ IsFiniteSet(Commas(y)) /\ IsFiniteSet(Before(y, e))
         /\ Cardinality(Commas(y)) \in Nat /\ Cardinality(Before(y, e)) \in Nat
         /\ Cardinality(Before(y, e)) <= Cardinality(Commas(y))
<1> DEFINE P == Commas(y)
           Q == Before(y, e)
<1>1. Len(y) \in Nat
  BY LenProperties
<1>2. IsFiniteSet(1 .. Len(y)) /\ P \in SUBSET (1 .. Len(y))
  BY <1>1, FS_Interval DEF Commas
<1>3. Q \in SUBSET P
  BY DEF Before
<1> HIDE DEF P, Q
<1>4. IsFiniteSet(P)
  BY <1>2, FS_Subset
<1>5. IsFiniteSet(Q) /\ Cardinality(Q) <= Cardinality(P)
  BY <1>3, <1>4, FS_Subset
<1>6. Cardinality(P) \in Nat /\ Cardinality(Q) \in Nat
  BY <1>4, <1>5, FS_CardinalityType
<1> QED
  BY <1>4, <1>5, <1>6 DEF P, Q

\* Further on there are more commas.
LEMMA MoreCommas ==
  ASSUME NEW S, NEW y \in Seq(S), NEW e \in Commas(y), NEW g \in Int, e < g
  PROVE  Cardinality(Before(y, e)) # Cardinality(Before(y, g))
<1> DEFINE P == Before(y, e)
           Q == Before(y, g)
<1>1. Len(y) \in Nat /\ e \in Int
  BY LenProperties DEF Commas
<1>2. \A i \in Commas(y) : i \in Int
  BY <1>1 DEF Commas
<1>3. P \in SUBSET Q /\ e \in Q /\ e \notin P
  <2>1. ASSUME NEW i \in P PROVE i \in Q
    <3>1. i \in Commas(y) /\ i < e /\ i \in Int
      BY <1>2, <2>1 DEF Before
    <3>2. i < g
      BY <1>1, <3>1
    <3> QED
      BY <3>1, <3>2 DEF Before
  <2>2. e \in Q
    BY DEF Before
  <2>3. e \notin P
    BY <1>1 DEF Before
  <2> QED
    BY <2>1, <2>2, <2>3
<1>4. IsFiniteSet(Q)
  BY CommasFinite
<1> HIDE DEF P, Q
<1>5. Cardinality(Q) = Cardinality(P) => Q = P
  BY <1>3, <1>4, FS_Subset
<1> QED
  BY <1>3, <1>5 DEF P, Q

\* A field reaches from the comma or dollar b to the next comma, or to the end.
LEMMA FieldAt ==
  ASSUME NEW S, NEW y \in Seq(S), NEW d \in 1 .. Len(y), y[d] = dollar,
         \A i \in 1 .. Len(y) : i # d => y[i] # dollar,
         \A i \in Commas(y) : d < i,
         NEW e \in Commas(y) \cup {Len(y) + 1},
         NEW b \in Commas(y) \cup {d}, b < e,
         \A i \in Commas(y) : i < e => i <= b
  PROVE  LET k == Cardinality(Before(y, e)) + 1 IN
         /\ k \in DOMAIN Fields(y)
         /\ Fields(y)[k] = SubSeq(y, b + 1, e - 1)
         /\ DOMAIN Fields(y) = 1 .. Cardinality(Commas(y)) + 1
<1> DEFINE starts == {i \in DOMAIN y : y[i] \in {comma, dollar}}
           closes == {i \in DOMAIN y : y[i] = comma
                                       /\ dollar \in ToSet(SubSeq(y, 1, i))}
           E(k) == CHOOSE g \in closes \cup {Len(y) + 1} :
                     Cardinality({i \in closes : i < g}) = k - 1
           k == Cardinality(Before(y, e)) + 1
<1>1. Len(y) \in Nat /\ DOMAIN y = 1 .. Len(y) /\ d \in Nat
  BY LenProperties
<1>2. closes = Commas(y)
  <2>1. ASSUME NEW i \in Commas(y) PROVE dollar \in ToSet(SubSeq(y, 1, i))
    <3> DEFINE q == SubSeq(y, 1, i)
    <3>1. i \in 1 .. Len(y) /\ d \in 1 .. i /\ 1 \in 1 .. Len(y) + 1
      BY <1>1 DEF Commas
    <3>2. /\ i \in 0 .. Len(y) /\ 1 <= i + 1 /\ i + 1 - 1 = i
          /\ 1 - 1 + d = d
      BY <1>1, <3>1
    <3>3. /\ q \in Seq(S) /\ Len(q) = i + 1 - 1
          /\ \A m \in 1 .. i + 1 - 1 : q[m] = y[1 - 1 + m]
      BY <3>1, <3>2, Part
    <3> HIDE DEF q
    <3>4. DOMAIN q = 1 .. i /\ q[d] = dollar
      BY <3>1, <3>2, <3>3, LenProperties
    <3>5. dollar \in ToSet(q)
      BY <3>1, <3>4 DEF ToSet
    <3> QED
      BY <3>5 DEF q
  <2> QED
    BY <1>1, <2>1 DEF Commas
<1>3. starts = Commas(y) \cup {d}
  BY <1>1 DEF Commas
<1>4. Fields(y) = [m \in 1 .. Cardinality(closes) + 1 |->
                     SubSeq(y, Max({i \in starts : i < E(m)}) + 1, E(m) - 1)]
  BY DEF Fields
<1> HIDE DEF starts
<1>5. /\ e \in Int /\ b \in Int
      /\ \A i \in Commas(y) : i \in 1 .. Len(y)
  BY <1>1 DEF Commas
<1>6. E(k) = e
  <2>1. E(k) = CHOOSE g \in Commas(y) \cup {Len(y) + 1} :
                 Cardinality(Before(y, g)) = Cardinality(Before(y, e))
    <3>1. \A g : {i \in closes : i < g} = Before(y, g)
      BY <1>2 DEF Before
    <3>2. Cardinality(Before(y, e)) \in Nat
      BY <1>5, CommasFinite
    <3>3. k - 1 = Cardinality(Before(y, e))
      BY <3>2
    <3> HIDE DEF closes, k
    <3>4. E(k) = CHOOSE g \in Commas(y) \cup {Len(y) + 1} :
                   Cardinality(Before(y, g)) = k - 1
      BY <1>2, <3>1
    <3> QED
      BY <3>3, <3>4
  <2>2. ASSUME NEW g \in Commas(y) \cup {Len(y) + 1},
               Cardinality(Before(y, g)) = Cardinality(Before(y, e))
        PROVE  g = e
    <3>1. g \in Int /\ (g < e => g \in Commas(y)) /\ (e < g => e \in Commas(y))
      BY <1>1, <1>5
    <3>2. ~ (g < e)
      BY <1>5, <2>2, <3>1, MoreCommas
    <3>3. ~ (e < g)
      BY <1>5, <2>2, <3>1, MoreCommas
    <3> QED
      BY <1>5, <3>1, <3>2, <3>3
  <2> HIDE DEF E
  <2> QED
    BY <2>1, <2>2
<1>7. Max({i \in starts : i < e}) = b
  <2> DEFINE T == {i \in starts : i < e}
  <2>0. ASSUME NEW i \in T PROVE i \in Int /\ i <= b
    <3>1. i < e /\ (i \in Commas(y) \/ i = d)
      BY <1>3, <2>0
    <3>2. d <= b
      BY <1>1, <1>5
    <3>3. i \in Commas(y) => i \in Int /\ i <= b
      BY <1>5, <3>1
    <3>4. d \in Int
      BY <1>1
    <3> HIDE DEF T
    <3> QED
      BY <3>1, <3>2, <3>3, <3>4
  <2>1. T \in SUBSET Int /\ b \in T /\ \A i \in T : i <= b
    BY <1>3, <2>0
  <2> HIDE DEF T
  <2>2. Max(T) = b
    BY <2>1, MaxIs
  <2> QED
    BY <2>2 DEF T
<1>8. k \in 1 .. Cardinality(closes) + 1
  <2>1. /\ Cardinality(Before(y, e)) \in Nat /\ Cardinality(Commas(y)) \in Nat
        /\ Cardinality(Before(y, e)) <= Cardinality(Commas(y))
    BY <1>5, CommasFinite
  <2> HIDE DEF closes
  <2> QED
    BY <1>2, <2>1
<1> HIDE DEF k, E, closes
<1>9. Fields(y)[k] = SubSeq(y, b + 1, e - 1)
  BY <1>4, <1>6, <1>7, <1>8
<1> QED
  BY <1>2, <1>4, <1>8, <1>9 DEF k

\* The field behind the dollar is the first.
LEMMA FirstField ==
  ASSUME NEW S, NEW y \in Seq(S), NEW d \in 1 .. Len(y), y[d] = dollar,
         \A i \in 1 .. Len(y) : i # d => y[i] # dollar,
         NEW e \in Commas(y), d < e, \A i \in Commas(y) : e <= i
  PROVE  Fields(y)[1] = SubSeq(y, d + 1, e - 1)
<1>1. Len(y) \in Nat /\ \A i \in Commas(y) : i \in 1 .. Len(y)
  BY LenProperties DEF Commas
<1>2. /\ \A i \in Commas(y) : d < i /\ ~ (i < e)
      /\ d \in Commas(y) \cup {d} /\ e \in Commas(y) \cup {Len(y) + 1}
  BY <1>1
<1>3. Before(y, e) = {}
  BY <1>2 DEF Before
<1>4. Cardinality(Before(y, e)) + 1 = 1
  BY <1>3, FS_EmptySet
<1>5. Fields(y)[Cardinality(Before(y, e)) + 1] = SubSeq(y, d + 1, e - 1)
  BY <1>2, FieldAt
<1> QED
  BY <1>4, <1>5

\* One more element.
LEMMA OneMore ==
  ASSUME NEW T, NEW x, IsFiniteSet(T), x \notin T,
         NEW n \in Nat, Cardinality(T) = n
  PROVE  IsFiniteSet(T \cup {x}) /\ Cardinality(T \cup {x}) = n + 1
BY FS_AddElement

\* Three commas close and open four fields.
LEMMA FourFields ==
  ASSUME NEW S, NEW y \in Seq(S), NEW d \in 1 .. Len(y), y[d] = dollar,
         \A i \in 1 .. Len(y) : i # d => y[i] # dollar,
         NEW a \in Int, NEW b \in Int, NEW c \in Int, d < a, a < b, b < c,
         Commas(y) = {a, b, c}
  PROVE  /\ DOMAIN Fields(y) = 1 .. 4
         /\ Fields(y)[1] = SubSeq(y, d + 1, a - 1)
         /\ Fields(y)[2] = SubSeq(y, a + 1, b - 1)
         /\ Fields(y)[3] = SubSeq(y, b + 1, c - 1)
         /\ Fields(y)[4] = SubSeq(y, c + 1, Len(y))
<1> DEFINE z == Len(y) + 1
<1>1. /\ Len(y) \in Nat /\ d \in Int
      /\ \A i \in Commas(y) : d < i /\ i \in 1 .. Len(y)
      /\ c < z /\ z \in Int /\ z - 1 = Len(y)
  BY LenProperties DEF Commas
<1> HIDE DEF z
<1>2. /\ Before(y, a) = {} /\ Before(y, b) = {} \cup {a}
      /\ Before(y, c) = ({} \cup {a}) \cup {b}
      /\ Before(y, z) = (({} \cup {a}) \cup {b}) \cup {c}
      /\ Commas(y) = Before(y, z)
  BY <1>1 DEF Before
<1>3. /\ Cardinality(Before(y, a)) = 0 /\ Cardinality(Before(y, b)) = 1
      /\ Cardinality(Before(y, c)) = 2 /\ Cardinality(Before(y, z)) = 3
  <2> DEFINE A == {} \cup {a}
             B == A \cup {b}
             C == B \cup {c}
  <2>1. a \notin {} /\ b \notin A /\ c \notin B
    BY <1>1
  <2>2. IsFiniteSet({}) /\ Cardinality({}) = 0
    BY FS_EmptySet
  <2>3. IsFiniteSet(A) /\ Cardinality(A) = 1
    <3>1. IsFiniteSet(A) /\ Cardinality(A) = 0 + 1
      BY <2>1, <2>2, OneMore
    <3> HIDE DEF A
    <3> QED
      BY <3>1
  <2> HIDE DEF A
  <2>4. IsFiniteSet(B) /\ Cardinality(B) = 2
    <3>1. IsFiniteSet(B) /\ Cardinality(B) = 1 + 1
      BY <2>1, <2>3, OneMore
    <3> HIDE DEF B
    <3> QED
      BY <3>1
  <2> HIDE DEF B
  <2>5. IsFiniteSet(C) /\ Cardinality(C) = 3
    <3>1. IsFiniteSet(C) /\ Cardinality(C) = 2 + 1
      BY <2>1, <2>4, OneMore
    <3> HIDE DEF C
    <3> QED
      BY <3>1
  <2> QED
    BY <1>2, <2>2, <2>3, <2>4, <2>5 DEF A, B
<1>4. z = Len(y) + 1
  BY DEF z
<1>5. /\ DOMAIN Fields(y) = 1 .. 3 + 1
      /\ Fields(y)[0 + 1] = SubSeq(y, d + 1, a - 1)
  <2>1. /\ a \in Commas(y) \cup {Len(y) + 1} /\ d \in Commas(y) \cup {d}
        /\ \A i \in Commas(y) : i < a => i <= d
    OBVIOUS
  <2>2. LET k == Cardinality(Before(y, a)) + 1 IN
        /\ Fields(y)[k] = SubSeq(y, d + 1, a - 1)
        /\ DOMAIN Fields(y) = 1 .. Cardinality(Commas(y)) + 1
    BY <1>1, <2>1, FieldAt
  <2> QED
    BY <1>2, <1>3, <2>2
<1>6. Fields(y)[1 + 1] = SubSeq(y, a + 1, b - 1)
  <2>1. /\ b \in Commas(y) \cup {Len(y) + 1} /\ a \in Commas(y) \cup {d}
        /\ \A i \in Commas(y) : i < b => i <= a
    OBVIOUS
  <2>2. Fields(y)[Cardinality(Before(y, b)) + 1] = SubSeq(y, a + 1, b - 1)
    BY <1>1, <2>1, FieldAt
  <2> QED
    BY <1>3, <2>2
<1>7. Fields(y)[2 + 1] = SubSeq(y, b + 1, c - 1)
  <2>1. /\ c \in Commas(y) \cup {Len(y) + 1} /\ b \in Commas(y) \cup {d}
        /\ \A i \in Commas(y) : i < c => i <= b
    OBVIOUS
  <2>2. Fields(y)[Cardinality(Before(y, c)) + 1] = SubSeq(y, b + 1, c - 1)
    BY <1>1, <2>1, FieldAt
  <2> QED
    BY <1>3, <2>2
<1>8. Fields(y)[3 + 1] = SubSeq(y, c + 1, z - 1)
  <2>1. /\ z \in Commas(y) \cup {Len(y) + 1} /\ c \in Commas(y) \cup {d}
        /\ \A i \in Commas(y) : i < z => i <= c
    BY <1>4
  <2>2. Fields(y)[Cardinality(Before(y, z)) + 1] = SubSeq(y, c + 1, z - 1)
    BY <1>1, <2>1, FieldAt
  <2> QED
    BY <1>3, <2>2
<1>9. 0 + 1 = 1 /\ 1 + 1 = 2 /\ 2 + 1 = 3 /\ 3 + 1 = 4
  OBVIOUS
<1> QED
  BY <1>1, <1>5, <1>6, <1>7, <1>8, <1>9

-----------------------------------------------------------------------------
(* The sentences of the receiver. *)

\* What a field that carries a value holds.
Token(c, n) == <<c, n, {}>>

\* Concatenation, by what is known of it.
Cat(a, b) == a \o b
One(x)    == <<x>>

\* Joined, of Cat().
LEMMA CatIs ==
  ASSUME NEW S, NEW a \in Seq(S), NEW b \in Seq(S)
  PROVE  /\ Cat(a, b) \in Seq(S) /\ Len(Cat(a, b)) = Len(a) + Len(b)
         /\ Len(a) \in Nat /\ Len(b) \in Nat
         /\ \A i \in 1 .. Len(a) : Cat(a, b)[i] = a[i]
         /\ \A i \in 1 .. Len(b) : Cat(a, b)[Len(a) + i] = b[i]
BY Joined DEF Cat

\* A sequence of one token.
LEMMA OneIs ==
  ASSUME NEW S, NEW x \in S
  PROVE  One(x) \in Seq(S) /\ Len(One(x)) = 1 /\ One(x)[1] = x
BY DEF One

\* The empty sequence.
LEMMA NoneIs ==
  ASSUME NEW S
  PROVE  /\ <<>> \in Seq(S) /\ Len(<<>>) = 0
         /\ \A s \in Seq(S) : Cat(s, <<>>) = s /\ Cat(<<>>, s) = s
BY ConcatEmptySeq DEF Cat

\* One more token.
LEMMA GrownBy ==
  ASSUME NEW S, NEW s \in Seq(S), NEW u \in Seq(S)
  PROVE  Len(u) = 1 =>
         /\ Cat(s, u) \in Seq(S) /\ Len(Cat(s, u)) = Len(s) + 1
         /\ Len(s) \in Nat
         /\ \A i \in 1 .. Len(s) : Cat(s, u)[i] = s[i]
         /\ Cat(s, u)[Len(s) + 1] = u[1]
<1>1. Cat(s, u) \in Seq(S) /\ Len(s) \in Nat
  BY CatIs
<1>2. Len(Cat(s, u)) = Len(s) + Len(u)
  BY CatIs
<1>3. \A i \in 1 .. Len(s) : Cat(s, u)[i] = s[i]
  BY CatIs
<1>4. \A i \in 1 .. Len(u) : Cat(s, u)[Len(s) + i] = u[i]
  BY CatIs
<1>5. Len(u) = 1 => 1 \in 1 .. Len(u)
  OBVIOUS
<1> QED
  BY <1>1, <1>2, <1>3, <1>4, <1>5

\* The same, by the token.
LEMMA Grown ==
  ASSUME NEW S, NEW s \in Seq(S), NEW x \in S
  PROVE  LET r == Cat(s, One(x)) IN
         /\ r \in Seq(S) /\ Len(r) = Len(s) + 1 /\ Len(s) \in Nat
         /\ \A i \in 1 .. Len(s) : r[i] = s[i]
         /\ r[Len(s) + 1] = x
<1>1. One(x) \in Seq(S) /\ Len(One(x)) = 1 /\ One(x)[1] = x
  BY OneIs
<1>2. \A u \in Seq(S) : Len(u) = 1 =>
        /\ Cat(s, u) \in Seq(S) /\ Len(Cat(s, u)) = Len(s) + 1
        /\ Len(s) \in Nat
        /\ \A i \in 1 .. Len(s) : Cat(s, u)[i] = s[i]
        /\ Cat(s, u)[Len(s) + 1] = u[1]
  BY GrownBy
<1> QED
  BY <1>1, <1>2, Zenon

\* What a content is made of ends no line and starts none.
LEMMA InnerFacts ==
  /\ \A k \in Kinds \cup {",", "A", "V"} : Tok(k) \in Inner /\ Tok(k)[1] = k
  /\ comma \in Inner
  /\ \A x \in Inner : x \notin Ends /\ x # dollar
<1>1. \A x \in Plain : x \in Inner <=> x \notin {star, CR, LF, dollar}
  BY TokenFacts DEF Inner
<1>2. star[1] = "*" /\ CR[1] = "CR" /\ LF[1] = "LF" /\ dollar[1] = "$"
  BY TokenFacts
<1>3. ASSUME NEW k \in Kinds \cup {",", "A", "V"}
      PROVE  Tok(k) \in Inner /\ Tok(k)[1] = k
  <2>1. Tok(k) \in Plain /\ Tok(k)[1] = k
    BY TokenFacts DEF Words
  <2>2. k \notin {"*", "CR", "LF", "$"}
    BY DEF Kinds
  <2> QED
    BY <1>1, <1>2, <2>1, <2>2
<1>4. comma \in Inner
  BY <1>3 DEF comma
<1>5. \A x \in Inner : x \notin Ends /\ x # dollar
  BY DEF Inner
<1> QED
  BY <1>3, <1>4, <1>5

\* A field is empty or one token.
LEMMA FieldFacts ==
  ASSUME NEW c \in {"T", "P", "Q", "D", "V"}, NEW n \in Nat
  PROVE  /\ Token(c, n) \in Inner /\ Token(c, n)[1] = c /\ Token(c, n)[2] = n
         /\ n = 0 => Field(c, n) = <<>>
         /\ n # 0 => Field(c, n) = One(Token(c, n))
         /\ Field(c, n) \in Seq(Inner) /\ Len(Field(c, n)) <= 1
<1>1. \A x \in Plain : x \in Inner <=> x \notin {star, CR, LF, dollar}
  BY TokenFacts DEF Inner
<1>2. star[1] = "*" /\ CR[1] = "CR" /\ LF[1] = "LF" /\ dollar[1] = "$"
  BY TokenFacts
<1>3. Token(c, n) \in Plain /\ Token(c, n)[1] = c /\ Token(c, n)[2] = n
  BY DEF Token, Plain
<1>4. Token(c, n) \in Inner
  BY <1>1, <1>2, <1>3
<1>5. Field(c, n) = IF n = 0 THEN <<>> ELSE One(Token(c, n))
  BY DEF Field, Token, One
<1>6. <<>> \in Seq(Inner) /\ Len(<<>>) <= 1
  BY NoneIs
<1>8. One(Token(c, n)) \in Seq(Inner) /\ Len(One(Token(c, n))) <= 1
  <2>1. One(Token(c, n)) \in Seq(Inner) /\ Len(One(Token(c, n))) = 1
    BY <1>4, OneIs
  <2>2. \A m : m = 1 => m <= 1
    OBVIOUS
  <2> QED
    BY <2>1, <2>2, Zenon
<1>7. Field(c, n) \in Seq(Inner) /\ Len(Field(c, n)) <= 1
  BY <1>5, <1>6, <1>8, Zenon
<1> QED
  BY <1>3, <1>4, <1>5, <1>7

\* A content that starts with its kind and a comma, and is at most n long.
Opens(s, kind, n) ==
  /\ s \in Seq(Inner) /\ Len(s) \in 2 .. n /\ s[1] = Tok(kind) /\ s[2] = comma

\* What follows in a content, at most n long.
Follows(s, n) == s \in Seq(Inner) /\ Len(s) <= n

\* A content goes on.
LEMMA OpensOn ==
  ASSUME NEW kind, NEW m \in Nat, NEW a, Opens(a, kind, m),
         NEW n \in Nat, NEW b, Follows(b, n),
         NEW o \in Nat, o = m + n
  PROVE  Opens(Cat(a, b), kind, o)
<1>1. a \in Seq(Inner) /\ b \in Seq(Inner)
  BY DEF Opens, Follows
<1>2. /\ Cat(a, b) \in Seq(Inner) /\ Len(Cat(a, b)) = Len(a) + Len(b)
      /\ Len(a) \in Nat /\ Len(b) \in Nat
      /\ \A i \in 1 .. Len(a) : Cat(a, b)[i] = a[i]
  BY <1>1, CatIs
<1> QED
  BY <1>2 DEF Opens, Follows

\* Every content opens with its kind and has at most seven tokens.
LEMMA ContentFacts ==
  ASSUME NEW kind \in Kinds, NEW t \in Nat, NEW p \in Nat
  PROVE  Opens(Content(kind, t, p), kind, 7)
<1> DEFINE q == IF p = 0 THEN 0 ELSE 1
           h == <<Tok(kind), comma>>
           k == <<comma>>
           m == <<comma, Tok(IF p = 0 THEN "V" ELSE "A"), comma>>
           T == Field("T", t)
           P == Field("P", p)
           Q == Field("Q", q)
           D == Field("D", q)
           V == Field("V", q)
<1>1. q \in Nat
  OBVIOUS
<1> HIDE DEF q
<1>2. ASSUME NEW c \in {"T", "P", "Q", "D", "V"}, NEW n \in Nat
      PROVE  Follows(Field(c, n), 1)
  BY FieldFacts DEF Follows
<1>3. /\ Follows(T, 1) /\ Follows(P, 1) /\ Follows(Q, 1) /\ Follows(D, 1)
      /\ Follows(V, 1)
  BY <1>1, <1>2
<1>4. Opens(h, kind, 2)
  <2>1. Tok(kind) \in Inner /\ comma \in Inner
    BY InnerFacts
  <2>2. h \in Seq(Inner) /\ Len(h) = 2 /\ h[1] = Tok(kind) /\ h[2] = comma
    BY <2>1
  <2> QED
    BY <2>2 DEF Opens
<1>5. Follows(k, 1) /\ Follows(m, 3)
  <2>1. Tok("V") \in Inner /\ Tok("A") \in Inner /\ comma \in Inner
    BY InnerFacts
  <2>2. Tok(IF p = 0 THEN "V" ELSE "A") \in Inner
    BY <2>1
  <2>3. k \in Seq(Inner) /\ Len(k) = 1 /\ m \in Seq(Inner) /\ Len(m) = 3
    BY <2>1, <2>2
  <2> QED
    BY <2>3 DEF Follows
<1>6. /\ kind = "GGA" => Content(kind, t, p) =
                           Cat(Cat(Cat(Cat(Cat(h, T), k), P), k), Q)
      /\ kind = "GSA" => Content(kind, t, p) = Cat(h, D)
      /\ kind = "RMC" => Content(kind, t, p) = Cat(Cat(Cat(h, T), m), P)
      /\ kind = "VTG" => Content(kind, t, p) = Cat(h, V)
  BY DEF Content, Kinds, q, Cat
<1> HIDE DEF h, k, m, T, P, Q, D, V
<1>7. /\ 1 \in Nat /\ 2 \in Nat /\ 3 \in Nat /\ 4 \in Nat /\ 5 \in Nat
      /\ 6 \in Nat /\ 7 \in Nat
      /\ 3 = 2 + 1 /\ 4 = 3 + 1 /\ 5 = 4 + 1 /\ 6 = 5 + 1 /\ 7 = 6 + 1
      /\ 6 = 3 + 3
  OBVIOUS
<1>8. CASE kind = "GGA"
  <2>1. Opens(Cat(h, T), kind, 3)
    BY <1>3, <1>4, <1>7, OpensOn
  <2>2. Opens(Cat(Cat(h, T), k), kind, 4)
    BY <1>5, <1>7, <2>1, OpensOn
  <2>3. Opens(Cat(Cat(Cat(h, T), k), P), kind, 5)
    BY <1>3, <1>7, <2>2, OpensOn
  <2>4. Opens(Cat(Cat(Cat(Cat(h, T), k), P), k), kind, 6)
    BY <1>5, <1>7, <2>3, OpensOn
  <2>5. Opens(Cat(Cat(Cat(Cat(Cat(h, T), k), P), k), Q), kind, 7)
    BY <1>3, <1>7, <2>4, OpensOn
  <2> QED
    BY <1>6, <1>8, <2>5
<1>9. Opens(Cat(h, D), kind, 3) /\ Opens(Cat(h, V), kind, 3)
  BY <1>3, <1>4, <1>7, OpensOn
<1>10. \A s : Opens(s, kind, 3) => Opens(s, kind, 7)
  BY DEF Opens
<1>11. CASE kind = "RMC"
  <2>1. Opens(Cat(h, T), kind, 3)
    BY <1>3, <1>4, <1>7, OpensOn
  <2>2. Opens(Cat(Cat(h, T), m), kind, 6)
    BY <1>5, <1>7, <2>1, OpensOn
  <2>3. Opens(Cat(Cat(Cat(h, T), m), P), kind, 7)
    BY <1>3, <1>7, <2>2, OpensOn
  <2> QED
    BY <1>6, <1>11, <2>3
<1> QED
  BY <1>6, <1>8, <1>9, <1>10, <1>11 DEF Kinds

\* A position fix, with and without a fix.
LEMMA GgaContent ==
  ASSUME NEW t \in Nat \ {0}, NEW p \in Nat
  PROVE  LET C == Content("GGA", t, p) IN
         /\ C \in Seq(Inner)
         /\ C[1] = Tok("GGA") /\ C[2] = comma /\ C[3] = Token("T", t)
         /\ C[4] = comma
         /\ p = 0 => Len(C) = 5 /\ C[5] = comma
         /\ p # 0 => /\ Len(C) = 7 /\ C[5] = Token("P", p) /\ C[6] = comma
                     /\ C[7] = Token("Q", 1)
<1> DEFINE h == <<Tok("GGA"), comma>>
           a == Cat(h, One(Token("T", t)))
           b == Cat(a, One(comma))
           P == Field("P", p)
           Q == Field("Q", IF p = 0 THEN 0 ELSE 1)
<1>1. /\ Tok("GGA") \in Inner /\ comma \in Inner /\ Token("T", t) \in Inner
      /\ Token("P", p) \in Inner /\ Token("Q", 1) \in Inner
  <2>1. "GGA" \in Kinds /\ 1 \in Nat
    BY DEF Kinds
  <2> QED
    BY <2>1, InnerFacts, FieldFacts
<1>2. Content("GGA", t, p) = Cat(Cat(Cat(b, P), One(comma)), Q)
  <2>1. Field("T", t) = One(Token("T", t))
    BY FieldFacts
  <2>2. Content("GGA", t, p) =
          Cat(Cat(Cat(Cat(Cat(h, Field("T", t)), One(comma)), P),
                  One(comma)), Q)
    BY DEF Content, Cat, One
  <2> QED
    BY <2>1, <2>2
<1>3. /\ p = 0 => P = <<>> /\ Q = <<>>
      /\ p # 0 => P = One(Token("P", p)) /\ Q = One(Token("Q", 1))
  <2>1. 0 \in Nat /\ 1 \in Nat /\ 1 # 0
    OBVIOUS
  <2>2. p = 0 => Q = Field("Q", 0) /\ P = Field("P", 0)
    OBVIOUS
  <2>3. p # 0 => Q = Field("Q", 1)
    OBVIOUS
  <2> HIDE DEF P, Q
  <2>4. p # 0 => P = One(Token("P", p))
    BY FieldFacts DEF P
  <2> QED
    BY <2>1, <2>2, <2>3, <2>4, FieldFacts
<1>4. h \in Seq(Inner) /\ Len(h) = 2 /\ h[1] = Tok("GGA") /\ h[2] = comma
  BY <1>1
<1> HIDE DEF h, P, Q
<1>5. /\ a \in Seq(Inner) /\ Len(a) = 3 /\ a[1] = Tok("GGA") /\ a[2] = comma
      /\ a[3] = Token("T", t)
  <2>1. /\ a \in Seq(Inner) /\ Len(a) = Len(h) + 1
        /\ \A i \in 1 .. Len(h) : a[i] = h[i]
        /\ a[Len(h) + 1] = Token("T", t)
    <3>1. h \in Seq(Inner) /\ Token("T", t) \in Inner
      BY <1>1, <1>4
    <3> QED
      BY <3>1, Grown
  <2> HIDE DEF a
  <2> QED
    BY <1>4, <2>1
<1> HIDE DEF a
<1>6. /\ b \in Seq(Inner) /\ Len(b) = 4 /\ b[1] = Tok("GGA") /\ b[2] = comma
      /\ b[3] = Token("T", t) /\ b[4] = comma
  <2>1. /\ b \in Seq(Inner) /\ Len(b) = Len(a) + 1
        /\ \A i \in 1 .. Len(a) : b[i] = a[i]
        /\ b[Len(a) + 1] = comma
    <3>1. a \in Seq(Inner) /\ comma \in Inner
      BY <1>1, <1>5
    <3> QED
      BY <3>1, Grown
  <2> HIDE DEF b
  <2> QED
    BY <1>5, <2>1
<1> HIDE DEF b
<1>7. CASE p = 0
  <2> DEFINE c == Cat(b, One(comma))
  <2>1. /\ c \in Seq(Inner) /\ Len(c) = Len(b) + 1
        /\ \A i \in 1 .. Len(b) : c[i] = b[i]
        /\ c[Len(b) + 1] = comma
    <3>1. b \in Seq(Inner) /\ comma \in Inner
      BY <1>1, <1>6
    <3> QED
      BY <3>1, Grown
  <2>2. Cat(b, <<>>) = b
    BY <1>6, NoneIs
  <2> HIDE DEF c
  <2>3. Cat(c, <<>>) = c
    BY <2>1, NoneIs
  <2>4. Content("GGA", t, p) = c
    BY <1>2, <1>3, <1>7, <2>2, <2>3 DEF c
  <2> QED
    BY <1>6, <1>7, <2>1, <2>4
<1>8. CASE p # 0
  <2> DEFINE c == Cat(b, One(Token("P", p)))
             d == Cat(c, One(comma))
             e == Cat(d, One(Token("Q", 1)))
  <2>1. /\ c \in Seq(Inner) /\ Len(c) = Len(b) + 1
        /\ \A i \in 1 .. Len(b) : c[i] = b[i]
        /\ c[Len(b) + 1] = Token("P", p)
    <3>1. b \in Seq(Inner) /\ Token("P", p) \in Inner
      BY <1>1, <1>6
    <3> QED
      BY <3>1, Grown
  <2> HIDE DEF c
  <2>2. /\ Len(c) = 5 /\ c[1] = Tok("GGA") /\ c[2] = comma
        /\ c[3] = Token("T", t) /\ c[4] = comma /\ c[5] = Token("P", p)
    BY <1>6, <2>1
  <2>3. /\ d \in Seq(Inner) /\ Len(d) = Len(c) + 1
        /\ \A i \in 1 .. Len(c) : d[i] = c[i]
        /\ d[Len(c) + 1] = comma
    <3>1. c \in Seq(Inner) /\ comma \in Inner
      BY <1>1, <2>1
    <3> QED
      BY <3>1, Grown
  <2> HIDE DEF d
  <2>4. /\ Len(d) = 6 /\ d[1] = Tok("GGA") /\ d[2] = comma
        /\ d[3] = Token("T", t) /\ d[4] = comma /\ d[5] = Token("P", p)
        /\ d[6] = comma
    BY <2>2, <2>3
  <2>5. /\ e \in Seq(Inner) /\ Len(e) = Len(d) + 1
        /\ \A i \in 1 .. Len(d) : e[i] = d[i]
        /\ e[Len(d) + 1] = Token("Q", 1)
    <3>1. d \in Seq(Inner) /\ Token("Q", 1) \in Inner
      BY <1>1, <2>3
    <3> QED
      BY <3>1, Grown
  <2> HIDE DEF e
  <2>6. /\ Len(e) = 7 /\ e[1] = Tok("GGA") /\ e[2] = comma
        /\ e[3] = Token("T", t) /\ e[4] = comma /\ e[5] = Token("P", p)
        /\ e[6] = comma /\ e[7] = Token("Q", 1)
    BY <2>4, <2>5
  <2>7. Content("GGA", t, p) = e
    BY <1>2, <1>3, <1>8 DEF c, d, e
  <2> QED
    BY <1>8, <2>5, <2>6, <2>7
<1> QED
  BY <1>7, <1>8

\* A sentence, position by position.
LEMMA SentenceFacts ==
  ASSUME NEW kind \in Kinds, NEW t \in Nat, NEW p \in Nat
  PROVE  LET C == Content(kind, t, p)
             s == Sentence(kind, t, p)
         IN  /\ C \in Seq(Inner) /\ Len(C) \in 2 .. 7
             /\ C[1] = Tok(kind) /\ C[2] = comma
             /\ s \in Seq(Tokens) /\ Len(s) = Len(C) + 5
             /\ s[1] = dollar
             /\ \A i \in 1 .. Len(C) : s[1 + i] = C[i]
             /\ s[Len(C) + 2] = star /\ s[Len(C) + 3] = Sum(Checksum(C))
             /\ s[Len(C) + 4] = CR /\ s[Len(C) + 5] = LF
<1> DEFINE C == Content(kind, t, p)
           n == Len(C)
           K == Checksum(C)
           a == One(dollar)
           z == <<star, Sum(K), CR, LF>>
           b == Cat(a, C)
           s == Cat(b, z)
<1>1. Sentence(kind, t, p) = s
  BY DEF Sentence, Cat, One, star, CR, LF
<1>2. Opens(C, kind, 7)
  BY ContentFacts
<1> HIDE DEF C
<1>3. C \in Seq(Inner) /\ n \in 2 .. 7 /\ C[1] = Tok(kind) /\ C[2] = comma
  BY <1>2 DEF Opens
<1>4. Inner \subseteq Plain /\ Plain \subseteq Tokens
  BY TokenFacts
<1>5. C \in Seq(Plain) /\ C \in Seq(Tokens)
  <2>1. C \in Seq(Inner)
    BY <1>3
  <2>2. C \in Seq(Plain)
    BY <1>4, <2>1, SeqMonotonic
  <2> QED
    BY <1>4, <2>2, SeqMonotonic
<1>6. K \in SUBSET Plain
  <2>1. \A i \in 1 .. Len(C) : C[i] # dollar
    <3>1. \A i \in 1 .. Len(C) : C[i] \in Inner
      BY <1>3, ElementOfSeq
    <3> QED
      BY <3>1, InnerFacts
  <2>2. C \in Seq(Plain)
    BY <1>5
  <2> QED
    BY <2>1, <2>2, ChecksumType
<1> HIDE DEF K
<1>7. /\ dollar \in Tokens /\ star \in Tokens /\ CR \in Tokens /\ LF \in Tokens
      /\ Sum(K) \in Tokens
  BY <1>6, TokenFacts
<1>8. a \in Seq(Tokens) /\ Len(a) = 1 /\ a[1] = dollar
  BY <1>7, OneIs
<1>9. /\ z \in Seq(Tokens) /\ Len(z) = 4 /\ z[1] = star /\ z[2] = Sum(K)
      /\ z[3] = CR /\ z[4] = LF
  BY <1>7
<1> HIDE DEF a, z
<1>10. /\ b \in Seq(Tokens) /\ Len(b) = Len(a) + Len(C)
       /\ \A i \in 1 .. Len(a) : b[i] = a[i]
       /\ \A i \in 1 .. Len(C) : b[Len(a) + i] = C[i]
  <2>1. a \in Seq(Tokens) /\ C \in Seq(Tokens)
    BY <1>5, <1>8
  <2>2. b \in Seq(Tokens) /\ Len(b) = Len(a) + Len(C)
    BY <2>1, CatIs
  <2>3. \A i \in 1 .. Len(a) : b[i] = a[i]
    BY <2>1, CatIs
  <2>4. \A i \in 1 .. Len(C) : b[Len(a) + i] = C[i]
    BY <2>1, CatIs
  <2> QED
    BY <2>2, <2>3, <2>4
<1> HIDE DEF b
<1>11. b \in Seq(Tokens) /\ Len(b) = n + 1 /\ b[1] = dollar
  BY <1>3, <1>8, <1>10
<1>12. \A i \in 1 .. n : b[1 + i] = C[i]
  BY <1>8, <1>10
<1>13. /\ s \in Seq(Tokens) /\ Len(s) = Len(b) + Len(z)
       /\ \A i \in 1 .. Len(b) : s[i] = b[i]
       /\ \A i \in 1 .. Len(z) : s[Len(b) + i] = z[i]
  <2>1. b \in Seq(Tokens) /\ z \in Seq(Tokens)
    BY <1>9, <1>11
  <2>2. s \in Seq(Tokens) /\ Len(s) = Len(b) + Len(z)
    BY <2>1, CatIs
  <2>3. \A i \in 1 .. Len(b) : s[i] = b[i]
    BY <2>1, CatIs
  <2>4. \A i \in 1 .. Len(z) : s[Len(b) + i] = z[i]
    BY <2>1, CatIs
  <2> QED
    BY <2>2, <2>3, <2>4
<1> HIDE DEF s
<1>14. s \in Seq(Tokens) /\ Len(s) = n + 5 /\ s[1] = dollar
  BY <1>3, <1>9, <1>11, <1>13
<1>15. ASSUME NEW i \in 1 .. n
       PROVE  s[1 + i] = C[i]
  <2>1. 1 + i \in 1 .. Len(b)
    BY <1>3, <1>11
  <2> QED
    BY <1>12, <1>13, <2>1
<1>16. s[n + 2] = star /\ s[n + 3] = Sum(K) /\ s[n + 4] = CR /\ s[n + 5] = LF
  <2>1. \A i \in 1 .. 4 : s[(n + 1) + i] = z[i]
    BY <1>9, <1>11, <1>13
  <2>2. /\ 1 \in 1 .. 4 /\ 2 \in 1 .. 4 /\ 3 \in 1 .. 4 /\ 4 \in 1 .. 4
        /\ (n + 1) + 1 = n + 2 /\ (n + 1) + 2 = n + 3
        /\ (n + 1) + 3 = n + 4 /\ (n + 1) + 4 = n + 5
    BY <1>3
  <2>3. /\ s[n + 2] = z[1] /\ s[n + 3] = z[2] /\ s[n + 4] = z[3]
        /\ s[n + 5] = z[4]
    BY <2>1, <2>2
  <2> QED
    BY <1>9, <2>3
<1> QED
  BY <1>1, <1>3, <1>14, <1>15, <1>16 DEF C, K

-----------------------------------------------------------------------------
(* nmea_parse() and the decoders. *)

\* The body of a line behind o characters of rubbish, the sum still there if
\* the star is lost.
Carries(y, o, C) ==
  /\ y \in Seq(Tokens) /\ o \in {0, 1} /\ C \in Seq(Inner)
  /\ Len(y) \in {o + 1 + Len(C), o + 2 + Len(C)}
  /\ o = 1 => y[1] = CR
  /\ y[o + 1] = dollar
  /\ \A i \in 1 .. Len(C) : y[o + 1 + i] = C[i]
  /\ Len(y) = o + 2 + Len(C) => \E R : y[o + 2 + Len(C)] = Sum(R)

\* Its only dollar, and its commas.
LEMMA LineParts ==
  ASSUME NEW y, NEW o, NEW C, Carries(y, o, C)
  PROVE  /\ \A i \in 1 .. Len(y) : i # o + 1 => y[i] # dollar
         /\ \A i \in Commas(y) :
              i - o - 1 \in 1 .. Len(C) /\ C[i - o - 1] = comma
         /\ \A j \in 1 .. Len(C) : C[j] = comma => o + 1 + j \in Commas(y)
         /\ o \in 0 .. 1 /\ Len(C) \in Nat /\ Len(y) \in Nat
<1>1. Len(y) \in Nat /\ Len(C) \in Nat /\ o \in 0 .. 1
  <2>1. y \in Seq(Tokens) /\ C \in Seq(Inner) /\ o \in {0, 1}
    BY DEF Carries
  <2> QED
    BY <2>1, LenProperties
<1>2. /\ Len(y) \in {o + 1 + Len(C), o + 2 + Len(C)}
      /\ o = 1 => y[1] = CR
      /\ y[o + 1] = dollar
      /\ \A i \in 1 .. Len(C) : y[o + 1 + i] = C[i]
      /\ Len(y) = o + 2 + Len(C) => \E R : y[o + 2 + Len(C)] = Sum(R)
  BY DEF Carries
<1>3. \A j \in 1 .. Len(C) : C[j] # dollar
  <2>1. C \in Seq(Inner)
    BY DEF Carries
  <2>2. \A i \in 1 .. Len(C) : C[i] \in Inner
    BY <2>1, ElementOfSeq
  <2> QED
    BY <2>2, InnerFacts
<1>4. CR # dollar /\ CR # comma /\ dollar # comma
  BY TokenFacts
<1>5. ASSUME NEW i \in 1 .. Len(y), i # o + 1,
             ~ (i - o - 1 \in 1 .. Len(C) /\ y[i] = C[i - o - 1])
      PROVE  y[i] # dollar /\ y[i] # comma
  <2>1. (i = 1 /\ o = 1) \/ (i = o + 2 + Len(C) /\ Len(y) = o + 2 + Len(C))
    <3>1. i - o - 1 \in 1 .. Len(C) => y[i] = C[i - o - 1]
      <4>1. i - o - 1 \in 1 .. Len(C) => o + 1 + (i - o - 1) = i
        BY <1>1
      <4> QED
        BY <1>2, <4>1
    <3>2. i - o - 1 \notin 1 .. Len(C)
      BY <1>5, <3>1
    <3> QED
      BY <1>1, <1>2, <1>5, <3>2
  <2>2. y[i] = CR \/ \E R : y[i] = Sum(R)
    BY <1>2, <2>1
  <2> QED
    BY <1>4, <2>2, SumApart
<1>6. ASSUME NEW i \in 1 .. Len(y), i # o + 1
      PROVE  y[i] # dollar
  BY <1>3, <1>5, <1>6
<1>7. ASSUME NEW i \in Commas(y)
      PROVE  i - o - 1 \in 1 .. Len(C) /\ C[i - o - 1] = comma
  <2>1. i \in 1 .. Len(y) /\ y[i] = comma
    BY DEF Commas
  <2>2. i # o + 1
    BY <1>2, <1>4, <2>1
  <2> QED
    BY <1>5, <2>1, <2>2
<1>8. ASSUME NEW j \in 1 .. Len(C), C[j] = comma
      PROVE  o + 1 + j \in Commas(y)
  <2>1. o + 1 + j \in 1 .. Len(y)
    BY <1>1, <1>2
  <2> QED
    BY <1>2, <1>8, <2>1 DEF Commas
<1> QED
  BY <1>1, <1>6, <1>7, <1>8

\* The number in a field.
LEMMA FieldValue ==
  ASSUME NEW S, NEW y \in Seq(S), NEW m \in 1 .. Len(y) + 1,
         NEW n \in 0 .. Len(y), m <= n + 1
  PROVE  /\ m = n + 1 => Value(SubSeq(y, m, n)) = 0
         /\ m # n + 1 => Value(SubSeq(y, m, n)) = y[m][2]
                         /\ SubSeq(y, m, n)[1] = y[m]
<1> DEFINE f == SubSeq(y, m, n)
<1>1. f \in Seq(S) /\ Len(f) = n + 1 - m
      /\ \A i \in 1 .. n + 1 - m : f[i] = y[m - 1 + i]
  BY Part
<1>2. Len(y) \in Nat /\ m \in Nat /\ n \in Nat
  BY LenProperties
<1> HIDE DEF f
<1>3. CASE m = n + 1
  <2>1. Len(f) = 0
    BY <1>1, <1>2, <1>3
  <2>2. f \in Seq(S)
    BY <1>1
  <2>3. f = <<>>
    BY <2>1, <2>2, EmptySeq
  <2> QED
    BY <1>3, <2>3 DEF Value, f
<1>4. CASE m # n + 1
  <2>1. 1 \in 1 .. n + 1 - m /\ m - 1 + 1 = m
    BY <1>2, <1>4
  <2>2. Len(f) # Len(<<>>)
    BY <1>1, <1>2, <1>4
  <2>3. f # <<>>
    BY <2>2
  <2>4. f[1] = y[m]
    BY <1>1, <2>1
  <2> QED
    BY <1>4, <2>3, <2>4 DEF Value, f
<1> QED
  BY <1>3, <1>4

\* The first field is the kind.
LEMMA KindField ==
  ASSUME NEW y, NEW o, NEW C, Carries(y, o, C), Len(C) >= 2,
         NEW kind \in Kinds, C[1] = Tok(kind), C[2] = comma
  PROVE  Fields(y)[1][1] = Tok(kind)
<1> DEFINE d == o + 1
           e == o + 3
<1>1. y \in Seq(Tokens) /\ y[d] = dollar
  BY DEF Carries
<1>2. /\ \A i \in 1 .. Len(y) : i # o + 1 => y[i] # dollar
      /\ \A i \in Commas(y) : i - o - 1 \in 1 .. Len(C) /\ C[i - o - 1] = comma
      /\ \A j \in 1 .. Len(C) : C[j] = comma => o + 1 + j \in Commas(y)
      /\ o \in 0 .. 1 /\ Len(C) \in Nat /\ Len(y) \in Nat
  BY LineParts
<1>3. Len(y) >= o + 1 + Len(C) /\ \A i \in 1 .. Len(C) : y[o + 1 + i] = C[i]
  BY <1>2 DEF Carries
<1>4. Tok(kind) # comma
  BY InnerFacts, TokenFacts DEF Kinds
<1>5. o \in Nat /\ d \in 1 .. Len(y) /\ e \in Int /\ d < e
  BY <1>2, <1>3
<1>6. e \in Commas(y)
  <2>1. 2 \in 1 .. Len(C) /\ o + 1 + 2 = o + 3
    BY <1>2, <1>5
  <2> QED
    BY <1>2, <2>1
<1>7. ASSUME NEW i \in Commas(y)
      PROVE  e <= i
  <2>1. i - o - 1 \in 1 .. Len(C) /\ C[i - o - 1] = comma
    BY <1>2
  <2>2. i - o - 1 # 1
    BY <1>4, <2>1
  <2>3. i \in Int
    BY <1>2 DEF Commas
  <2> QED
    BY <1>5, <2>1, <2>2, <2>3
<1>8. \A i \in 1 .. Len(y) : i # d => y[i] # dollar
  BY <1>2
<1> HIDE DEF d, e
<1>9. Fields(y)[1] = SubSeq(y, d + 1, e - 1)
  BY <1>1, <1>5, <1>6, <1>7, <1>8, FirstField
<1>10. SubSeq(y, d + 1, e - 1)[1] = y[d + 1]
  <2>1. /\ y \in Seq(Tokens) /\ d + 1 \in 1 .. Len(y) + 1
        /\ e - 1 \in 0 .. Len(y) /\ d + 1 <= (e - 1) + 1
        /\ d + 1 # (e - 1) + 1
    BY <1>1, <1>2, <1>3, <1>5 DEF d, e
  <2> QED
    BY <2>1, FieldValue
<1>11. y[d + 1] = C[1]
  <2>1. 1 \in 1 .. Len(C)
    BY <1>2
  <2>2. y[o + 1 + 1] = C[1]
    BY <1>3, <2>1
  <2> QED
    BY <2>2 DEF d
<1> QED
  BY <1>9, <1>10, <1>11

\* The fields of a position fix.
LEMMA GgaFields ==
  ASSUME NEW t \in Nat \ {0}, NEW p \in Nat,
         NEW y, NEW o, Carries(y, o, Content("GGA", t, p))
  PROVE  /\ DOMAIN Fields(y) = 1 .. 4
         /\ Value(Fields(y)[2]) = t /\ Value(Fields(y)[3]) = p
         /\ Value(Fields(y)[4]) = IF p = 0 THEN 0 ELSE 1
<1> DEFINE C == Content("GGA", t, p)
           d == o + 1
           a == o + 3
           b == o + 5
           c == IF p = 0 THEN o + 6 ELSE o + 7
<1>1. y \in Seq(Tokens) /\ y[d] = dollar
  BY DEF Carries
<1>2. /\ \A i \in 1 .. Len(y) : i # o + 1 => y[i] # dollar
      /\ \A i \in Commas(y) : i - o - 1 \in 1 .. Len(C) /\ C[i - o - 1] = comma
      /\ \A j \in 1 .. Len(C) : C[j] = comma => o + 1 + j \in Commas(y)
      /\ o \in 0 .. 1 /\ Len(C) \in Nat /\ Len(y) \in Nat
  BY LineParts
<1>3. /\ Len(y) \in {o + 1 + Len(C), o + 2 + Len(C)}
      /\ Len(y) = o + 2 + Len(C) => \E R : y[o + 2 + Len(C)] = Sum(R)
  BY DEF Carries
<1>4. \A i \in 1 .. Len(C) : y[o + 1 + i] = C[i]
  BY DEF Carries
<1>5. /\ C[1] = Tok("GGA") /\ C[2] = comma /\ C[3] = Token("T", t)
      /\ C[4] = comma
      /\ p = 0 => Len(C) = 5 /\ C[5] = comma
      /\ p # 0 => /\ Len(C) = 7 /\ C[5] = Token("P", p) /\ C[6] = comma
                  /\ C[7] = Token("Q", 1)
  BY GgaContent
<1> HIDE DEF C
<1> DEFINE n == Len(C)
<1>16. (p = 0 => n = 5) /\ (p # 0 => n = 7)
  BY <1>5, Zenon
<1> HIDE DEF n
<1>17. n \in {5, 7}
  BY <1>16
<1>6. Tok("GGA") # comma /\ Token("T", t) # comma
      /\ Token("P", p) # comma /\ Token("Q", 1) # comma
  <2>1. comma[1] = ","
    BY TokenFacts
  <2>2. /\ Tok("GGA")[1] = "GGA" /\ Token("T", t)[1] = "T"
        /\ Token("P", p)[1] = "P" /\ Token("Q", 1)[1] = "Q"
    BY DEF Tok, Token
  <2> QED
    BY <2>1, <2>2
<1>7. o \in Nat /\ Len(C) \in {5, 7} /\ c \in Int
      /\ d \in 1 .. Len(y) /\ a \in Int /\ b \in Int
      /\ d < a /\ a < b /\ b < c
  BY <1>2, <1>3, <1>5
<1>8. ASSUME NEW i \in Commas(y)
      PROVE  i \in {a, b, c}
  <2>1. i - o - 1 \in 1 .. Len(C) /\ C[i - o - 1] = comma
    BY <1>2
  <2>2. i \in Int
    BY <1>2 DEF Commas
  <2> DEFINE j == i - o - 1
  <2>3. /\ j \in 1 .. Len(C) /\ C[j] = comma /\ j \in Int /\ i = j + o + 1
    BY <1>7, <2>1, <2>2
  <2> HIDE DEF j
  <2>4. p = 0 => j \in {2, 4, 5}
    <3>1. j # 1 /\ j # 3
      BY <1>5, <1>6, <2>3
    <3>2. j \in 1 .. n
      BY <2>3 DEF n
    <3> QED
      BY <1>16, <2>3, <3>1, <3>2
  <2>5. p # 0 => j \in {2, 4, 6}
    <3> SUFFICES ASSUME p # 0
                 PROVE  j \in {2, 4, 6}
      OBVIOUS
    <3>1. j # 1 /\ j # 3 /\ j # 5 /\ j # 7
      BY <1>5, <1>6, <2>3
    <3>2. j \in 1 .. n
      BY <2>3 DEF n
    <3> QED
      BY <1>16, <2>3, <3>1, <3>2
  <2> QED
    BY <1>7, <2>3, <2>4, <2>5
<1>9. a \in Commas(y) /\ b \in Commas(y) /\ c \in Commas(y)
  <2>1. /\ 2 \in 1 .. Len(C) /\ 4 \in 1 .. Len(C)
        /\ p = 0 => 5 \in 1 .. Len(C)
    <3>1. 2 \in 1 .. n /\ 4 \in 1 .. n
      BY <1>17
    <3>2. p = 0 => 5 \in 1 .. n
      BY <1>16
    <3> QED
      BY <3>1, <3>2 DEF n
  <2>2. p # 0 => 6 \in 1 .. Len(C)
    <3>1. p # 0 => 6 \in 1 .. n
      BY <1>16
    <3> QED
      BY <3>1 DEF n
  <2>3. o + 1 + 2 = a /\ o + 1 + 4 = b /\ o + 1 + 5 = o + 6
        /\ o + 1 + 6 = o + 7
    BY <1>7
  <2>4. a \in Commas(y) /\ b \in Commas(y)
    BY <1>2, <1>5, <2>1, <2>3
  <2>5. p = 0 => o + 6 \in Commas(y)
    BY <1>2, <1>5, <2>1, <2>3
  <2>6. p # 0 => o + 7 \in Commas(y)
    BY <1>2, <1>5, <2>2, <2>3
  <2> QED
    BY <2>4, <2>5, <2>6
<1>10. Commas(y) = {a, b, c}
  BY <1>8, <1>9
<1>11. \A i \in 1 .. Len(y) : i # d => y[i] # dollar
  BY <1>2
<1> DEFINE f == Fields(y)
<1>12. /\ DOMAIN f = 1 .. 4
       /\ f[2] = SubSeq(y, a + 1, b - 1)
       /\ f[3] = SubSeq(y, b + 1, c - 1)
       /\ f[4] = SubSeq(y, c + 1, Len(y))
  <2> HIDE DEF d, a, b, c
  <2> QED
    BY <1>1, <1>7, <1>10, <1>11, FourFields, ZenonT(30)
<1>13. Value(f[2]) = t
  <2>1. /\ y \in Seq(Tokens) /\ a + 1 \in 1 .. Len(y) + 1
        /\ b - 1 \in 0 .. Len(y) /\ a + 1 <= (b - 1) + 1
        /\ a + 1 # (b - 1) + 1
    BY <1>1, <1>2, <1>3, <1>7, SMTT(30)
  <2>2. Value(SubSeq(y, a + 1, b - 1)) = y[a + 1][2]
    <3> HIDE DEF a, b
    <3> QED
      BY <2>1, FieldValue
  <2>3. y[a + 1] = C[3]
    <3>1. 3 \in 1 .. Len(C) /\ o + 1 + 3 = a + 1
      BY <1>7
    <3> QED
      BY <1>4, <3>1
  <2>4. C[3][2] = t
    BY <1>5 DEF Token
  <2> HIDE DEF f
  <2> QED
    BY <1>12, <2>2, <2>3, <2>4
<1>14. Value(f[3]) = p
  <2>1. /\ y \in Seq(Tokens) /\ b + 1 \in 1 .. Len(y) + 1
        /\ c - 1 \in 0 .. Len(y) /\ b + 1 <= (c - 1) + 1
    BY <1>1, <1>2, <1>3, <1>5, <1>7, SMTT(30)
  <2>2. /\ b + 1 = (c - 1) + 1 => Value(SubSeq(y, b + 1, c - 1)) = 0
        /\ b + 1 # (c - 1) + 1 => Value(SubSeq(y, b + 1, c - 1)) = y[b + 1][2]
    <3> HIDE DEF b, c
    <3> QED
      BY <2>1, FieldValue
  <2>3. p = 0 <=> b + 1 = (c - 1) + 1
    BY <1>7
  <2>4. p # 0 => y[b + 1][2] = p
    <3>1. p # 0 => 5 \in 1 .. Len(C) /\ C[5] = Token("P", p)
      BY <1>5
    <3>2. o + 1 + 5 = b + 1
      BY <1>7
    <3>3. Token("P", p)[2] = p
      BY DEF Token
    <3> HIDE DEF b
    <3> QED
      BY <1>4, <3>1, <3>2, <3>3
  <2> HIDE DEF f, b, c
  <2> QED
    BY <1>12, <2>2, <2>3, <2>4
<1>15. Value(f[4]) = IF p = 0 THEN 0 ELSE 1
  <2>1. /\ y \in Seq(Tokens) /\ c + 1 \in 1 .. Len(y) + 1
        /\ Len(y) \in 0 .. Len(y) /\ c + 1 <= Len(y) + 1
    BY <1>1, <1>2, <1>3, <1>5, <1>7, SMTT(30)
  <2>2. /\ c + 1 = Len(y) + 1 => Value(SubSeq(y, c + 1, Len(y))) = 0
        /\ c + 1 # Len(y) + 1 => Value(SubSeq(y, c + 1, Len(y))) = y[c + 1][2]
    <3> HIDE DEF c
    <3> QED
      BY <2>1, FieldValue
  <2>3. CASE p = 0
    <3>0. n = 5 /\ Len(y) \in {o + 1 + n, o + 2 + n} /\ c = o + 6
      BY <1>3, <1>16, <2>3 DEF n
    <3>1. c + 1 = o + 2 + Len(C)
      <4>1. c + 1 = o + 2 + n
        BY <1>7, <3>0
      <4> QED
        BY <4>1 DEF n
    <3>2. c + 1 # Len(y) + 1 => Len(y) = o + 2 + Len(C)
      <4>1. c + 1 # Len(y) + 1 => Len(y) = o + 2 + n
        BY <1>2, <1>7, <3>0
      <4> QED
        BY <4>1 DEF n
    <3>3. c + 1 # Len(y) + 1 => y[c + 1][2] = 0
      <4>1. c + 1 # Len(y) + 1 => \E R : y[c + 1] = Sum(R)
        <5> HIDE DEF c
        <5> QED
          BY <1>3, <3>1, <3>2
      <4>2. \A R : Sum(R)[2] = 0
        BY TokenFacts
      <4> HIDE DEF c
      <4> QED
        BY <4>1, <4>2 DEF n
    <3> HIDE DEF f, c
    <3> QED
      BY <1>12, <2>2, <2>3, <3>3
  <2>4. CASE p # 0
    <3>0. n = 7 /\ Len(y) \in {o + 1 + n, o + 2 + n} /\ c = o + 7
      BY <1>3, <1>16, <2>4 DEF n
    <3>1. c + 1 # Len(y) + 1
      BY <1>2, <1>7, <3>0
    <3>2. 7 \in 1 .. Len(C) /\ C[7] = Token("Q", 1) /\ o + 1 + 7 = c + 1
      <4>1. C[7] = Token("Q", 1)
        BY <1>5, <2>4
      <4>2. 7 \in 1 .. n /\ o + 1 + 7 = c + 1
        BY <1>7, <3>0
      <4> QED
        BY <4>1, <4>2 DEF n
    <3>3. Token("Q", 1)[2] = 1
      BY DEF Token
    <3>4. y[c + 1][2] = 1
      <4> HIDE DEF c
      <4> QED
        BY <1>4, <3>2, <3>3
    <3> HIDE DEF f, c
    <3> QED
      BY <1>12, <2>2, <2>4, <3>1, <3>4
  <2> QED
    BY <2>3, <2>4
<1> QED
  BY <1>12, <1>13, <1>14, <1>15

\* gps_fix has its fields, whatever the last two hold.
FixKeys  == {"time", "pos", "q", "dop", "track"}
IsFix(x) == x = [k \in FixKeys |-> x[k]]

\* The cached fix is the same one.
SameFix(x, z) == z.time = x.time /\ z.pos = x.pos /\ z.q = x.q

\* What the updates do to it.
LEMMA Updates ==
  ASSUME NEW x, IsFix(x), NEW f
  PROVE  /\ IsFix(UpdateGsa(x, f)) /\ SameFix(x, UpdateGsa(x, f))
         /\ IsFix(UpdateRmc(x, f)) /\ SameFix(x, UpdateRmc(x, f))
<1>1. ASSUME NEW v
      PROVE  /\ IsFix([x EXCEPT !.dop = v]) /\ SameFix(x, [x EXCEPT !.dop = v])
             /\ IsFix([x EXCEPT !.track = v])
             /\ SameFix(x, [x EXCEPT !.track = v])
  BY DEF IsFix, FixKeys, SameFix
<1>2. SameFix(x, x)
  BY DEF SameFix
<1>3. PICK v : UpdateGsa(x, f) = [x EXCEPT !.dop = v]
  BY DEF UpdateGsa
<1>4. UpdateRmc(x, f) = x \/ \E t : UpdateRmc(x, f) = [x EXCEPT !.track = t]
  BY DEF UpdateRmc
<1> QED
  BY <1>1, <1>2, <1>3, <1>4

\* Only a position fix changes the time, the position or the quality.
LEMMA Dispatches ==
  ASSUME NEW x, IsFix(x), NEW f
  PROVE  LET z == Dispatch(x, f) IN
         \/ IsFix(z) /\ SameFix(x, z)
         \/ f[1] = <<Tok("GGA")>> /\ z = UpdateGga(x, DecodeGga(f))
<1> DEFINE Is(k) == f[1] = <<Tok(k)>>
<1>1. /\ Is("GGA") => ~Is("GSA") /\ ~Is("RMC")
      /\ Is("GSA") => ~Is("RMC")
  <2>1. \A k : <<Tok(k)>>[1][1] = k
    BY DEF Tok
  <2>2. \A j, k : Is(j) /\ Is(k) => j = k
    BY <2>1
  <2> HIDE DEF Is
  <2>3. "GGA" # "GSA" /\ "GGA" # "RMC" /\ "GSA" # "RMC"
    OBVIOUS
  <2> QED
    BY <2>2, <2>3
<1> HIDE DEF Is
<1>2. Dispatch(x, f) =
        CASE Is("GGA") -> UpdateGga(x, DecodeGga(f))
          [] Is("GSA") -> UpdateGsa(x, f)
          [] Is("RMC") -> UpdateRmc(x, f)
          [] OTHER     -> x
  BY DEF Dispatch, Is
<1>3. SameFix(x, x)
  BY DEF SameFix
<1>4. CASE Is("GGA")
  <2>1. Dispatch(x, f) = UpdateGga(x, DecodeGga(f))
    BY <1>1, <1>2, <1>4
  <2> QED
    BY <1>4, <2>1 DEF Is
<1>5. CASE Is("GSA")
  <2>1. Dispatch(x, f) = UpdateGsa(x, f)
    BY <1>1, <1>2, <1>5
  <2> QED
    BY <2>1, Updates
<1>6. CASE Is("RMC")
  <2>1. Dispatch(x, f) = UpdateRmc(x, f)
    BY <1>1, <1>2, <1>6
  <2> QED
    BY <2>1, Updates
<1>7. CASE ~Is("GGA") /\ ~Is("GSA") /\ ~Is("RMC")
  <2>1. Dispatch(x, f) = x
    BY <1>2, <1>7
  <2> QED
    BY <1>3, <2>1
<1> QED
  BY <1>4, <1>5, <1>6, <1>7

\* A line that carries a sentence stores its fix, if it has one, or nothing.
LEMMA Decoded ==
  ASSUME NEW kind \in Kinds, NEW t \in Nat, NEW p \in {0, t},
         kind = "GGA" => t # 0,
         NEW y, NEW o, Carries(y, o, Content(kind, t, p)),
         NEW x, IsFix(x)
  PROVE  LET z == Dispatch(x, Fields(y)) IN
         /\ IsFix(z)
         /\ \/ SameFix(x, z)
            \/ p # 0 /\ z.time = t /\ z.pos = t /\ z.q = 1
<1> DEFINE f == Fields(y)
           C == Content(kind, t, p)
           z == Dispatch(x, f)
<1>1. \/ IsFix(z) /\ SameFix(x, z)
      \/ f[1] = <<Tok("GGA")>> /\ z = UpdateGga(x, DecodeGga(f))
  BY Dispatches
<1>2. f[1][1] = Tok(kind)
  <2>1. Opens(C, kind, 7)
    BY ContentFacts
  <2>2. Carries(y, o, C)
    OBVIOUS
  <2> HIDE DEF C
  <2>3. Len(C) >= 2 /\ C[1] = Tok(kind) /\ C[2] = comma
    BY <2>1 DEF Opens
  <2> QED
    BY <2>2, <2>3, KindField
<1>3. ASSUME f[1] = <<Tok("GGA")>>, z = UpdateGga(x, DecodeGga(f))
      PROVE  /\ IsFix(z)
             /\ SameFix(x, z) \/ (p # 0 /\ z.time = t /\ z.pos = t /\ z.q = 1)
  <2>1. kind = "GGA"
    <3>1. f[1][1] = Tok("GGA")
      BY <1>3
    <3>2. Tok(kind)[1] = kind /\ Tok("GGA")[1] = "GGA"
      BY DEF Tok
    <3> QED
      BY <1>2, <3>1, <3>2
  <2>2. t \in Nat \ {0} /\ p \in Nat /\ Carries(y, o, Content("GGA", t, p))
    BY <2>1
  <2>3. /\ DOMAIN f = 1 .. 4 /\ Value(f[2]) = t /\ Value(f[3]) = p
        /\ Value(f[4]) = IF p = 0 THEN 0 ELSE 1
    BY <2>2, GgaFields
  <2>4. Len(f) = 4
    BY <2>3
  <2> HIDE DEF f, z
  <2>5. DecodeGga(f) = [time |-> t, pos |-> p, q |-> IF p = 0 THEN 0 ELSE 1]
    BY <2>3, <2>4 DEF DecodeGga
  <2>6. CASE p = 0
    <3>1. z = x
      BY <1>3, <2>5, <2>6 DEF UpdateGga
    <3> QED
      BY <3>1 DEF SameFix
  <2>7. CASE p # 0
    <3>1. z = [x EXCEPT !.time = t, !.pos = p, !.q = 1]
      BY <1>3, <2>5, <2>7 DEF UpdateGga
    <3> QED
      BY <2>7, <3>1 DEF IsFix, FixKeys
  <2> QED
    BY <2>6, <2>7
<1> QED
  BY <1>1, <1>3

\* A line behind o characters of rubbish, from its dollar to its star.
Intact(b, o, C) ==
  /\ Len(b) >= o + Len(C) + 2
  /\ o = 1 => b[1] = CR
  /\ b[o + 1] = dollar
  /\ \A i \in 1 .. Len(C) : b[o + 1 + i] = C[i]
  /\ b[o + Len(C) + 2] = star

\* Its body, which ends at the star or, without one, at the CR behind the sum.
LEMMA LineBody ==
  ASSUME NEW b \in Seq(Tokens), NEW o \in {0, 1}, NEW C \in Seq(Inner),
         o = 1 => b[1] = CR, b[o + 1] = dollar,
         \A i \in 1 .. Len(C) : b[o + 1 + i] = C[i],
         NEW e \in {o + Len(C) + 2, o + Len(C) + 3}, e <= Len(b),
         b[e] \in Ends,
         e = o + Len(C) + 3 => \E R : b[o + Len(C) + 2] = Sum(R)
  PROVE  Carries(Body(b), o, C)
<1> DEFINE n == Len(C)
<1>1. n \in Nat /\ Len(b) \in Nat /\ o \in Nat
  BY LenProperties
<1> DEFINE y == SubSeq(b, 1, e - 1)
<1>2. e \in 2 .. Len(b)
  BY <1>1
<1>3. ASSUME NEW i \in 2 .. e - 1
      PROVE  b[i] \notin Ends
  <2>1. \/ i = o + 1
        \/ i - o - 1 \in 1 .. n
        \/ i = o + n + 2 /\ e = o + n + 3
    BY <1>1
  <2>2. CASE i = o + 1
    BY <2>2, TokenFacts
  <2>3. CASE i - o - 1 \in 1 .. n
    <3>1. o + 1 + (i - o - 1) = i
      BY <1>1
    <3>2. b[i] = C[i - o - 1]
      BY <2>3, <3>1
    <3>3. C[i - o - 1] \in Inner
      BY <2>3, ElementOfSeq
    <3> QED
      BY <3>2, <3>3, InnerFacts
  <2>4. CASE i = o + n + 2 /\ e = o + n + 3
    BY <2>4, SumApart
  <2> QED
    BY <2>1, <2>2, <2>3, <2>4
<1>4. Body(b) = y
  BY <1>2, <1>3, BodyIs
<1>5. /\ y \in Seq(Tokens) /\ Len(y) = e - 1
      /\ \A i \in 1 .. e - 1 : y[i] = b[i]
  <2>1. /\ 1 \in 1 .. Len(b) + 1 /\ e - 1 \in 0 .. Len(b)
        /\ 1 <= (e - 1) + 1 /\ (e - 1) + 1 - 1 = e - 1
        /\ \A i \in 1 .. e - 1 : 1 - 1 + i = i
    BY <1>1, <1>2
  <2>2. /\ y \in Seq(Tokens) /\ Len(y) = (e - 1) + 1 - 1
        /\ \A i \in 1 .. (e - 1) + 1 - 1 : y[i] = b[1 - 1 + i]
    BY <2>1, Part
  <2> HIDE DEF y
  <2> QED
    BY <2>1, <2>2
<1> HIDE DEF y
<1>6. Len(y) \in {o + 1 + Len(C), o + 2 + Len(C)}
  BY <1>1, <1>5
<1>7. (o = 1 => y[1] = CR) /\ y[o + 1] = dollar
  <2>1. 1 \in 1 .. e - 1 /\ o + 1 \in 1 .. e - 1
    BY <1>1
  <2> QED
    BY <1>5, <2>1
<1>8. ASSUME NEW i \in 1 .. Len(C)
      PROVE  y[o + 1 + i] = C[i]
  <2>1. o + 1 + i \in 1 .. e - 1
    BY <1>1
  <2> QED
    BY <1>5, <2>1
<1>9. ASSUME Len(y) = o + 2 + Len(C)
      PROVE  \E R : y[o + 2 + Len(C)] = Sum(R)
  <2>1. /\ e = o + Len(C) + 3 /\ o + 2 + Len(C) \in 1 .. e - 1
        /\ o + 2 + Len(C) = o + Len(C) + 2
    BY <1>1, <1>5, <1>9
  <2> QED
    BY <1>5, <2>1
<1> QED
  BY <1>4, <1>5, <1>6, <1>7, <1>8, <1>9 DEF Carries

\* A line up to its star has the sentence for its body.
LEMMA IntactBody ==
  ASSUME NEW b \in Seq(Tokens), NEW o \in {0, 1}, NEW C \in Seq(Inner),
         Intact(b, o, C)
  PROVE  Carries(Body(b), o, C)
<1> DEFINE e == o + Len(C) + 2
<1>1. Len(C) \in Nat /\ o \in Nat
  BY LenProperties
<1>2. e \in {o + Len(C) + 2, o + Len(C) + 3} /\ e # o + Len(C) + 3
  BY <1>1
<1>3. e <= Len(b) /\ b[e] \in Ends
  <2>1. star \in Ends
    BY TokenFacts
  <2>2. Len(b) >= e /\ b[e] = star
    BY DEF Intact
  <2>3. Len(b) \in Nat
    BY LenProperties
  <2> QED
    BY <1>1, <2>1, <2>2, <2>3
<1>4. /\ o = 1 => b[1] = CR
      /\ b[o + 1] = dollar
      /\ \A i \in 1 .. Len(C) : b[o + 1 + i] = C[i]
  BY DEF Intact
<1> HIDE DEF e
<1> QED
  BY <1>2, <1>3, <1>4, LineBody

\* A line that lost a token of its content is not valid.
LEMMA Damaged ==
  ASSUME NEW C \in Seq(Inner), NEW j \in 1 .. Len(C),
         NEW b \in Seq(Tokens), NEW o \in {0, 1},
         Len(b) >= o + Len(C) + 2, b[o + 1] = dollar,
         \A i \in 1 .. j - 1 : b[o + 1 + i] = C[i],
         \A i \in j .. Len(C) - 1 : b[o + 1 + i] = C[i + 1],
         b[o + Len(C) + 1] = star,
         b[o + Len(C) + 2] = Sum(Checksum(C))
  PROVE  ~Valid(b)
<1> DEFINE n == Len(C)
           e == o + n + 1
           y == SubSeq(b, 1, e - 1)
<1>1. n \in Nat /\ Len(b) \in Nat /\ o \in Nat /\ n >= 1
  BY LenProperties
<1>2. e \in 2 .. Len(b) /\ e + 1 \in 2 .. Len(b) /\ b[e] \in Ends
  <2>1. star \in Ends
    BY TokenFacts
  <2> QED
    BY <1>1, <2>1
<1>3. \A i \in 1 .. n : C[i] \in Inner
  BY ElementOfSeq
<1>4. ASSUME NEW i \in 2 .. e - 1
      PROVE  b[i] \notin Ends
  <2> DEFINE k == i - o - 1
  <2>1. k \in Int /\ i = o + 1 + k /\ k \in 0 .. n - 1
    BY <1>1
  <2> HIDE DEF k
  <2>2. CASE k = 0
    <3>1. i = o + 1
      BY <1>1, <2>1, <2>2
    <3> QED
      BY <3>1, TokenFacts
  <2>3. CASE k \in 1 .. j - 1
    <3>1. k \in 1 .. n
      BY <1>1, <2>3
    <3>2. b[i] = C[k]
      BY <2>1, <2>3
    <3> QED
      BY <1>3, <3>1, <3>2, InnerFacts
  <2>4. CASE k \in j .. n - 1
    <3>1. k + 1 \in 1 .. n
      BY <1>1, <2>4
    <3>2. b[i] = C[k + 1]
      BY <2>1, <2>4
    <3> QED
      BY <1>3, <3>1, <3>2, InnerFacts
  <2> QED
    BY <1>1, <2>1, <2>2, <2>3, <2>4
<1>5. Body(b) = y
  BY <1>2, <1>4, BodyIs
<1>6. /\ y \in Seq(Tokens) /\ Len(y) = e - 1
      /\ \A i \in 1 .. e - 1 : y[i] = b[i]
  <2>1. /\ 1 \in 1 .. Len(b) + 1 /\ e - 1 \in 0 .. Len(b)
        /\ 1 <= (e - 1) + 1 /\ (e - 1) + 1 - 1 = e - 1
        /\ \A i \in 1 .. e - 1 : 1 - 1 + i = i
    BY <1>1, <1>2
  <2>2. /\ y \in Seq(Tokens) /\ Len(y) = (e - 1) + 1 - 1
        /\ \A i \in 1 .. (e - 1) + 1 - 1 : y[i] = b[1 - 1 + i]
    BY <2>1, Part
  <2> HIDE DEF y
  <2> QED
    BY <2>1, <2>2
<1> HIDE DEF y
<1> DEFINE d == o + 1
<1>7. Checksum(y) # Checksum(C)
  <2>1. C \in Seq(Tokens) /\ \A i \in 1 .. Len(C) : C[i] # dollar
    <3>1. Inner \subseteq Tokens
      BY TokenFacts
    <3>2. C \in Seq(Tokens)
      BY <3>1, SeqMonotonic
    <3> QED
      BY <1>3, <3>2, InnerFacts
  <2>2. d \in Nat \ {0} /\ Len(y) = d + Len(C) - 1
    BY <1>1, <1>6
  <2>3. y[d] = dollar
    <3>1. d \in 1 .. e - 1
      BY <1>1
    <3> QED
      BY <1>6, <3>1
  <2>4. ASSUME NEW i \in 1 .. j - 1
        PROVE  y[d + i] = C[i]
    <3>1. d + i \in 1 .. e - 1
      BY <1>1
    <3> QED
      BY <1>6, <3>1
  <2>5. ASSUME NEW i \in j .. Len(C) - 1
        PROVE  y[d + i] = C[i + 1]
    <3>1. d + i \in 1 .. e - 1
      BY <1>1
    <3> QED
      BY <1>6, <3>1
  <2>6. y \in Seq(Tokens)
    BY <1>6
  <2> HIDE DEF d
  <2> QED
    BY <2>1, <2>2, <2>3, <2>4, <2>5, <2>6, LossChangesSum
<1>8. Sum(Checksum(y)) # Sum(Checksum(C))
  BY <1>7, TokenFacts
<1>9. ASSUME Valid(b)
      PROVE  b[e + 1] = Sum(Checksum(y))
  <2>1. Len(Body(b)) + 1 = e
    BY <1>1, <1>5, <1>6
  <2>2. LET h == Len(Body(b)) + 1 IN
        h <= Len(b) /\ b[h] = star =>
          h < Len(b) /\ b[h + 1] = Sum(Checksum(Body(b)))
    BY <1>9 DEF Valid, star
  <2>3. e <= Len(b) /\ b[e] = star
    BY <1>2
  <2> HIDE DEF e
  <2> QED
    BY <1>5, <2>1, <2>2, <2>3
<1>10. b[e + 1] = Sum(Checksum(C))
  <2>1. e + 1 = o + Len(C) + 2
    BY <1>1
  <2> QED
    BY <2>1
<1> QED
  BY <1>8, <1>9, <1>10

-----------------------------------------------------------------------------
(* rxData() *)

\* The buffer after a sentence: with it, or with what came once it was full.
LEMMA RxCases ==
  ASSUME NEW m \in Seq(Tokens), Len(m) < BufferSize, NEW f,
         NEW x \in Seq(Tokens), Len(x) \in 1 .. 12
  PROVE  LET r == RxData([nmea |-> m, fix |-> f], x) IN
         \E b \in Seq(Tokens) :
           /\ Len(b) < BufferSize
           /\ \/ b = Cat(m, x)
              \/ /\ Len(b) < Len(x)
                 /\ \A i \in 1 .. Len(b) : b[i] = x[Len(x) - Len(b) + i]
           /\ IF Len(b) = 0 \/ b[Len(b)] # LF THEN r.nmea = b /\ r.fix = f
              ELSE /\ r.nmea = <<>>
                   /\ r.fix = IF Valid(b) THEN Dispatch(f, Fields(Body(b)))
                              ELSE f
<1> DEFINE a == Cat(m, x)
           from == IF Len(a) >= BufferSize THEN BufferSize + 1 ELSE 1
           b == SubSeq(a, from, Len(a))
           r == RxData([nmea |-> m, fix |-> f], x)
<1>1. BufferSize \in Nat /\ BufferSize >= 12
  BY GpsAssumption
<1>2. a \in Seq(Tokens) /\ Len(a) = Len(m) + Len(x)
      /\ Len(m) \in Nat /\ Len(x) \in Nat
  BY CatIs, LenProperties
<1>3. \A i \in 1 .. Len(x) : a[Len(m) + i] = x[i]
  BY CatIs
<1>4. r = IF b = <<>> \/ b[Len(b)] # LF THEN [nmea |-> b, fix |-> f]
          ELSE [nmea |-> <<>>,
                fix |-> IF Valid(b) THEN Dispatch(f, Fields(Body(b))) ELSE f]
  <2> DEFINE was == [nmea |-> m, fix |-> f]
  <2>1. /\ was.nmea = m /\ was.fix = f
        /\ \A v : [was EXCEPT !.nmea = v] = [nmea |-> v, fix |-> f]
    OBVIOUS
  <2>2. r = IF b = <<>> \/ b[Len(b)] # LF THEN [was EXCEPT !.nmea = b]
          ELSE [nmea |-> <<>>,
                fix |-> IF Valid(b) THEN Dispatch(was.fix, Fields(Body(b)))
                        ELSE was.fix]
    BY DEF RxData, Last, LF, Cat
  <2> HIDE DEF b, was
  <2> QED
    BY <2>1, <2>2
<1> HIDE DEF r
<1>5. /\ b \in Seq(Tokens) /\ Len(b) < BufferSize
      /\ \/ b = a
         \/ /\ Len(b) < Len(x)
            /\ \A i \in 1 .. Len(b) : b[i] = x[Len(x) - Len(b) + i]
  <2> HIDE DEF a
  <2>1. CASE Len(a) >= BufferSize
    <3> DEFINE g == BufferSize + 1
               c == SubSeq(a, g, Len(a))
    <3>1. /\ a \in Seq(Tokens) /\ g \in 1 .. Len(a) + 1
          /\ Len(a) \in 0 .. Len(a) /\ g <= Len(a) + 1
      BY <1>1, <1>2, <2>1
    <3>2. /\ c \in Seq(Tokens) /\ Len(c) = Len(a) + 1 - g
          /\ \A i \in 1 .. Len(a) + 1 - g : c[i] = a[g - 1 + i]
      <4> HIDE DEF g
      <4> QED
        BY <3>1, Part
    <3> HIDE DEF c
    <3>3. Len(c) < BufferSize /\ Len(c) < Len(x) /\ Len(c) \in Nat
      <4>1. Len(c) = Len(a) + 1 - (BufferSize + 1)
        BY <3>2
      <4>2. Len(a) = Len(m) + Len(x)
        BY <1>2
      <4>3. Len(m) \in Nat /\ Len(x) \in 1 .. 12 /\ Len(m) < BufferSize
        BY <1>2
      <4>4. \A i \in Nat, k \in 1 .. 12 :
              i < BufferSize /\ i + k >= BufferSize =>
                LET l == i + k + 1 - (BufferSize + 1) IN
                l < BufferSize /\ l < k /\ l \in Nat
        BY <1>1
      <4> QED
        BY <2>1, <4>1, <4>2, <4>3, <4>4, Zenon
    <3>4. ASSUME NEW i \in 1 .. Len(c)
          PROVE  c[i] = x[Len(x) - Len(c) + i]
      <4> DEFINE k == Len(x) - Len(c) + i
      <4>0. Len(c) = Len(a) + 1 - (BufferSize + 1)
        BY <3>2
      <4>1. /\ k \in 1 .. Len(x) /\ Len(m) + k = g - 1 + i
            /\ i \in 1 .. Len(a) + 1 - g
        <5>1. Len(a) = Len(m) + Len(x) /\ Len(m) \in Nat /\ Len(x) \in Nat
          BY <1>2
        <5>2. Len(c) = Len(m) + Len(x) - BufferSize /\ i \in Int
          BY <1>1, <4>0, <5>1
        <5>3. k \in 1 .. Len(x)
          BY <3>3, <5>1
        <5>4. Len(m) + k = g - 1 + i
          BY <1>1, <5>1, <5>2
        <5>5. i \in 1 .. Len(a) + 1 - g
          BY <1>1, <4>0
        <5> QED
          BY <5>3, <5>4, <5>5
      <4> HIDE DEF k, g
      <4>2. c[i] = x[k]
        BY <1>3, <3>2, <4>1
      <4> QED
        BY <4>2 DEF k
    <3>5. b = c
      BY <2>1 DEF c
    <3> HIDE DEF b
    <3> QED
      BY <3>2, <3>3, <3>4, <3>5
  <2>2. CASE ~ (Len(a) >= BufferSize)
    <3>1. b = SubSeq(a, 1, Len(a))
      BY <2>2
    <3>2. b = a
      <4>1. a \in Seq(Tokens)
        BY <1>2
      <4> QED
        BY <3>1, <4>1, SubSeqFull
    <3> HIDE DEF b
    <3>3. Len(a) < BufferSize
      BY <1>1, <1>2, <2>2
    <3> QED
      BY <1>2, <3>2, <3>3
  <2> QED
    BY <2>1, <2>2
<1> HIDE DEF b
<1>6. b = <<>> <=> Len(b) = 0
  <2>1. b \in Seq(Tokens)
    BY <1>5
  <2> QED
    BY <2>1, EmptySeq
<1>7. IF Len(b) = 0 \/ b[Len(b)] # LF THEN r.nmea = b /\ r.fix = f
      ELSE /\ r.nmea = <<>>
           /\ r.fix = IF Valid(b) THEN Dispatch(f, Fields(Body(b))) ELSE f
  <2> DEFINE D == IF Valid(b) THEN Dispatch(f, Fields(Body(b))) ELSE f
  <2>1. r = IF Len(b) = 0 \/ b[Len(b)] # LF THEN [nmea |-> b, fix |-> f]
            ELSE [nmea |-> <<>>, fix |-> D]
    BY <1>4, <1>6
  <2> HIDE DEF D
  <2>2. IF Len(b) = 0 \/ b[Len(b)] # LF THEN r.nmea = b /\ r.fix = f
        ELSE r.nmea = <<>> /\ r.fix = D
    BY <2>1
  <2> QED
    BY <2>2 DEF D
<1> QED
  BY <1>5, <1>7 DEF r, a

\* What is left of a sentence, by the place of the token that it lost.
Without(s, g) == IF g = 0 THEN s ELSE RemoveAt(s, g)

\* Its tokens, position by position.
LEMMA Received ==
  ASSUME NEW kind \in Kinds, NEW t \in Nat, NEW p \in Nat,
         NEW g \in 0 .. Len(Sentence(kind, t, p))
  PROVE  LET C == Content(kind, t, p)
             s == Sentence(kind, t, p)
             x == Without(s, g)
         IN  /\ x \in Seq(Tokens) /\ Len(x) \in 1 .. 12
             /\ Len(x) = Len(C) + 5 - (IF g = 0 THEN 0 ELSE 1)
             /\ \A i \in 1 .. Len(x) :
                  x[i] = IF g = 0 \/ i < g THEN s[i] ELSE s[i + 1]
             /\ \A i \in 2 .. Len(x) : x[i] # dollar
             /\ x[Len(x)] = IF g = Len(C) + 5 THEN CR ELSE LF
<1> DEFINE C == Content(kind, t, p)
           s == Sentence(kind, t, p)
           x == Without(s, g)
           n == Len(C)
<1>1. C \in Seq(Inner) /\ n \in 2 .. 7
  BY SentenceFacts
<1>2. s \in Seq(Tokens) /\ Len(s) = n + 5
  BY SentenceFacts
<1>3. \A i \in 1 .. n : s[1 + i] = C[i]
  BY SentenceFacts
<1>4. /\ s[n + 2] = star /\ s[n + 3] = Sum(Checksum(C))
      /\ s[n + 4] = CR /\ s[n + 5] = LF
  BY SentenceFacts
<1>5. g \in 0 .. Len(s)
  OBVIOUS
<1> HIDE DEF s, C
<1>6. ASSUME NEW i \in 2 .. n + 5
      PROVE  s[i] # dollar
  <2>1. CASE i - 1 \in 1 .. n
    <3>1. 1 + (i - 1) = i
      OBVIOUS
    <3>2. s[i] = C[i - 1]
      BY <1>3, <2>1, <3>1
    <3>3. C[i - 1] \in Inner
      BY <1>1, <2>1, ElementOfSeq
    <3> QED
      BY <3>2, <3>3, InnerFacts
  <2>2. CASE i - 1 \notin 1 .. n
    <3>1. i = n + 2 \/ i = n + 3 \/ i = n + 4 \/ i = n + 5
      BY <1>1, <2>2
    <3>2. /\ star # dollar /\ CR # dollar /\ LF # dollar
          /\ Sum(Checksum(C)) # dollar
      BY TokenFacts, SumApart
    <3> QED
      BY <1>4, <3>1, <3>2
  <2> QED
    BY <2>1, <2>2
<1>7. /\ x \in Seq(Tokens) /\ Len(x) = n + 5 - (IF g = 0 THEN 0 ELSE 1)
      /\ \A i \in 1 .. Len(x) :
           x[i] = IF g = 0 \/ i < g THEN s[i] ELSE s[i + 1]
  <2>1. CASE g = 0
    <3>1. x = s
      BY <2>1 DEF Without
    <3> HIDE DEF x
    <3> QED
      BY <1>1, <1>2, <2>1, <3>1
  <2>2. CASE g # 0
    <3> DEFINE y == RemoveAt(s, g)
    <3>1. x = y
      BY <2>2 DEF Without
    <3>2. g \in 1 .. Len(s)
      BY <1>2, <1>5, <2>2
    <3>3. /\ y \in Seq(Tokens) /\ Len(y) = Len(s) - 1
          /\ \A i \in 1 .. g - 1 : y[i] = s[i]
          /\ \A i \in g .. Len(s) - 1 : y[i] = s[i + 1]
      BY <1>2, <3>2, Removed
    <3> HIDE DEF x, y
    <3>4. Len(x) = n + 5 - 1
      BY <1>1, <1>2, <3>1, <3>3
    <3>5. ASSUME NEW i \in 1 .. Len(x)
          PROVE  x[i] = IF i < g THEN s[i] ELSE s[i + 1]
      BY <1>1, <1>2, <3>1, <3>2, <3>3, <3>4
    <3> QED
      BY <1>1, <2>2, <3>1, <3>3, <3>4, <3>5
  <2> QED
    BY <2>1, <2>2
<1> HIDE DEF x
<1>8. Len(x) \in 1 .. 12 /\ g \in 0 .. n + 5
  <2>1. Len(x) = n + 5 \/ Len(x) = n + 4
    BY <1>1, <1>7
  <2>2. Len(x) \in 1 .. 12
    <3>1. \A k \in 2 .. 7 : k + 5 \in 1 .. 12 /\ k + 4 \in 1 .. 12
      OBVIOUS
    <3> QED
      BY <1>1, <2>1, <3>1, Zenon
  <2>3. g \in 0 .. n + 5
    BY <1>2, <1>5
  <2> QED
    BY <2>2, <2>3
<1>9. ASSUME NEW i \in 2 .. Len(x)
      PROVE  x[i] # dollar
  <2>1. i \in 2 .. n + 5 /\ (g # 0 => i + 1 \in 2 .. n + 5)
    BY <1>1, <1>7, <1>8
  <2> QED
    BY <1>6, <1>7, <1>8, <2>1
<1>10. x[Len(x)] = IF g = n + 5 THEN CR ELSE LF
  <2> DEFINE l == Len(x)
  <2>1. l \in 1 .. Len(x) /\ x[l] = IF g = 0 \/ l < g THEN s[l] ELSE s[l + 1]
    BY <1>7, <1>8
  <2>2. CASE g = 0
    <3>1. l = n + 5 /\ g # n + 5
      BY <1>1, <1>7, <2>2
    <3> QED
      BY <1>4, <2>1, <2>2, <3>1
  <2>3. CASE g = n + 5
    <3>1. l = n + 4 /\ l < g
      BY <1>1, <1>7, <2>3
    <3> QED
      BY <1>4, <2>1, <2>3, <3>1
  <2>4. CASE g # 0 /\ g # n + 5
    <3>1. l = n + 4 /\ ~ (l < g) /\ l + 1 = n + 5
      BY <1>1, <1>7, <1>8, <2>4
    <3> QED
      BY <1>4, <2>1, <2>4, <3>1
  <2> QED
    BY <2>2, <2>3, <2>4
<1> QED
  BY <1>7, <1>8, <1>9, <1>10 DEF x, s, C

\* No dollar but the first.
LEMMA OneDollar ==
  ASSUME NEW kind \in Kinds, NEW t \in Nat, NEW p \in Nat,
         NEW g \in 0 .. Len(Sentence(kind, t, p))
  PROVE  LET x == Without(Sentence(kind, t, p), g) IN
         \A i \in 2 .. Len(x) : x[i] # dollar
BY Received

\* It ends in LF, unless that was lost.
LEMMA LastToken ==
  ASSUME NEW kind \in Kinds, NEW t \in Nat, NEW p \in Nat,
         NEW g \in 0 .. Len(Sentence(kind, t, p))
  PROVE  LET x == Without(Sentence(kind, t, p), g) IN
         x[Len(x)] = IF g = Len(Content(kind, t, p)) + 5 THEN CR ELSE LF
BY Received

\* What a line feed decodes: the same fix, or one that was sent since.
Stored(f, z, T) ==
  /\ IsFix(z)
  /\ \/ SameFix(f, z)
     \/ /\ z.time \in Nat \ {0} /\ z.pos = z.time /\ z.q = 1
        /\ f.time <= z.time /\ z.time <= T

Taken(f, b) == IF Valid(b) THEN Dispatch(f, Fields(Body(b))) ELSE f

\* Of the sentence: a fix that is not older than the one in the cache.
Recent(kind, t, p, f, T) ==
  /\ p \in {0, t}
  /\ kind = "GGA" => t # 0
  /\ p # 0 => f.time <= t /\ t <= T

\* A body that carries a recent sentence is stored, or none is.
LEMMA TakenFrom ==
  ASSUME NEW kind \in Kinds, NEW t \in Nat, NEW p \in Nat,
         NEW f, IsFix(f), NEW T \in Nat, Recent(kind, t, p, f, T),
         NEW b, NEW o, ~Valid(b) \/ Carries(Body(b), o, Content(kind, t, p))
  PROVE  Stored(f, Taken(f, b), T)
<1>1. CASE ~Valid(b)
  BY <1>1 DEF Taken, Stored, SameFix
<1>2. CASE Valid(b)
  <2> DEFINE y == Body(b)
             z == Dispatch(f, Fields(y))
  <2>1. /\ Carries(y, o, Content(kind, t, p)) /\ p \in {0, t}
        /\ kind = "GGA" => t # 0
    BY <1>2 DEF Recent
  <2>2. /\ IsFix(z)
        /\ SameFix(f, z) \/ (p # 0 /\ z.time = t /\ z.pos = t /\ z.q = 1)
    <3> HIDE DEF y
    <3> QED
      BY <2>1, Decoded
  <2>3. Taken(f, b) = z
    BY <1>2 DEF Taken
  <2> HIDE DEF z
  <2> QED
    BY <2>2, <2>3 DEF Stored, Recent
<1> QED
  BY <1>1, <1>2

\* What stays in nmea_buffer when a line feed is lost: nothing, a carriage
\* return, a line that is not valid, or one whose sum is still right.
Short(m) == Len(m) <= 1 /\ (Len(m) = 1 => m[1] = CR)

Kept(m, f, T) ==
  \E o \in {0, 1}, kind \in Kinds, t \in Nat, p \in Nat :
    Recent(kind, t, p, f, T) /\ Intact(m, o, Content(kind, t, p))

Waits(m, f, T) == Short(m) \/ Headless(m) \/ Kept(m, f, T)

\* More tokens change neither of the last two.
LEMMA Appended ==
  ASSUME NEW m \in Seq(Tokens), NEW x \in Seq(Tokens)
  PROVE  /\ Headless(m) => Headless(Cat(m, x))
         /\ \A o \in {0, 1} : \A C \in Seq(Inner) :
              Intact(m, o, C) => Intact(Cat(m, x), o, C)
<1> DEFINE b == Cat(m, x)
<1>1. Len(b) = Len(m) + Len(x)
  BY CatIs
<1>2. \A i \in 1 .. Len(m) : b[i] = m[i]
  BY CatIs
<1>3. Len(m) \in Nat /\ Len(x) \in Nat
  BY LenProperties
<1> HIDE DEF b
<1>4. ASSUME Headless(m)
      PROVE  Headless(b)
  <2>1. PICK e \in 2 .. Len(m) :
          m[e] \in Ends /\ \A i \in 1 .. e - 1 : m[i] # dollar
    BY <1>4 DEF Headless
  <2>2. e \in 2 .. Len(b) /\ b[e] = m[e]
    BY <1>1, <1>2, <1>3
  <2>3. \A i \in 1 .. e - 1 : b[i] # dollar
    BY <1>2, <1>3, <2>1
  <2> QED
    BY <2>1, <2>2, <2>3 DEF Headless
<1>5. ASSUME NEW o \in {0, 1}, NEW C \in Seq(Inner), Intact(m, o, C)
      PROVE  Intact(b, o, C)
  <2> DEFINE n == Len(C)
  <2>1. n \in Nat /\ o \in Nat
    BY LenProperties
  <2>2. Len(m) >= o + n + 2
    BY <1>5 DEF Intact
  <2>3. Len(b) >= o + n + 2
    BY <1>1, <1>3, <2>1, <2>2
  <2>4. /\ (o = 1 => b[1] = m[1]) /\ b[o + 1] = m[o + 1]
        /\ b[o + n + 2] = m[o + n + 2]
    BY <1>2, <1>3, <2>1, <2>2
  <2>5. ASSUME NEW i \in 1 .. n
        PROVE  b[o + 1 + i] = m[o + 1 + i]
    BY <1>2, <1>3, <2>1, <2>2
  <2> QED
    BY <1>5, <2>3, <2>4, <2>5 DEF Intact
<1> QED
  BY <1>4, <1>5 DEF b

\* A sentence behind nothing, or behind a carriage return.
LEMMA Fresh ==
  ASSUME NEW kind \in Kinds, NEW t \in Nat, NEW p \in Nat,
         NEW g \in 0 .. Len(Sentence(kind, t, p)),
         NEW o \in {0, 1}, NEW b \in Seq(Tokens), o = 1 => b[1] = CR,
         Len(b) = o + Len(Without(Sentence(kind, t, p), g)),
         \A i \in 1 .. Len(Without(Sentence(kind, t, p), g)) :
           b[o + i] = Without(Sentence(kind, t, p), g)[i]
  PROVE  LET C == Content(kind, t, p) IN
         \/ Intact(b, o, C)
         \/ g # Len(C) + 5 /\ (~Valid(b) \/ Carries(Body(b), o, C))
<1> DEFINE C == Content(kind, t, p)
           s == Sentence(kind, t, p)
           x == Without(s, g)
           n == Len(C)
<1>0. Len(b) = o + Len(x) /\ \A i \in 1 .. Len(x) : b[o + i] = x[i]
  OBVIOUS
<1>1. C \in Seq(Inner) /\ n \in 2 .. 7
  BY SentenceFacts
<1>2. Len(s) = n + 5 /\ s[1] = dollar
  BY SentenceFacts
<1>3. \A i \in 1 .. n : s[1 + i] = C[i]
  BY SentenceFacts
<1>4. /\ s[n + 2] = star /\ s[n + 3] = Sum(Checksum(C))
      /\ s[n + 4] = CR /\ s[n + 5] = LF
  BY SentenceFacts
<1>5. x \in Seq(Tokens) /\ Len(x) = n + 5 - (IF g = 0 THEN 0 ELSE 1)
  BY Received
<1>6. \A i \in 1 .. Len(x) : x[i] = IF g = 0 \/ i < g THEN s[i] ELSE s[i + 1]
  BY Received
<1>7. \A i \in 2 .. Len(x) : x[i] # dollar
  BY Received
<1>8. g \in 0 .. n + 5
  BY <1>1, <1>2
<1> HIDE DEF C, s, x
<1> DEFINE l == IF g = 0 THEN n + 5 ELSE n + 4
<1>9. /\ n \in Nat /\ n <= 7 /\ n >= 2 /\ g \in Nat /\ g <= n + 5 /\ o \in Nat
      /\ o <= 1 /\ Len(b) = o + l /\ Len(x) = l /\ l \in {n + 4, n + 5}
  <2>1. n \in Nat /\ n <= 7 /\ n >= 2
    <3>1. \A k \in 2 .. 7 : k \in Nat /\ k <= 7 /\ k >= 2
      OBVIOUS
    <3> QED
      BY <1>1, <3>1, Zenon
  <2>2. g \in Nat /\ g <= n + 5
    BY <1>8, <2>1
  <2>3. Len(x) = l
    <3>1. g = 0 => Len(x) = n + 5
      BY <1>5, <2>1
    <3>2. g # 0 => Len(x) = n + 4
      BY <1>5, <2>1
    <3> QED
      BY <3>1, <3>2
  <2>4. o \in Nat /\ o <= 1 /\ l \in {n + 4, n + 5}
    OBVIOUS
  <2>5. Len(b) = o + l
    BY <1>0, <2>3
  <2> QED
    BY <2>1, <2>2, <2>3, <2>4, <2>5
<1>10. \A i \in 1 .. l : b[o + i] = IF g = 0 \/ i < g THEN s[i] ELSE s[i + 1]
  BY <1>0, <1>6, <1>9
<1>11. \A i \in 2 .. l : b[o + i] # dollar
  <2>1. \A i \in 2 .. l : i \in 1 .. Len(x) /\ i \in 2 .. Len(x)
    BY <1>9
  <2> QED
    BY <1>0, <1>7, <2>1
<1>12. CASE g = 0 \/ g >= n + 3
  <2>1. \A i \in 1 .. n + 2 : i \in 1 .. l /\ (g = 0 \/ i < g)
    BY <1>9, <1>12
  <2>2. \A i \in 1 .. n + 2 : b[o + i] = s[i]
    BY <1>10, <2>1
  <2>3. 1 \in 1 .. n + 2 /\ n + 2 \in 1 .. n + 2 /\ o + (n + 2) = o + n + 2
        /\ Len(b) >= o + n + 2
    BY <1>9
  <2>4. b[o + 1] = dollar /\ b[o + n + 2] = star
    <3>1. b[o + 1] = s[1]
      BY <2>2, <2>3
    <3>2. b[o + (n + 2)] = s[n + 2]
      BY <2>2, <2>3
    <3> QED
      BY <1>2, <1>4, <2>3, <3>1, <3>2
  <2>5. ASSUME NEW i \in 1 .. n
        PROVE  b[o + 1 + i] = C[i]
    <3>1. 1 + i \in 1 .. n + 2 /\ o + (1 + i) = o + 1 + i
      BY <1>9
    <3> QED
      BY <1>3, <2>2, <3>1
  <2>6. Intact(b, o, C)
    BY <2>3, <2>4, <2>5 DEF Intact
  <2> QED
    BY <2>6 DEF C
<1>13. CASE g = n + 2
  <2>1. \A i \in 1 .. n + 1 : i \in 1 .. l /\ i < g
    BY <1>9, <1>13
  <2>2. \A i \in 1 .. n + 1 : b[o + i] = s[i]
    BY <1>10, <2>1
  <2>3. b[o + 1] = dollar
    <3>1. 1 \in 1 .. n + 1
      BY <1>9
    <3> QED
      BY <1>2, <2>2, <3>1
  <2>4. ASSUME NEW i \in 1 .. n
        PROVE  b[o + 1 + i] = C[i]
    <3>1. 1 + i \in 1 .. n + 1 /\ o + (1 + i) = o + 1 + i
      BY <1>9
    <3> QED
      BY <1>3, <2>2, <3>1
  <2>5. b[o + n + 2] = Sum(Checksum(C)) /\ b[o + n + 3] = CR
    <3>1. /\ n + 2 \in 1 .. l /\ n + 3 \in 1 .. l
          /\ ~ (g = 0 \/ n + 2 < g) /\ ~ (g = 0 \/ n + 3 < g)
          /\ (n + 2) + 1 = n + 3 /\ (n + 3) + 1 = n + 4
          /\ o + (n + 2) = o + n + 2 /\ o + (n + 3) = o + n + 3
      BY <1>9, <1>13, SMTT(30)
    <3>2. b[o + (n + 2)] = s[(n + 2) + 1] /\ b[o + (n + 3)] = s[(n + 3) + 1]
      BY <1>10, <3>1
    <3> QED
      BY <1>4, <3>1, <3>2
  <2> DEFINE e == o + n + 3
  <2>6. e \in {o + n + 2, o + n + 3} /\ e <= Len(b) /\ g # n + 5
    BY <1>9, <1>13
  <2>7. b[e] \in Ends
    BY <2>5, TokenFacts
  <2>8. e = o + n + 3 => \E R : b[o + n + 2] = Sum(R)
    BY <2>5
  <2> HIDE DEF e
  <2>9. C \in Seq(Inner)
    BY <1>1
  <2>10. Carries(Body(b), o, C)
    BY <2>3, <2>4, <2>6, <2>7, <2>8, <2>9, LineBody
  <2> QED
    BY <2>6, <2>10 DEF C
<1>14. CASE g = 1
  <2>1. b[o + 1] # dollar
    <3>1. 1 \in 1 .. l /\ ~ (g = 0 \/ 1 < g) /\ 1 \in 1 .. n /\ 1 + 1 = 2
      BY <1>9, <1>14
    <3>2. b[o + 1] = s[1 + 1]
      BY <1>10, <3>1
    <3>3. b[o + 1] = C[1]
      BY <1>3, <3>1, <3>2
    <3>4. C[1] \in Inner
      BY <1>1, <3>1, ElementOfSeq
    <3> QED
      BY <3>3, <3>4, InnerFacts
  <2>2. ASSUME NEW i \in 1 .. Len(b)
        PROVE  b[i] # dollar
    <3>1. \/ o = 1 /\ i = 1
          \/ i = o + 1
          \/ i - o \in 2 .. l /\ o + (i - o) = i
      BY <1>9
    <3>2. CR # dollar
      BY TokenFacts
    <3> QED
      BY <1>11, <2>1, <3>1, <3>2
  <2>3. ~Valid(b)
    BY <2>2, NoPreamble
  <2>4. g # n + 5
    BY <1>9, <1>14
  <2> QED
    BY <2>3, <2>4 DEF C
<1>15. CASE g \in 2 .. n + 1
  <2> DEFINE j == g - 1
  <2>1. j \in 1 .. n /\ g = j + 1 /\ j \in Nat /\ l = n + 4 /\ g # n + 5
    <3>1. n \in Nat /\ g \in 2 .. n + 1
      BY <1>9, <1>15
    <3>2. j \in 1 .. n /\ g = j + 1 /\ j \in Nat /\ g # 0 /\ g # n + 5
      BY <3>1
    <3> QED
      BY <3>2
  <2> HIDE DEF j
  <2>2. b[o + 1] = dollar
    <3>1. 1 \in 1 .. l /\ (g = 0 \/ 1 < g)
      BY <1>9, <1>15
    <3> QED
      BY <1>2, <1>10, <3>1
  <2>3. ASSUME NEW i \in 1 .. j - 1
        PROVE  b[o + 1 + i] = C[i]
    <3>1. /\ 1 + i \in 1 .. l /\ (g = 0 \/ 1 + i < g) /\ i \in 1 .. n
          /\ o + (1 + i) = o + 1 + i
      BY <1>9, <2>1
    <3> QED
      BY <1>3, <1>10, <3>1
  <2>4. ASSUME NEW i \in j .. n - 1
        PROVE  b[o + 1 + i] = C[i + 1]
    <3>1. /\ 1 + i \in 1 .. l /\ ~ (g = 0 \/ 1 + i < g) /\ i + 1 \in 1 .. n
          /\ o + (1 + i) = o + 1 + i /\ (1 + i) + 1 = 1 + (i + 1)
      BY <1>9, <2>1
    <3>2. b[o + (1 + i)] = s[(1 + i) + 1]
      BY <1>10, <3>1
    <3> QED
      BY <1>3, <3>1, <3>2
  <2>5. b[o + n + 1] = star /\ b[o + n + 2] = Sum(Checksum(C))
    <3>1. /\ n + 1 \in 1 .. l /\ n + 2 \in 1 .. l
          /\ ~ (g = 0 \/ n + 1 < g) /\ ~ (g = 0 \/ n + 2 < g)
          /\ (n + 1) + 1 = n + 2 /\ (n + 2) + 1 = n + 3
          /\ o + (n + 1) = o + n + 1 /\ o + (n + 2) = o + n + 2
      BY <1>9, <2>1, SMTT(30)
    <3>2. b[o + (n + 1)] = s[(n + 1) + 1] /\ b[o + (n + 2)] = s[(n + 2) + 1]
      BY <1>10, <3>1
    <3> QED
      BY <1>4, <3>1, <3>2
  <2>6. C \in Seq(Inner) /\ Len(b) >= o + n + 2
    BY <1>1, <1>9, <2>1
  <2>7. ~Valid(b)
    BY <2>1, <2>2, <2>3, <2>4, <2>5, <2>6, Damaged
  <2> QED
    BY <2>1, <2>7 DEF C
<1> QED
  BY <1>9, <1>12, <1>13, <1>14, <1>15

\* A sentence with at most one token less: what waits then, and what is stored.
LEMMA Outcome ==
  ASSUME NEW kind \in Kinds, NEW t \in Nat, NEW p \in Nat,
         NEW g \in 0 .. Len(Sentence(kind, t, p)),
         NEW f, IsFix(f), NEW T \in Nat, Recent(kind, t, p, f, T),
         NEW m \in Seq(Tokens), Len(m) < BufferSize, Waits(m, f, T)
  PROVE  LET x == Without(Sentence(kind, t, p), g)
             r == RxData([nmea |-> m, fix |-> f], x) IN
         /\ r.nmea \in Seq(Tokens) /\ Len(r.nmea) < BufferSize
         /\ Stored(f, r.fix, T)
         /\ r.nmea = <<>> \/ (r.fix = f /\ Waits(r.nmea, f, T))
<1> DEFINE C == Content(kind, t, p)
           x == Without(Sentence(kind, t, p), g)
           full == g = Len(C) + 5
           r == RxData([nmea |-> m, fix |-> f], x)
<1>1. x \in Seq(Tokens) /\ Len(x) \in 1 .. 12
  BY Received
<1>2. \A i \in 2 .. Len(x) : x[i] # dollar
  BY OneDollar
<1>3. x[Len(x)] = IF full THEN CR ELSE LF
  BY LastToken
<1> HIDE DEF x
<1>4. PICK b \in Seq(Tokens) :
        /\ Len(b) < BufferSize
        /\ \/ b = Cat(m, x)
           \/ /\ Len(b) < Len(x)
              /\ \A i \in 1 .. Len(b) : b[i] = x[Len(x) - Len(b) + i]
        /\ IF Len(b) = 0 \/ b[Len(b)] # LF THEN r.nmea = b /\ r.fix = f
           ELSE /\ r.nmea = <<>>
                /\ r.fix = IF Valid(b) THEN Dispatch(f, Fields(Body(b))) ELSE f
  <2> HIDE DEF r, x
  <2>1. \E b \in Seq(Tokens) :
          /\ Len(b) < BufferSize
          /\ \/ b = Cat(m, x)
             \/ /\ Len(b) < Len(x)
                /\ \A i \in 1 .. Len(b) : b[i] = x[Len(x) - Len(b) + i]
          /\ IF Len(b) = 0 \/ b[Len(b)] # LF THEN r.nmea = b /\ r.fix = f
             ELSE /\ r.nmea = <<>>
                  /\ r.fix = IF Valid(b) THEN Dispatch(f, Fields(Body(b)))
                             ELSE f
    BY <1>1, RxCases DEF r, x
  <2> QED
    BY <2>1
<1> HIDE DEF r, x
<1>5. IF Len(b) = 0 \/ b[Len(b)] # LF THEN r.nmea = b /\ r.fix = f
      ELSE r.nmea = <<>> /\ r.fix = Taken(f, b)
  BY <1>4 DEF Taken
<1>6. /\ CR # LF /\ CR # dollar /\ CR \in Ends
      /\ Len(<<>>) = 0 /\ <<>> \in Seq(Tokens) /\ 0 < BufferSize
  <2>1. CR # LF /\ CR # dollar /\ CR \in Ends
    BY TokenFacts
  <2>2. Len(<<>>) = 0 /\ <<>> \in Seq(Tokens)
    BY NoneIs
  <2>3. 0 < BufferSize
    BY GpsAssumption
  <2> QED
    BY <2>1, <2>2, <2>3
<1>7. Len(b) \in Nat /\ Len(m) \in Nat /\ Len(x) \in Nat
  BY <1>1, LenProperties
<1>8. Stored(f, f, T)
  BY DEF Stored, SameFix
<1>9. ~Valid(b) => Taken(f, b) = f
  BY DEF Taken
<1> HIDE DEF C, full
<1>10. CASE b = Cat(m, x)
  <2>1. Len(b) = Len(m) + Len(x)
    BY <1>1, <1>10, CatIs
  <2>0. x \in Seq(Tokens)
    BY <1>1
  <2>2. \A i \in 1 .. Len(x) : b[Len(m) + i] = x[i]
    <3>1. \A y \in Seq(Tokens) :
            \A i \in 1 .. Len(y) : Cat(m, y)[Len(m) + i] = y[i]
      BY CatIs
    <3> QED
      BY <1>10, <2>0, <3>1
  <2>3. \A i \in 1 .. Len(m) : b[i] = m[i]
    <3>1. \A i \in 1 .. Len(m) : Cat(m, x)[i] = m[i]
      BY <2>0, CatIs
    <3> QED
      BY <1>10, <3>1
  <2>4. Len(b) # 0 /\ b[Len(b)] = IF full THEN CR ELSE LF
    <3>1. Len(x) \in 1 .. Len(x) /\ Len(m) + Len(x) = Len(b) /\ Len(b) # 0
      <4>1. \A k \in 1 .. 12 : k \in 1 .. k /\ \A i \in Nat : i + k # 0
        OBVIOUS
      <4> QED
        BY <1>1, <1>7, <2>1, <4>1, Zenon
    <3> QED
      BY <1>3, <2>2, <3>1
  <2>5. CASE Headless(m)
    <3>1. Headless(b)
      BY <1>1, <1>10, <2>5, Appended
    <3>2. ~Valid(b)
      BY <3>1, NoPreamble
    <3>3. Waits(b, f, T)
      BY <3>1 DEF Waits
    <3> QED
      BY <1>4, <1>5, <1>6, <1>8, <1>9, <2>4, <3>2, <3>3 DEF r, x
  <2>6. ASSUME NEW o \in {0, 1}, NEW k \in Kinds, NEW u \in Nat, NEW v \in Nat,
               Recent(k, u, v, f, T),
               \/ Intact(b, o, Content(k, u, v))
               \/ ~full /\ (~Valid(b) \/ Carries(Body(b), o, Content(k, u, v)))
        PROVE  /\ r.nmea \in Seq(Tokens) /\ Len(r.nmea) < BufferSize
               /\ Stored(f, r.fix, T)
               /\ r.nmea = <<>> \/ (r.fix = f /\ Waits(r.nmea, f, T))
    <3> DEFINE D == Content(k, u, v)
    <3>1. D \in Seq(Inner)
      BY SentenceFacts
    <3>2. \/ Intact(b, o, D)
          \/ ~full /\ (~Valid(b) \/ Carries(Body(b), o, D))
      BY <2>6
    <3>3. CASE full
      <4>1. Intact(b, o, D)
        BY <3>2, <3>3
      <4>2. Kept(b, f, T)
        BY <2>6, <4>1 DEF Kept
      <4>3. Waits(b, f, T)
        BY <4>2 DEF Waits
      <4>4. r.nmea = b /\ r.fix = f
        BY <1>5, <1>6, <2>4, <3>3
      <4> QED
        BY <1>4, <1>8, <4>3, <4>4
    <3>4. CASE ~full
      <4>1. ~Valid(b) \/ Carries(Body(b), o, D)
        <5>1. CASE Intact(b, o, D)
          <6> HIDE DEF D
          <6>1. Carries(Body(b), o, D)
            BY <3>1, <5>1, IntactBody
          <6> QED
            BY <6>1
        <5> QED
          BY <3>2, <5>1
      <4>2. Stored(f, Taken(f, b), T)
        BY <2>6, <4>1, TakenFrom
      <4>3. r.nmea = <<>> /\ r.fix = Taken(f, b)
        BY <1>5, <2>4, <3>4
      <4> QED
        BY <1>6, <4>2, <4>3
    <3> QED
      BY <3>3, <3>4
  <2>7. CASE Kept(m, f, T)
    <3>1. PICK o \in {0, 1}, k \in Kinds, u \in Nat, v \in Nat :
            Recent(k, u, v, f, T) /\ Intact(m, o, Content(k, u, v))
      BY <2>7 DEF Kept
    <3>2. Intact(b, o, Content(k, u, v))
      <4>2. Content(k, u, v) \in Seq(Inner)
        BY SentenceFacts
      <4> QED
        BY <1>1, <1>10, <3>1, <4>2, Appended
    <3> QED
      BY <2>6, <3>1, <3>2 DEF r, x
  <2>8. CASE Short(m)
    <3> DEFINE o == Len(m)
    <3>1. o \in {0, 1} /\ (o = 1 => b[1] = CR)
      <4>0. Len(m) <= 1 /\ (Len(m) = 1 => m[1] = CR)
        BY <2>8 DEF Short
      <4>1. o \in {0, 1} /\ (o = 1 => m[1] = CR)
        <5>1. \A k \in Nat : k <= 1 => k \in {0, 1}
          OBVIOUS
        <5> QED
          BY <1>7, <4>0, <5>1, Zenon
      <4>2. o = 1 => 1 \in 1 .. Len(m)
        OBVIOUS
      <4> QED
        BY <2>3, <4>1, <4>2
    <3>2. Len(b) = o + Len(x) /\ \A i \in 1 .. Len(x) : b[o + i] = x[i]
      BY <2>1, <2>2
    <3> HIDE DEF o
    <3>3. \/ Intact(b, o, Content(kind, t, p))
          \/ /\ g # Len(Content(kind, t, p)) + 5
             /\ ~Valid(b) \/ Carries(Body(b), o, Content(kind, t, p))
      <4>1. o \in {0, 1}
        BY <3>1
      <4>2. o = 1 => b[1] = CR
        BY <3>1
      <4>3. Len(b) = o + Len(x)
        BY <3>2
      <4>4. \A i \in 1 .. Len(x) : b[o + i] = x[i]
        BY <3>2
      <4> DEFINE y == Without(Sentence(kind, t, p), g)
      <4>5. Len(b) = o + Len(y) /\ \A i \in 1 .. Len(y) : b[o + i] = y[i]
        BY <4>3, <4>4 DEF x
      <4> QED
        BY <4>1, <4>2, <4>5, Fresh
    <3>4. \/ Intact(b, o, Content(kind, t, p))
          \/ ~full /\ (~Valid(b) \/ Carries(Body(b), o, Content(kind, t, p)))
      BY <3>3 DEF full, C
    <3> QED
      BY <2>6, <3>1, <3>4 DEF r, x
  <2> QED
    BY <2>5, <2>7, <2>8 DEF Waits
<1>11. CASE /\ Len(b) < Len(x)
            /\ \A i \in 1 .. Len(b) : b[i] = x[Len(x) - Len(b) + i]
  <2>1. ASSUME NEW i \in 1 .. Len(b)
        PROVE  b[i] # dollar
    <3>1. Len(x) - Len(b) + i \in 2 .. Len(x)
      BY <1>7, <1>11
    <3> QED
      BY <1>2, <1>11, <3>1
  <2>2. ~Valid(b)
    BY <2>1, NoPreamble
  <2>3. Len(b) # 0 => b[Len(b)] = IF full THEN CR ELSE LF
    <3>1. Len(b) # 0 =>
            Len(b) \in 1 .. Len(b) /\ Len(x) - Len(b) + Len(b) = Len(x)
      BY <1>7
    <3> QED
      BY <1>3, <1>11, <3>1
  <2>4. CASE Len(b) <= 1
    <3>1. Len(b) = 0 \/ b[Len(b)] # LF => Short(b)
      <4>1. Len(b) = 0 => Short(b)
        BY DEF Short
      <4>2. Len(b) = 1 /\ b[Len(b)] # LF => Short(b)
        BY <2>3 DEF Short
      <4>3. Len(b) = 0 \/ Len(b) = 1
        <5>1. \A k \in Nat : k <= 1 => k = 0 \/ k = 1
          OBVIOUS
        <5> QED
          BY <1>7, <2>4, <5>1, Zenon
      <4> QED
        BY <4>1, <4>2, <4>3
    <3> QED
      BY <1>4, <1>5, <1>6, <1>8, <1>9, <2>2, <3>1 DEF Waits, r, x
  <2>5. CASE ~ (Len(b) <= 1)
    <3>1. Len(b) \in 2 .. Len(b) /\ Len(b) # 0
      BY <1>7, <2>5
    <3>2. \A i \in 1 .. Len(b) - 1 : b[i] # dollar
      BY <1>7, <2>1
    <3>3. b[Len(b)] # LF => Headless(b)
      BY <1>6, <2>3, <3>1, <3>2 DEF Headless
    <3> QED
      BY <1>4, <1>5, <1>6, <1>8, <1>9, <2>2, <3>1, <3>3 DEF Waits, r, x
  <2> QED
    BY <2>4, <2>5
<1> QED
  BY <1>4, <1>10, <1>11

-----------------------------------------------------------------------------
(* The invariant. *)

Copies == [time : Nat, pos : Nat, q : {0, 1}]

TypeOK ==
  /\ nmea \in Seq(Tokens) /\ Len(nmea) < BufferSize
  /\ IsFix(fix) /\ fix.time \in Nat /\ fix.pos \in Nat /\ fix.q \in {0, 1}
  /\ current \in Copies /\ sample \in Copies
  /\ gps \in {"sleep", "copy"} /\ main \in {"idle", "copy"}
  /\ retries \in 0 .. RetryLimit
  /\ sky \in BOOLEAN /\ acquired \in 0 .. Acquire /\ now \in 0 .. MaxFix
  /\ heard \in BOOLEAN /\ lost \in 0 .. MaxLost

\* The cache is a fix, and what waits in the buffer was sent after it.
Decoding == RightFix /\ fix.time <= now /\ Waits(nmea, fix, now)

\* A copy is not newer than what it is made from.
Copying ==
  /\ current.time <= fix.time /\ current.pos <= fix.pos
  /\ gps = "sleep" => current.time <= current.pos
  /\ sample.time <= current.time /\ sample.pos <= current.pos
  /\ SampleOrdered

Inv == TypeOK /\ Decoding /\ Copying

\* The constants.
LEMMA Assumed ==
  /\ BufferSize \in Nat /\ RetryLimit \in Nat /\ Acquire \in Nat
  /\ MaxFix \in Nat /\ MaxLost \in Nat
  /\ BufferSize >= 12 /\ Acquire \in 1 .. RetryLimit /\ MaxFix > 0
BY GpsAssumption

\* The invariant holds at first.
LEMMA InitInv ==
  ASSUME Init
  PROVE  Inv
<1>1. nmea \in Seq(Tokens) /\ Len(nmea) < BufferSize /\ Short(nmea)
  <2>1. nmea \in Seq(Tokens) /\ Len(nmea) = 0
    BY NoneIs DEF Init
  <2>2. Len(nmea) < BufferSize
    BY <2>1, Assumed
  <2>3. Short(nmea)
    BY <2>1 DEF Short
  <2> QED
    BY <2>1, <2>2, <2>3
<1>2. fix = [time |-> 0, pos |-> 0, q |-> 0, dop |-> 0, track |-> 0]
  BY DEF Init
<1>3. IsFix(fix) /\ fix.time = 0 /\ fix.pos = 0 /\ fix.q = 0
  BY <1>2 DEF IsFix, FixKeys
<1>4. current \in Copies /\ sample \in Copies
      /\ current.time = 0 /\ current.pos = 0
      /\ sample.time = 0 /\ sample.pos = 0
  BY DEF Init, NoFix, Copies
<1>5. TypeOK
  <2>1. /\ fix.time \in Nat /\ fix.pos \in Nat /\ fix.q \in {0, 1}
    BY <1>3
  <2>2. retries = 0 /\ acquired = 0 /\ now = 0 /\ lost = 0
    BY DEF Init
  <2>3. /\ retries \in 0 .. RetryLimit /\ acquired \in 0 .. Acquire
        /\ now \in 0 .. MaxFix /\ lost \in 0 .. MaxLost
    BY <2>2, Assumed
  <2>4. /\ gps \in {"sleep", "copy"} /\ main \in {"idle", "copy"}
        /\ sky \in BOOLEAN /\ heard \in BOOLEAN
    BY DEF Init
  <2> QED
    BY <1>1, <1>3, <1>4, <2>1, <2>3, <2>4 DEF TypeOK
<1>6. Decoding
  BY <1>1, <1>3 DEF Decoding, RightFix, Waits, Init
<1>7. Copying
  BY <1>3, <1>4 DEF Copying, SampleOrdered
<1> QED
  BY <1>5, <1>6, <1>7 DEF Inv

\* A sentence comes.
LEMMA ReceiveInv ==
  ASSUME Inv, NEW kind \in Kinds, NEW gone \in 0 .. BufferSize,
         Receive(kind, gone)
  PROVE  Inv'
<1> USE Assumed
<1> DEFINE later == IF HasFix /\ kind = "GGA" /\ now < MaxFix THEN now + 1
                    ELSE now
           t == IF HasFix THEN later ELSE now + 1
           p == IF HasFix THEN later ELSE 0
           s == Sentence(kind, t, p)
           r == RxData([nmea |-> nmea, fix |-> fix], Without(s, gone))
<1>1. /\ nmea' = r.nmea /\ fix' = r.fix /\ gone <= Len(s)
  <2>1. PICK x \in Arrives(kind, later, gone) : nmea' = x.nmea /\ fix' = x.fix
    BY DEF Receive
  <2>2. s = IF HasFix THEN Sentence(kind, later, later)
            ELSE Sentence(kind, now + 1, 0)
    OBVIOUS
  <2> HIDE DEF s, later
  <2>3. x = r /\ gone <= Len(s)
    BY <2>1, <2>2 DEF Arrives, Without
  <2> HIDE DEF r
  <2> QED
    BY <2>1, <2>3
<1>2. /\ now' = later /\ now \in Nat /\ later \in Nat /\ now <= later
      /\ later <= MaxFix /\ t \in Nat /\ p \in Nat
  BY DEF Receive, Inv, TypeOK
<1>3. /\ p \in {0, t}
      /\ kind = "GGA" => t # 0
      /\ p # 0 => p = later /\ t = later
  BY <1>2 DEF Inv, TypeOK
<1>4. gone \in 0 .. Len(s)
  <2>1. Len(s) \in Nat
    <3>1. s \in Seq(Tokens)
      BY <1>2, SentenceFacts
    <3> QED
      BY <3>1, LenProperties
  <2> QED
    BY <1>1, <2>1
<1>5. /\ nmea \in Seq(Tokens) /\ Len(nmea) < BufferSize /\ IsFix(fix)
      /\ fix.time \in Nat /\ fix.pos \in Nat /\ fix.q \in {0, 1}
      /\ RightFix /\ fix.time <= now /\ Waits(nmea, fix, now)
  BY DEF Inv, TypeOK, Decoding
<1>6. Recent(kind, t, p, fix, later)
  BY <1>2, <1>3, <1>5 DEF Recent
<1>7. Waits(nmea, fix, later)
  <2>1. ASSUME Kept(nmea, fix, now)
        PROVE  Kept(nmea, fix, later)
    <3>1. PICK o \in {0, 1}, k \in Kinds, u \in Nat, v \in Nat :
            Recent(k, u, v, fix, now) /\ Intact(nmea, o, Content(k, u, v))
      BY <2>1 DEF Kept
    <3>2. Recent(k, u, v, fix, later)
      BY <1>2, <3>1 DEF Recent
    <3> QED
      BY <3>1, <3>2 DEF Kept
  <2> QED
    BY <1>5, <2>1 DEF Waits
<1> HIDE DEF later, t, p
<1>8. /\ r.nmea \in Seq(Tokens) /\ Len(r.nmea) < BufferSize
      /\ Stored(fix, r.fix, later)
      /\ r.nmea = <<>> \/ (r.fix = fix /\ Waits(r.nmea, fix, later))
  BY <1>2, <1>4, <1>5, <1>6, <1>7, Outcome
<1> HIDE DEF r, s
<1>9. /\ IsFix(fix') /\ fix'.time \in Nat /\ fix'.pos = fix'.time
      /\ fix'.q = (IF fix'.time = 0 THEN 0 ELSE 1)
      /\ fix.time <= fix'.time /\ fix'.time <= later
  <2>1. Stored(fix, fix', later)
    BY <1>1, <1>8
  <2>2. fix.pos = fix.time /\ fix.q = (IF fix.time = 0 THEN 0 ELSE 1)
    BY <1>5 DEF RightFix
  <2> QED
    BY <1>2, <1>5, <2>1, <2>2 DEF Stored, SameFix
<1>10. Waits(nmea', fix', now')
  <2>1. CASE r.nmea = <<>>
    <3>1. Len(nmea') = 0
      BY <1>1, <2>1, NoneIs
    <3> QED
      BY <3>1 DEF Waits, Short
  <2>2. CASE r.fix = fix /\ Waits(r.nmea, fix, later)
    BY <1>1, <1>2, <2>2
  <2> QED
    BY <1>8, <2>1, <2>2
<1>11. UNCHANGED <<current, sample, gps, main, retries, sky, acquired>>
       /\ heard' \in BOOLEAN /\ lost' \in 0 .. MaxLost
  BY DEF Receive, Inv, TypeOK
<1>12. TypeOK'
  <2>1. /\ nmea' \in Seq(Tokens) /\ Len(nmea') < BufferSize
        /\ now' \in 0 .. MaxFix
    BY <1>1, <1>2, <1>8
  <2>2. fix'.pos \in Nat /\ fix'.q \in {0, 1}
    BY <1>9
  <2> QED
    BY <1>9, <1>11, <2>1, <2>2 DEF Inv, TypeOK
<1>13. Decoding'
  BY <1>2, <1>9, <1>10 DEF Decoding, RightFix
<1>14. Copying'
  <2>1. fix.time <= fix'.time /\ fix.pos <= fix'.pos
    BY <1>5, <1>9 DEF RightFix
  <2>2. current \in Copies /\ fix.time \in Nat /\ fix.pos \in Nat
        /\ fix'.time \in Nat /\ fix'.pos \in Nat
    BY <1>5, <1>9 DEF Inv, TypeOK
  <2>3. current.time \in Nat /\ current.pos \in Nat
    BY <2>2 DEF Copies
  <2>4. current.time <= fix'.time /\ current.pos <= fix'.pos
    BY <2>1, <2>2, <2>3 DEF Inv, Copying
  <2> QED
    BY <1>11, <2>4 DEF Inv, Copying, SampleOrdered
<1> QED
  BY <1>12, <1>13, <1>14 DEF Inv

\* The steps that leave the cache alone.
LEMMA CopyFacts ==
  ASSUME NEW c \in Copies, NEW f, f.time \in Nat, f.pos \in Nat, f.q \in {0, 1}
  PROVE  /\ CopyFirst(c, f) \in Copies /\ CopyRest(c, f) \in Copies
         /\ CopyFirst(c, f).time = f.time /\ CopyFirst(c, f).pos = c.pos
         /\ CopyRest(c, f).time = c.time /\ CopyRest(c, f).pos = f.pos
BY DEF CopyFirst, CopyRest, Copies

\* What the copies need of the invariant.
LEMMA InvFacts ==
  ASSUME Inv
  PROVE  /\ fix.time \in Nat /\ fix.pos \in Nat /\ fix.q \in {0, 1}
         /\ current \in Copies /\ sample \in Copies
         /\ current.time \in Nat /\ current.pos \in Nat /\ current.q \in {0, 1}
         /\ sample.time \in Nat /\ sample.pos \in Nat
         /\ fix.time = fix.pos
         /\ current.time <= fix.time /\ current.pos <= fix.pos
         /\ gps = "sleep" => current.time <= current.pos
         /\ sample.time <= current.time /\ sample.pos <= current.pos
         /\ main = "idle" => sample.time <= sample.pos
BY DEF Inv, TypeOK, Decoding, RightFix, Copying, SampleOrdered, Copies

\* The threads and the reception keep the invariant.
LEMMA CopyInv ==
  ASSUME Inv, Reception \/ GpsWake \/ GpsRound \/ MainCopies \/ MainSends
  PROVE  Inv'
<1> USE Assumed
<1>1. UNCHANGED <<nmea, fix, now, lost>>
  BY DEF Reception, GpsWake, GpsRound, MainCopies, MainSends
<1>2. Decoding'
  BY <1>1 DEF Inv, Decoding, RightFix
<1>3. CASE Reception
  <2>1. TypeOK'
    BY <1>3 DEF Inv, TypeOK, Reception
  <2>2. Copying'
    BY <1>3 DEF Inv, Copying, SampleOrdered, Reception
  <2> QED
    BY <1>2, <2>1, <2>2 DEF Inv
<1>4. CASE GpsWake
  <2>1. /\ current' \in Copies /\ current'.time = fix.time
        /\ current'.pos = current.pos
    BY <1>4, InvFacts, CopyFacts DEF GpsWake
  <2>2. acquired' \in 0 .. Acquire
    BY <1>4 DEF Inv, TypeOK, GpsWake, HasFix
  <2>3. TypeOK'
    BY <1>4, <2>1, <2>2 DEF Inv, TypeOK, GpsWake
  <2>4. Copying'
    BY <1>4, <2>1, InvFacts DEF Copying, SampleOrdered, GpsWake
  <2> QED
    BY <1>2, <2>3, <2>4 DEF Inv
<1>5. CASE GpsRound
  <2>1. /\ current' \in Copies /\ current'.time = current.time
        /\ current'.pos = fix.pos
    BY <1>5, InvFacts, CopyFacts DEF GpsRound
  <2>2. retries' \in 0 .. RetryLimit /\ acquired' \in 0 .. Acquire
    BY <1>5 DEF Inv, TypeOK, GpsRound, Retries
  <2>3. TypeOK'
    BY <1>5, <2>1, <2>2 DEF Inv, TypeOK, GpsRound
  <2>4. Copying'
    BY <1>5, <2>1, InvFacts DEF Copying, SampleOrdered, GpsRound
  <2> QED
    BY <1>2, <2>3, <2>4 DEF Inv
<1>6. CASE MainCopies
  <2>1. /\ sample' \in Copies /\ sample'.time = current.time
        /\ sample'.pos = sample.pos
    BY <1>6, InvFacts, CopyFacts DEF MainCopies
  <2>2. TypeOK'
    BY <1>6, <2>1 DEF Inv, TypeOK, MainCopies
  <2>3. Copying'
    BY <1>6, <2>1, InvFacts DEF Copying, SampleOrdered, MainCopies
  <2> QED
    BY <1>2, <2>2, <2>3 DEF Inv
<1>7. CASE MainSends
  <2>1. /\ sample' \in Copies /\ sample'.time = sample.time
        /\ sample'.pos = current.pos
    BY <1>7, InvFacts, CopyFacts DEF MainSends
  <2>2. TypeOK'
    BY <1>7, <2>1 DEF Inv, TypeOK, MainSends
  <2>3. Copying'
    BY <1>7, <2>1, InvFacts DEF Copying, SampleOrdered, MainSends
  <2> QED
    BY <1>2, <2>2, <2>3 DEF Inv
<1> QED
  BY <1>3, <1>4, <1>5, <1>6, <1>7

\* Every step keeps the invariant.
LEMMA NextInv ==
  ASSUME Inv, [Next]_vars
  PROVE  Inv'
<1>1. CASE UNCHANGED vars
  BY <1>1 DEF vars, Inv, TypeOK, Decoding, RightFix, Copying, SampleOrdered
<1>2. CASE Next
  <2>1. ASSUME NEW kind \in Kinds, NEW gone \in 0 .. BufferSize,
               Receive(kind, gone)
        PROVE  Inv'
    BY <2>1, ReceiveInv
  <2>2. CASE Reception \/ GpsWake \/ GpsRound \/ MainCopies \/ MainSends
    BY <2>2, CopyInv
  <2> QED
    BY <1>2, <2>1, <2>2 DEF Next
<1> QED
  BY <1>1, <1>2

\* A step never takes a sample's time or position back.
LEMMA StepForward ==
  ASSUME Inv, [Next]_vars
  PROVE  sample'.time >= sample.time /\ sample'.pos >= sample.pos
<1>1. CASE UNCHANGED sample
  BY <1>1, InvFacts
<1>2. CASE MainCopies
  <2>1. sample'.time = current.time /\ sample'.pos = sample.pos
    BY <1>2, InvFacts, CopyFacts DEF MainCopies
  <2> QED
    BY <2>1, InvFacts
<1>3. CASE MainSends
  <2>1. sample'.time = sample.time /\ sample'.pos = current.pos
    BY <1>3, InvFacts, CopyFacts DEF MainSends
  <2> QED
    BY <2>1, InvFacts
<1>4. UNCHANGED sample \/ MainCopies \/ MainSends
  BY DEF Next, vars, Receive, Reception, GpsWake, GpsRound
<1> QED
  BY <1>1, <1>2, <1>3, <1>4

-----------------------------------------------------------------------------
(* The theorems. *)

\* The invariant holds of every state.
LEMMA InvHolds == Spec => []Inv
<1>1. Init => Inv
  BY InitInv
<1>2. Inv /\ [Next]_vars => Inv'
  BY NextInv
<1> QED
  BY <1>1, <1>2, PTL DEF Spec

\* Each variable has its type, and nmea_buffer never runs over.
THEOREM TypeCorrect == Spec => []TypeOK
<1>1. Inv => TypeOK
  BY DEF Inv
<1> QED
  BY <1>1, InvHolds, PTL

\* However many sentences lose a token, the cache is one fix of the receiver.
THEOREM CacheIsOneFix == Spec => []RightFix
<1>1. Inv => RightFix
  BY DEF Inv, Decoding
<1> QED
  BY <1>1, InvHolds, PTL

\* A sample's position is at least as new as its time.
THEOREM PositionAsNew == Spec => []SampleOrdered
<1>1. Inv => SampleOrdered
  BY DEF Inv, Copying
<1> QED
  BY <1>1, InvHolds, PTL

\* The samples never go back to an older fix, nor to what was never sent (the
\* model's code never zeroes them either, which the property would allow).
THEOREM SamplesForward == Spec => NeverBackwards
<1>1. Inv /\ [Next]_vars =>
        [sample'.time >= sample.time /\ sample'.pos >= sample.pos]_vars
  BY StepForward
<1>2. [sample'.time >= sample.time /\ sample'.pos >= sample.pos]_vars =>
        [/\ sample'.time >= sample.time \/ sample'.time = 0
         /\ sample'.pos >= sample.pos \/ sample'.pos = 0]_vars
  OBVIOUS
<1> QED
  BY <1>1, <1>2, InvHolds, PTL DEF Spec, NeverBackwards
=============================================================================
