----------------------------- MODULE ServerProofs -----------------------------
(***************************************************************************)
(* Theorems about Server, for all sets of devices, dates and bounds.       *)
(*                                                                         *)
(* The invariant of every theorem has the types and the pipeline of run    *)
(* (IInv): what run knew when it started stays in the cache through every  *)
(* reload (Cached), as nothing is deleted from the database and a reload   *)
(* that was read from it before is as complete; and the pipeline is empty  *)
(* while run is down (Down), so that no load of the last process ends in   *)
(* this one's cache.  TInv adds the times of the cache, SInv what is in    *)
(* the database and on its way there.                                      *)
(***************************************************************************)
EXTENDS Server, WellFoundedInduction, SequenceTheorems, TLAPS

PubType == [pc : {"idle", "find", "check", "list", "swap", "stamp", "again",
                  "put"},
            n : Nat, dev : Devices \cup {"none"}, time : Nat,
            cal : Cal \cup {NoCal}, got : SUBSET Cal, asked : Nat,
            listed : Nat, excused : BOOLEAN]

CacheType == [cals : SUBSET Cal, time : Nat, listed : Nat,
              readers : SUBSET Publishers]

\* The types of what the pipeline uses.
Types ==
  /\ now \in Nat
  /\ archive \in Seq([dev : Devices, time : Nat])
  /\ stream \in Seq(Nat)
  /\ \A i \in 1 .. Len(stream) : stream[i] \in 1 .. Len(archive)
  /\ imported \in [Cal -> Int]
  /\ cache \in CacheType /\ slowest \in Nat
  /\ known \subseteq Cal
  /\ pub \in [Publishers -> PubType]

Down ==
  "run" \notin up =>
    /\ conn = "off" /\ stream = <<>>
    /\ \A g \in Publishers : pub[g] = Idle

\* What was in the database is in the cache and in what is put there, and
\* nobody looks for it there in vain.
Cached ==
  /\ known \subseteq Stored /\ known \subseteq cache.cals
  /\ \A g \in Publishers : pub[g].pc = "swap" => known \subseteq pub[g].got
  /\ \A g \in Publishers :
       pub[g].pc = "check" => Entries(known, pub[g].dev) = {}

IInv == Types /\ Down /\ Cached /\ RightCalibration

-----------------------------------------------------------------------------
(* The choice. *)

LEMMA Dated ==
  ASSUME NEW c \in Cal
  PROVE  c.dev \in Devices /\ c.from \in Nat /\ c.from \in Dates
BY ServerAssumption DEF Cal

\* There are a newest and an oldest of several calibrations.
LEMMA Extremes ==
  ASSUME NEW S \in SUBSET Cal, S # {}
  PROVE  /\ \E c \in S : \A d \in S : d.from <= c.from
         /\ \E c \in S : \A d \in S : c.from <= d.from
<1> DEFINE D == {c.from : c \in S}
<1>1. D \in SUBSET Dates /\ D # {}
  BY Dated
<1>2. /\ \E x \in D : \A y \in D : y <= x
      /\ \E x \in D : \A y \in D : x <= y
  <2> HIDE DEF D
  <2> QED
    BY <1>1, DatesAssumption
<1> QED
  BY <1>2

\* The entry is one of the device, and the newest that is valid at time t.
LEMMA Chosen ==
  ASSUME NEW E \in SUBSET Cal, NEW t \in Nat
  PROVE  /\ NewestFirst(E, t) \in Cal \cup {NoCal}
         /\ E # {} => NewestFirst(E, t) \in E
         /\ \A c \in E : c.from <= t =>
              NewestFirst(E, t).from \in c.from .. t
<1> DEFINE valid == {c \in E : c.from <= t}
           newest == CHOOSE c \in valid : \A d \in valid : d.from <= c.from
           oldest == CHOOSE c \in E : \A d \in E : c.from <= d.from
<1>1. CASE E = {}
  BY <1>1 DEF NewestFirst
<1>2. CASE E # {} /\ valid = {}
  <2>1. NewestFirst(E, t) = oldest
    BY <1>2 DEF NewestFirst
  <2>2. oldest \in E
    BY <1>2, Extremes
  <2> QED
    BY <1>2, <2>1, <2>2
<1>3. CASE E # {} /\ valid # {}
  <2>1. NewestFirst(E, t) = newest
    BY <1>3 DEF NewestFirst
  <2>2. newest \in valid /\ \A d \in valid : d.from <= newest.from
    <3>1. \E c \in valid : \A d \in valid : d.from <= c.from
      BY <1>3, Extremes
    <3> QED
      BY <3>1
  <2>3. newest \in E /\ newest \in Cal /\ newest.from <= t
    BY <2>2
  <2>4. newest.from \in Nat
    BY <2>3, Dated
  <2>5. ASSUME NEW c \in E, c.from <= t
        PROVE  newest.from \in c.from .. t
    <3>1. c.from \in Nat
      BY Dated
    <3>2. c.from <= newest.from
      BY <2>2, <2>5
    <3> QED
      BY <2>3, <2>4, <3>1, <3>2
  <2> QED
    BY <2>1, <2>3, <2>5
<1> QED
  BY <1>1, <1>2, <1>3

\* A choice among more than was known is right.
Right(g, cal) ==
  \A c \in Entries(known, pub[g].dev) :
    /\ cal.dev = pub[g].dev
    /\ c.from <= pub[g].time => cal.from \in c.from .. pub[g].time

LEMMA PickRight ==
  ASSUME Types, NEW g \in Publishers, NEW cals \in SUBSET Cal,
         known \subseteq cals
  PROVE  /\ Pick(g, cals) \in Cal \cup {NoCal}
         /\ Right(g, Pick(g, cals))
<1> DEFINE E == Entries(cals, pub[g].dev)
<1>1. E \in SUBSET Cal /\ Entries(known, pub[g].dev) \subseteq E
  BY DEF Entries
<1>2. pub[g].time \in Nat
  BY DEF Types, PubType
<1>3. Pick(g, cals) = NewestFirst(E, pub[g].time)
  BY DEF Pick
<1>4. \A c \in E : c.dev = pub[g].dev
  BY DEF Entries
<1> HIDE DEF E
<1>5. /\ Pick(g, cals) \in Cal \cup {NoCal}
      /\ E # {} => Pick(g, cals) \in E
      /\ \A c \in E : c.from <= pub[g].time =>
           Pick(g, cals).from \in c.from .. pub[g].time
  BY <1>1, <1>2, <1>3, Chosen
<1> QED
  BY <1>1, <1>4, <1>5 DEF Right

LEMMA InitInv == Init => IInv
<1> SUFFICES ASSUME Init PROVE IInv
  OBVIOUS
<1>1. Idle \in PubType
  BY DEF Idle, PubType
<1>2. \A g \in Publishers : pub[g] = Idle
  BY DEF Init
<1>3. Types
  BY <1>1 DEF Init, Types, NoCache, CacheType
<1>4. Down
  BY <1>2 DEF Init, Down
<1>5. Cached
  BY <1>2 DEF Init, Cached, NoCache, Idle
<1>6. RightCalibration
  BY <1>2 DEF RightCalibration, Idle
<1> QED
  BY <1>3, <1>4, <1>5, <1>6 DEF IInv

-----------------------------------------------------------------------------
(* The pipeline. *)

\* What a step of publisher g has to establish about its new state r.
Sound(r) ==
  /\ r \in PubType
  /\ r.pc = "swap" => known \subseteq r.got
  /\ r.pc = "check" => Entries(known, r.dev) = {}
  /\ r.pc = "put" =>
       \A c \in Entries(known, r.dev) :
         /\ r.cal.dev = r.dev
         /\ c.from <= r.time => r.cal.from \in c.from .. r.time

LEMMA PublisherStep ==
  ASSUME IInv, NEW g \in Publishers, NEW r, Sound(r),
         "run" \in up \/ r = Idle,
         pub' = [pub EXCEPT ![g] = r],
         UNCHANGED <<imported, known, archive, now, conn, up>>,
         stream' = stream \/ (stream # <<>> /\ stream' = Tail(stream)),
         cache' \in CacheType, slowest' \in Nat,
         known \subseteq cache'.cals
  PROVE  IInv'
<1>1. pub \in [Publishers -> PubType] /\ stream \in Seq(Nat)
  BY DEF IInv, Types
<1>2. /\ pub'[g] = r /\ pub' \in [Publishers -> PubType]
      /\ \A h \in Publishers : h # g => pub'[h] = pub[h]
  BY <1>1 DEF Sound
<1>3. /\ stream' \in Seq(Nat)
      /\ \A i \in 1 .. Len(stream') : stream'[i] \in 1 .. Len(archive')
  <2>1. CASE stream' = stream
    BY <2>1 DEF IInv, Types
  <2>2. CASE stream # <<>> /\ stream' = Tail(stream)
    <3>1. /\ stream' \in Seq(Nat) /\ Len(stream') = Len(stream) - 1
          /\ \A i \in 1 .. Len(stream') : stream'[i] = stream[i + 1]
      BY <1>1, <2>2
    <3>2. Len(stream) \in Nat
      BY <1>1
    <3>3. \A j \in 1 .. Len(stream) : stream[j] \in 1 .. Len(archive)
      BY DEF IInv, Types
    <3>4. ASSUME NEW i \in 1 .. Len(stream')
          PROVE  stream'[i] \in 1 .. Len(archive)
      <4>1. i + 1 \in 1 .. Len(stream)
        BY <3>1, <3>2
      <4> QED
        BY <3>1, <3>3, <4>1
    <3> QED
      BY <3>1, <3>4
  <2> QED
    BY <2>1, <2>2
<1>4. Types'
  BY <1>2, <1>3 DEF IInv, Types
<1>5. Down'
  <2>1. CASE "run" \in up
    BY <2>1 DEF Down
  <2>2. CASE "run" \notin up
    <3>1. r = Idle /\ conn = "off" /\ stream = <<>>
      BY <2>2 DEF IInv, Down
    <3>2. stream' = <<>>
      BY <3>1
    <3> QED
      BY <1>2, <2>2, <3>1, <3>2 DEF IInv, Down
  <2> QED
    BY <2>1, <2>2
<1>6. Cached'
  BY <1>2 DEF IInv, Cached, Sound, Stored, Entries
<1>7. RightCalibration'
  <2>1. ASSUME NEW h \in Publishers, pub'[h].pc = "put",
               NEW c \in Entries(known, pub'[h].dev)
        PROVE  /\ pub'[h].cal.dev = pub'[h].dev
               /\ c.from <= pub'[h].time =>
                    pub'[h].cal.from \in c.from .. pub'[h].time
    <3>1. CASE h = g
      BY <1>2, <2>1, <3>1 DEF Sound
    <3>2. CASE h # g
      BY <1>2, <2>1, <3>2 DEF IInv, RightCalibration
    <3> QED
      BY <3>1, <3>2
  <2> QED
    BY <2>1 DEF RightCalibration, Entries
<1> QED
  BY <1>4, <1>5, <1>6, <1>7 DEF IInv

\* A publisher that works belongs to a process that runs.
LEMMA Working ==
  ASSUME IInv, NEW g \in Publishers, pub[g].pc # "idle"
  PROVE  "run" \in up
BY DEF IInv, Down, Idle

LEMMA IdleSound == Sound(Idle)
BY DEF Sound, PubType, Idle

\* What a publisher has and what it finds.
LEMMA PublisherTypes ==
  ASSUME IInv, NEW g \in Publishers
  PROVE  /\ pub \in [Publishers -> PubType] /\ pub[g] \in PubType
         /\ cache \in CacheType /\ cache.cals \in SUBSET Cal
         /\ slowest \in Nat /\ now \in Nat /\ Types
         /\ known \subseteq cache.cals
         /\ imported \in [Cal -> Int] /\ Stored \in SUBSET Cal
BY DEF IInv, Types, Cached, CacheType, Stored

LEMMA LongerIs ==
  ASSUME IInv, NEW t \in Nat
  PROVE  /\ Longer(t) \in Nat /\ Longer(t) >= slowest
         /\ now <= t + Longer(t)
BY DEF IInv, Types, Longer

\* The states that Find leads to.
Found(g) == [pub[g] EXCEPT !.pc = "put", !.asked = now,
                           !.cal = Pick(g, cache.cals)]
Missing(g) == [pub[g] EXCEPT !.pc = "check", !.asked = now]

LEMMA FindRecords ==
  ASSUME IInv, NEW g \in Publishers, Find(g)
  PROVE  /\ UNCHANGED <<imported, known, archive, now, conn, up, stream,
                        slowest>>
         /\ cache' \in CacheType /\ cache'.cals = cache.cals
         /\ cache'.time = cache.time /\ cache'.listed = cache.listed
         /\ cache'.readers \subseteq cache.readers \cup {g}
         /\ \/ /\ Entries(cache.cals, pub[g].dev) # {}
               /\ pub' = [pub EXCEPT ![g] = Found(g)]
            \/ /\ Entries(cache.cals, pub[g].dev) = {}
               /\ pub' = [pub EXCEPT ![g] = Missing(g)]
         /\ Found(g) \in PubType /\ Missing(g) \in PubType
         /\ Found(g).pc = "put" /\ Missing(g).pc = "check"
         /\ Found(g).n = pub[g].n /\ Missing(g).n = pub[g].n
         /\ Found(g).dev = pub[g].dev /\ Missing(g).dev = pub[g].dev
         /\ Found(g).time = pub[g].time
         /\ Found(g).cal = Pick(g, cache.cals)
         /\ Found(g).asked = now /\ Missing(g).asked = now
<1>1. /\ UNCHANGED <<imported, known, archive, now, conn, up, stream, slowest>>
      /\ cache' = cache \/ cache' = [cache EXCEPT !.readers = @ \cup {g}]
  BY DEF Find, dbVars
<1>2. /\ pub[g] \in PubType /\ now \in Nat /\ cache \in CacheType
      /\ cache.cals \in SUBSET Cal /\ known \subseteq cache.cals /\ Types
  BY PublisherTypes
<1>3. /\ cache' \in CacheType /\ cache'.cals = cache.cals
      /\ cache'.time = cache.time /\ cache'.listed = cache.listed
      /\ cache'.readers \subseteq cache.readers \cup {g}
  BY <1>1, <1>2 DEF CacheType
<1>4. \/ /\ Entries(cache.cals, pub[g].dev) # {}
         /\ pub' = [pub EXCEPT ![g] = Found(g)]
      \/ /\ Entries(cache.cals, pub[g].dev) = {}
         /\ pub' = [pub EXCEPT ![g] = Missing(g)]
  BY DEF Find, Found, Missing
<1>5. Pick(g, cache.cals) \in Cal \cup {NoCal}
  BY <1>2, PickRight
<1>6. /\ Found(g) \in PubType /\ Found(g).pc = "put"
      /\ Found(g).n = pub[g].n
      /\ Found(g).dev = pub[g].dev /\ Found(g).time = pub[g].time
      /\ Found(g).cal = Pick(g, cache.cals) /\ Found(g).asked = now
  BY <1>2, <1>5 DEF PubType, Found
<1>7. /\ Missing(g) \in PubType /\ Missing(g).pc = "check"
      /\ Missing(g).n = pub[g].n
      /\ Missing(g).dev = pub[g].dev /\ Missing(g).asked = now
  BY <1>2 DEF PubType, Missing
<1> QED
  BY <1>1, <1>3, <1>4, <1>6, <1>7

LEMMA FindStep ==
  ASSUME IInv, NEW g \in Publishers, Find(g)
  PROVE  IInv'
<1>1. "run" \in up
  BY Working DEF Find
<1>2. /\ cache.cals \in SUBSET Cal /\ known \subseteq cache.cals
      /\ slowest \in Nat /\ Types
  BY PublisherTypes
<1>3. Right(g, Pick(g, cache.cals))
  BY <1>2, PickRight
<1>4. Sound(Found(g))
  BY <1>3, FindRecords DEF Sound, Right
<1>5. CASE /\ Entries(cache.cals, pub[g].dev) # {}
           /\ pub' = [pub EXCEPT ![g] = Found(g)]
  BY <1>1, <1>2, <1>4, <1>5, FindRecords, PublisherStep
<1>6. CASE /\ Entries(cache.cals, pub[g].dev) = {}
           /\ pub' = [pub EXCEPT ![g] = Missing(g)]
  <2>1. Entries(known, pub[g].dev) = {}
    BY <1>2, <1>6 DEF Entries
  <2>2. Sound(Missing(g))
    BY <2>1, FindRecords DEF Sound
  <2> QED
    BY <1>1, <1>2, <1>6, <2>2, FindRecords, PublisherStep
<1> QED
  BY <1>5, <1>6, FindRecords

\* The states that Check leads to.
Late(g) == TimeRaces(g) \/ g \notin cache.readers
GivesUp(g) == [pub[g] EXCEPT !.pc = "put", !.excused = Late(g)]
Refreshes(g) == [pub[g] EXCEPT !.pc = "list"]

LEMMA CheckRecords ==
  ASSUME IInv, NEW g \in Publishers, Check(g)
  PROVE  /\ UNCHANGED <<imported, known, archive, now, conn, up, stream,
                        slowest>>
         /\ cache' \in CacheType /\ cache'.cals = cache.cals
         /\ cache'.time = cache.time /\ cache'.listed = cache.listed
         /\ cache'.readers \subseteq cache.readers
         /\ \/ /\ Recent \/ TimeRaces(g)
               /\ pub' = [pub EXCEPT ![g] = GivesUp(g)]
            \/ pub' = [pub EXCEPT ![g] = Refreshes(g)]
         /\ GivesUp(g) \in PubType /\ Refreshes(g) \in PubType
         /\ GivesUp(g).pc = "put" /\ Refreshes(g).pc = "list"
         /\ GivesUp(g).n = pub[g].n /\ Refreshes(g).n = pub[g].n
         /\ GivesUp(g).dev = pub[g].dev
         /\ GivesUp(g).asked = pub[g].asked
         /\ Refreshes(g).asked = pub[g].asked
         /\ GivesUp(g).excused = Late(g)
<1>1. /\ UNCHANGED <<imported, known, archive, now, conn, up, stream, slowest>>
      /\ cache' = [cache EXCEPT !.readers = @ \ {g}]
  BY DEF Check, dbVars
<1>2. pub[g] \in PubType /\ cache \in CacheType
  BY PublisherTypes
<1>3. /\ cache' \in CacheType /\ cache'.cals = cache.cals
      /\ cache'.time = cache.time /\ cache'.listed = cache.listed
      /\ cache'.readers \subseteq cache.readers
  BY <1>1, <1>2 DEF CacheType
<1>4. \/ /\ Recent \/ TimeRaces(g)
         /\ pub' = [pub EXCEPT ![g] = GivesUp(g)]
      \/ pub' = [pub EXCEPT ![g] = Refreshes(g)]
  BY DEF Check, GivesUp, Refreshes, Late
<1>5. Late(g) \in BOOLEAN
  BY DEF Late, TimeRaces
<1>6. /\ GivesUp(g) \in PubType /\ GivesUp(g).pc = "put"
      /\ GivesUp(g).n = pub[g].n
      /\ GivesUp(g).dev = pub[g].dev
      /\ GivesUp(g).asked = pub[g].asked
      /\ GivesUp(g).excused = Late(g)
  BY <1>2, <1>5 DEF PubType, GivesUp
<1>7. /\ Refreshes(g) \in PubType /\ Refreshes(g).pc = "list"
      /\ Refreshes(g).n = pub[g].n
      /\ Refreshes(g).asked = pub[g].asked
  BY <1>2 DEF PubType, Refreshes
<1> QED
  BY <1>1, <1>3, <1>4, <1>6, <1>7

LEMMA CheckStep ==
  ASSUME IInv, NEW g \in Publishers, Check(g)
  PROVE  IInv'
<1>1. "run" \in up
  BY Working DEF Check
<1>2. known \subseteq cache.cals /\ slowest \in Nat
  BY PublisherTypes
<1>3. Entries(known, pub[g].dev) = {}
  BY DEF Check, IInv, Cached
<1>4. Sound(GivesUp(g)) /\ Sound(Refreshes(g))
  BY <1>3, CheckRecords DEF Sound
<1> QED
  BY <1>1, <1>2, <1>4, CheckRecords, PublisherStep

\* The states that List leads to.
Listed(g) == [pub[g] EXCEPT !.pc = "swap", !.got = Stored, !.listed = now]
Failed(g) == [pub[g] EXCEPT !.pc = "again", !.excused = TRUE]

LEMMA ListRecords ==
  ASSUME IInv, NEW g \in Publishers, List(g)
  PROVE  /\ UNCHANGED <<imported, known, archive, now, conn, up, stream,
                        slowest, cache>>
         /\ \/ pub' = [pub EXCEPT ![g] = Listed(g)]
            \/ pub' = [pub EXCEPT ![g] = Failed(g)]
         /\ Listed(g) \in PubType /\ Failed(g) \in PubType
         /\ Listed(g).pc = "swap" /\ Failed(g).pc = "again"
         /\ Listed(g).n = pub[g].n /\ Failed(g).n = pub[g].n
         /\ Listed(g).asked = pub[g].asked /\ Failed(g).asked = pub[g].asked
         /\ Listed(g).got = Stored /\ Listed(g).listed = now
         /\ Failed(g).excused
<1>1. UNCHANGED <<imported, known, archive, now, conn, up, stream, slowest,
                  cache>>
  BY DEF List, dbVars
<1>2. pub[g] \in PubType /\ Stored \in SUBSET Cal /\ now \in Nat
  BY PublisherTypes
<1>3. \/ pub' = [pub EXCEPT ![g] = Listed(g)]
      \/ pub' = [pub EXCEPT ![g] = Failed(g)]
  BY DEF List, Listed, Failed
<1>4. /\ Listed(g) \in PubType /\ Listed(g).pc = "swap"
      /\ Listed(g).n = pub[g].n /\ Listed(g).asked = pub[g].asked
      /\ Listed(g).got = Stored /\ Listed(g).listed = now
  BY <1>2 DEF PubType, Listed
<1>5. /\ Failed(g) \in PubType /\ Failed(g).pc = "again"
      /\ Failed(g).n = pub[g].n /\ Failed(g).asked = pub[g].asked
      /\ Failed(g).excused
  BY <1>2 DEF PubType, Failed
<1> QED
  BY <1>1, <1>3, <1>4, <1>5

LEMMA ListStep ==
  ASSUME IInv, NEW g \in Publishers, List(g)
  PROVE  IInv'
<1>1. "run" \in up
  BY Working DEF List
<1>2. /\ cache \in CacheType /\ known \subseteq cache.cals /\ slowest \in Nat
      /\ known \subseteq Stored
  BY PublisherTypes DEF IInv, Cached
<1>3. Sound(Listed(g)) /\ Sound(Failed(g))
  BY <1>2, ListRecords DEF Sound
<1> QED
  BY <1>1, <1>2, <1>3, ListRecords, PublisherStep

\* The state that Swap leads to.
Swapped(g) == [pub[g] EXCEPT !.pc = "stamp", !.got = {}]

LEMMA SwapRecords ==
  ASSUME IInv, NEW g \in Publishers, Swap(g)
  PROVE  /\ UNCHANGED <<imported, known, archive, now, conn, up, stream>>
         /\ slowest' = Longer(pub[g].listed) /\ cache' \in CacheType
         /\ cache'.cals = pub[g].got /\ cache'.time = cache.time
         /\ cache'.listed = pub[g].listed /\ cache'.readers = {}
         /\ pub' = [pub EXCEPT ![g] = Swapped(g)]
         /\ Swapped(g) \in PubType /\ Swapped(g).pc = "stamp"
         /\ Swapped(g).n = pub[g].n /\ Swapped(g).asked = pub[g].asked
         /\ Swapped(g).listed = pub[g].listed
<1>1. /\ UNCHANGED <<imported, known, archive, now, conn, up, stream>>
      /\ slowest' = Longer(pub[g].listed)
      /\ cache' = [cache EXCEPT !.cals = pub[g].got, !.listed = pub[g].listed,
                                !.readers = {}]
  BY DEF Swap, dbVars
<1>2. pub[g] \in PubType /\ cache \in CacheType
  BY PublisherTypes
<1>3. pub[g].got \in SUBSET Cal /\ pub[g].listed \in Nat
  BY <1>2 DEF PubType
<1>4. /\ cache' \in CacheType
      /\ cache'.cals = pub[g].got /\ cache'.time = cache.time
      /\ cache'.listed = pub[g].listed /\ cache'.readers = {}
  BY <1>1, <1>2, <1>3 DEF CacheType
<1>5. pub' = [pub EXCEPT ![g] = Swapped(g)]
  BY DEF Swap, Swapped
<1>6. /\ Swapped(g) \in PubType /\ Swapped(g).pc = "stamp"
      /\ Swapped(g).n = pub[g].n /\ Swapped(g).asked = pub[g].asked
      /\ Swapped(g).listed = pub[g].listed
  BY <1>2 DEF PubType, Swapped
<1> QED
  BY <1>1, <1>4, <1>5, <1>6

LEMMA SwapStep ==
  ASSUME IInv, NEW g \in Publishers, Swap(g)
  PROVE  IInv'
<1>1. "run" \in up /\ pub[g].pc = "swap"
  BY Working DEF Swap
<1>2. known \subseteq pub[g].got /\ pub[g].listed \in Nat
  BY <1>1, PublisherTypes DEF IInv, Cached, PubType
<1>3. slowest' \in Nat
  BY <1>2, LongerIs, SwapRecords
<1>4. Sound(Swapped(g))
  BY SwapRecords DEF Sound
<1> QED
  BY <1>1, <1>2, <1>3, <1>4, SwapRecords, PublisherStep

\* The state that Stamp leads to.
Stamped(g) == [pub[g] EXCEPT !.pc = "again", !.listed = 0]

LEMMA StampRecords ==
  ASSUME IInv, NEW g \in Publishers, Stamp(g)
  PROVE  /\ UNCHANGED <<imported, known, archive, now, conn, up, stream>>
         /\ slowest' = Longer(pub[g].listed) /\ cache' \in CacheType
         /\ cache'.cals = cache.cals /\ cache'.time = now
         /\ cache'.listed = cache.listed /\ cache'.readers = cache.readers
         /\ pub' = [pub EXCEPT ![g] = Stamped(g)]
         /\ Stamped(g) \in PubType /\ Stamped(g).pc = "again"
         /\ Stamped(g).n = pub[g].n /\ Stamped(g).asked = pub[g].asked
<1>1. /\ UNCHANGED <<imported, known, archive, now, conn, up, stream>>
      /\ slowest' = Longer(pub[g].listed)
      /\ cache' = [cache EXCEPT !.time = now]
  BY DEF Stamp, dbVars
<1>2. pub[g] \in PubType /\ cache \in CacheType /\ now \in Nat
  BY PublisherTypes
<1>3. /\ cache' \in CacheType
      /\ cache'.cals = cache.cals /\ cache'.time = now
      /\ cache'.listed = cache.listed /\ cache'.readers = cache.readers
  BY <1>1, <1>2 DEF CacheType
<1>4. pub' = [pub EXCEPT ![g] = Stamped(g)]
  BY DEF Stamp, Stamped
<1>5. /\ Stamped(g) \in PubType /\ Stamped(g).pc = "again"
      /\ Stamped(g).n = pub[g].n /\ Stamped(g).asked = pub[g].asked
  BY <1>2 DEF PubType, Stamped
<1> QED
  BY <1>1, <1>3, <1>4, <1>5

LEMMA StampStep ==
  ASSUME IInv, NEW g \in Publishers, Stamp(g)
  PROVE  IInv'
<1>1. "run" \in up
  BY Working DEF Stamp
<1>2. known \subseteq cache.cals /\ pub[g].listed \in Nat
  BY PublisherTypes DEF PubType
<1>3. slowest' \in Nat
  BY <1>2, LongerIs, StampRecords
<1>4. Sound(Stamped(g))
  BY StampRecords DEF Sound
<1> QED
  BY <1>1, <1>2, <1>3, <1>4, StampRecords, PublisherStep

\* The state that Again leads to.
Settled(g) == [pub[g] EXCEPT !.pc = "put", !.cal = Pick(g, cache.cals)]

LEMMA AgainRecords ==
  ASSUME IInv, NEW g \in Publishers, Again(g)
  PROVE  /\ UNCHANGED <<imported, known, archive, now, conn, up, stream,
                        slowest, cache>>
         /\ pub' = [pub EXCEPT ![g] = Settled(g)]
         /\ Settled(g) \in PubType /\ Settled(g).pc = "put"
         /\ Settled(g).n = pub[g].n /\ Settled(g).asked = pub[g].asked
         /\ Settled(g).dev = pub[g].dev /\ Settled(g).time = pub[g].time
         /\ Settled(g).cal = Pick(g, cache.cals)
         /\ Settled(g).excused = pub[g].excused
<1>1. /\ UNCHANGED <<imported, known, archive, now, conn, up, stream, slowest,
                     cache>>
      /\ pub' = [pub EXCEPT ![g] = Settled(g)]
  BY DEF Again, dbVars, Settled
<1>2. /\ pub[g] \in PubType /\ Types /\ cache.cals \in SUBSET Cal
      /\ known \subseteq cache.cals
  BY PublisherTypes
<1>3. Pick(g, cache.cals) \in Cal \cup {NoCal}
  BY <1>2, PickRight
<1>4. /\ Settled(g) \in PubType /\ Settled(g).pc = "put"
      /\ Settled(g).n = pub[g].n /\ Settled(g).asked = pub[g].asked
      /\ Settled(g).dev = pub[g].dev /\ Settled(g).time = pub[g].time
      /\ Settled(g).cal = Pick(g, cache.cals)
      /\ Settled(g).excused = pub[g].excused
  BY <1>2, <1>3 DEF PubType, Settled
<1> QED
  BY <1>1, <1>4

LEMMA AgainStep ==
  ASSUME IInv, NEW g \in Publishers, Again(g)
  PROVE  IInv'
<1>1. "run" \in up
  BY Working DEF Again
<1>2. /\ cache.cals \in SUBSET Cal /\ known \subseteq cache.cals
      /\ cache \in CacheType /\ slowest \in Nat /\ Types
  BY PublisherTypes
<1>3. Right(g, Pick(g, cache.cals))
  BY <1>2, PickRight
<1>4. Sound(Settled(g))
  BY <1>3, AgainRecords DEF Sound, Right
<1> QED
  BY <1>1, <1>2, <1>4, AgainRecords, PublisherStep

LEMMA PutStep ==
  ASSUME IInv, NEW g \in Publishers, Put(g)
  PROVE  IInv'
<1>1. /\ pub' = [pub EXCEPT ![g] = Idle]
      /\ UNCHANGED <<imported, known, archive, now, conn, up, stream, cache,
                     slowest>>
  BY DEF Put
<1>2. cache \in CacheType /\ known \subseteq cache.cals /\ slowest \in Nat
  BY PublisherTypes
<1> QED
  BY <1>1, <1>2, IdleSound, PublisherStep

\* A message comes in.
LEMMA Published ==
  ASSUME NEW n \in Nat, NEW dev \in Devices, NEW t \in Nat
  PROVE  Sound([Idle EXCEPT !.pc = "find", !.n = n, !.dev = dev, !.time = t])
<1> DEFINE r == [Idle EXCEPT !.pc = "find", !.n = n, !.dev = dev, !.time = t]
<1>1. r \in PubType /\ r.pc = "find"
  BY DEF Idle, PubType
<1> HIDE DEF r
<1>2. Sound(r)
  BY <1>1 DEF Sound
<1> QED
  BY <1>2 DEF r

LEMMA ElementOf ==
  ASSUME NEW S, NEW s \in Seq(S), NEW i \in 1 .. Len(s)
  PROVE  s[i] \in S
OBVIOUS

LEMMA ReceiveStep ==
  ASSUME IInv, HordeReceives \/ (\E dev \in Devices : UdpReceives(dev))
  PROVE  IInv'
<1>1. cache \in CacheType /\ known \subseteq cache.cals /\ slowest \in Nat
  BY DEF IInv, Types, Cached
<1>2. CASE HordeReceives
  <2>1. /\ stream # <<>> /\ stream' = Tail(stream) /\ "run" \in up
        /\ UNCHANGED <<imported, known, archive, now, conn, up, cache, slowest>>
        /\ pub["horde"].pc = "idle"
    BY <1>2 DEF HordeReceives, dbVars, IInv, Down
  <2> DEFINE n == Head(stream)
  <2>2. n \in 1 .. Len(archive)
    <3>1. stream \in Seq(Nat) /\ Len(stream) > 0 /\ n = stream[1]
      BY <2>1 DEF IInv, Types
    <3> QED
      BY <3>1 DEF IInv, Types
  <2>3. n \in Nat /\ archive[n].dev \in Devices /\ archive[n].time \in Nat
    <3> HIDE DEF n
    <3>1. archive \in Seq([dev : Devices, time : Nat])
      BY DEF IInv, Types
    <3>2. archive[n] \in [dev : Devices, time : Nat]
      BY <2>2, <3>1, ElementOf
    <3>3. Len(archive) \in Nat
      BY <3>1
    <3> QED
      BY <2>2, <3>2, <3>3
  <2>4. \/ Publish("horde", n, archive[n].dev, archive[n].time)
        \/ UNCHANGED pub
    BY <1>2 DEF HordeReceives
  <2> HIDE DEF n
  <2>5. CASE Publish("horde", n, archive[n].dev, archive[n].time)
    <3> DEFINE r == [Idle EXCEPT !.pc = "find", !.n = n,
                                 !.dev = archive[n].dev,
                                 !.time = archive[n].time]
    <3>1. Sound(r)
      BY <2>3, Published
    <3>2. pub' = [pub EXCEPT !["horde"] = r]
      BY <2>5 DEF Publish
    <3> HIDE DEF r
    <3>3. "horde" \in Publishers
      BY DEF Publishers
    <3> QED
      BY <1>1, <2>1, <3>1, <3>2, <3>3, PublisherStep
  <2>6. CASE UNCHANGED pub
    <3>1. "horde" \in Publishers /\ pub["horde"] \in PubType
      BY DEF Publishers, IInv, Types
    <3>2. pub' = [pub EXCEPT !["horde"] = pub["horde"]]
      BY <2>6, <3>1 DEF IInv, Types
    <3>3. Sound(pub["horde"])
      BY <2>1, <3>1 DEF Sound
    <3> QED
      BY <1>1, <2>1, <3>1, <3>2, <3>3, PublisherStep
  <2> QED
    BY <2>4, <2>5, <2>6
<1>3. ASSUME NEW dev \in Devices, UdpReceives(dev) PROVE IInv'
  <2>1. /\ "run" \in up
        /\ UNCHANGED <<imported, known, archive, now, conn, up, stream, cache,
                       slowest>>
        /\ Publish("udp", 0, dev, 0)
    BY <1>3 DEF UdpReceives, dbVars
  <2> DEFINE r == [Idle EXCEPT !.pc = "find", !.n = 0, !.dev = dev, !.time = 0]
  <2>2. Sound(r)
    BY Published
  <2>3. pub' = [pub EXCEPT !["udp"] = r]
    BY <2>1 DEF Publish
  <2> HIDE DEF r
  <2>4. "udp" \in Publishers
    BY DEF Publishers
  <2> QED
    BY <1>1, <2>1, <2>2, <2>3, <2>4, PublisherStep
<1> QED
  BY <1>2, <1>3

-----------------------------------------------------------------------------
(* Everything else. *)

\* A step that leaves the publishers and the cache alone.
LEMMA Elsewhere ==
  ASSUME IInv, UNCHANGED <<known, cache, slowest, pub>>,
         now' \in Nat,
         archive' \in Seq([dev : Devices, time : Nat]),
         stream' \in Seq(Nat),
         \A i \in 1 .. Len(stream') : stream'[i] \in 1 .. Len(archive'),
         imported' \in [Cal -> Int], Stored \subseteq Stored',
         "run" \in up' \/ ("run" \notin up /\ UNCHANGED <<conn, stream>>)
  PROVE  IInv'
<1>1. Types'
  BY DEF IInv, Types
<1>2. Down'
  BY DEF IInv, Down
<1>3. Cached'
  BY DEF IInv, Cached
<1>4. RightCalibration'
  BY DEF IInv, RightCalibration, Entries
<1> QED
  BY <1>1, <1>2, <1>3, <1>4 DEF IInv

\* The database is what the process knows when it starts.
LEMMA LoadStep ==
  ASSUME IInv, RunLoads
  PROVE  IInv'
<1>1. /\ \A g \in Publishers : pub'[g] = Idle
      /\ "run" \in up' /\ known' = Stored
      /\ cache' = [NoCache EXCEPT !.cals = Stored, !.listed = now]
      /\ UNCHANGED <<now, archive, imported, stream, pub, slowest>>
  BY DEF RunLoads, IInv, Down, dbVars
<1>2. Stored' = Stored /\ Stored \subseteq Cal /\ now \in Nat
  BY <1>1 DEF Stored, IInv, Types
<1>3. cache' \in CacheType /\ cache'.cals = Stored
  BY <1>1, <1>2 DEF CacheType, NoCache
<1>4. Types'
  BY <1>1, <1>2, <1>3 DEF IInv, Types
<1>5. Down'
  BY <1>1 DEF Down
<1>6. Cached'
  BY <1>1, <1>2, <1>3 DEF Cached, Idle
<1>7. RightCalibration'
  BY <1>1 DEF RightCalibration, Idle
<1> QED
  BY <1>4, <1>5, <1>6, <1>7 DEF IInv

LEMMA StartStep ==
  ASSUME IInv, RunStart
  PROVE  IInv'
<1>1. /\ "run" \in up /\ cache' = [cache EXCEPT !.time = now]
      /\ slowest' = Longer(cache.listed)
      /\ UNCHANGED <<now, archive, imported, stream, pub, known, up>>
  BY DEF RunStart, IInv, Down, dbVars
<1>2. /\ cache \in CacheType /\ now \in Nat /\ cache.listed \in Nat
      /\ Stored' = Stored
  BY <1>1 DEF Stored, IInv, Types, CacheType
<1>3. cache' \in CacheType /\ cache'.cals = cache.cals /\ slowest' \in Nat
  BY <1>1, <1>2, LongerIs DEF CacheType
<1>4. Types'
  BY <1>1, <1>3 DEF IInv, Types
<1>5. Down'
  BY <1>1 DEF Down
<1>6. Cached'
  BY <1>1, <1>2, <1>3 DEF IInv, Cached
<1>7. RightCalibration'
  BY <1>1 DEF IInv, RightCalibration
<1> QED
  BY <1>4, <1>5, <1>6, <1>7 DEF IInv

LEMMA StopStep ==
  ASSUME IInv, RunStops
  PROVE  IInv'
<1>1. /\ \A g \in Publishers : pub'[g] = Idle
      /\ pub' = [g \in Publishers |-> Idle]
      /\ conn' = "off" /\ stream' = <<>>
      /\ cache' = NoCache /\ known' = {} /\ slowest' = 0
      /\ UNCHANGED <<now, archive, imported>>
  BY DEF RunStops, dbVars
<1>2. Idle \in PubType /\ NoCache \in CacheType
  BY DEF Idle, PubType, NoCache, CacheType
<1>3. Types'
  BY <1>1, <1>2 DEF IInv, Types
<1>4. Down'
  BY <1>1 DEF Down
<1>5. Cached'
  BY <1>1 DEF Cached, Idle
<1>6. RightCalibration'
  BY <1>1 DEF RightCalibration, Idle
<1> QED
  BY <1>3, <1>4, <1>5, <1>6 DEF IInv

\* A connection exists only for a process that runs.
LEMMA StreamStep ==
  ASSUME IInv, StreamBreaks \/ HordeFails
  PROVE  IInv'
<1>1. /\ "run" \in up' /\ stream' \in {stream, <<>>}
      /\ UNCHANGED <<now, archive, imported, known, cache, slowest, pub>>
  BY DEF StreamBreaks, HordeFails, dbVars, IInv, Down
<1>2. /\ now' \in Nat
      /\ archive' \in Seq([dev : Devices, time : Nat])
      /\ imported' \in [Cal -> Int]
  BY <1>1 DEF IInv, Types
<1>3. /\ stream' \in Seq(Nat)
      /\ \A i \in 1 .. Len(stream') : stream'[i] \in 1 .. Len(archive')
  <2>1. CASE stream' = stream
    BY <1>1, <2>1 DEF IInv, Types
  <2>2. CASE stream' = <<>>
    BY <2>2
  <2> QED
    BY <1>1, <2>1, <2>2
<1>4. Stored' = Stored
  BY <1>1 DEF Stored
<1> QED
  BY <1>1, <1>2, <1>3, <1>4, Elsewhere

LEMMA TickStep ==
  ASSUME IInv, Tick
  PROVE  IInv'
<1>1. /\ now' = now + 1
      /\ UNCHANGED <<archive, imported, up, conn, stream, known, cache, slowest,
                     pub>>
  BY DEF Tick, runVars, dbVars
<1>2. Stored' = Stored
  BY <1>1 DEF Stored
<1>3. /\ now' \in Nat
      /\ archive' \in Seq([dev : Devices, time : Nat])
      /\ stream' \in Seq(Nat)
      /\ \A i \in 1 .. Len(stream') : stream'[i] \in 1 .. Len(archive')
      /\ imported' \in [Cal -> Int]
  BY <1>1 DEF IInv, Types
<1> QED
  BY <1>1, <1>2, <1>3, Elsewhere

LEMMA ArrivesStep ==
  ASSUME IInv, NEW dev \in Devices, Arrives(dev)
  PROVE  IInv'
<1> DEFINE Msg == [dev : Devices, time : Nat]
           m == [dev |-> dev, time |-> now]
<1>1. /\ archive' = Append(archive, m)
      /\ stream' = IF conn = "open" THEN Append(stream, Len(archive) + 1)
                                    ELSE stream
      /\ UNCHANGED <<now, imported, up, conn, known, cache, slowest, pub>>
  BY DEF Arrives, dbVars
<1>2. /\ archive \in Seq(Msg) /\ m \in Msg /\ stream \in Seq(Nat)
      /\ now \in Nat /\ imported \in [Cal -> Int]
      /\ \A i \in 1 .. Len(stream) : stream[i] \in 1 .. Len(archive)
  BY DEF IInv, Types
<1> HIDE DEF m, Msg
<1>3. /\ archive' \in Seq(Msg) /\ Len(archive') = Len(archive) + 1
      /\ Len(archive) \in Nat
  BY <1>1, <1>2
<1>4. /\ stream' \in Seq(Nat)
      /\ \A i \in 1 .. Len(stream') : stream'[i] \in 1 .. Len(archive')
  <2>1. CASE conn = "open"
    <3>1. stream' = Append(stream, Len(archive) + 1)
      BY <1>1, <2>1
    <3>2. /\ stream' \in Seq(Nat) /\ Len(stream') = Len(stream) + 1
          /\ Len(stream) \in Nat
          /\ \A i \in 1 .. Len(stream) : stream'[i] = stream[i]
          /\ stream'[Len(stream) + 1] = Len(archive) + 1
      BY <1>2, <1>3, <3>1
    <3>3. ASSUME NEW i \in 1 .. Len(stream')
          PROVE  stream'[i] \in 1 .. Len(archive')
      <4>1. CASE i \in 1 .. Len(stream)
        <5>1. stream'[i] \in 1 .. Len(archive)
          BY <1>2, <3>2, <4>1
        <5> QED
          BY <1>3, <5>1
      <4>2. CASE i = Len(stream) + 1
        BY <1>3, <3>2, <4>2
      <4> QED
        BY <3>2, <4>1, <4>2
    <3> QED
      BY <3>2, <3>3
  <2>2. CASE conn # "open"
    <3>1. stream' = stream
      BY <1>1, <2>2
    <3>2. \A k \in 1 .. Len(archive) : k \in 1 .. Len(archive')
      BY <1>3
    <3> QED
      BY <1>2, <3>1, <3>2
  <2> QED
    BY <2>1, <2>2
<1>5. Stored' = Stored
  BY <1>1 DEF Stored
<1>6. "run" \in up' \/ ("run" \notin up /\ UNCHANGED <<conn, stream>>)
  BY <1>1 DEF IInv, Down
<1> USE DEF Msg
<1> QED
  BY <1>1, <1>2, <1>3, <1>4, <1>5, <1>6, Elsewhere

LEMMA ImportStep ==
  ASSUME IInv, NEW c \in Cal, Import(c)
  PROVE  IInv'
<1>1. /\ imported' = [imported EXCEPT ![c] = now]
      /\ UNCHANGED <<now, archive, up, conn, stream, known, cache, slowest,
                     pub>>
  BY DEF Import, runVars
<1>2. imported \in [Cal -> Int] /\ now \in Nat
  BY DEF IInv, Types
<1>3. imported' \in [Cal -> Int] /\ Stored \subseteq Stored'
  BY <1>1, <1>2 DEF Stored
<1>4. /\ now' \in Nat
      /\ archive' \in Seq([dev : Devices, time : Nat])
      /\ stream' \in Seq(Nat)
      /\ \A i \in 1 .. Len(stream') : stream'[i] \in 1 .. Len(archive')
  BY <1>1 DEF IInv, Types
<1> QED
  BY <1>1, <1>3, <1>4, Elsewhere

\* fetch has a pipeline of its own.
LEMMA FetchStep ==
  ASSUME IInv, Fetch \/ UNCHANGED vars
  PROVE  IInv'
<1>1. /\ "run" \in up' <=> "run" \in up
      /\ UNCHANGED <<now, archive, imported, runVars>>
  BY DEF Fetch, FetchStart, FetchPage, FetchPublish, FetchNext, FetchEnds,
         FetchInterrupted, vars, dbVars, runVars
<1>2. Stored' = Stored
  BY <1>1 DEF Stored
<1>3. /\ now' \in Nat
      /\ archive' \in Seq([dev : Devices, time : Nat])
      /\ stream' \in Seq(Nat)
      /\ \A i \in 1 .. Len(stream') : stream'[i] \in 1 .. Len(archive')
      /\ imported' \in [Cal -> Int]
  BY <1>1 DEF IInv, Types, runVars
<1> QED
  BY <1>1, <1>2, <1>3, Elsewhere DEF runVars

LEMMA NextInv == IInv /\ [Next]_vars => IInv'
<1> SUFFICES ASSUME IInv, [Next]_vars PROVE IInv'
  OBVIOUS
<1>1. CASE Tick
  BY <1>1, TickStep
<1>2. CASE Run
  BY <1>2, LoadStep, StartStep, StopStep, ReceiveStep, StreamStep DEF Run
<1>3. CASE Fetch \/ UNCHANGED vars
  BY <1>3, FetchStep
<1>4. ASSUME NEW dev \in Devices, Arrives(dev) PROVE IInv'
  BY <1>4, ArrivesStep
<1>5. ASSUME NEW c \in Cal, Import(c) PROVE IInv'
  BY <1>5, ImportStep
<1>6. ASSUME NEW g \in Publishers, PublishStep(g) PROVE IInv'
  BY <1>6, FindStep, CheckStep, ListStep, SwapStep, StampStep, AgainStep,
     PutStep DEF PublishStep
<1> QED
  BY <1>1, <1>2, <1>3, <1>4, <1>5, <1>6 DEF Next

\* For any devices, dates and bounds, a message never gets a worse
\* calibration than the best of its device that the process knew when it
\* started, whatever two goroutines do to the cache meanwhile
\* (calculate.go:73, calculate.go:115).
THEOREM CalibrationRight == Spec => []RightCalibration
<1>1. IInv => RightCalibration
  BY DEF IInv
<1> QED
  BY <1>1, InitInv, NextInv, PTL DEF Spec

-----------------------------------------------------------------------------
(* When a message is stored without a calibration.  A map lacks nothing that
   was imported before it was listed, and the time of the cache is newer than
   the map by two loads at most: the one that the map came from, and one that
   the map was put over and that wrote its time later. *)

\* Only what was imported at time t or later is missing in cals.
Holds(cals, t) == \A c \in Stored : c \notin cals => imported[c] >= t

\* What holds of the cache k, if s is the slowest load.
CacheTimely(k, s) ==
  /\ k.listed <= now /\ k.time <= now /\ k.time <= k.listed + 2 * s
  /\ Holds(k.cals, k.listed)

\* What holds of the state r of publisher g, with cache k.
Timely(g, r, k, s) ==
  /\ r.asked <= now
  /\ r.pc = "check" /\ g \in k.readers => Entries(k.cals, r.dev) = {}
  /\ r.pc = "swap" => /\ r.asked <= r.listed /\ r.listed <= now
                      /\ Holds(r.got, r.listed)
  /\ r.pc = "stamp" => /\ r.asked <= k.listed + s /\ r.listed <= now
                       /\ r.listed <= k.listed + s
  /\ r.pc = "again" /\ ~ r.excused => r.asked <= k.listed + s
  /\ r.pc = "put" /\ r.cal = NoCal /\ ~ r.excused =>
       \A c \in Entries(Stored, r.dev) :
         imported[c] > r.asked - (Delay + 2 * s)

TInv ==
  /\ \A c \in Cal : imported[c] <= now
  /\ CacheTimely(cache, slowest)
  /\ \A g \in Publishers : Timely(g, pub[g], cache, slowest)

LEMMA NothingChosen ==
  ASSUME Types, NEW g \in Publishers, NEW cals \in SUBSET Cal,
         Pick(g, cals) = NoCal
  PROVE  Entries(cals, pub[g].dev) = {}
<1> DEFINE E == Entries(cals, pub[g].dev)
<1>1. E \in SUBSET Cal
  BY DEF Entries
<1>2. pub[g].time \in Nat
  BY DEF Types, PubType
<1>3. E # {} => Pick(g, cals) \in E
  BY <1>1, <1>2, Chosen DEF Pick
<1>4. NoCal \notin Cal
  BY ServerAssumption DEF NoCal, Cal
<1> QED
  BY <1>1, <1>3, <1>4

\* An idle publisher is timely whatever the cache holds.
LEMMA IdleTimely ==
  ASSUME Types, NEW g, NEW k, NEW x
  PROVE  Timely(g, Idle, k, x)
BY DEF Types, Timely, Idle

\* An empty cache is.
LEMMA NoCacheTimely ==
  ASSUME Types
  PROVE  CacheTimely(NoCache, 0)
<1>1. now \in Nat
  BY DEF Types
<1>2. \A c \in Stored : imported[c] >= 0
  BY DEF Stored
<1>3. /\ NoCache.cals = {} /\ NoCache.listed = 0 /\ NoCache.time = 0
  BY DEF NoCache
<1> QED
  BY <1>1, <1>2, <1>3 DEF CacheTimely, Holds

LEMMA InitTimely == Init => TInv
<1> SUFFICES ASSUME Init PROVE TInv
  OBVIOUS
<1>1. Types /\ \A g \in Publishers : pub[g] = Idle
  BY InitInv DEF Init, IInv
<1>2. \A c \in Cal : imported[c] <= now
  BY DEF Init
<1>3. CacheTimely(cache, slowest)
  BY <1>1, NoCacheTimely DEF Init
<1> QED
  BY <1>1, <1>2, <1>3, IdleTimely DEF TInv

\* A publisher stays timely if the map stays, or is replaced by another.
LEMMA StaysTimely ==
  ASSUME IInv, NEW g \in Publishers, NEW r \in PubType,
         NEW k \in CacheType, NEW l \in CacheType,
         NEW s \in Nat, NEW t \in Nat, s <= t,
         \/ /\ l.cals = k.cals /\ l.listed = k.listed
            /\ g \in l.readers => g \in k.readers
         \/ l.readers = {} /\ now <= l.listed + t,
         Timely(g, r, k, s)
  PROVE  Timely(g, r, l, t)
<1>1. /\ now \in Nat /\ r.asked \in Nat /\ r.listed \in Nat
      /\ k.listed \in Nat /\ l.listed \in Nat /\ Delay \in Nat
      /\ r.asked <= now
  BY ServerAssumption DEF IInv, Types, PubType, CacheType, Timely
<1>2. r.pc = "check" /\ g \in l.readers => Entries(l.cals, r.dev) = {}
  BY DEF Timely
<1>3. r.pc = "swap" => /\ r.asked <= r.listed /\ r.listed <= now
                       /\ Holds(r.got, r.listed)
  BY DEF Timely
<1>4. r.pc = "stamp" => /\ r.asked <= l.listed + t /\ r.listed <= now
                        /\ r.listed <= l.listed + t
  <2>1. CASE r.pc # "stamp"
    BY <2>1
  <2>2. CASE r.pc = "stamp"
    <3>1. /\ r.asked <= k.listed + s /\ r.listed <= now
          /\ r.listed <= k.listed + s
      BY <2>2 DEF Timely
    <3>2. l.listed = k.listed \/ now <= l.listed + t
      OBVIOUS
    <3> QED
      BY <1>1, <3>1, <3>2
  <2> QED
    BY <2>1, <2>2
<1>5. r.pc = "again" /\ ~ r.excused => r.asked <= l.listed + t
  <2>1. SUFFICES ASSUME r.pc = "again", ~ r.excused
                 PROVE  r.asked <= l.listed + t
    BY Zenon
  <2>2. r.asked <= k.listed + s
    BY <2>1, Zenon DEF Timely
  <2>3. l.listed = k.listed \/ now <= l.listed + t
    BY Zenon
  <2> QED
    BY <1>1, <2>2, <2>3
<1>6. ASSUME r.pc = "put", r.cal = NoCal, ~ r.excused,
             NEW c \in Entries(Stored, r.dev)
      PROVE  imported[c] > r.asked - (Delay + 2 * t)
  <2>1. imported[c] > r.asked - (Delay + 2 * s)
    BY <1>6, Zenon DEF Timely
  <2>2. imported[c] \in Int
    BY DEF IInv, Types, Stored, Entries
  <2> QED
    BY <1>1, <2>1, <2>2
<1> QED
  BY <1>1, <1>2, <1>3, <1>4, <1>5, <1>6, Zenon DEF Timely

\* A step of publisher g to state r, which may replace the map.
LEMMA TimelyStep ==
  ASSUME IInv, TInv, NEW g \in Publishers, NEW r,
         pub' = [pub EXCEPT ![g] = r],
         UNCHANGED <<imported, now>>,
         cache' \in CacheType, slowest' \in Nat, slowest <= slowest',
         CacheTimely(cache', slowest'),
         \/ /\ cache'.cals = cache.cals /\ cache'.listed = cache.listed
            /\ cache'.readers \subseteq cache.readers \cup {g}
         \/ cache'.readers = {} /\ now <= cache'.listed + slowest',
         Timely(g, r, cache', slowest')
  PROVE  TInv'
<1>1. /\ pub'[g] = r
      /\ \A h \in Publishers : h # g => pub'[h] = pub[h]
      /\ pub \in [Publishers -> PubType]
      /\ cache \in CacheType /\ slowest \in Nat
  BY DEF IInv, Types
<1>2. ASSUME NEW h \in Publishers
      PROVE  Timely(h, pub'[h], cache', slowest')
  <2>1. CASE h = g
    BY <1>1, <2>1
  <2>2. CASE h # g
    <3>1. Timely(h, pub[h], cache, slowest) /\ pub'[h] = pub[h]
      BY <1>1, <2>2 DEF TInv
    <3>2. pub[h] \in PubType
      BY <1>1
    <3>3. \/ /\ cache'.cals = cache.cals /\ cache'.listed = cache.listed
             /\ h \in cache'.readers => h \in cache.readers
          \/ cache'.readers = {} /\ now <= cache'.listed + slowest'
      BY <2>2
    <3>4. Timely(h, pub[h], cache', slowest')
      BY <1>1, <3>1, <3>2, <3>3, StaysTimely
    <3> QED
      BY <3>1, <3>4
  <2> QED
    BY <2>1, <2>2
<1>3. Stored' = Stored
  BY DEF Stored
<1>4. \A h \in Publishers : Timely(h, pub[h], cache, slowest)'
  BY <1>2, <1>3 DEF Timely, Holds, Entries
<1>5. CacheTimely(cache, slowest)'
  BY <1>3 DEF CacheTimely, Holds
<1>6. (\A c \in Cal : imported[c] <= now)'
  BY DEF TInv
<1> QED
  BY <1>4, <1>5, <1>6 DEF TInv

\* The same when the map, its time and the slowest load stay as they are.
LEMMA TimelyRead ==
  ASSUME IInv, TInv, NEW g \in Publishers, NEW r,
         pub' = [pub EXCEPT ![g] = r],
         UNCHANGED <<imported, now, slowest>>, cache' \in CacheType,
         cache'.cals = cache.cals, cache'.listed = cache.listed,
         cache'.time = cache.time,
         cache'.readers \subseteq cache.readers \cup {g},
         Timely(g, r, cache', slowest)
  PROVE  TInv'
<1>1. CacheTimely(cache', slowest')
  BY DEF TInv, CacheTimely
<1>2. slowest' \in Nat /\ slowest <= slowest'
  BY DEF IInv, Types
<1> QED
  BY <1>1, <1>2, TimelyStep

LEMMA FindTimely ==
  ASSUME IInv, TInv, NEW g \in Publishers, Find(g)
  PROVE  TInv'
<1>1. now \in Nat /\ Types /\ cache.cals \in SUBSET Cal
  BY PublisherTypes
<1>2. CASE /\ Entries(cache.cals, pub[g].dev) # {}
           /\ pub' = [pub EXCEPT ![g] = Found(g)]
  <2>1. Found(g).cal # NoCal
    <3>1. Pick(g, cache.cals) # NoCal
      BY <1>1, <1>2, NothingChosen
    <3>2. Found(g).cal = Pick(g, cache.cals)
      BY FindRecords
    <3> QED
      BY <3>1, <3>2
  <2>2. Timely(g, Found(g), cache', slowest)
    BY <1>1, <2>1, FindRecords DEF Timely
  <2> QED
    BY <1>2, <2>2, FindRecords, TimelyRead
<1>3. CASE /\ Entries(cache.cals, pub[g].dev) = {}
           /\ pub' = [pub EXCEPT ![g] = Missing(g)]
  <2>1. /\ Missing(g).pc = "check" /\ Missing(g).asked = now
        /\ Missing(g).dev = pub[g].dev /\ cache'.cals = cache.cals
    BY FindRecords
  <2>2. Timely(g, Missing(g), cache', slowest)
    <3> DEFINE r == Missing(g)
    <3>1. Entries(cache'.cals, r.dev) = {}
      BY <1>3, <2>1
    <3>2. r.pc = "check" /\ r.asked = now
      BY <2>1
    <3> HIDE DEF r
    <3>3. Timely(g, r, cache', slowest)
      BY <1>1, <3>1, <3>2 DEF Timely
    <3> QED
      BY <3>3 DEF r
  <2> QED
    BY <1>3, <2>2, FindRecords, TimelyRead
<1> QED
  BY <1>2, <1>3, FindRecords

\* Not worth a refresh: what the map lacks is newer than the delay and two
\* loads.
LEMMA CheckTimely ==
  ASSUME IInv, TInv, NEW g \in Publishers, Check(g)
  PROVE  TInv'
<1>1. /\ pub[g] \in PubType /\ cache \in CacheType /\ now \in Nat
      /\ slowest \in Nat /\ imported \in [Cal -> Int]
      /\ pub[g].pc = "check" /\ Timely(g, pub[g], cache, slowest)
      /\ CacheTimely(cache, slowest)
  BY PublisherTypes DEF TInv, Check
<1>2. /\ pub[g].asked \in Nat /\ pub[g].asked <= now
      /\ cache.time \in Nat /\ cache.listed \in Nat /\ Delay \in Nat
      /\ cache.time <= cache.listed + 2 * slowest
  BY <1>1, ServerAssumption DEF PubType, CacheType, Timely, CacheTimely
<1>3. CASE /\ Recent \/ TimeRaces(g)
           /\ pub' = [pub EXCEPT ![g] = GivesUp(g)]
  <2>1. ASSUME ~ Late(g), NEW c \in Entries(Stored, pub[g].dev)
        PROVE  imported[c] > pub[g].asked - (Delay + 2 * slowest)
    <3>1. Recent /\ Entries(cache.cals, pub[g].dev) = {}
      BY <1>1, <1>3, <2>1 DEF Late, Timely
    <3>2. c \in Stored /\ c \in Cal /\ c \notin cache.cals
      BY <2>1, <3>1 DEF Entries, Stored
    <3>3. imported[c] \in Int /\ imported[c] >= cache.listed
      BY <1>1, <3>2 DEF CacheTimely, Holds
    <3>4. now < cache.time + Delay
      BY <3>1 DEF Recent
    <3> QED
      BY <1>1, <1>2, <3>3, <3>4
  <2>2. /\ GivesUp(g).pc = "put" /\ GivesUp(g).excused = Late(g)
        /\ GivesUp(g).asked = pub[g].asked /\ GivesUp(g).dev = pub[g].dev
    BY CheckRecords
  <2>3. Timely(g, GivesUp(g), cache', slowest)
    BY <1>2, <2>1, <2>2 DEF Timely
  <2> QED
    BY <1>3, <2>3, CheckRecords, TimelyRead
<1>4. CASE pub' = [pub EXCEPT ![g] = Refreshes(g)]
  <2>1. Timely(g, Refreshes(g), cache', slowest)
    BY <1>2, CheckRecords DEF Timely
  <2> QED
    BY <1>4, <2>1, CheckRecords, TimelyRead
<1> QED
  BY <1>3, <1>4, CheckRecords

LEMMA ListTimely ==
  ASSUME IInv, TInv, NEW g \in Publishers, List(g)
  PROVE  TInv'
<1>1. /\ cache \in CacheType /\ now \in Nat /\ pub[g].asked <= now
  BY PublisherTypes DEF TInv, Timely
<1>2. Holds(Stored, now)
  BY DEF Holds
<1>3. Timely(g, Listed(g), cache', slowest)
  BY <1>1, <1>2, ListRecords DEF Timely
<1>4. Timely(g, Failed(g), cache', slowest)
  BY <1>1, ListRecords DEF Timely
<1> QED
  BY <1>1, <1>3, <1>4, ListRecords, TimelyRead

\* The clock is no further than the load took.
LEMMA SwapTimely ==
  ASSUME IInv, TInv, NEW g \in Publishers, Swap(g)
  PROVE  TInv'
<1>1. /\ pub[g] \in PubType /\ cache \in CacheType /\ now \in Nat
      /\ slowest \in Nat /\ pub[g].pc = "swap"
      /\ Timely(g, pub[g], cache, slowest) /\ CacheTimely(cache, slowest)
  BY PublisherTypes DEF TInv, Swap
<1>2. /\ pub[g].listed \in Nat /\ pub[g].asked \in Nat
      /\ cache.time \in Nat /\ cache.time <= now
      /\ pub[g].asked <= pub[g].listed /\ pub[g].listed <= now
      /\ Holds(pub[g].got, pub[g].listed)
  BY <1>1 DEF PubType, CacheType, Timely, CacheTimely
<1>3. /\ slowest' \in Nat /\ slowest <= slowest'
      /\ now <= pub[g].listed + slowest'
  BY <1>1, <1>2, LongerIs, SwapRecords
<1>4. CacheTimely(cache', slowest')
  BY <1>1, <1>2, <1>3, SwapRecords DEF CacheTimely
<1>5. Timely(g, Swapped(g), cache', slowest')
  BY <1>1, <1>2, <1>3, SwapRecords DEF Timely
<1> QED
  BY <1>3, <1>4, <1>5, SwapRecords, TimelyStep

\* The map may be another's by now, listed at most one load before.
LEMMA StampTimely ==
  ASSUME IInv, TInv, NEW g \in Publishers, Stamp(g)
  PROVE  TInv'
<1>1. /\ pub[g] \in PubType /\ cache \in CacheType /\ now \in Nat
      /\ slowest \in Nat /\ pub[g].pc = "stamp"
      /\ Timely(g, pub[g], cache, slowest) /\ CacheTimely(cache, slowest)
  BY PublisherTypes DEF TInv, Stamp
<1>2. /\ pub[g].listed \in Nat /\ pub[g].asked \in Nat
      /\ cache.listed \in Nat /\ cache.listed <= now
      /\ pub[g].asked <= cache.listed + slowest /\ pub[g].asked <= now
      /\ pub[g].listed <= cache.listed + slowest
      /\ Holds(cache.cals, cache.listed)
  BY <1>1 DEF PubType, CacheType, Timely, CacheTimely
<1>3. /\ slowest' \in Nat /\ slowest <= slowest'
      /\ now <= pub[g].listed + slowest'
  BY <1>1, <1>2, LongerIs, StampRecords
<1>4. now <= cache.listed + 2 * slowest'
  BY <1>1, <1>2, <1>3
<1>5. CacheTimely(cache', slowest')
  BY <1>1, <1>2, <1>4, StampRecords DEF CacheTimely
<1>6. pub[g].asked <= cache.listed + slowest'
  BY <1>1, <1>2, <1>3
<1>7. Timely(g, Stamped(g), cache', slowest')
  BY <1>1, <1>2, <1>6, StampRecords DEF Timely
<1> QED
  BY <1>3, <1>5, <1>7, StampRecords, TimelyStep

LEMMA AgainTimely ==
  ASSUME IInv, TInv, NEW g \in Publishers, Again(g)
  PROVE  TInv'
<1>1. /\ pub[g] \in PubType /\ cache \in CacheType /\ now \in Nat /\ Types
      /\ slowest \in Nat /\ imported \in [Cal -> Int] /\ pub[g].pc = "again"
      /\ Timely(g, pub[g], cache, slowest) /\ CacheTimely(cache, slowest)
      /\ cache.cals \in SUBSET Cal
  BY PublisherTypes DEF TInv, Again
<1>2. /\ pub[g].asked \in Nat /\ pub[g].asked <= now
      /\ cache.listed \in Nat /\ Delay \in Nat \ {0}
  BY <1>1, ServerAssumption DEF PubType, CacheType, Timely
<1>3. ASSUME Settled(g).cal = NoCal, ~ pub[g].excused,
             NEW c \in Entries(Stored, pub[g].dev)
      PROVE  imported[c] > pub[g].asked - (Delay + 2 * slowest)
  <2>1. Entries(cache.cals, pub[g].dev) = {}
    BY <1>1, <1>3, AgainRecords, NothingChosen
  <2>2. c \in Stored /\ c \in Cal /\ c \notin cache.cals
    BY <1>3, <2>1 DEF Entries, Stored
  <2>3. imported[c] \in Int /\ imported[c] >= cache.listed
    BY <1>1, <2>2 DEF CacheTimely, Holds
  <2>4. pub[g].asked <= cache.listed + slowest
    BY <1>1, <1>3 DEF Timely
  <2> QED
    BY <1>1, <1>2, <2>3, <2>4
<1>4. /\ Settled(g).pc = "put" /\ Settled(g).dev = pub[g].dev
      /\ Settled(g).asked = pub[g].asked
      /\ Settled(g).excused = pub[g].excused
  BY AgainRecords
<1>5. Timely(g, Settled(g), cache', slowest)
  BY <1>2, <1>3, <1>4 DEF Timely
<1> QED
  BY <1>1, <1>5, AgainRecords, TimelyRead

LEMMA PutTimely ==
  ASSUME IInv, TInv, NEW g \in Publishers, Put(g)
  PROVE  TInv'
<1>1. /\ pub' = [pub EXCEPT ![g] = Idle]
      /\ UNCHANGED <<imported, now, cache, slowest>>
  BY DEF Put
<1>2. cache \in CacheType /\ Types
  BY PublisherTypes
<1> QED
  BY <1>1, <1>2, IdleTimely, TimelyRead

\* A step that leaves the publishers, the cache and the table alone.
LEMMA ElsewhereTimely ==
  ASSUME TInv, UNCHANGED <<now, imported, cache, slowest, pub>>
  PROVE  TInv'
BY DEF TInv, CacheTimely, Timely, Holds, Stored, Entries

LEMMA ReceiveTimely ==
  ASSUME IInv, TInv, HordeReceives \/ (\E dev \in Devices : UdpReceives(dev))
  PROVE  TInv'
<1>1. UNCHANGED <<imported, now, cache, slowest>>
  BY DEF HordeReceives, UdpReceives, dbVars
<1>2. cache \in CacheType /\ now \in Nat
  BY DEF IInv, Types
<1>3. ASSUME NEW g \in Publishers, NEW n, NEW dev, NEW t,
             Publish(g, n, dev, t)
      PROVE  TInv'
  <2> DEFINE r == [Idle EXCEPT !.pc = "find", !.n = n, !.dev = dev, !.time = t]
  <2>1. pub' = [pub EXCEPT ![g] = r]
    BY <1>3 DEF Publish
  <2>2. r.pc = "find" /\ r.asked = 0
    BY DEF Idle
  <2> HIDE DEF r
  <2>3. Timely(g, r, cache', slowest)
    BY <1>2, <2>2 DEF Timely
  <2> QED
    BY <1>1, <1>2, <2>1, <2>3, TimelyRead
<1>4. CASE UNCHANGED pub
  BY <1>1, <1>4, ElsewhereTimely
<1> QED
  BY <1>3, <1>4 DEF HordeReceives, UdpReceives, Publishers

\* run loads all that there is, and stops with an empty cache.
LEMMA LoadTimely ==
  ASSUME IInv, TInv, RunLoads \/ RunStops
  PROVE  TInv'
<1>1. /\ UNCHANGED <<imported, now>> /\ Stored' = Stored
      /\ \A g \in Publishers : pub'[g] = Idle
  BY DEF RunLoads, RunStops, dbVars, IInv, Down, Stored
<1>2. now \in Nat /\ slowest \in Nat /\ Types /\ Types'
  BY LoadStep, StopStep DEF IInv, Types
<1>3. CacheTimely(cache', slowest')
  <2>1. CASE RunLoads
    <3>1. /\ cache'.cals = Stored /\ cache'.listed = now /\ cache'.time = 0
          /\ slowest' = slowest
      BY <2>1 DEF RunLoads, NoCache
    <3> QED
      BY <1>2, <3>1 DEF CacheTimely, Holds
  <2>2. CASE RunStops
    BY <1>2, <2>2, NoCacheTimely DEF RunStops
  <2> QED
    BY <2>1, <2>2
<1>4. CacheTimely(cache, slowest)'
  BY <1>1, <1>3 DEF CacheTimely, Holds
<1>5. \A g \in Publishers : Timely(g, pub[g], cache, slowest)'
  BY <1>1, <1>2 DEF Timely, Idle
<1>6. (\A c \in Cal : imported[c] <= now)'
  BY <1>1 DEF TInv
<1> QED
  BY <1>4, <1>5, <1>6 DEF TInv

\* The time that run starts at.
LEMMA StartTimely ==
  ASSUME IInv, TInv, RunStart
  PROVE  TInv'
<1>1. /\ cache' = [cache EXCEPT !.time = now]
      /\ slowest' = Longer(cache.listed)
      /\ UNCHANGED <<imported, now, pub>>
  BY DEF RunStart, dbVars
<1>2. /\ cache \in CacheType /\ now \in Nat /\ slowest \in Nat
      /\ cache.listed \in Nat /\ pub \in [Publishers -> PubType]
      /\ CacheTimely(cache, slowest)
  BY DEF IInv, Types, CacheType, TInv
<1>3. /\ cache' \in CacheType /\ cache'.cals = cache.cals
      /\ cache'.listed = cache.listed /\ cache'.time = now
      /\ cache'.readers = cache.readers
  BY <1>1, <1>2 DEF CacheType
<1>4. /\ slowest' \in Nat /\ slowest <= slowest'
      /\ now <= cache.listed + slowest'
  BY <1>1, <1>2, LongerIs
<1>5. CacheTimely(cache', slowest')
  BY <1>2, <1>3, <1>4 DEF CacheTimely
<1>6. "horde" \in Publishers /\ Timely("horde", pub["horde"], cache, slowest)
  BY DEF Publishers, TInv
<1>7. Timely("horde", pub["horde"], cache', slowest')
  BY <1>2, <1>3, <1>4, <1>6, StaysTimely
<1>8. pub' = [pub EXCEPT !["horde"] = pub["horde"]]
  BY <1>1, <1>2, <1>6
<1> QED
  BY <1>1, <1>3, <1>4, <1>5, <1>6, <1>7, <1>8, TimelyStep

LEMMA TickTimely ==
  ASSUME IInv, TInv, Tick
  PROVE  TInv'
<1>1. now' = now + 1 /\ UNCHANGED <<imported, cache, slowest, pub>>
  BY DEF Tick, dbVars, runVars
<1>2. /\ now \in Nat /\ imported \in [Cal -> Int] /\ cache \in CacheType
      /\ \A g \in Publishers : pub[g] \in PubType
      /\ Stored' = Stored
  BY <1>1 DEF IInv, Types, Stored
<1>3. ASSUME NEW g \in Publishers PROVE Timely(g, pub[g], cache, slowest)'
  <2>1. Timely(g, pub[g], cache, slowest)
    BY DEF TInv
  <2>2. pub[g].asked \in Nat /\ pub[g].listed \in Nat
    BY <1>2 DEF PubType
  <2> QED
    BY <1>1, <1>2, <2>1, <2>2 DEF Timely, Holds, Entries
<1>4. CacheTimely(cache, slowest)'
  BY <1>1, <1>2 DEF TInv, CacheTimely, CacheType, Holds
<1>5. (\A c \in Cal : imported[c] <= now)'
  BY <1>1, <1>2 DEF TInv
<1> QED
  BY <1>3, <1>4, <1>5 DEF TInv

\* What is imported now was not there at any time that matters.
LEMMA ImportTimely ==
  ASSUME IInv, TInv, NEW c \in Cal, Import(c)
  PROVE  TInv'
<1>1. /\ imported' = [imported EXCEPT ![c] = now] /\ imported[c] = -1
      /\ UNCHANGED <<now, cache, slowest, pub>>
  BY DEF Import, runVars
<1>2. /\ now \in Nat /\ imported \in [Cal -> Int] /\ cache \in CacheType
      /\ \A g \in Publishers : pub[g] \in PubType
      /\ slowest \in Nat /\ Delay \in Nat \ {0}
  BY ServerAssumption DEF IInv, Types
<1>3. /\ imported'[c] = now
      /\ \A d \in Cal : d # c => imported'[d] = imported[d]
  BY <1>1, <1>2
<1>4. \A d \in Stored' : d = c \/ (d \in Stored /\ imported'[d] = imported[d])
  BY <1>3 DEF Stored
<1>5. ASSUME NEW t \in Nat, t <= now, NEW cals, Holds(cals, t)
      PROVE  \A d \in Stored' : d \notin cals => imported'[d] >= t
  BY <1>2, <1>3, <1>4, <1>5 DEF Holds
<1>6. CacheTimely(cache, slowest)'
  <2>1. /\ cache.listed \in Nat /\ cache.listed <= now
        /\ Holds(cache.cals, cache.listed)
    BY <1>2 DEF TInv, CacheTimely, CacheType
  <2>2. Holds(cache.cals, cache.listed)'
    BY <1>1, <1>5, <2>1 DEF Holds
  <2> QED
    BY <1>1, <2>2 DEF TInv, CacheTimely
<1>7. ASSUME NEW g \in Publishers PROVE Timely(g, pub[g], cache, slowest)'
  <2>1. /\ Timely(g, pub[g], cache, slowest)
        /\ pub[g].asked \in Nat /\ pub[g].listed \in Nat
        /\ pub[g].asked <= now
    BY <1>2 DEF TInv, PubType, Timely
  <2>2. ASSUME pub[g].pc = "swap" PROVE Holds(pub[g].got, pub[g].listed)'
    <3>1. pub[g].listed <= now /\ Holds(pub[g].got, pub[g].listed)
      BY <2>1, <2>2 DEF Timely
    <3> QED
      BY <1>1, <1>5, <2>1, <3>1 DEF Holds
  <2>3. ASSUME pub[g].pc = "put", pub[g].cal = NoCal, ~ pub[g].excused,
               NEW d \in Entries(Stored', pub[g].dev)
        PROVE  imported'[d] > pub[g].asked - (Delay + 2 * slowest)
    <3>1. d \in Stored' /\ d.dev = pub[g].dev
      BY <2>3 DEF Entries
    <3>2. CASE d = c
      BY <1>2, <1>3, <2>1, <3>2
    <3>3. CASE d \in Stored /\ imported'[d] = imported[d]
      BY <2>1, <2>3, <3>1, <3>3 DEF Timely, Entries
    <3> QED
      BY <1>4, <3>1, <3>2, <3>3
  <2> QED
    BY <1>1, <2>1, <2>2, <2>3 DEF Timely, Entries
<1>8. \A d \in Cal : imported'[d] <= now'
  BY <1>1, <1>2, <1>3 DEF TInv
<1> QED
  BY <1>6, <1>7, <1>8 DEF TInv

LEMMA NextTimely == IInv /\ TInv /\ [Next]_vars => TInv'
<1> SUFFICES ASSUME IInv, TInv, [Next]_vars PROVE TInv'
  OBVIOUS
<1>1. CASE Tick
  BY <1>1, TickTimely
<1>2. CASE StreamBreaks \/ HordeFails
  BY <1>2, ElsewhereTimely DEF StreamBreaks, HordeFails, dbVars
<1>3. CASE Fetch \/ UNCHANGED vars
  BY <1>3, ElsewhereTimely
     DEF Fetch, FetchStart, FetchPage, FetchPublish, FetchNext, FetchEnds,
         FetchInterrupted, vars, dbVars, runVars
<1>4. ASSUME NEW dev \in Devices, Arrives(dev) PROVE TInv'
  BY <1>4, ElsewhereTimely DEF Arrives, dbVars
<1>5. ASSUME NEW c \in Cal, Import(c) PROVE TInv'
  BY <1>5, ImportTimely
<1>6. ASSUME NEW g \in Publishers, PublishStep(g) PROVE TInv'
  BY <1>6, FindTimely, CheckTimely, ListTimely, SwapTimely, StampTimely,
     AgainTimely, PutTimely DEF PublishStep
<1>7. CASE Run
  BY <1>2, <1>7, LoadTimely, StartTimely, ReceiveTimely DEF Run
<1> QED
  BY <1>1, <1>3, <1>4, <1>5, <1>6, <1>7 DEF Next

\* For any devices, dates, delay and bounds, a message is stored without a
\* calibration only if none was imported for its device earlier than the delay
\* and two loads of the cache before it was looked up, although the goroutines
\* read and replace the map and its time one after the other and without a
\* lock; unless its own load failed, or its two reads were on either side of
\* another goroutine's writes (calculate.go:73, calculate.go:85,
\* calculate.go:100).
THEOREM CalibrationInTime == Spec => []CalibratedInTime
<1>1. IInv /\ TInv => CalibratedInTime
  BY DEF TInv, Timely, CalibratedInTime, Missed
<1> QED
  BY <1>1, InitInv, InitTimely, NextInv, NextTimely, PTL DEF Spec

-----------------------------------------------------------------------------
(* What is stored.  Both processes are at some point of a list of messages   *)
(* that they will store: run of the stream, fetch of the pages it still has  *)
(* to ask for.  But for what is doubtful, nothing is on both lists, or on    *)
(* one and stored, as the archive is in the order of its times and fetch     *)
(* goes back in them from page to page.  And nothing is left out of the list *)
(* of a fetch that had no gap to begin with.                                 *)

FetchType == [since : Int, until : Int, page : Seq(Nat), last : Nat,
              upto : Int, whole : BOOLEAN, done : BOOLEAN]

StoreTypes ==
  /\ bound \in Instances /\ Len(archive) <= bound.messages
  /\ rows \in [1 .. bound.messages -> Nat]
  /\ fetch \in FetchType
  /\ doubtful \subseteq Messages

Chronological ==
  /\ \A n \in Messages : archive[n].time <= now
  /\ \A m, n \in Messages : m <= n => archive[m].time <= archive[n].time

\* The messages of the stream are published in the order of the archive.
Behind(n) == \A i \in DOMAIN stream : n < stream[i]

InTurn ==
  /\ \A i, j \in DOMAIN stream : i < j => stream[i] < stream[j]
  /\ pub["horde"].pc # "idle" =>
       pub["horde"].n \in Messages /\ Behind(pub["horde"].n)
  /\ pub["horde"].pc = "idle" => pub["horde"].n = 0
  /\ pub["udp"].n = 0

\* A page and what was asked for before it are newer than what is asked next.
Paged ==
  /\ \A i, j \in DOMAIN fetch.page : i < j => fetch.page[i] > fetch.page[j]
  /\ \A i \in DOMAIN fetch.page :
       fetch.page[i] \in Messages /\ fetch.page[i] >= fetch.last
  /\ fetch.last = 0 => fetch.page = <<>>
  /\ fetch.last # 0 => fetch.last \in Messages /\ "fetch" \in up
  /\ "fetch" \notin up => fetch.last = 0

\* What fetch will ask for.
Until == IF fetch.last = 0 THEN fetch.until ELSE NextUntil
Ahead == {n \in Messages :
            /\ "fetch" \in up
            /\ archive[n].time \in ApiTime(fetch.since) .. ApiTime(Until)}

OnPage == {fetch.page[i] : i \in DOMAIN fetch.page}
FetchWill == OnPage \cup Ahead

StoredFirst ==
  \A n \in 1 .. bound.messages :
    n \notin doubtful =>
      /\ rows[n] <= 1
      /\ rows[n] > 0 => n \in Messages \ (RunWill \cup FetchWill)
      /\ n \notin RunWill \/ n \notin FetchWill

Gapless ==
  /\ fetch.upto <= now
  /\ "fetch" \in up => ~ fetch.done /\ ApiTime(Until) <= fetch.upto
  /\ "fetch" \in up /\ fetch.whole =>
       \A n \in Messages :
         archive[n].time < fetch.upto => rows[n] > 0 \/ n \in FetchWill

SInv == /\ StoreTypes /\ Chronological /\ InTurn /\ Paged
        /\ StoredFirst /\ Gapless /\ FetchComplete

LEMMA InitStore == Init => SInv
<1> SUFFICES ASSUME Init PROVE SInv
  OBVIOUS
<1>1. /\ archive = <<>> /\ stream = <<>> /\ fetch = NoFetch /\ now = 0
      /\ up = {} /\ bound \in Instances
      /\ rows = [n \in 1 .. bound.messages |-> 0]
      /\ \A g \in Publishers : pub[g] = Idle
  BY DEF Init
<1>2. bound.messages \in Nat
  BY <1>1, ServerAssumption
<1>3. pub["horde"] = Idle /\ pub["udp"] = Idle
  BY <1>1 DEF Publishers
<1>4. StoreTypes
  BY <1>1, <1>2 DEF StoreTypes, FetchType, NoFetch, Init
<1>5. Chronological /\ Messages = {}
  BY <1>1 DEF Chronological, Messages
<1>6. InTurn
  BY <1>1, <1>3 DEF InTurn, Idle
<1>7. Paged /\ Gapless /\ FetchComplete
  BY <1>1, <1>5 DEF Paged, Gapless, FetchComplete, NoFetch
<1>8. StoredFirst
  BY <1>1, <1>2, <1>5 DEF StoredFirst, RunWill
<1> QED
  BY <1>4, <1>5, <1>6, <1>7, <1>8 DEF SInv

-----------------------------------------------------------------------------
(* Steps of run. *)

\* What the API takes for a time is no later.
LEMMA ApiTimeIs ==
  ASSUME SInv, NEW t \in Int
  PROVE  ApiTime(t) \in Int /\ ApiTime(t) <= t
<1>1. bound.resolution \in Nat \ {0}
  BY ServerAssumption DEF SInv, StoreTypes
<1>2. t % bound.resolution \in 0 .. (bound.resolution - 1)
  BY <1>1
<1> QED
  BY <1>1, <1>2 DEF ApiTime

LEMMA ArchiveTypes ==
  ASSUME IInv
  PROVE  /\ now \in Nat /\ Len(archive) \in Nat
         /\ archive \in Seq([dev : Devices, time : Nat])
         /\ Messages = 1 .. Len(archive)
         /\ \A n \in Messages : archive[n] \in [dev : Devices, time : Nat]
         /\ \A n \in Messages : archive[n].time \in Nat
<1> DEFINE Message == [dev : Devices, time : Nat]
<1>1. now \in Nat /\ archive \in Seq(Message)
  BY DEF IInv, Types
<1>2. /\ Len(archive) \in Nat
      /\ \A n \in 1 .. Len(archive) : archive[n] \in Message
  <2> HIDE DEF Message
  <2> QED
    BY <1>1
<1>3. \A m \in Message : m.time \in Nat
  OBVIOUS
<1>4. \A n \in 1 .. Len(archive) : archive[n].time \in Nat
  <2> HIDE DEF Message
  <2> QED
    BY <1>2, <1>3
<1> QED
  BY <1>1, <1>2, <1>4 DEF Messages

\* What these parts of the invariant say is the same of the same variables.
LEMMA SameFetch ==
  ASSUME UNCHANGED <<archive, fetch, bound>>, "fetch" \in up' <=> "fetch" \in up
  PROVE  /\ Messages' = Messages /\ FetchWill' = FetchWill
         /\ ApiTime(Until)' = ApiTime(Until)
         /\ Paged' <=> Paged
<1>1. Messages' = Messages /\ OnPage' = OnPage /\ Until' = Until
  BY DEF Messages, OnPage, Until, NextUntil
<1>2. ApiTime(Until)' = ApiTime(Until)
  BY <1>1 DEF ApiTime
<1>3. ApiTime(fetch.since)' = ApiTime(fetch.since)
  BY DEF ApiTime
<1>4. Ahead' = Ahead
  BY <1>1, <1>2, <1>3 DEF Ahead
<1>5. Paged' <=> Paged
  BY <1>1 DEF Paged
<1> QED
  BY <1>1, <1>2, <1>4, <1>5 DEF FetchWill

\* A step that adds nothing to the list of run, and stores nothing.
LEMMA QuietStep ==
  ASSUME IInv, SInv, UNCHANGED <<archive, fetch, rows, bound, doubtful>>,
         now' \in Nat, now' >= now, "fetch" \in up' <=> "fetch" \in up,
         InTurn', RunWill' \subseteq RunWill
  PROVE  SInv'
<1>1. /\ Messages' = Messages /\ FetchWill' = FetchWill
      /\ Paged' /\ ApiTime(Until)' = ApiTime(Until)
  BY SameFetch DEF SInv
<1>2. /\ now \in Nat /\ fetch \in FetchType
      /\ \A n \in Messages : archive[n].time \in Nat
  BY ArchiveTypes DEF SInv, StoreTypes
<1>3. StoreTypes'
  BY <1>1 DEF SInv, StoreTypes
<1>4. Chronological'
  <2>1. \A n \in Messages : archive[n].time \in Nat /\ archive[n].time <= now
    BY <1>2 DEF SInv, Chronological
  <2>2. \A n \in Messages : archive[n].time <= now'
    BY <1>2, <2>1
  <2> QED
    BY <1>1, <2>2 DEF SInv, Chronological
<1>5. StoredFirst'
  BY <1>1 DEF SInv, StoredFirst
<1>6. Gapless'
  <2>1. fetch.upto \in Int /\ fetch.upto <= now
    BY <1>2 DEF SInv, Gapless, FetchType
  <2>2. fetch.upto <= now'
    BY <1>2, <2>1
  <2> QED
    BY <1>1, <2>2 DEF SInv, Gapless
<1>7. FetchComplete'
  BY <1>1 DEF SInv, FetchComplete
<1> QED
  BY <1>1, <1>3, <1>4, <1>5, <1>6, <1>7 DEF SInv

\* The same when the list of run is as it was.
LEMMA SameRun ==
  ASSUME UNCHANGED <<archive, stream>>,
         \A g \in Publishers : /\ pub'[g].n = pub[g].n
                               /\ pub'[g].pc = "idle" <=> pub[g].pc = "idle"
  PROVE  /\ InTurn' <=> InTurn
         /\ RunWill' = RunWill
<1>1. /\ Messages' = Messages
      /\ pub'["horde"].n = pub["horde"].n /\ pub'["udp"].n = pub["udp"].n
      /\ pub'["horde"].pc = "idle" <=> pub["horde"].pc = "idle"
  BY DEF Messages, Publishers
<1>2. \A n : (Behind(n))' <=> Behind(n)
  BY DEF Behind
<1>3. InTurn' <=> InTurn
  BY <1>1, <1>2 DEF InTurn, Behind
<1> QED
  BY <1>1, <1>3 DEF RunWill

\* A step of publisher g, which goes on with its message.
LEMMA GoesOn ==
  ASSUME IInv, SInv, NEW g \in Publishers, NEW r,
         pub[g].pc # "idle", r.pc # "idle", r.n = pub[g].n,
         pub' = [pub EXCEPT ![g] = r],
         UNCHANGED <<archive, stream, fetch, rows, bound, now, up, doubtful>>
  PROVE  SInv'
<1>1. pub \in [Publishers -> PubType] /\ now \in Nat
  BY DEF IInv, Types
<1>2. \A h \in Publishers : /\ pub'[h].n = pub[h].n
                            /\ pub'[h].pc = "idle" <=> pub[h].pc = "idle"
  BY <1>1
<1>3. InTurn' /\ RunWill' = RunWill
  BY <1>2, SameRun DEF SInv
<1>4. now' >= now
  BY <1>1
<1> QED
  BY <1>1, <1>3, <1>4, QuietStep

LEMMA SeekStore ==
  ASSUME IInv, SInv, NEW g \in Publishers,
         \/ Find(g) \/ Check(g) \/ List(g)
         \/ Swap(g) \/ Stamp(g) \/ Again(g)
  PROVE  SInv'
<1>1. /\ pub[g].pc # "idle"
      /\ UNCHANGED <<archive, stream, fetch, rows, bound, now, up, doubtful>>
  BY DEF Find, Check, List, Swap, Stamp, Again, dbVars, counters
<1>2. \E r \in PubType : /\ pub' = [pub EXCEPT ![g] = r]
                         /\ r.pc # "idle" /\ r.n = pub[g].n
  <2>1. CASE Find(g)
    BY <2>1, FindRecords
  <2>2. CASE Check(g)
    BY <2>2, CheckRecords
  <2>3. CASE List(g)
    BY <2>3, ListRecords
  <2>4. CASE Swap(g)
    BY <2>4, SwapRecords
  <2>5. CASE Stamp(g)
    BY <2>5, StampRecords
  <2>6. CASE Again(g)
    BY <2>6, AgainRecords
  <2> QED
    BY <2>1, <2>2, <2>3, <2>4, <2>5, <2>6
<1>3. PICK r \in PubType : /\ pub' = [pub EXCEPT ![g] = r]
                           /\ r.pc # "idle" /\ r.n = pub[g].n
  BY <1>2
<1> QED
  BY <1>1, <1>3, GoesOn

\* A message is stored and leaves the list of run; or the attempt fails.
LEMMA PutStore ==
  ASSUME IInv, SInv, NEW g \in Publishers, Put(g)
  PROVE  SInv'
<1>1. /\ pub[g].pc = "put" /\ pub' = [pub EXCEPT ![g] = Idle]
      /\ UNCHANGED <<now, archive, up, stream, fetch, doubtful, bound>>
      /\ pub \in [Publishers -> PubType]
  BY DEF Put, counters, IInv, Types
<1>2. /\ "run" \in up /\ now \in Nat /\ Len(archive) \in Nat
      /\ Messages = 1 .. Len(archive) /\ Messages' = Messages
  BY <1>1, Working, ArchiveTypes DEF Messages
<1>3. InTurn'
  BY <1>1, <1>2 DEF SInv, InTurn, Behind, Idle, Publishers
<1>5. RunWill' \subseteq RunWill
  BY <1>1, <1>2 DEF RunWill, Idle, Publishers
<1>6. CASE UNCHANGED rows
  BY <1>1, <1>2, <1>3, <1>5, <1>6, QuietStep
<1>7. CASE pub[g].n # 0 /\ rows' = [rows EXCEPT ![pub[g].n] = @ + 1]
  <2> DEFINE n == pub[g].n
  <2>1. g = "horde" /\ n \in Messages /\ Behind(n)
    BY <1>1, <1>7 DEF SInv, InTurn, Publishers
  <2>2. n \in RunWill /\ n \notin RunWill'
    <3>1. n \in RunWill
      BY <1>1, <2>1 DEF RunWill
    <3>2. \A i \in DOMAIN stream : stream[i] \in Nat
      BY DEF IInv, Types
    <3>3. \A i \in DOMAIN stream : stream[i] # n
      BY <1>2, <2>1, <3>2 DEF Behind
    <3>4. pub'["horde"].n = 0 /\ n # 0
      BY <1>1, <1>2, <2>1 DEF Idle
    <3> QED
      BY <1>1, <3>1, <3>3, <3>4 DEF RunWill
  <2>3. /\ rows \in [1 .. bound.messages -> Nat]
        /\ bound \in Instances /\ bound.messages \in Nat
        /\ Len(archive) <= bound.messages
    BY ServerAssumption DEF SInv, StoreTypes
  <2>4. /\ n \in 1 .. bound.messages /\ rows'[n] = rows[n] + 1
        /\ \A m \in 1 .. bound.messages : m # n => rows'[m] = rows[m]
        /\ rows' \in [1 .. bound.messages -> Nat]
    BY <1>2, <1>7, <2>1, <2>3
  <2>5. FetchWill' = FetchWill /\ Paged' /\ ApiTime(Until)' = ApiTime(Until)
    BY <1>1, SameFetch DEF SInv
  <2>6. StoreTypes' /\ Chronological'
    BY <1>1, <1>2, <2>4 DEF SInv, StoreTypes, Chronological
  <2>7. StoredFirst'
    <3>1. SUFFICES ASSUME NEW m \in 1 .. bound.messages, m \notin doubtful
                   PROVE  /\ rows'[m] <= 1
                          /\ rows'[m] > 0 =>
                               m \in Messages \ (RunWill' \cup FetchWill)
                          /\ m \notin RunWill' \/ m \notin FetchWill
      BY <1>1, <1>2, <2>5 DEF StoredFirst
    <3>2. /\ rows[m] <= 1 /\ rows[m] \in Nat
          /\ rows[m] > 0 => m \in Messages \ (RunWill \cup FetchWill)
          /\ m \notin RunWill \/ m \notin FetchWill
      BY <2>3, <3>1 DEF SInv, StoredFirst
    <3>3. CASE m = n
      BY <2>1, <2>2, <2>4, <3>2, <3>3
    <3>4. CASE m # n
      BY <1>5, <2>4, <3>2, <3>4
    <3> QED
      BY <3>3, <3>4
  <2>8. \A m \in Messages : rows[m] > 0 => rows'[m] > 0
    BY <1>2, <2>3, <2>4
  <2>9. Gapless'
    BY <1>1, <1>2, <2>5, <2>8 DEF SInv, Gapless
  <2>10. FetchComplete'
    BY <1>1, <1>2, <2>8 DEF SInv, FetchComplete
  <2> QED
    BY <1>3, <2>5, <2>6, <2>7, <2>9, <2>10 DEF SInv
<1> QED
  BY <1>6, <1>7 DEF Put

LEMMA PublishStore ==
  ASSUME IInv, SInv, NEW g \in Publishers, PublishStep(g)
  PROVE  SInv'
BY SeekStore, PutStore DEF PublishStep

\* The clock, an import and the connection.
LEMMA ElsewhereStore ==
  ASSUME IInv, SInv,
         UNCHANGED <<archive, fetch, rows, bound, pub, up, doubtful>>,
         stream' \in {stream, <<>>}, now' \in {now, now + 1}
  PROVE  SInv'
<1>1. now \in Nat /\ Messages' = Messages
  BY ArchiveTypes DEF Messages
<1>2. now' \in Nat /\ now' >= now
  BY <1>1
<1>3. InTurn' /\ RunWill' \subseteq RunWill
  <2>1. CASE stream' = stream
    BY <2>1, SameRun DEF SInv
  <2>2. CASE stream' = <<>>
    BY <1>1, <2>2 DEF SInv, InTurn, Behind, RunWill
  <2> QED
    BY <2>1, <2>2
<1> QED
  BY <1>2, <1>3, QuietStep

\* run starts with nothing in its stream, and leaves nothing behind.
LEMMA RunStore ==
  ASSUME IInv, SInv, RunLoads \/ RunStart \/ RunStops
  PROVE  SInv'
<1>1. /\ UNCHANGED <<archive, fetch, rows, bound, now, doubtful>>
      /\ "fetch" \in up' <=> "fetch" \in up
      /\ now \in Nat /\ now >= now /\ Messages' = Messages
  BY ArchiveTypes DEF RunLoads, RunStart, RunStops, dbVars, counters, Messages
<1>2. CASE RunLoads \/ RunStart
  <2>1. UNCHANGED <<stream, pub>>
    BY <1>2 DEF RunLoads, RunStart
  <2>2. InTurn' /\ RunWill' = RunWill
    BY <1>1, <2>1, SameRun DEF SInv
  <2> QED
    BY <1>1, <2>2, QuietStep
<1>3. CASE RunStops
  <2>1. pub' = [g \in Publishers |-> Idle] /\ stream' = <<>>
    BY <1>3 DEF RunStops
  <2>2. pub'["horde"] = Idle /\ pub'["udp"] = Idle
    BY <2>1 DEF Publishers
  <2>3. /\ DOMAIN stream' = {} /\ pub'["udp"].n = 0
        /\ pub'["horde"].pc = "idle" /\ pub'["horde"].n = 0
    BY <2>1, <2>2 DEF Idle
  <2>4. 0 \notin Messages
    BY ArchiveTypes
  <2>5. InTurn' /\ RunWill' \subseteq RunWill
    BY <1>1, <2>3, <2>4 DEF InTurn, RunWill
  <2> QED
    BY <1>1, <2>5, QuietStep
<1> QED
  BY <1>2, <1>3

\* A message goes from the stream to the publisher, or is skipped.
LEMMA ReceiveStore ==
  ASSUME IInv, SInv, HordeReceives
  PROVE  SInv'
<1>1. /\ stream # <<>> /\ stream' = Tail(stream)
      /\ UNCHANGED <<archive, fetch, rows, bound, now, up, doubtful>>
      /\ stream \in Seq(Nat) /\ now \in Nat /\ Messages' = Messages
      /\ Messages = 1 .. Len(archive)
      /\ pub \in [Publishers -> PubType] /\ pub["horde"].pc = "idle"
  BY ArchiveTypes DEF HordeReceives, dbVars, counters, Messages, IInv, Types
<1> DEFINE n == Head(stream)
<1>2. /\ Len(stream) \in Nat \ {0} /\ Len(stream') = Len(stream) - 1
      /\ \A i \in DOMAIN stream' : i + 1 \in DOMAIN stream
                                     /\ stream'[i] = stream[i + 1]
      /\ n = stream[1] /\ 1 \in DOMAIN stream
      /\ DOMAIN stream = 1 .. Len(stream)
      /\ DOMAIN stream' = 1 .. Len(stream')
  BY <1>1
<1>3. \A i, j \in DOMAIN stream : i < j => stream[i] < stream[j]
  BY DEF SInv, InTurn
<1>4. n \in Messages
  BY <1>1, <1>2 DEF IInv, Types
<1> HIDE DEF n
<1>5. /\ \A i, j \in DOMAIN stream' : i < j => stream'[i] < stream'[j]
      /\ \A i \in DOMAIN stream' : n < stream'[i]
  BY <1>2, <1>3
<1>6. pub' = pub \/ \E r \in PubType : r.n = n /\ r.pc = "find"
                                 /\ pub' = [pub EXCEPT ![ "horde"] = r]
  <2>1. CASE Publish("horde", n, archive[n].dev, archive[n].time)
    <3> DEFINE r == [Idle EXCEPT !.pc = "find", !.n = n,
                       !.dev = archive[n].dev, !.time = archive[n].time]
    <3>1. archive[n] \in [dev : Devices, time : Nat] /\ n \in Nat
      BY <1>1, <1>4, ArchiveTypes
    <3>2. r \in PubType /\ r.n = n /\ r.pc = "find"
      BY <3>1 DEF PubType, Idle
    <3>3. pub' = [pub EXCEPT !["horde"] = r]
      BY <2>1 DEF Publish
    <3> HIDE DEF r
    <3> QED
      BY <3>2, <3>3
  <2> QED
    BY <2>1 DEF HordeReceives, n
<1>7. /\ pub'["udp"] = pub["udp"]
      /\ \/ pub'["horde"].pc # "idle" /\ pub'["horde"].n = n
         \/ pub'["horde"] = pub["horde"]
  BY <1>1, <1>6 DEF Publishers
<1>8. InTurn'
  BY <1>1, <1>4, <1>5, <1>7 DEF SInv, InTurn, Behind
<1>9. RunWill' \subseteq RunWill
  <2>1. ASSUME NEW m \in Messages,
               \E i \in DOMAIN stream' : stream'[i] = m
        PROVE  \E i \in DOMAIN stream : stream[i] = m
    BY <1>2, <2>1
  <2>2. \E i \in DOMAIN stream : stream[i] = n
    BY <1>2
  <2> QED
    BY <1>1, <1>7, <2>1, <2>2 DEF RunWill
<1>10. now >= now
  BY <1>1
<1> QED
  BY <1>1, <1>8, <1>9, <1>10, QuietStep

LEMMA UdpStore ==
  ASSUME IInv, SInv, NEW dev \in Devices, UdpReceives(dev)
  PROVE  SInv'
<1>1. /\ UNCHANGED <<archive, stream, fetch, rows, bound, now, up, doubtful>>
      /\ Publish("udp", 0, dev, 0) /\ now \in Nat
      /\ pub \in [Publishers -> PubType]
  BY ArchiveTypes DEF UdpReceives, dbVars, IInv, Types
<1>2. pub'["horde"] = pub["horde"] /\ pub'["udp"].n = 0
  BY <1>1 DEF Publish, Publishers, Idle
<1>3. InTurn' /\ RunWill' = RunWill /\ now >= now
  BY <1>1, <1>2 DEF SInv, InTurn, Behind, RunWill, Messages
<1> QED
  BY <1>1, <1>3, QuietStep

\* A new message is newer than all others and has no row.
LEMMA ArriveStore ==
  ASSUME IInv, SInv, NEW dev \in Devices, Arrives(dev)
  PROVE  SInv'
<1> DEFINE new == Len(archive) + 1
           message == [dev |-> dev, time |-> now]
<1>1. /\ archive' = Append(archive, message) /\ new <= bound.messages
      /\ stream' \in {stream, Append(stream, new)}
      /\ UNCHANGED <<now, rows, up, pub, fetch, bound>>
      /\ stream \in Seq(Nat)
      /\ \A i \in 1 .. Len(stream) : stream[i] \in Messages
  <2>1. Len(archive) < bound.messages
    BY DEF Arrives
  <2>2. bound.messages \in Nat
    BY ServerAssumption DEF SInv, StoreTypes
  <2>3. new <= bound.messages
    BY <2>1, <2>2, ArchiveTypes
  <2>4. /\ archive' = Append(archive, message)
        /\ stream' \in {stream, Append(stream, new)}
        /\ UNCHANGED <<now, rows, up, pub, fetch, bound>>
    BY DEF Arrives, dbVars, counters
  <2> QED
    BY <2>3, <2>4, ArchiveTypes DEF IInv, Types
<1>2. /\ now \in Nat /\ Len(archive) \in Nat /\ Messages = 1 .. Len(archive)
      /\ \A n \in Messages : archive[n].time \in Nat
      /\ archive \in Seq([dev : Devices, time : Nat])
  BY ArchiveTypes
<1>3. message \in [dev : Devices, time : Nat] /\ message.time = now
  BY <1>2
<1>4. /\ Len(archive') = new /\ archive'[new] = message
      /\ \A n \in Messages : archive'[n] = archive[n]
  <2> DEFINE Message == [dev : Devices, time : Nat]
  <2>1. archive \in Seq(Message) /\ message \in Message
    BY <1>2, <1>3
  <2> HIDE DEF Message, message
  <2> QED
    BY <1>1, <1>2, <2>1
<1> HIDE DEF message
<1>5. /\ Messages' = Messages \cup {new} /\ new \in Nat /\ new # 0
      /\ \A n \in Messages : n \in Nat /\ n < new
  BY <1>2, <1>4 DEF Messages
<1>0. /\ doubtful \subseteq doubtful' /\ doubtful' \subseteq doubtful \cup {new}
      /\ \/ stream' = stream
         \/ new \in doubtful'
         \/ ~ ("fetch" \in up /\ now = fetch.upto)
  BY DEF Arrives
<1>6. StoreTypes'
  BY <1>0, <1>1, <1>4, <1>5 DEF SInv, StoreTypes
<1>7. Chronological'
  <2>1. \A n \in Messages' : archive'[n].time <= now
    BY <1>2, <1>3, <1>4, <1>5 DEF SInv, Chronological
  <2>2. ASSUME NEW m \in Messages', NEW n \in Messages', m <= n
        PROVE  archive'[m].time <= archive'[n].time
    <3>1. CASE n = new
      BY <1>3, <1>4, <2>1, <3>1
    <3>2. CASE n # new
      <4>1. n \in Messages /\ m \in Messages
        BY <1>5, <2>2, <3>2
      <4> QED
        BY <1>4, <2>2, <4>1 DEF SInv, Chronological
    <3> QED
      BY <3>1, <3>2
  <2> QED
    BY <1>1, <2>1, <2>2 DEF Chronological
<1> HIDE DEF new
<1>8. /\ \A i \in DOMAIN stream' :
           \/ i \in DOMAIN stream /\ stream'[i] = stream[i]
           \/ i \notin DOMAIN stream /\ stream'[i] = new
                /\ \A j \in DOMAIN stream' : j <= i
      /\ \A i \in DOMAIN stream : i \in Nat /\ stream[i] \in Messages
      /\ DOMAIN stream' \subseteq Nat
  <2>1. CASE stream' = stream
    BY <1>1, <2>1
  <2>2. CASE stream' = Append(stream, new)
    BY <1>1, <1>5, <2>2
  <2> QED
    BY <1>1, <2>1, <2>2
<1>9. InTurn'
  <2>1. ASSUME NEW i \in DOMAIN stream', NEW j \in DOMAIN stream', i < j
        PROVE  stream'[i] < stream'[j]
    <3>1. i \in Nat /\ j \in Nat
      BY <1>8
    <3>2. i \in DOMAIN stream /\ stream'[i] = stream[i]
      BY <1>8, <2>1, <3>1
    <3>3. CASE j \in DOMAIN stream /\ stream'[j] = stream[j]
      BY <2>1, <3>2, <3>3 DEF SInv, InTurn
    <3>4. CASE stream'[j] = new
      BY <1>5, <1>8, <3>2, <3>4
    <3> QED
      BY <1>8, <3>3, <3>4
  <2>2. ASSUME pub["horde"].pc # "idle"
        PROVE  /\ pub["horde"].n \in Messages'
               /\ \A i \in DOMAIN stream' : pub["horde"].n < stream'[i]
    <3>1. pub["horde"].n \in Messages /\ Behind(pub["horde"].n)
      BY <2>2 DEF SInv, InTurn
    <3> QED
      BY <1>5, <1>8, <3>1 DEF Behind
  <2> QED
    BY <1>1, <2>1, <2>2 DEF SInv, InTurn, Behind
<1>10. Paged'
  BY <1>1, <1>5 DEF SInv, Paged
<1>15. /\ ApiTime(Until)' = ApiTime(Until) /\ ApiTime(Until) \in Int
       /\ ApiTime(fetch.since)' = ApiTime(fetch.since)
       /\ ApiTime(fetch.since) \in Int
  <2>1. fetch.last # 0 => /\ fetch.last \in Messages
                          /\ archive'[fetch.last] = archive[fetch.last]
    BY <1>4 DEF SInv, Paged
  <2>2. Until' = Until
    BY <1>1, <2>1 DEF Until, NextUntil
  <2>3. Until \in Int /\ fetch.since \in Int
    BY <1>2, <2>1 DEF Until, NextUntil, SInv, StoreTypes, FetchType
  <2> QED
    BY <1>1, <2>2, <2>3, ApiTimeIs DEF ApiTime
<1>11. ASSUME NEW n \in Messages
       PROVE  /\ n \in RunWill' <=> n \in RunWill
              /\ n \in FetchWill' <=> n \in FetchWill
  <2>1. n \in RunWill' <=> n \in RunWill
    <3>1. (\E i \in DOMAIN stream' : stream'[i] = n)
            <=> \E i \in DOMAIN stream : stream[i] = n
      <4>1. n # new
        BY <1>5
      <4>2. ASSUME NEW i \in DOMAIN stream
            PROVE  i \in DOMAIN stream' /\ stream'[i] = stream[i]
        BY <1>1, <4>2
      <4> QED
        BY <1>8, <4>1, <4>2
    <3> QED
      BY <1>1, <1>5, <3>1 DEF RunWill
  <2>2. n \in Ahead' <=> n \in Ahead
    BY <1>1, <1>4, <1>5, <1>15 DEF Ahead
  <2> QED
    BY <1>1, <1>5, <2>1, <2>2 DEF FetchWill, OnPage
<1>12. StoredFirst'
  <2>1. SUFFICES ASSUME NEW n \in 1 .. bound.messages, n \notin doubtful'
                 PROVE  /\ rows[n] <= 1
                        /\ rows[n] > 0 =>
                             n \in Messages' \ (RunWill' \cup FetchWill')
                        /\ n \notin RunWill' \/ n \notin FetchWill'
    BY <1>1 DEF StoredFirst
  <2>2. /\ rows[n] <= 1
        /\ rows[n] > 0 => n \in Messages \ (RunWill \cup FetchWill)
        /\ n \notin RunWill \/ n \notin FetchWill
    BY <1>0, <2>1 DEF SInv, StoredFirst
  <2>3. CASE n \in Messages
    BY <1>5, <1>11, <2>2, <2>3
  <2>4. CASE n \notin Messages'
    <3>1. n \notin RunWill'
      BY <2>4 DEF RunWill
    <3> QED
      BY <1>5, <2>2, <2>4, <3>1
  <2>5. CASE n = new
    <3>1. n \notin Messages /\ ~ (rows[n] > 0)
      BY <1>5, <2>2, <2>5
    <3>2. CASE stream' = stream
      <4>1. \A i \in DOMAIN stream : stream[i] # new
        BY <1>5, <1>8
      <4>2. pub["horde"].n # new
        BY <1>2, <1>5 DEF SInv, InTurn
      <4>3. n \notin RunWill'
        BY <1>1, <2>5, <3>2, <4>1, <4>2 DEF RunWill
      <4> QED
        BY <2>2, <3>1, <4>3
    <3>3. CASE ~ ("fetch" \in up /\ now = fetch.upto)
      <4>1. n \notin OnPage'
        BY <1>1, <2>5, <3>1 DEF OnPage, SInv, Paged
      <4>2. n \notin Ahead'
        <5>1. SUFFICES ASSUME "fetch" \in up, now <= ApiTime(Until)
                       PROVE  FALSE
          BY <1>1, <1>3, <1>4, <1>15, <2>5 DEF Ahead
        <5>2. ApiTime(Until) <= fetch.upto /\ fetch.upto <= now
          BY <5>1 DEF SInv, Gapless
        <5>3. fetch.upto \in Int /\ ApiTime(Until) \in Int
          BY <1>15 DEF SInv, StoreTypes, FetchType
        <5> QED
          BY <1>2, <3>3, <5>1, <5>2, <5>3
      <4> QED
        BY <2>2, <3>1, <4>1, <4>2 DEF FetchWill
    <3> QED
      BY <1>0, <2>1, <2>5, <3>2, <3>3
  <2> QED
    BY <1>5, <2>3, <2>4, <2>5
<1>13. \A n \in Messages' :
         archive'[n].time < fetch.upto =>
           n \in Messages /\ archive'[n] = archive[n]
  <2>1. fetch.upto \in Int /\ fetch.upto <= now
    BY DEF SInv, StoreTypes, FetchType, Gapless
  <2> QED
    BY <1>2, <1>3, <1>4, <1>5, <2>1
<1>14. Gapless' /\ FetchComplete'
  BY <1>1, <1>11, <1>13, <1>15 DEF SInv, Gapless, FetchComplete
<1> QED
  BY <1>6, <1>7, <1>9, <1>10, <1>12, <1>14 DEF SInv

-----------------------------------------------------------------------------
(* Steps of fetch. *)

\* A step that adds nothing to the list of fetch, and stores nothing.
LEMMA FetchQuiet ==
  ASSUME IInv, SInv, UNCHANGED <<now, archive, stream, pub, rows, bound>>,
         doubtful' = doubtful, fetch' \in FetchType,
         FetchWill' \subseteq FetchWill, Paged', Gapless', FetchComplete'
  PROVE  SInv'
<1>1. Messages' = Messages
  BY DEF Messages
<1>2. InTurn' /\ RunWill' = RunWill
  BY SameRun DEF SInv
<1>3. StoreTypes' /\ Chronological'
  BY <1>1 DEF SInv, StoreTypes, Chronological
<1>4. StoredFirst'
  BY <1>1, <1>2 DEF SInv, StoredFirst
<1> QED
  BY <1>2, <1>3, <1>4
     DEF SInv

\* FetchPublish when the message cannot be decoded or stored, and the parts
\* of it that do not depend on that.
LEMMA PagePublished ==
  ASSUME IInv, SInv, FetchPublish
  PROVE  /\ fetch' \in FetchType /\ Paged' /\ ApiTime(Until)' = ApiTime(Until)
         /\ UNCHANGED <<now, archive, stream, pub, bound, up, doubtful>>
         /\ fetch'.upto = fetch.upto /\ fetch'.done = fetch.done
         /\ fetch'.whole => fetch.whole
         /\ Head(fetch.page) \in Messages
         /\ FetchWill = FetchWill' \cup {Head(fetch.page)}
         /\ Head(fetch.page) \notin FetchWill'
         /\ "fetch" \in up
<1> DEFINE n == Head(fetch.page)
           t == Tail(fetch.page)
<1>1. /\ fetch.page # <<>> /\ fetch \in FetchType
      /\ UNCHANGED <<now, archive, stream, pub, bound, up, doubtful>>
      /\ Messages' = Messages
  BY DEF FetchPublish, SInv, StoreTypes, runVars, counters, Messages
<1>2. /\ fetch.page \in Seq(Nat) /\ fetch.last \in Nat
  BY <1>1 DEF FetchType
<1>3. /\ t \in Seq(Nat) /\ n = fetch.page[1] /\ 1 \in DOMAIN fetch.page
      /\ \A i \in DOMAIN t : i + 1 \in DOMAIN fetch.page /\ i \in Nat
                               /\ i >= 1 /\ t[i] = fetch.page[i + 1]
      /\ \A i \in DOMAIN fetch.page :
           i = 1 \/ (i - 1 \in DOMAIN t /\ t[i - 1] = fetch.page[i])
  BY <1>1, <1>2
<1>4. /\ fetch.last # 0 /\ "fetch" \in up /\ fetch.last \in Messages
      /\ n \in Messages /\ n >= fetch.last
  BY <1>1, <1>3 DEF SInv, Paged
<1>5. /\ fetch' \in FetchType /\ fetch'.page = t /\ fetch'.last = fetch.last
      /\ fetch'.since = fetch.since /\ fetch'.until = fetch.until
      /\ fetch'.upto = fetch.upto /\ fetch'.done = fetch.done
      /\ fetch'.whole => fetch.whole
  <2> DEFINE rest == [fetch EXCEPT !.page = Tail(@)]
             lost == [rest EXCEPT !.whole = FALSE]
  <2>1. fetch' \in {rest, lost}
    BY DEF FetchPublish
  <2>2. /\ rest \in FetchType /\ rest.page = t /\ rest.last = fetch.last
        /\ rest.since = fetch.since /\ rest.until = fetch.until
        /\ rest.upto = fetch.upto /\ rest.done = fetch.done
        /\ rest.whole = fetch.whole
    BY <1>1, <1>3 DEF FetchType
  <2> HIDE DEF rest
  <2>3. /\ lost \in FetchType /\ lost.page = t /\ lost.last = fetch.last
        /\ lost.since = fetch.since /\ lost.until = fetch.until
        /\ lost.upto = fetch.upto /\ lost.done = fetch.done
        /\ lost.whole = FALSE
    BY <2>2 DEF FetchType
  <2> HIDE DEF lost, t
  <2> QED
    BY <2>1, <2>2, <2>3
<1> HIDE DEF t
<1>6. \A i \in DOMAIN t : t[i] < n
  <2>1. ASSUME NEW i \in DOMAIN t PROVE t[i] < n
    <3>1. 1 < i + 1 /\ i + 1 \in DOMAIN fetch.page
      BY <1>3
    <3> QED
      BY <1>3, <3>1 DEF SInv, Paged
  <2> QED
    BY <2>1
<1>7. Paged'
  <2>1. \A i, j \in DOMAIN t : i < j => t[i] > t[j]
    <3>1. ASSUME NEW i \in DOMAIN t, NEW j \in DOMAIN t, i < j
          PROVE  t[i] > t[j]
      <4>1. i + 1 < j + 1 /\ i + 1 \in DOMAIN fetch.page
              /\ j + 1 \in DOMAIN fetch.page
        BY <1>3, <3>1
      <4> QED
        BY <1>3, <4>1 DEF SInv, Paged
    <3> QED
      BY <3>1
  <2>2. \A i \in DOMAIN t : t[i] \in Messages /\ t[i] >= fetch.last
    BY <1>3 DEF SInv, Paged
  <2> QED
    BY <1>1, <1>4, <1>5, <2>1, <2>2 DEF Paged
<1>8. OnPage = OnPage' \cup {n} /\ n \notin OnPage'
  <2>1. n \notin OnPage'
    <3>1. \A i \in DOMAIN t : t[i] # n
      <4>1. \A i \in DOMAIN t : t[i] \in Messages
        BY <1>3 DEF SInv, Paged
      <4> QED
        BY <1>4, <1>6, <4>1, ArchiveTypes
    <3> QED
      BY <1>5, <3>1 DEF OnPage
  <2>2. OnPage = OnPage' \cup {n}
    BY <1>3, <1>5 DEF OnPage
  <2> QED
    BY <2>1, <2>2
<1>9. Ahead' = Ahead /\ ApiTime(Until)' = ApiTime(Until)
  <2>1. Until' = Until
    BY <1>1, <1>5 DEF Until, NextUntil
  <2>2. /\ ApiTime(Until)' = ApiTime(Until)
        /\ ApiTime(fetch.since)' = ApiTime(fetch.since)
    BY <1>1, <1>5, <2>1 DEF ApiTime
  <2> QED
    BY <1>1, <2>2 DEF Ahead
<1>10. n \notin Ahead
  <2>1. archive[fetch.last].time <= archive[n].time
    BY <1>4 DEF SInv, Chronological
  <2>2. archive[fetch.last].time \in Nat /\ archive[n].time \in Nat
    BY <1>4, ArchiveTypes
  <2>3. ~ (archive[n].time <= Until) /\ fetch.since \in Int /\ Until \in Int
    BY <1>1, <1>4, <2>1, <2>2 DEF FetchType, Until, NextUntil
  <2>4. /\ ApiTime(Until) \in Int /\ ApiTime(Until) <= Until
        /\ ApiTime(fetch.since) \in Int
    BY <2>3, ApiTimeIs
  <2> QED
    BY <2>2, <2>3, <2>4 DEF Ahead
<1> QED
  BY <1>1, <1>4, <1>5, <1>7, <1>8, <1>9, <1>10 DEF FetchWill

LEMMA FetchPublishStore ==
  ASSUME IInv, SInv, FetchPublish
  PROVE  SInv'
<1> DEFINE n == Head(fetch.page)
<1>1. /\ fetch' \in FetchType /\ Paged' /\ ApiTime(Until)' = ApiTime(Until)
      /\ UNCHANGED <<now, archive, stream, pub, bound, up, doubtful>>
      /\ fetch'.upto = fetch.upto /\ fetch'.done = fetch.done
      /\ fetch'.whole => fetch.whole
      /\ n \in Messages /\ FetchWill = FetchWill' \cup {n}
      /\ n \notin FetchWill' /\ "fetch" \in up
      /\ Messages' = Messages
  BY PagePublished DEF Messages
<1>2. \/ rows' = [rows EXCEPT ![n] = @ + 1]
      \/ UNCHANGED rows /\ fetch'.whole = FALSE
  <2>1. fetch \in FetchType
    BY DEF SInv, StoreTypes
  <2>2. [[fetch EXCEPT !.page = Tail(@)] EXCEPT !.whole = FALSE].whole = FALSE
    BY <2>1 DEF FetchType
  <2> QED
    BY <2>2 DEF FetchPublish
<1> HIDE DEF n
<1>3. CASE UNCHANGED rows /\ fetch'.whole = FALSE
  <2>1. Gapless' /\ FetchComplete'
    BY <1>1, <1>3 DEF SInv, Gapless, FetchComplete
  <2> QED
    BY <1>1, <1>3, <2>1, FetchQuiet
<1>4. CASE rows' = [rows EXCEPT ![n] = @ + 1]
  <2>1. /\ rows \in [1 .. bound.messages -> Nat] /\ bound.messages \in Nat
        /\ Len(archive) <= bound.messages /\ Len(archive) \in Nat
        /\ Messages = 1 .. Len(archive)
    BY ServerAssumption, ArchiveTypes DEF SInv, StoreTypes
  <2>2. /\ n \in 1 .. bound.messages /\ rows'[n] = rows[n] + 1
        /\ \A m \in 1 .. bound.messages : m # n => rows'[m] = rows[m]
        /\ rows' \in [1 .. bound.messages -> Nat]
    BY <1>1, <1>4, <2>1
  <2>3. InTurn' /\ RunWill' = RunWill
    BY <1>1, SameRun DEF SInv
  <2>4. StoreTypes' /\ Chronological'
    BY <1>1, <2>2 DEF SInv, StoreTypes, Chronological
  <2>5. StoredFirst'
    <3>1. SUFFICES ASSUME NEW m \in 1 .. bound.messages, m \notin doubtful
                   PROVE  /\ rows'[m] <= 1
                          /\ rows'[m] > 0 =>
                               m \in Messages \ (RunWill \cup FetchWill')
                          /\ m \notin RunWill \/ m \notin FetchWill'
      BY <1>1, <2>3 DEF StoredFirst
    <3>2. /\ rows[m] <= 1 /\ rows[m] \in Nat
          /\ rows[m] > 0 => m \in Messages \ (RunWill \cup FetchWill)
          /\ m \notin RunWill \/ m \notin FetchWill
      BY <2>1, <3>1 DEF SInv, StoredFirst
    <3>3. CASE m = n
      BY <1>1, <2>2, <3>2, <3>3
    <3>4. CASE m # n
      BY <1>1, <2>2, <3>2, <3>4
    <3> QED
      BY <3>3, <3>4
  <2>6. \A m \in Messages : /\ rows[m] > 0 => rows'[m] > 0
                            /\ m = n => rows'[m] > 0
    BY <2>1, <2>2
  <2>7. Gapless' /\ FetchComplete'
    BY <1>1, <2>6 DEF SInv, Gapless, FetchComplete
  <2> QED
    BY <1>1, <2>3, <2>4, <2>5, <2>7 DEF SInv
<1> QED
  BY <1>2, <1>3, <1>4

LEMMA FetchNextStore ==
  ASSUME IInv, SInv, FetchNext
  PROVE  SInv'
<1>1. /\ fetch.last # 0 /\ fetch.page = <<>> /\ fetch \in FetchType
      /\ fetch' = [fetch EXCEPT !.until = NextUntil, !.last = 0]
      /\ UNCHANGED <<now, archive, stream, pub, rows, bound, up, doubtful>>
      /\ Messages' = Messages
  BY DEF FetchNext, SInv, StoreTypes, dbVars, runVars, counters, Messages
<1>2. NextUntil \in Int
  <2>1. archive[fetch.last].time \in Nat
    BY <1>1, ArchiveTypes DEF SInv, Paged
  <2> QED
    BY <2>1 DEF NextUntil
<1>3. /\ fetch' \in FetchType /\ fetch'.page = <<>> /\ fetch'.last = 0
      /\ fetch'.since = fetch.since /\ fetch'.until = NextUntil
      /\ fetch'.upto = fetch.upto /\ fetch'.done = fetch.done
      /\ fetch'.whole = fetch.whole
  BY <1>1, <1>2 DEF FetchType
<1>4. FetchWill' = FetchWill /\ ApiTime(Until)' = ApiTime(Until)
  <2>1. Until' = Until /\ OnPage' = OnPage
    BY <1>1, <1>3 DEF OnPage, Until
  <2>2. /\ ApiTime(Until)' = ApiTime(Until)
        /\ ApiTime(fetch.since)' = ApiTime(fetch.since)
    BY <1>1, <1>3, <2>1 DEF ApiTime
  <2> QED
    BY <1>1, <2>1, <2>2 DEF FetchWill, Ahead
<1>5. Paged' /\ Gapless' /\ FetchComplete'
  BY <1>1, <1>3, <1>4 DEF SInv, Paged, Gapless, FetchComplete
<1> QED
  BY <1>1, <1>3, <1>4, <1>5, FetchQuiet

LEMMA NoFetchType ==
  /\ NoFetch \in FetchType
  /\ NoFetch.page = <<>> /\ NoFetch.last = 0 /\ NoFetch.upto = 0
  /\ NoFetch.done = FALSE
BY DEF NoFetch, FetchType

\* At the end nothing is left to ask for, so that nothing is missing.
LEMMA FetchEndsStore ==
  ASSUME IInv, SInv, FetchEnds \/ FetchInterrupted
  PROVE  SInv'
<1>1. /\ "fetch" \in up /\ up' = up \ {"fetch"}
      /\ UNCHANGED <<now, archive, stream, pub, rows, bound, doubtful>>
      /\ fetch \in FetchType /\ Messages' = Messages /\ now \in Nat
  BY ArchiveTypes
     DEF FetchEnds, FetchInterrupted, SInv, StoreTypes, dbVars, runVars,
         counters, Messages
<1>2. /\ fetch' \in FetchType /\ fetch'.page = <<>> /\ fetch'.last = 0
      /\ \/ FetchEnds /\ fetch'.done = fetch.whole /\ fetch'.upto = fetch.upto
         \/ fetch'.done = FALSE /\ fetch'.upto = 0
  <2>1. CASE FetchEnds
    <3>1. fetch' = [NoFetch EXCEPT !.done = fetch.whole, !.upto = fetch.upto]
      BY <2>1 DEF FetchEnds
    <3>2. fetch.whole \in BOOLEAN /\ fetch.upto \in Int
      BY <1>1 DEF FetchType
    <3> QED
      BY <2>1, <3>1, <3>2, NoFetchType DEF FetchType
  <2>2. CASE FetchInterrupted
    <3>1. fetch' = NoFetch
      BY <2>2 DEF FetchInterrupted
    <3> QED
      BY <3>1, NoFetchType
  <2> QED
    BY <2>1, <2>2
<1>3. FetchWill' = {}
  BY <1>1, <1>2 DEF FetchWill, OnPage, Ahead
<1>4. Paged'
  BY <1>1, <1>2 DEF SInv, Paged
<1>5. Gapless'
  BY <1>1, <1>2 DEF SInv, Gapless
<1>6. FetchComplete'
  <2>1. CASE FetchEnds /\ fetch'.done = fetch.whole /\ fetch'.upto = fetch.upto
    <3>1. FetchWill = {}
      <4>1. fetch.last = 0 /\ InRange = {}
        BY <2>1 DEF FetchEnds
      <4>2. fetch.page = <<>>
        BY <4>1 DEF SInv, Paged
      <4> QED
        BY <4>1, <4>2 DEF FetchWill, OnPage, Ahead, Until, InRange
    <3> QED
      BY <1>1, <2>1, <3>1 DEF SInv, Gapless, FetchComplete
  <2>2. CASE fetch'.done = FALSE
    BY <2>2 DEF FetchComplete
  <2> QED
    BY <1>2, <2>1, <2>2
<1> QED
  BY <1>1, <1>2, <1>3, <1>4, <1>5, <1>6, FetchQuiet

\* Of the integers up to some bound there is a greatest.
LEMMA LessWellFounded ==
  \E R : IsWellFoundedOn(R, Nat) /\ \A x, y \in Nat : x < y => <<x, y>> \in R
<1>1. IsWellFoundedOn(OpToRel(<, Nat), Nat)
  BY NatLessThanWellFounded
<1>2. \A x, y \in Nat : x < y => <<x, y>> \in OpToRel(<, Nat)
  BY DEF OpToRel
<1> QED
  BY <1>1, <1>2, Zenon

LEMMA LeastNat ==
  ASSUME NEW T \in SUBSET Nat, T # {}
  PROVE  \E x \in T : \A y \in T : x <= y
<1>1. PICK R : /\ IsWellFoundedOn(R, Nat)
               /\ \A x, y \in Nat : x < y => <<x, y>> \in R
  BY LessWellFounded
<1>2. \E x \in T : \A y \in T : ~ (<<y, x>> \in R)
  <2>1. IsWellFoundedOn(R, Nat)
    BY <1>1
  <2> QED
    BY <2>1, WFMin
<1>3. PICK x \in T : \A y \in T : ~ (<<y, x>> \in R)
  BY <1>2
<1>4. ASSUME NEW y \in T PROVE ~ (y < x)
  <2>1. x \in Nat /\ y \in Nat
    BY <1>3, <1>4
  <2> QED
    BY <1>1, <1>3, <2>1, Zenon
<1>5. \A y \in T : x \in Nat /\ y \in Nat /\ ~ (y < x)
  BY <1>4
<1>6. \A y \in T : x <= y
  BY <1>5
<1> QED
  BY <1>6

LEMMA MaxOfBounded ==
  ASSUME NEW S \in SUBSET Int, NEW b \in Int, S # {}, \A x \in S : x <= b
  PROVE  Max(S) \in S /\ \A y \in S : y <= Max(S)
<1> DEFINE T == {b - x : x \in S}
<1>1. T \in SUBSET Nat /\ T # {}
  <2>1. \A x \in S : b - x \in Nat
    OBVIOUS
  <2>2. PICK x \in S : TRUE
    OBVIOUS
  <2>3. b - x \in T
    BY <2>2
  <2> QED
    BY <2>1, <2>3
<1>2. \E x \in T : \A y \in T : x <= y
  <2> HIDE DEF T
  <2> QED
    BY <1>1, LeastNat
<1>3. \E x \in S : \A y \in S : x >= y
  BY <1>2
<1> HIDE DEF T
<1>4. Max(S) \in S /\ \A y \in S : Max(S) >= y
  BY <1>3 DEF Max
<1> QED
  BY <1>4

LEMMA NewestRowBound ==
  ASSUME IInv, SInv
  PROVE  /\ NewestRow \in Int
         /\ \A n \in Messages : rows[n] > 0 => archive[n].time <= NewestRow
<1> DEFINE S == {archive[n].time : n \in HasRow} \cup {-1}
<1>1. S \in SUBSET Int /\ now \in Int /\ S # {} /\ \A x \in S : x <= now
  BY ArchiveTypes DEF SInv, Chronological, HasRow
<1>2. \A n \in Messages : rows[n] > 0 => archive[n].time \in S
  BY DEF HasRow
<1>3. NewestRow = Max(S)
  BY DEF NewestRow
<1> HIDE DEF S
<1>4. Max(S) \in S /\ \A y \in S : y <= Max(S)
  BY <1>1, MaxOfBounded
<1> QED
  BY <1>1, <1>2, <1>3, <1>4

\* Nothing that fetch will ask for has a row, and with no gap before the
\* newest row nothing else is without one.
LEMMA FetchStartStore ==
  ASSUME IInv, SInv, FetchStart
  PROVE  SInv'
<1> DEFINE api == ApiTime(now)
           start == [NoFetch EXCEPT !.since = Since, !.until = now,
                                    !.upto = api, !.whole = Whole]
<1>1. /\ "fetch" \notin up /\ up' = up \cup {"fetch"} /\ fetch' = start
      /\ doubtful' = doubtful \cup RunWill \cup Seam
      /\ UNCHANGED <<now, archive, stream, pub, rows, bound>>
      /\ Messages' = Messages /\ now \in Nat
      /\ \A n \in Messages : archive[n].time \in Nat
  BY ArchiveTypes DEF FetchStart, dbVars, runVars, Messages
<1>2. /\ NewestRow \in Int /\ Since = NewestRow + 1 /\ Since \in Int
      /\ \A n \in Messages : rows[n] > 0 => archive[n].time <= NewestRow
  BY NewestRowBound DEF Since
<1>0. /\ api \in Int /\ api <= now
      /\ ApiTime(Since) \in Int /\ ApiTime(Since) <= Since
  BY <1>1, <1>2, ApiTimeIs
<1>3. /\ start \in FetchType /\ start.page = <<>> /\ start.last = 0
      /\ start.since = Since /\ start.until = now /\ start.upto = api
      /\ start.whole = Whole /\ start.done = FALSE
  <2> HIDE DEF api
  <2>1. Whole \in BOOLEAN
    BY DEF Whole
  <2> DEFINE made(w) == [NoFetch EXCEPT !.since = Since, !.until = now,
                                        !.upto = api, !.whole = w]
  <2>2. ASSUME NEW w \in BOOLEAN
        PROVE  /\ made(w) \in FetchType /\ made(w).page = <<>>
               /\ made(w).last = 0 /\ made(w).since = Since
               /\ made(w).until = now /\ made(w).upto = api
               /\ made(w).whole = w /\ made(w).done = FALSE
    <3>1. Since \in Int /\ now \in Int
      BY <1>1, <1>2
    <3>2. made(w) \in FetchType
      BY <1>0, <3>1, NoFetchType DEF FetchType
    <3>3. /\ made(w).page = <<>> /\ made(w).last = 0 /\ made(w).done = FALSE
          /\ made(w).since = Since /\ made(w).until = now
      BY DEF NoFetch
    <3>4. made(w).upto = api /\ made(w).whole = w
      BY DEF NoFetch
    <3> QED
      BY <3>2, <3>3, <3>4
  <2>3. start = made(Whole)
    OBVIOUS
  <2> HIDE DEF made, start
  <2> QED
    BY <2>1, <2>2, <2>3, Zenon
<1> HIDE DEF start
<1>11. Until' = now /\ ApiTime(Until)' = api
  <2>1. Until' = now
    BY <1>1, <1>3 DEF Until
  <2> QED
    BY <1>1, <2>1 DEF ApiTime
<1>12. ApiTime(fetch.since)' = ApiTime(Since)
  BY <1>1, <1>3 DEF ApiTime, Since
<1> HIDE DEF api
<1>4. \A n \in Messages :
        n \in FetchWill' <=> archive[n].time \in ApiTime(Since) .. api
  <2>1. OnPage' = {}
    BY <1>1, <1>3 DEF OnPage
  <2>2. Ahead' = {n \in Messages : archive[n].time \in ApiTime(Since) .. api}
    BY <1>1, <1>11, <1>12 DEF Ahead
  <2> QED
    BY <2>1, <2>2 DEF FetchWill
<1>5. InTurn' /\ RunWill' = RunWill
  BY <1>1, SameRun DEF SInv
<1>6. StoreTypes' /\ Chronological' /\ Paged'
  <2>1. RunWill \subseteq Messages /\ Seam \subseteq Messages
    BY DEF RunWill, Seam
  <2>2. StoreTypes'
    BY <1>1, <1>3, <2>1 DEF SInv, StoreTypes
  <2>3. Chronological' /\ Paged'
    BY <1>1, <1>3 DEF SInv, Chronological, Paged
  <2> QED
    BY <2>2, <2>3
<1>7. StoredFirst'
  <2>1. SUFFICES ASSUME NEW n \in 1 .. bound.messages, n \notin doubtful,
                        n \notin RunWill, n \notin Seam
                 PROVE  /\ rows[n] <= 1
                        /\ rows[n] > 0 =>
                             n \in Messages \ (RunWill \cup FetchWill')
                        /\ n \notin RunWill \/ n \notin FetchWill'
    BY <1>1, <1>5 DEF StoredFirst
  <2>2. /\ rows[n] <= 1
        /\ rows[n] > 0 => n \in Messages \ RunWill
    BY <2>1 DEF SInv, StoredFirst
  <2>3. ASSUME n \in Messages, rows[n] > 0 PROVE n \notin FetchWill'
    <3>1. archive[n].time \in Nat /\ archive[n].time <= NewestRow
      BY <1>1, <1>2, <2>3
    <3>2. ~ (archive[n].time \in ApiTime(NewestRow + 1) .. NewestRow)
      BY <2>1, <2>3 DEF Seam
    <3> QED
      BY <1>0, <1>2, <1>4, <2>3, <3>1, <3>2
  <2> QED
    BY <2>1, <2>2, <2>3
<1>8. Gapless'
  <2>1. Whole => \A n \in Messages :
                   archive[n].time <= NewestRow => rows[n] > 0
    BY DEF Whole, HasRow
  <2>2. ASSUME Whole, NEW n \in Messages, archive[n].time < api
        PROVE  rows[n] > 0 \/ n \in FetchWill'
    <3>1. CASE archive[n].time <= NewestRow
      BY <2>1, <2>2, <3>1
    <3>2. CASE ~ (archive[n].time <= NewestRow)
      <4>1. archive[n].time \in Nat
        BY <1>1, <2>2
      <4>2. archive[n].time \in ApiTime(Since) .. api
        BY <1>0, <1>2, <2>2, <3>2, <4>1
      <4> QED
        BY <1>4, <2>2, <4>2
    <3> QED
      BY <3>1, <3>2
  <2>3. ApiTime(Until)' <= api
    BY <1>0, <1>11
  <2>4. fetch'.whole = Whole /\ fetch'.upto = api /\ ~ fetch'.done
    BY <1>1, <1>3
  <2> QED
    BY <1>0, <1>1, <2>2, <2>3, <2>4 DEF Gapless
<1>9. FetchComplete'
  BY <1>1, <1>3 DEF FetchComplete
<1> QED
  BY <1>5, <1>6, <1>7, <1>8, <1>9 DEF SInv

\* The rest of the interval is older than the page, except for what a page
\* that splits a time loses.
LEMMA FetchPageStore ==
  ASSUME IInv, SInv, FetchPage
  PROVE  SInv'
<1>1. /\ "fetch" \in up /\ fetch.last = 0 /\ fetch \in FetchType
      /\ fetch.page = <<>>
      /\ UNCHANGED <<now, archive, stream, pub, rows, bound, up, doubtful>>
      /\ Messages' = Messages
  BY DEF FetchPage, SInv, StoreTypes, Paged, dbVars, runVars, counters,
         Messages
<1>2. /\ Messages \subseteq Nat \ {0}
      /\ \A n \in Messages : archive[n].time \in Nat
  BY ArchiveTypes
<1>0. PICK k \in 1 .. PageSize : \E page \in [1 .. k -> InRange] :
        /\ IsPage(page)
        /\ fetch' = [fetch EXCEPT !.page = page, !.last = page[k],
             !.whole = @ /\ ~ \E n \in InRange :
                    /\ n < page[k]
                    /\ archive[n].time > ApiTime(archive[page[k]].time - 1)]
  BY DEF FetchPage
<1>3. PICK page \in [1 .. k -> InRange] :
        /\ IsPage(page)
        /\ fetch' = [fetch EXCEPT !.page = page, !.last = page[k],
             !.whole = @ /\ ~ \E n \in InRange :
                    /\ n < page[k]
                    /\ archive[n].time > ApiTime(archive[page[k]].time - 1)]
  BY <1>0
<1> DEFINE last == page[k]
           split == \E n \in InRange :
                      /\ n < last
                      /\ archive[n].time > ApiTime(archive[last].time - 1)
<1>4. /\ k \in Nat /\ DOMAIN page = 1 .. k /\ k \in 1 .. k
      /\ InRange = Ahead /\ InRange \subseteq Messages
      /\ \A i \in 1 .. k : page[i] \in InRange
      /\ page \in Seq(Nat) /\ Len(page) = k
  <2>1. k \in Nat /\ k \in 1 .. k
    BY <1>3, ServerAssumption
  <2>2. InRange = Ahead /\ InRange \subseteq Messages
    BY <1>1 DEF InRange, Ahead, Until
  <2>3. page \in [1 .. k -> Nat] /\ DOMAIN page = 1 .. k
    BY <1>2, <1>3, <2>2
  <2>4. page \in Seq(Nat)
    BY <2>1, <2>3, IsASeq
  <2>5. Len(page) = k
    BY <2>1, <2>3, <2>4, LenProperties
  <2> QED
    BY <1>3, <2>1, <2>2, <2>3, <2>4, <2>5
<1>5. last \in InRange /\ last \in Messages /\ last \in Nat \ {0}
  BY <1>2, <1>4
<1>6. /\ fetch' \in FetchType /\ fetch'.page = page /\ fetch'.last = last
      /\ fetch'.since = fetch.since /\ fetch'.until = fetch.until
      /\ fetch'.upto = fetch.upto /\ fetch'.done = fetch.done
      /\ fetch'.whole => fetch.whole /\ ~ split
  <2> DEFINE w == fetch.whole /\ ~ split
  <2>1. fetch' = [fetch EXCEPT !.page = page, !.last = last, !.whole = w]
    BY <1>1, <1>3 DEF FetchType
  <2>2. w \in BOOLEAN /\ (w => fetch.whole /\ ~ split)
    OBVIOUS
  <2> HIDE DEF w, last, split
  <2> QED
    BY <1>1, <1>4, <1>5, <2>1, <2>2 DEF FetchType
<1>7. \A i, j \in 1 .. k : i < j => page[i] > page[j]
  BY <1>3, <1>4 DEF IsPage
<1>8. \A i \in 1 .. k : page[i] >= last
  <2>1. ASSUME NEW i \in 1 .. k PROVE page[i] >= last
    <3>1. page[i] \in Nat /\ last \in Nat
      BY <1>2, <1>4
    <3>2. i < k => page[i] > last
      BY <1>4, <1>7
    <3>3. i = k \/ i < k
      BY <1>4
    <3> QED
      BY <3>1, <3>2, <3>3
  <2> QED
    BY <2>1
<1> HIDE DEF last, split
<1>9. Paged'
  BY <1>1, <1>4, <1>5, <1>6, <1>7, <1>8 DEF Paged
<1>10. OnPage' = {page[i] : i \in 1 .. k}
  BY <1>4, <1>6 DEF OnPage
<1> DEFINE low == ApiTime(fetch.since)
           high == ApiTime(archive[last].time - 1)
           top == ApiTime(fetch.until)
<1>16. ApiTime(Until)' = high /\ ApiTime(fetch.since)' = low
  <2>1. Until' = archive[last].time - 1
    BY <1>1, <1>5, <1>6 DEF Until, NextUntil
  <2> QED
    BY <1>1, <1>6, <2>1 DEF ApiTime
<1>11. Ahead' = {n \in Messages : archive[n].time \in low .. high}
  BY <1>1, <1>16 DEF Ahead
<1>12. /\ low \in Int /\ top \in Int /\ high \in Int
       /\ high < archive[last].time /\ archive[last].time \in low .. top
       /\ InRange = {n \in Messages : archive[n].time \in low .. top}
  <2>1. fetch.since \in Int /\ fetch.until \in Int
    BY <1>1 DEF FetchType
  <2>2. archive[last].time \in Nat
    BY <1>2, <1>5
  <2>3. low \in Int /\ top \in Int
    BY <2>1, ApiTimeIs
  <2>4. high \in Int /\ high <= archive[last].time - 1
    <3>1. archive[last].time - 1 \in Int
      BY <2>2
    <3> QED
      BY <3>1, ApiTimeIs
  <2> QED
    BY <1>5, <2>2, <2>3, <2>4 DEF InRange
<1>17. high <= fetch.upto
  <2>1. ApiTime(Until) = top /\ top <= fetch.upto /\ fetch.upto \in Int
    BY <1>1 DEF SInv, Gapless, Until, FetchType
  <2>2. archive[last].time \in Nat
    BY <1>2, <1>5
  <2> QED
    BY <1>12, <2>1, <2>2
<1>18. split <=> \E n \in InRange : n < last /\ archive[n].time > high
  BY DEF split
<1> HIDE DEF low, high, top
<1>13. FetchWill' \subseteq FetchWill
  <2>1. Ahead' \subseteq InRange
    BY <1>2, <1>5, <1>11, <1>12
  <2>2. OnPage' \subseteq InRange
    BY <1>4, <1>10
  <2> QED
    BY <1>4, <2>1, <2>2 DEF FetchWill
<1>14. ~ split => FetchWill \subseteq FetchWill'
  <2>1. ASSUME ~ split, NEW n \in InRange, n \notin OnPage'
        PROVE  n \in Ahead'
    <3>1. n < last
      <4>1. \/ \E i \in DOMAIN page : page[i] = n
            \/ Len(page) = PageSize /\ n < page[PageSize]
        BY <1>3, <2>1 DEF IsPage
      <4> QED
        BY <1>4, <1>10, <2>1, <4>1 DEF last
    <3>2. ~ (archive[n].time > high)
      BY <1>18, <2>1, <3>1
    <3>3. n \in Messages /\ archive[n].time \in Nat
      BY <1>2, <1>4
    <3> QED
      BY <1>11, <1>12, <2>1, <3>2, <3>3
  <2>2. OnPage = {}
    BY <1>1 DEF OnPage
  <2> QED
    BY <1>4, <2>1, <2>2 DEF FetchWill
<1>15. Gapless' /\ FetchComplete'
  BY <1>1, <1>6, <1>14, <1>16, <1>17 DEF SInv, Gapless, FetchComplete
<1> QED
  BY <1>1, <1>6, <1>9, <1>13, <1>15, FetchQuiet

LEMMA NextStore == IInv /\ SInv /\ [Next]_vars => SInv'
<1> SUFFICES ASSUME IInv, SInv, [Next]_vars PROVE SInv'
  OBVIOUS
<1>1. CASE Tick
  BY <1>1, ElsewhereStore DEF Tick, dbVars, runVars, counters
<1>2. CASE StreamBreaks \/ HordeFails
  BY <1>2, ElsewhereStore DEF StreamBreaks, HordeFails, dbVars, counters
<1>3. CASE Fetch
  BY <1>3, FetchStartStore, FetchPageStore, FetchPublishStore, FetchNextStore,
     FetchEndsStore DEF Fetch
<1>4. ASSUME NEW dev \in Devices, Arrives(dev) PROVE SInv'
  BY <1>4, ArriveStore
<1>5. ASSUME NEW c \in Cal, Import(c) PROVE SInv'
  BY <1>5, ElsewhereStore DEF Import, runVars, counters
<1>6. ASSUME NEW g \in Publishers, PublishStep(g) PROVE SInv'
  BY <1>6, PublishStore
<1>7. CASE Run
  BY <1>2, <1>7, RunStore, ReceiveStore, UdpStore DEF Run
<1>8. CASE UNCHANGED vars
  BY <1>8, ElsewhereStore DEF vars, dbVars
<1> QED
  BY <1>1, <1>3, <1>4, <1>5, <1>6, <1>7, <1>8 DEF Next

\* For any archive, resolution of the API, page size and number of
\* interruptions, a message is stored twice only if run was about to store it
\* when a fetch started, or received it in that same time, or if the API cannot
\* tell its time from the first that the fetch asks for: every fetch starts
\* after the newest row and goes back from page to page (fetch.go:56,
\* fetch.go:109).
THEOREM NothingStoredTwice == Spec => []StoredOnce
<1>1. IInv /\ SInv => StoredOnce
  <2> SUFFICES ASSUME SInv, NEW n \in 1 .. bound.messages, n \notin doubtful
               PROVE  ~ (rows[n] > 1)
    BY DEF StoredOnce
  <2>1. rows[n] \in Nat /\ rows[n] <= 1
    BY DEF SInv, StoreTypes, StoredFirst
  <2> QED
    BY <2>1
<1> QED
  BY <1>1, InitInv, InitStore, NextInv, NextStore, PTL DEF Spec

\* For any archive, resolution of the API, page size and whatever run stores
\* meanwhile, a fetch that
\* ran to its end, had no gap to begin with and lost nothing on the way leaves
\* no gap (fetch.go:56, fetch.go:109).
THEOREM FetchLeavesNoGap == Spec => []FetchComplete
<1>1. IInv /\ SInv => FetchComplete
  BY DEF SInv
<1> QED
  BY <1>1, InitInv, InitStore, NextInv, NextStore, PTL DEF Spec

-----------------------------------------------------------------------------
(* Types, with the bounds. *)

Bounded ==
  /\ now <= bound.time /\ \A c \in Cal : imported[c] >= -1
  /\ up \subseteq Procs
  /\ conn \in {"off", "loading", "open", "broken", "stuck"}
  /\ slowest <= bound.time /\ Len(fetch.page) <= PageSize
  /\ udp \in 0 .. bound.udp /\ fetches \in 0 .. bound.fetches
  /\ stops \in 0 .. bound.stops

LEMMA InitBounded == Init => Bounded
<1> SUFFICES ASSUME Init PROVE Bounded
  OBVIOUS
<1>1. bound.time \in Nat /\ bound.udp \in Nat /\ bound.fetches \in Nat
        /\ bound.stops \in Nat /\ PageSize \in Nat
  BY ServerAssumption DEF Init
<1>2. Len(fetch.page) = 0
  BY DEF Init, NoFetch
<1>3. /\ \A c \in Cal : imported[c] = -1
      /\ up = {} /\ conn = "off" /\ slowest = 0
      /\ now = 0 /\ udp = 0 /\ fetches = 0 /\ stops = 0
  BY DEF Init
<1>4. /\ \A c \in Cal : imported[c] >= -1
      /\ Len(fetch.page) <= PageSize /\ now <= bound.time
      /\ slowest <= bound.time
  BY <1>1, <1>2, <1>3
<1>5. udp \in 0 .. bound.udp /\ fetches \in 0 .. bound.fetches
        /\ stops \in 0 .. bound.stops
  BY <1>1, <1>3
<1> QED
  BY <1>3, <1>4, <1>5 DEF Bounded

LEMMA NextBounded == IInv /\ SInv /\ Bounded /\ [Next]_vars => Bounded'
<1> SUFFICES ASSUME IInv, SInv, Bounded, [Next]_vars PROVE Bounded'
  OBVIOUS
<1>1. /\ bound.time \in Nat /\ bound.udp \in Nat /\ bound.fetches \in Nat
      /\ bound.stops \in Nat /\ PageSize \in Nat
      /\ now \in Nat /\ imported \in [Cal -> Int] /\ fetch \in FetchType
  BY ServerAssumption DEF SInv, StoreTypes, IInv, Types
<1>2. CASE Tick
  BY <1>1, <1>2 DEF Tick, Bounded, dbVars, runVars, counters
<1>3. CASE Run
  <2>1. CASE RunLoads \/ RunStart
    <3>1. slowest' <= bound.time
      BY <1>1, <2>1 DEF RunLoads, RunStart, Longer, Bounded, IInv, Types,
                        CacheType
    <3> QED
      BY <2>1, <3>1 DEF RunLoads, RunStart, Bounded, dbVars, counters, Procs
  <2>2. CASE RunStops
    BY <1>1, <2>2 DEF RunStops, Bounded, dbVars
  <2>3. CASE HordeReceives \/ StreamBreaks \/ HordeFails
    BY <2>3
       DEF HordeReceives, StreamBreaks, HordeFails, Bounded, dbVars, counters
  <2>4. ASSUME NEW dev \in Devices, UdpReceives(dev) PROVE Bounded'
    BY <1>1, <2>4 DEF UdpReceives, Bounded, dbVars
  <2> QED
    BY <1>3, <2>1, <2>2, <2>3, <2>4 DEF Run
<1>4. ASSUME NEW dev \in Devices, Arrives(dev) PROVE Bounded'
  BY <1>4 DEF Arrives, Bounded, dbVars, counters
<1>5. ASSUME NEW c \in Cal, Import(c) PROVE Bounded'
  BY <1>1, <1>5 DEF Import, Bounded, runVars, counters
<1>6. ASSUME NEW g \in Publishers, PublishStep(g) PROVE Bounded'
  <2>1. slowest' = slowest \/ slowest' = Longer(pub[g].listed)
    BY <1>6 DEF PublishStep, Find, Check, List, Swap, Stamp, Again, Put
  <2>2. slowest' <= bound.time
    <3>1. pub[g].listed \in Nat /\ slowest \in Nat
      BY PublisherTypes DEF PubType
    <3> QED
      BY <1>1, <2>1, <3>1 DEF Longer, Bounded
  <2> QED
    BY <1>6, <2>2
       DEF PublishStep, Find, Check, List, Swap, Stamp, Again, Put, Bounded,
           dbVars, counters
<1>7. CASE Fetch
  <2>1. CASE FetchStart \/ FetchEnds \/ FetchInterrupted
    <3>1. fetch'.page = <<>>
      <4>1. CASE FetchStart
        BY <4>1 DEF FetchStart, NoFetch
      <4>2. CASE FetchEnds
        BY <4>2 DEF FetchEnds, NoFetch
      <4>3. CASE FetchInterrupted
        BY <4>3 DEF FetchInterrupted, NoFetch
      <4> QED
        BY <2>1, <4>1, <4>2, <4>3
    <3>2. Len(fetch'.page) <= PageSize
      BY <1>1, <3>1
    <3>3. CASE FetchStart
      BY <1>1, <3>2, <3>3
         DEF FetchStart, Bounded, dbVars, runVars, Procs
    <3>4. CASE FetchEnds
      BY <3>2, <3>4 DEF FetchEnds, Bounded, dbVars, runVars, counters
    <3>5. CASE FetchInterrupted
      BY <1>1, <3>2, <3>5
         DEF FetchInterrupted, Bounded, dbVars, runVars
    <3> QED
      BY <2>1, <3>3, <3>4, <3>5
  <2>2. CASE FetchPage \/ FetchPublish \/ FetchNext
    <3>1. UNCHANGED <<now, imported, up, conn, slowest, counters>>
      BY <2>2 DEF FetchPage, FetchPublish, FetchNext, dbVars, runVars
    <3>2. Len(fetch'.page) <= PageSize
      <4>1. CASE FetchPage
        <5>1. PICK k \in 1 .. PageSize : \E page \in [1 .. k -> InRange] :
                fetch' = [fetch EXCEPT !.page = page, !.last = page[k],
                  !.whole = @ /\ ~ \E n \in InRange :
                    /\ n < page[k]
                    /\ archive[n].time > ApiTime(archive[page[k]].time - 1)]
          BY <4>1 DEF FetchPage
        <5>2. PICK page \in [1 .. k -> InRange] :
                fetch' = [fetch EXCEPT !.page = page, !.last = page[k],
                  !.whole = @ /\ ~ \E n \in InRange :
                    /\ n < page[k]
                    /\ archive[n].time > ApiTime(archive[page[k]].time - 1)]
          BY <5>1
        <5>3. fetch'.page = page
          <6> DEFINE w == fetch.whole /\ ~ \E n \in InRange :
                       /\ n < page[k]
                       /\ archive[n].time > ApiTime(archive[page[k]].time - 1)
          <6>1. fetch' = [fetch EXCEPT !.page = page, !.last = page[k],
                                       !.whole = w]
            BY <1>1, <5>2 DEF FetchType
          <6> HIDE DEF w
          <6> QED
            BY <1>1, <6>1 DEF FetchType
        <5>4. InRange \subseteq Nat
          BY ArchiveTypes DEF InRange
        <5>5. page \in [1 .. k -> Nat] /\ k \in Nat /\ k <= PageSize
          <6>1. page \in [1 .. k -> Nat]
            BY <5>4
          <6>2. k \in Nat /\ k <= PageSize
            BY <1>1
          <6> QED
            BY <6>1, <6>2
        <5>6. page \in Seq(Nat) /\ DOMAIN page = 1 .. k
          BY <5>5, IsASeq
        <5>7. Len(page) = k
          BY <5>5, <5>6, LenProperties
        <5> QED
          BY <5>3, <5>5, <5>7
      <4>2. CASE FetchPublish
        <5>1. fetch'.page = Tail(fetch.page)
          <6> DEFINE rest == [fetch EXCEPT !.page = Tail(@)]
          <6>1. rest \in [since : Int, until : Int, page : {Tail(fetch.page)},
                          last : Nat, upto : Int, whole : BOOLEAN,
                          done : BOOLEAN]
            BY <1>1 DEF FetchType
          <6> HIDE DEF rest
          <6>2. [rest EXCEPT !.whole = FALSE].page = Tail(fetch.page)
                  /\ rest.page = Tail(fetch.page)
            BY <6>1
          <6>3. fetch' \in {rest, [rest EXCEPT !.whole = FALSE]}
            BY <4>2 DEF FetchPublish, rest
          <6> QED
            BY <6>2, <6>3
        <5>2. fetch.page # <<>> /\ fetch.page \in Seq(Nat)
          BY <1>1, <4>2 DEF FetchPublish, FetchType
        <5>3. /\ Len(Tail(fetch.page)) = Len(fetch.page) - 1
              /\ Len(fetch.page) \in Nat
          BY <5>2
        <5> QED
          BY <1>1, <5>1, <5>3 DEF Bounded
      <4>3. CASE FetchNext
        <5>1. fetch'.page = fetch.page
          BY <1>1, <4>3 DEF FetchNext, FetchType
        <5> QED
          BY <5>1 DEF Bounded
      <4> QED
        BY <2>2, <4>1, <4>2, <4>3
    <3> QED
      BY <3>1, <3>2 DEF Bounded, counters
  <2> QED
    BY <1>7, <2>1, <2>2 DEF Fetch
<1>8. CASE UNCHANGED vars
  BY <1>8 DEF vars, dbVars, counters, Bounded
<1> QED
  BY <1>2, <1>3, <1>4, <1>5, <1>6, <1>7, <1>8 DEF Next

LEMMA BoundedTypes == IInv /\ TInv /\ SInv /\ Bounded => TypeOK
<1> SUFFICES ASSUME IInv, TInv, SInv, Bounded PROVE TypeOK
  OBVIOUS
<1>1. bound \in Instances /\ bound.time \in Nat
  BY ServerAssumption DEF SInv, StoreTypes
<1>2. /\ now \in Nat /\ now <= bound.time /\ Messages = 1 .. Len(archive)
      /\ Len(archive) \in Nat
      /\ \A n \in Messages : archive[n] \in [dev : Devices, time : Nat]
      /\ archive \in Seq([dev : Devices, time : Nat])
  BY ArchiveTypes DEF Bounded
<1>3. archive \in Seq([dev : Devices, time : 0 .. bound.time])
  <2> DEFINE Message == [dev : Devices, time : 0 .. bound.time]
  <2>1. \A n \in 1 .. Len(archive) : archive[n] \in Message
    <3>1. ASSUME NEW n \in Messages PROVE archive[n] \in Message
      <4>1. /\ archive[n].time <= now
            /\ archive[n] \in [dev : Devices, time : Nat]
        BY <1>2 DEF SInv, Chronological
      <4> QED
        BY <1>1, <1>2, <4>1
    <3> QED
      BY <1>2, <3>1
  <2>2. archive = [i \in 1 .. Len(archive) |-> archive[i]]
    <3> DEFINE M == [dev : Devices, time : Nat]
    <3>1. archive \in Seq(M)
      BY <1>2
    <3> HIDE DEF M
    <3> QED
      BY <3>1
  <2> HIDE DEF Message
  <2>3. archive \in [1 .. Len(archive) -> Message]
    BY <2>1, <2>2
  <2>4. archive \in Seq(Message)
    BY <1>2, <2>3, IsASeq
  <2> QED
    BY <2>4 DEF Message
<1>4. stream \in Seq(Messages)
  <2>1. /\ stream \in Seq(Nat) /\ Len(stream) \in Nat
        /\ \A i \in 1 .. Len(stream) : stream[i] \in Messages
    BY <1>2 DEF IInv, Types
  <2>2. stream \in [1 .. Len(stream) -> Messages]
    BY <2>1
  <2> QED
    BY <2>1, <2>2, IsASeq
<1>5. fetch.page \in Seq(Messages)
  <2>1. fetch.page \in Seq(Nat) /\ Len(fetch.page) \in Nat
    BY DEF SInv, StoreTypes, FetchType
  <2>2. \A i \in 1 .. Len(fetch.page) : fetch.page[i] \in Messages
    BY <2>1 DEF SInv, Paged
  <2>3. fetch.page \in [1 .. Len(fetch.page) -> Messages]
    BY <2>1, <2>2
  <2> QED
    BY <2>1, <2>3, IsASeq
<1>6. imported \in [Cal -> -1 .. bound.time]
  <2>1. imported \in [Cal -> Int]
    BY DEF IInv, Types
  <2>2. \A c \in Cal : imported[c] \in Int /\ imported[c] >= -1
                         /\ imported[c] <= now
    BY <2>1 DEF Bounded, TInv
  <2>3. \A c \in Cal : imported[c] \in -1 .. bound.time
    BY <1>1, <1>2, <2>2
  <2> QED
    BY <2>1, <2>3
<1>7. /\ cache \in [cals : SUBSET Cal, time : 0 .. bound.time,
                    listed : 0 .. bound.time, readers : SUBSET Publishers]
      /\ slowest \in 0 .. bound.time
  <2>1. /\ cache \in CacheType /\ cache.time <= now /\ cache.listed <= now
        /\ slowest \in Nat /\ slowest <= bound.time
    BY DEF TInv, CacheTimely, IInv, Types, Bounded
  <2>2. /\ cache.time \in 0 .. bound.time /\ cache.listed \in 0 .. bound.time
        /\ slowest \in 0 .. bound.time
    BY <1>1, <1>2, <2>1 DEF CacheType
  <2> QED
    BY <2>1, <2>2 DEF CacheType
<1>8. \A g \in Publishers :
        pub[g].pc \in {"idle", "find", "check", "list", "swap", "stamp",
                       "again", "put"}
  BY DEF IInv, Types, PubType
<1> QED
  BY <1>1, <1>2, <1>3, <1>4, <1>5, <1>6, <1>7, <1>8
     DEF TypeOK, IInv, Types, SInv, StoreTypes, Bounded

\* The server keeps its types and its bounds.
THEOREM TypeCorrect == Spec => []TypeOK
BY InitInv, InitTimely, InitStore, InitBounded, NextInv, NextTimely, NextStore,
   NextBounded, BoundedTypes, PTL DEF Spec
=============================================================================
