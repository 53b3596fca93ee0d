------------------------------- MODULE Server -------------------------------
(***************************************************************************)
(* How messages get into the database of the server.  "aq run" (run.go)    *)
(* receives them from a stream of Horde, the cloud service that keeps      *)
(* them, and over UDP, in two goroutines that publish to one pipeline:     *)
(* find the calibration in a cache (calculate.go), store (persist.go).     *)
(* "aq fetch" (fetch.go), a process of its own, asks Horde page by page,   *)
(* newest first, for what is newer than the newest message of the          *)
(* database.  Both may be interrupted, and new calibrations are imported   *)
(* while they run.  What follows in the pipeline is in StreamBroker; fetch *)
(* has a pipeline of its own, in one goroutine, of which only the rows are *)
(* modelled.                                                               *)
(*                                                                         *)
(* A message is a number, the position in Horde's archive; one that came   *)
(* over UDP is not archived.                                               *)
(***************************************************************************)
EXTENDS Integers, Sequences, FiniteSets, FiniteSetsExt

CONSTANTS Devices,
          Dates,        \* dates from which a calibration is valid
          Delay,        \* minCacheUpdateDelay
          PageSize,     \* of fetch
          Instances     \* bounds, one of which a behaviour keeps to

ASSUME ServerAssumption ==
  /\ "none" \notin Devices /\ Dates \subseteq Nat
  /\ Delay \in Nat \ {0} /\ PageSize \in Nat \ {0}
  /\ Instances \subseteq [devices : SUBSET Devices,  \* that report
                           resolution : Nat \ {0}, \* of Horde's intervals
                           messages : Nat, \* in the archive
                           udp : Nat,      \* packets over UDP
                           imports : Nat,  \* calibrations in the database
                           fetches : Nat,  \* times that fetch is started
                           stops : Nat,    \* processes stopped early
                           time : Nat]     \* the clock

\* Of any of the dates there is a newest and an oldest, as a database has
\* only so many.
ASSUME DatesAssumption ==
  \A S \in SUBSET Dates : S # {} =>
    /\ \E d \in S : \A e \in S : e <= d
    /\ \E d \in S : \A e \in S : d <= e

Cal    == [dev : Devices, from : Dates]   \* a calibration, model.Cal
NoCal  == [dev |-> "none", from |-> 0]    \* the zero model.Cal
Procs  == {"run", "fetch"}
Publishers == {"horde", "udp"}            \* the goroutines of run

VARIABLES
  now,      \* the clock, in milliseconds
  archive,  \* Horde: device and time of every message
  imported, \* when each calibration got into the database, or -1
  rows,     \* rows of each message in the database
  up,       \* the processes that run
  conn,     \* the stream: "off", "loading", "open", "broken", "stuck"
  stream,   \* messages on their way in it
  cache,    \* calibrationCache and lastCacheUpdate of run, and history: when
            \* its map was listed, which readers of it have yet to read the time
  slowest,  \* history: the longest that a load of the cache took this run
  known,    \* history: calibrations of the database when run started
  pub,      \* Publish() of every publisher
  fetch,    \* the variables of fetch, and history: upto, whole, done
  doubtful, \* history: messages that may get a second row
  bound,    \* the bounds of this behaviour
  udp, fetches, stops   \* counters for the bounds

dbVars == <<imported, rows>>
vars   == <<now, archive, dbVars, up, conn, stream, cache, slowest, known, pub,
            fetch, doubtful, bound, udp, fetches, stops>>
runVars  == <<conn, stream, cache, slowest, known, pub>>
counters == <<bound, udp, fetches, stops>>

Idle    == [pc |-> "idle", n |-> 0, dev |-> "none", time |-> 0, cal |-> NoCal,
            got |-> {}, asked |-> 0, listed |-> 0, excused |-> FALSE]
NoFetch == [since |-> 0, until |-> 0, page |-> <<>>, last |-> 0,
            upto |-> 0, whole |-> FALSE, done |-> FALSE]
NoCache == [cals |-> {}, time |-> 0, listed |-> 0, readers |-> {}]

Stored  == {c \in Cal : imported[c] >= 0}   \* table cal
Messages == 1 .. Len(archive)

TypeOK ==
  /\ now \in 0 .. bound.time
  /\ archive \in Seq([dev : Devices, time : 0 .. bound.time])
  /\ Len(archive) <= bound.messages
  /\ imported \in [Cal -> -1 .. bound.time]
  /\ rows \in [1 .. bound.messages -> Nat]
  /\ up \subseteq Procs
  /\ conn \in {"off", "loading", "open", "broken", "stuck"}
  /\ stream \in Seq(Messages)
  /\ cache \in [cals : SUBSET Cal, time : 0 .. bound.time,
                listed : 0 .. bound.time, readers : SUBSET Publishers]
  /\ slowest \in 0 .. bound.time
  /\ known \subseteq Cal
  /\ \A g \in Publishers :
       pub[g].pc \in {"idle", "find", "check", "list", "swap", "stamp",
                     "again", "put"}
  /\ fetch.page \in Seq(Messages) /\ Len(fetch.page) <= PageSize
  /\ doubtful \subseteq Messages
  /\ bound \in Instances /\ udp \in 0 .. bound.udp
  /\ fetches \in 0 .. bound.fetches /\ stops \in 0 .. bound.stops

Init ==
  /\ now = 0 /\ archive = <<>>
  /\ bound \in Instances
  /\ imported = [c \in Cal |-> -1]
  /\ rows = [n \in 1 .. bound.messages |-> 0]
  /\ up = {} /\ conn = "off" /\ stream = <<>>
  /\ cache = NoCache /\ slowest = 0 /\ known = {}
  /\ udp = 0 /\ fetches = 0 /\ stops = 0
  /\ pub = [g \in Publishers |-> Idle]
  /\ fetch = NoFetch /\ doubtful = {}

---------------------------------------------------------------------------
(* The cache of calibrations. *)

Entries(cals, dev) == {c \in cals : c.dev = dev}

\* Mutated: the entries sorted the other way round.
OldestFirst(entries, t) ==
  LET valid == {c \in entries : c.from <= t}
      Newest(s) == CHOOSE c \in s : \A d \in s : d.from <= c.from
      Oldest(s) == CHOOSE c \in s : \A d \in s : c.from <= d.from
  IN  IF entries = {} THEN NoCal
      ELSE IF valid = {} THEN Newest(entries) ELSE Oldest(valid)

\* The loop over the entries, newest first: the first that is valid at time
\* t, or else the last.
NewestFirst(entries, t) ==
  LET valid == {c \in entries : c.from <= t}
      Newest(s) == CHOOSE c \in s : \A d \in s : d.from <= c.from
      Oldest(s) == CHOOSE c \in s : \A d \in s : c.from <= d.from
  IN  IF entries = {} THEN NoCal
      ELSE IF valid = {} THEN Oldest(entries) ELSE Newest(valid)

Pick(g, cals) == NewestFirst(Entries(cals, pub[g].dev), pub[g].time)

\* Mutated: the two times compared the other way round.
NotRecent == cache.time + Delay < now

\* Less than minCacheUpdateDelay since the last update.
Recent == now < cache.time + Delay

\* While another goroutine writes the time, a reader sees anything.
TimeRaces(g) == \E h \in Publishers \ {g} : pub[h].pc = "stamp"

\* History: a load that began at t takes until now.
Longer(t) == IF now - t > slowest THEN now - t ELSE slowest

Publish(g, n, dev, time) ==
  pub' = [pub EXCEPT ![g] = [Idle EXCEPT !.pc = "find", !.n = n,
                                         !.dev = dev, !.time = time]]

\* The first round of findCacheEntry() reads the map ...
Find(g) ==
  /\ pub[g].pc = "find"
  /\ \/ /\ Entries(cache.cals, pub[g].dev) # {}
        /\ pub' = [pub EXCEPT ![g].pc = "put", ![g].asked = now,
                              ![g].cal = Pick(g, cache.cals)]
        /\ UNCHANGED cache
     \/ /\ Entries(cache.cals, pub[g].dev) = {}
        /\ pub' = [pub EXCEPT ![g].pc = "check", ![g].asked = now]
        /\ cache' = [cache EXCEPT !.readers = @ \cup {g}]
  /\ UNCHANGED <<now, archive, dbVars, up, conn, stream, slowest, known, fetch,
                 doubtful, counters>>

\* ... and then, without a lock, the time: not worth a refresh, or on to the
\* refresh.  The message is excused if the map it read has been replaced.
Check(g) ==
  /\ pub[g].pc = "check"
  /\ \/ /\ Recent \/ TimeRaces(g)
        /\ pub' = [pub EXCEPT ![g].pc = "put", ![g].excused =
                                TimeRaces(g) \/ g \notin cache.readers]
     \/ /\ ~ Recent \/ TimeRaces(g)
        /\ pub' = [pub EXCEPT ![g].pc = "list"]
  /\ cache' = [cache EXCEPT !.readers = @ \ {g}]
  /\ UNCHANGED <<now, archive, dbVars, up, conn, stream, slowest, known, fetch,
                 doubtful, counters>>

\* ListCals(), which may fail.
List(g) ==
  /\ pub[g].pc = "list"
  /\ \/ pub' = [pub EXCEPT ![g].pc = "swap", ![g].got = Stored,
                            ![g].listed = now]
     \/ pub' = [pub EXCEPT ![g].pc = "again", ![g].excused = TRUE]
  /\ UNCHANGED <<now, archive, dbVars, up, conn, stream, cache, slowest, known,
                 fetch, doubtful, counters>>

\* populateCache(): the map, then the time, both without a lock.
Swap(g) ==
  /\ pub[g].pc = "swap"
  /\ cache' = [cache EXCEPT !.cals = pub[g].got, !.listed = pub[g].listed,
                            !.readers = {}]
  /\ slowest' = Longer(pub[g].listed)
  /\ pub' = [pub EXCEPT ![g].pc = "stamp", ![g].got = {}]
  /\ UNCHANGED <<now, archive, dbVars, up, conn, stream, known, fetch,
                 doubtful, counters>>

Stamp(g) ==
  /\ pub[g].pc = "stamp"
  /\ cache' = [cache EXCEPT !.time = now]
  /\ slowest' = Longer(pub[g].listed)
  /\ pub' = [pub EXCEPT ![g].pc = "again", ![g].listed = 0]
  /\ UNCHANGED <<now, archive, dbVars, up, conn, stream, known, fetch,
                 doubtful, counters>>

\* The second round: whatever is there now.
Again(g) ==
  /\ pub[g].pc = "again"
  /\ pub' = [pub EXCEPT ![g].pc = "put",
                        ![g].cal = Pick(g, cache.cals)]
  /\ UNCHANGED <<now, archive, dbVars, up, conn, stream, cache, slowest, known,
                 fetch, doubtful, counters>>

\* PutMessage(); when it fails, the message goes on without a row.
Put(g) ==
  /\ pub[g].pc = "put"
  /\ pub' = [pub EXCEPT ![g] = Idle]
  /\ \/ pub[g].n # 0 /\ rows' = [rows EXCEPT ![pub[g].n] = @ + 1]
     \/ UNCHANGED rows
  /\ UNCHANGED <<now, archive, imported, up, conn, stream, cache, slowest,
                 known, fetch, doubtful, counters>>

---------------------------------------------------------------------------
(* Horde, the clock and the operator. *)

Tick ==
  /\ now < bound.time /\ now' = now + 1
  /\ UNCHANGED <<archive, dbVars, up, runVars, fetch, doubtful, counters>>

\* One that comes over the stream in the very time up to which a fetch asks
\* reaches the database both ways.
Arrives(dev) ==
  /\ dev \in bound.devices /\ Len(archive) < bound.messages
  /\ archive' = Append(archive, [dev |-> dev, time |-> now])
  /\ \/ /\ conn = "open"
        /\ stream' = Append(stream, Len(archive) + 1)
        /\ doubtful' = doubtful \cup {n \in {Len(archive) + 1} :
                                       "fetch" \in up /\ now = fetch.upto}
     \/ conn # "open" /\ UNCHANGED <<stream, doubtful>>
  /\ UNCHANGED <<now, dbVars, up, conn, cache, slowest, known, pub, fetch,
                 counters>>

\* aq import
Import(c) ==
  /\ c.dev \in bound.devices
  /\ imported[c] = -1 /\ Cardinality(Stored) < bound.imports
  /\ imported' = [imported EXCEPT ![c] = now]
  /\ UNCHANGED <<now, archive, rows, up, runVars, fetch, doubtful, counters>>

---------------------------------------------------------------------------
(* aq run *)

\* calculate.New() loads the cache ...
RunLoads ==
  /\ "run" \notin up /\ up' = up \cup {"run"}
  /\ cache' = [NoCache EXCEPT !.cals = Stored, !.listed = now]
  /\ known' = Stored
  /\ conn' = "loading"
  /\ UNCHANGED <<now, archive, dbVars, stream, slowest, pub, fetch, doubtful,
                 counters>>

\* ... and the listeners start.
RunStart ==
  /\ conn = "loading" /\ conn' = "open"
  /\ cache' = [cache EXCEPT !.time = now]
  /\ slowest' = Longer(cache.listed)
  /\ UNCHANGED <<now, archive, dbVars, up, stream, known, pub, fetch, doubtful,
                 counters>>

RunStops ==
  /\ "run" \in up /\ up' = up \ {"run"}
  /\ stops < bound.stops /\ stops' = stops + 1
  /\ cache' = NoCache /\ slowest' = 0 /\ known' = {}
  /\ pub' = [g \in Publishers |-> Idle]
  /\ conn' = "off" /\ stream' = <<>>
  /\ UNCHANGED <<now, archive, dbVars, fetch, doubtful, bound, udp, fetches>>

\* Recv(): a message that can be decoded is published, others are skipped.
HordeReceives ==
  /\ stream # <<>> /\ pub["horde"].pc = "idle"
  /\ stream' = Tail(stream)
  /\ LET n == Head(stream)
     IN  \/ Publish("horde", n, archive[n].dev, archive[n].time)
         \/ UNCHANGED pub
  /\ UNCHANGED <<now, archive, dbVars, up, conn, cache, slowest, known, fetch,
                 doubtful, counters>>

\* What was in the stream is lost for the listener.
StreamBreaks ==
  /\ conn = "open" /\ conn' = "broken" /\ stream' = <<>>
  /\ UNCHANGED <<now, archive, dbVars, up, cache, slowest, known, pub, fetch,
                 doubtful, counters>>

\* The error is sent to doneChan.  Nobody receives from it, so the loop
\* that would reconnect gets no further.
HordeFails ==
  /\ conn = "broken" /\ pub["horde"].pc = "idle"
  /\ conn' = "stuck"
  /\ UNCHANGED <<now, archive, dbVars, up, stream, cache, slowest, known,
                 pub, fetch, doubtful, counters>>

\* A packet over UDP; its ReceivedTime is not set.
UdpReceives(dev) ==
  /\ dev \in bound.devices
  /\ "run" \in up /\ conn # "loading" /\ pub["udp"].pc = "idle"
  /\ udp < bound.udp /\ udp' = udp + 1
  /\ Publish("udp", 0, dev, 0)
  /\ UNCHANGED <<now, archive, dbVars, up, conn, stream, cache, slowest, known,
                 fetch, doubtful, bound, fetches, stops>>

---------------------------------------------------------------------------
(* aq fetch *)

HasRow == {n \in Messages : rows[n] > 0}
NewestRow == Max({archive[n].time : n \in HasRow} \cup {-1})

\* Everything up to the newest row is there.
Whole == \A n \in Messages : archive[n].time <= NewestRow => n \in HasRow

\* Mutated: the newest row is asked for again.
SinceNewest == NewestRow

\* ReceivedTime + 1 of the newest row, or the beginning of time.
Since == NewestRow + 1

\* A time in a request.  "I'm assuming we have to add an entire second of
\* data here in order to make up for the API not having millisecond
\* resolution?" (fetch.go:53): the code adds a millisecond, and what the API
\* makes of it is a parameter.
ApiTime(t) == t - (t % bound.resolution)

InRange == {n \in Messages :
              archive[n].time \in ApiTime(fetch.since) .. ApiTime(fetch.until)}

\* What run has received and not yet stored.
RunWill == {n \in Messages : \/ \E i \in DOMAIN stream : stream[i] = n
                             \/ pub["horde"].n = n}

\* What the first interval has of the time of the newest row, which is nothing
\* if the API has millisecond resolution.
Seam == {n \in Messages :
           archive[n].time \in ApiTime(NewestRow + 1) .. NewestRow}

FetchStart ==
  /\ "fetch" \notin up /\ up' = up \cup {"fetch"}
  /\ fetches < bound.fetches /\ fetches' = fetches + 1
  /\ doubtful' = doubtful \cup RunWill \cup Seam
  /\ fetch' = [NoFetch EXCEPT !.since = Since, !.until = now,
                              !.upto = ApiTime(now), !.whole = Whole]
  /\ UNCHANGED <<now, archive, dbVars, runVars, bound, udp, stops>>

\* CollectionData(): the newest messages of the interval, newest first; older
\* ones are left out if the page is full.
IsPage(page) ==
  /\ \A i, j \in DOMAIN page : i < j => page[i] > page[j]
  /\ \A n \in InRange : \/ \E i \in DOMAIN page : page[i] = n
                        \/ Len(page) = PageSize /\ n < page[PageSize]

\* A page that splits a millisecond, or whatever the API takes for one time,
\* loses the rest of it.
FetchPage ==
  /\ "fetch" \in up /\ fetch.last = 0
  /\ \E k \in 1 .. PageSize : \E page \in [1 .. k -> InRange] :
       LET last  == page[k]
           split == \E n \in InRange :
                      /\ n < last
                      /\ archive[n].time > ApiTime(archive[last].time - 1)
       IN  /\ IsPage(page)
           /\ fetch' = [fetch EXCEPT !.page = page, !.last = last,
                                     !.whole = @ /\ ~ split]
  /\ UNCHANGED <<now, archive, dbVars, up, runVars, doubtful, counters>>

\* A message of the page is published; one that cannot be decoded or stored
\* is skipped.
FetchPublish ==
  /\ fetch.page # <<>>
  /\ LET n == Head(fetch.page)
         rest == [fetch EXCEPT !.page = Tail(@)]
     IN  \/ rows' = [rows EXCEPT ![n] = @ + 1] /\ fetch' = rest
         \/ fetch' = [rest EXCEPT !.whole = FALSE] /\ UNCHANGED rows
  /\ UNCHANGED <<now, archive, imported, up, runVars, doubtful, counters>>

\* Mutated: another millisecond is subtracted.
NextUntilTwo == archive[fetch.last].time - 2

NextUntil == archive[fetch.last].time - 1

FetchNext ==
  /\ fetch.last # 0 /\ fetch.page = <<>>
  /\ fetch' = [fetch EXCEPT !.until = NextUntil, !.last = 0]
  /\ UNCHANGED <<now, archive, dbVars, up, runVars, doubtful, counters>>

FetchEnds ==
  /\ "fetch" \in up /\ fetch.last = 0 /\ InRange = {}
  /\ up' = up \ {"fetch"}
  /\ fetch' = [NoFetch EXCEPT !.done = fetch.whole, !.upto = fetch.upto]
  /\ UNCHANGED <<now, archive, dbVars, runVars, doubtful, counters>>

FetchInterrupted ==
  /\ "fetch" \in up /\ up' = up \ {"fetch"}
  /\ stops < bound.stops /\ stops' = stops + 1
  /\ fetch' = NoFetch
  /\ UNCHANGED <<now, archive, dbVars, runVars, doubtful, bound, udp, fetches>>

---------------------------------------------------------------------------
PublishStep(g) ==
  Find(g) \/ Check(g) \/ List(g) \/ Swap(g) \/ Stamp(g) \/ Again(g) \/ Put(g)

Fetch == FetchStart \/ FetchPage \/ FetchPublish \/ FetchNext \/ FetchEnds
           \/ FetchInterrupted
Run   == RunLoads \/ RunStart \/ RunStops
           \/ HordeReceives \/ StreamBreaks \/ HordeFails
           \/ \E dev \in Devices : UdpReceives(dev)

Next == \/ Tick \/ Run \/ Fetch
        \/ \E dev \in Devices : Arrives(dev)
        \/ \E c \in Cal : Import(c)
        \/ \E g \in Publishers : PublishStep(g)

Spec == Init /\ [][Next]_vars

\* The goroutines are scheduled.
FairSpec == /\ Spec /\ WF_vars(HordeReceives) /\ WF_vars(HordeFails)
            /\ \A g \in Publishers : WF_vars(PublishStep(g))

---------------------------------------------------------------------------
(* Properties *)

\* A fetch that ran to its end over a store without a gap, and that lost no
\* message on the way, leaves no gap: everything that Horde had before the time
\* it started is in the database, although the pages come newest first and run
\* may store newer messages meanwhile (fetch.go:56, fetch.go:109).
FetchComplete ==
  fetch.done => \A n \in Messages : archive[n].time < fetch.upto => rows[n] > 0

\* A message gets a second row only if run had received it and not yet stored
\* it when fetch started, or received it in that same millisecond, or if the
\* API cannot tell its time from the one after the newest row's: run and fetch
\* may otherwise work at the same time, be interrupted and start again
\* (fetch.go:56, fetch.go:109).
StoredOnce == \A n \in 1 .. bound.messages : rows[n] > 1 => n \in doubtful

\* How long a calibration may be in the database and not be found: the delay,
\* the load that the map came from, and the load that it was put over and that
\* wrote the time after it.
Missed == Delay + 2 * slowest

\* A message is stored without a calibration only if none was imported for its
\* device that long before: an old map that another goroutine puts over a new
\* one does not last, nor does a time that is newer than the map.  Excused is a
\* message whose load failed, and one between whose reads of the map and of its
\* time another goroutine replaced the map or wrote the time: that one misses a
\* calibration however old, as nothing locks the two (calculate.go:73,
\* calculate.go:85, calculate.go:100).
CalibratedInTime ==
  \A g \in Publishers :
    pub[g].pc = "put" /\ pub[g].cal = NoCal /\ ~ pub[g].excused =>
      \A c \in Entries(Stored, pub[g].dev) : imported[c] > pub[g].asked - Missed

\* The calibration of a message is one of its device and at least as good as
\* the best that the process knew when it started: the newest that was valid
\* when the message was received, if there is one (calculate.go:115).
RightCalibration ==
  \A g \in Publishers :
    pub[g].pc = "put" =>
      \A c \in Entries(known, pub[g].dev) :
        /\ pub[g].cal.dev = pub[g].dev
        /\ c.from <= pub[g].time => pub[g].cal.from \in c.from .. pub[g].time

\* "Lost connection to Horde. Will wait for %v to reconnect"
\* (hordelistener.go:96): after an error of the stream the listener connects
\* again.
Reconnects == conn = "broken" ~> conn \in {"open", "off"}
=============================================================================
