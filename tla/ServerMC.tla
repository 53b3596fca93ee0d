------------------------------ MODULE ServerMC ------------------------------
(***************************************************************************)
(* Model checking of Server: instances for paging and gaps, for the cache  *)
(* and its two goroutines, for devices that share the cache, and for run   *)
(* and fetch together.                                                     *)
(***************************************************************************)
EXTENDS Server

Paging == [devices |-> {"d1"}, resolution |-> 1, messages |-> 3, udp |-> 0,
           imports |-> 0, fetches |-> 2, stops |-> 0, time |-> 2]
Interrupted == [devices |-> {"d1"}, resolution |-> 1, messages |-> 3,
                udp |-> 0, imports |-> 0, fetches |-> 2, stops |-> 1,
                time |-> 1]
\* An API that cannot tell one millisecond from the next.
Coarse == [devices |-> {"d1"}, resolution |-> 2, messages |-> 3, udp |-> 0,
           imports |-> 0, fetches |-> 1, stops |-> 0, time |-> 2]
Caching == [devices |-> {"d1"}, resolution |-> 1, messages |-> 1, udp |-> 2,
            imports |-> 1, fetches |-> 0, stops |-> 1, time |-> 3]
TwoDates == [devices |-> {"d1"}, resolution |-> 1, messages |-> 1, udp |-> 1,
             imports |-> 2, fetches |-> 0, stops |-> 0, time |-> 2]
TwoDevices == [devices |-> {"d1", "d2"}, resolution |-> 1, messages |-> 1,
               udp |-> 2, imports |-> 2, fetches |-> 0, stops |-> 0, time |-> 1]
Mixed == [devices |-> {"d1"}, resolution |-> 1, messages |-> 2, udp |-> 0,
          imports |-> 1, fetches |-> 1, stops |-> 1, time |-> 1]

\* A stream and nothing else.
Listening == [devices |-> {"d1"}, resolution |-> 1, messages |-> 2, udp |-> 0,
              imports |-> 0, fetches |-> 0, stops |-> 1, time |-> 1]

ListeningMC == {Listening}
InstancesMC ==
  {Paging, Interrupted, Coarse, Caching, TwoDates, TwoDevices, Mixed}
=============================================================================
