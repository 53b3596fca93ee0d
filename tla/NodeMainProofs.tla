--------------------------- MODULE NodeMainProofs ---------------------------
(***************************************************************************)
(* Proofs about main.c.  First about NodeMain, for all times, counters and *)
(* numbers of polls and channels: an iteration fits in the window of the   *)
(* watchdog, sockets are given back, updates are checked for, the sample   *)
(* is of this cycle and the particle counter is left switched off.  Then   *)
(* about NodeConfig, for every set of networks, lists and fallbacks and    *)
(* every bound: a configuration that was stored survives restarts.         *)
(***************************************************************************)
EXTENDS NodeMain, NodeConfig, TLAPS

\* The time an OPC command is polled for, that all five take with their
\* sleeps, and that the channels take.
Polling == OpcPolls * PollTime
OpcTime == 5 * Polling + 2 * (FanTime + LaserTime + SampleTime)
AfeTime == Channels * AdcTime

LEMMA Constants ==
  /\ RebootAfter \in Nat /\ FotaCounter \in Nat /\ PingRetries \in Nat
  /\ CallMax \in Nat /\ PollTime \in Nat /\ FanTime \in Nat
  /\ LaserTime \in Nat /\ SampleTime \in Nat /\ AdcTime \in Nat
  /\ Interval \in Nat /\ Window \in Nat /\ Slots \in Nat
  /\ OpcPolls \in Nat /\ Channels \in Nat \ {0}
BY NodeMainAssumption, SensorsAssumption

LEMMA Products ==
  ASSUME NEW n \in Nat, NEW m \in Nat, NEW t \in Nat, n <= m
  PROVE  /\ n * t \in Nat /\ n * t <= m * t
         /\ (n + 1) * t = n * t + t
<1>1. /\ m - n \in Nat /\ (m - n) * t \in Nat
  OBVIOUS
<1>2. m * t = n * t + (m - n) * t
  OBVIOUS
<1>3. (n + 1) * t = n * t + t
  OBVIOUS
<1>4. n * t \in Nat /\ m * t \in Nat
  OBVIOUS
<1>5. ASSUME NEW a \in Nat, NEW b \in Nat, NEW c \in Nat, c = a + b
      PROVE  a <= c
  BY <1>5
<1> QED
  BY <1>1, <1>2, <1>3, <1>4, <1>5

LEMMA Totals ==
  /\ Polling \in Nat /\ OpcTime \in Nat /\ AfeTime \in Nat
  /\ 3 * CallMax + OpcTime + AfeTime + Interval <= Window
<1>1. Polling \in Nat /\ AfeTime \in Nat
  BY Constants, Products DEF Polling, AfeTime
<1>2. OpcTime \in Nat
  BY <1>1, Constants DEF OpcTime
<1>3. 5 * OpcPolls * PollTime = 5 * Polling
  BY Constants DEF Polling
<1>4. Iteration = 3 * CallMax + OpcTime + AfeTime + Interval
  BY <1>1, <1>3, Constants DEF Iteration, Sampling, OpcTime, AfeTime
<1> QED
  BY <1>1, <1>2, <1>4, NodeMainAssumption

LEMMA SettleType ==
  ASSUME command \in FanOn .. FanOff
  PROVE  Settle \in Nat
BY Constants DEF Settle, FanOn, LaserOn, ReadHistogram, LaserOff, FanOff

-----------------------------------------------------------------------------
(* The inductive invariant. *)

\* The sleeps after the commands before the one that is sent.
Settled ==
  CASE command = FanOn         -> 0
    [] command = LaserOn       -> FanTime
    [] command = ReadHistogram -> FanTime + LaserTime + SampleTime
    [] command = LaserOff      -> FanTime + LaserTime + 2 * SampleTime
    [] command = FanOff        -> FanTime + 2 * LaserTime + 2 * SampleTime

OpcLimit == (command - 1) * Polling + Settled + polls * PollTime
AdcLimit == OpcTime + (channel - 1) * AdcTime

\* How long an iteration has taken at most when it gets to each place.
Timed ==
  /\ pc \in {"feed"} => sinceFeed <= Window
  /\ pc = "recv" => sinceFeed = 0
  /\ pc = "socket" => sinceFeed <= CallMax
  /\ pc = "sample" =>
       /\ stage = "opc" => sinceFeed <= 2 * CallMax + OpcLimit
       /\ stage = "adc" => sinceFeed <= 2 * CallMax + AdcLimit
       /\ stage = "cc2" => sinceFeed <= 2 * CallMax + OpcTime + AfeTime
  /\ pc = "send" => sinceFeed <= 2 * CallMax + OpcTime + AfeTime
  /\ pc = "sleep" => sinceFeed <= 3 * CallMax + OpcTime + AfeTime

\* The counter of the loop is the number of messages since the last check.
Counted ==
  /\ sent <= FotaCounter + 1
  /\ pc \in Starting \cup {"fota"} => fota_interval = 0
  /\ pc = "config" => sent = 0
  /\ pc \in (Loop \ {"sleep"}) \cup {"close", "uptime"} => sent = fota_interval
  /\ pc = "sleep" => sent = fota_interval + 1

\* The slots that are in use at each place, besides those that are lost.
Opened ==
  /\ leaked \in Nat /\ refused \in Nat
  /\ pc \in {"modem", "ping"} => leaked = 0
  /\ pc \in Starting \ {"pinging"} => sockets = leaked + refused
  /\ pc \in {"pinging", "feed", "recv", "socket", "uptime"} =>
       sockets = leaked + refused + 1
  /\ pc \in {"sample", "send", "sleep", "fota", "close"} =>
       sockets = leaked + refused + 2

\* How far the sampling is, and what the buffers have by then.
Fresh(d) == d # "earlier" /\ ("opc" \notin faults => d = "now")

Sampled ==
  /\ pc = "sample" <=> stage # "idle"
  /\ stage = "opc" =>
       /\ channel = 1
       /\ command = ReadHistogram => histogram = "zero"
       /\ command \in {LaserOff, FanOff} => Fresh(histogram)
  /\ stage \in {"adc", "cc2"} \/ pc = "send" => Fresh(opcSample.data)
  /\ "adc" \notin faults =>
       /\ stage = "adc" => \A c \in 1 .. channel - 1 : afe[c] = c
       /\ stage = "cc2" \/ pc = "send" => \A c \in 1 .. Channels : afe[c] = c

Switched ==
  "opc" \notin faults =>
    /\ stage # "opc" => ~ fan /\ ~ laser
    /\ stage = "opc" /\ command = FanOff => ~ laser

IInv == TypeOK /\ Timed /\ Counted /\ Opened /\ Sampled /\ Switched

\* Cleared values, and the result of a sampling.
LEMMA Cleared ==
  /\ [c \in 1 .. Channels |-> 0] \in [1 .. Channels -> Conversion]
  /\ [data |-> "zero", valid |-> FALSE] \in [data : Origin, valid : BOOLEAN]
  /\ 1 \in 1 .. Channels /\ 0 \in 0 .. Channels /\ 0 \in 0 .. OpcPolls
<1>1. /\ 1 \in 1 .. Channels /\ 0 \in 0 .. Channels /\ 0 \in 0 .. OpcPolls
  BY Constants
<1> QED
  BY <1>1 DEF Conversion, Origin

LEMMA Decoded ==
  ASSUME NEW h \in Origin
  PROVE  DecodeHistogram(h) \in [data : Origin, valid : BOOLEAN]
BY DEF DecodeHistogram, ChecksumOK

LEMMA InitInv == Init => IInv
<1> SUFFICES ASSUME Init PROVE IInv
  OBVIOUS
<1>1. SensorsTypeOK
  <2>1. SensorsInit
    BY DEF Init
  <2>2. afe \in [1 .. Channels -> Conversion]
    BY <2>1, Cleared, Zenon DEF SensorsInit
  <2>3. opcSample \in [data : Origin, valid : BOOLEAN]
    BY <2>1, Cleared, Zenon DEF SensorsInit
  <2>4. /\ stage = "idle" /\ command = 1 /\ polls = 0 /\ fan = FALSE
        /\ laser = FALSE /\ histogram = "zero" /\ channel = 1 /\ mux = 0
        /\ converted = 0 /\ cc2 = FALSE /\ faults = {}
    BY <2>1 DEF SensorsInit, FanOn
  <2>5. histogram \in Origin /\ command \in FanOn .. FanOff
    BY <2>4 DEF Origin, FanOn, FanOff
  <2>6. polls \in 0 .. OpcPolls /\ channel \in 1 .. Channels
        /\ mux \in 0 .. Channels /\ converted \in Conversion
    BY <2>4, Cleared DEF Conversion
  <2> QED
    BY <2>2, <2>3, <2>4, <2>5, <2>6 DEF SensorsTypeOK
<1>2. TypeOK
  BY <1>1, Constants DEF Init, TypeOK, Starting
<1>3. Timed /\ Counted /\ Opened
  BY Constants DEF Init, Timed, Counted, Opened, Starting, Loop
<1>4. Sampled /\ Switched
  BY DEF Init, SensorsInit, Sampled, Switched
<1> QED
  BY <1>2, <1>3, <1>4 DEF IInv

-----------------------------------------------------------------------------
(* Types. *)

LEMMA ClearedType ==
  ASSUME SensorsTypeOK, StaticsCleared
  PROVE  SensorsTypeOK'
<1>1. afe' \in [1 .. Channels -> Conversion]
  BY Cleared, Zenon DEF StaticsCleared
<1>2. opcSample' \in [data : Origin, valid : BOOLEAN]
  BY Cleared, Zenon DEF StaticsCleared
<1>3. /\ stage' = "idle" /\ command' = 1 /\ polls' = 0
      /\ histogram' = "zero" /\ channel' = 1 /\ cc2' = FALSE
      /\ UNCHANGED <<fan, laser, mux, converted, faults>>
  BY DEF StaticsCleared, FanOn
<1>4. histogram' \in Origin /\ command' \in FanOn .. FanOff
  BY <1>3 DEF Origin, FanOn, FanOff
<1>5. polls' \in 0 .. OpcPolls /\ channel' \in 1 .. Channels
  BY <1>3, Cleared
<1> QED
  BY <1>1, <1>2, <1>3, <1>4, <1>5 DEF SensorsTypeOK

LEMMA RebootType ==
  ASSUME TypeOK, Reboot
  PROVE  TypeOK'
<1>1. SensorsTypeOK'
  BY ClearedType DEF Reboot, TypeOK
<1> QED
  BY <1>1, Constants DEF Reboot, AllFree, TypeOK, Starting

LEMMA SensorsType ==
  ASSUME SensorsTypeOK, SampleStart \/ OpcBusy \/ OpcAnswers \/ OpcGivesUp
                          \/ AdcChannel \/ Cc2Sample
  PROVE  SensorsTypeOK'
<1> USE DEF SensorsTypeOK
<1>1. CASE SampleStart
  <2>1. /\ Aged(histogram) \in Origin /\ Aged(opcSample.data) \in Origin
        /\ [opcSample EXCEPT !.data = Aged(@)]
             \in [data : Origin, valid : BOOLEAN]
    BY DEF Aged, Origin
  <2>2. afe' \in [1 .. Channels -> Conversion]
    BY <1>1, Cleared, Zenon DEF SampleStart
  <2>3. opcSample' \in [data : Origin, valid : BOOLEAN]
    BY <1>1, <2>1, Zenon DEF SampleStart
  <2>4. /\ stage' = "opc" /\ command' = 1 /\ polls' = 0 /\ channel' = 1
        /\ histogram' = Aged(histogram) /\ converted' = 0 /\ cc2' = FALSE
        /\ faults' = {} /\ UNCHANGED <<fan, laser, mux>>
    BY <1>1 DEF SampleStart, FanOn
  <2>5. command' \in FanOn .. FanOff
    BY <2>4 DEF FanOn, FanOff
  <2>6. polls' \in 0 .. OpcPolls /\ channel' \in 1 .. Channels
        /\ converted' \in Conversion
    BY <2>4, Cleared DEF Conversion
  <2> QED
    BY <2>1, <2>2, <2>3, <2>4, <2>5, <2>6
<1>2. CASE OpcBusy
  BY <1>2, Constants DEF OpcBusy, adcVars
<1>3. ASSUME NEW h \in Origin, NEW ok \in BOOLEAN, CommandEnds(h, ok),
             stage = "opc", fan' \in BOOLEAN, laser' \in BOOLEAN
      PROVE  SensorsTypeOK'
  <2>1. /\ polls' \in 0 .. OpcPolls
        /\ UNCHANGED <<channel, mux, converted, afe, cc2>>
        /\ faults' \subseteq {"opc", "adc"}
    BY <1>3, Cleared DEF CommandEnds, adcVars
  <2>2. CASE command = FanOff
    <3>1. /\ opcSample' = DecodeHistogram(h) /\ histogram' = h
          /\ stage' = "adc" /\ command' = FanOn
      BY <1>3, <2>2 DEF CommandEnds
    <3> QED
      BY <1>3, <2>1, <3>1, Decoded DEF FanOn, FanOff
  <2>3. CASE command # FanOff
    <3>1. /\ command' = command + 1 /\ histogram' = Buffer(h)
          /\ UNCHANGED <<stage, opcSample>>
      BY <1>3, <2>3 DEF CommandEnds
    <3>2. Buffer(h) \in Origin /\ command' \in FanOn .. FanOff
      BY <1>3, <2>3, <3>1 DEF Buffer, Origin, FanOn, FanOff
    <3> QED
      BY <1>3, <2>1, <3>1, <3>2
  <2> QED
    BY <2>2, <2>3
<1>4. CASE OpcAnswers
  <2>1. PICK ok \in BOOLEAN :
          /\ CommandEnds(IF command # ReadHistogram THEN histogram
                         ELSE IF ok THEN "now" ELSE "broken", ok)
          /\ fan' = IF ok /\ command \in {FanOn, FanOff} THEN command = FanOn
                    ELSE fan
          /\ laser' = IF ok /\ command \in {LaserOn, LaserOff}
                      THEN command = LaserOn ELSE laser
    BY <1>4 DEF OpcAnswers
  <2>2. fan' \in BOOLEAN /\ laser' \in BOOLEAN
    BY <2>1
  <2>3. (IF command # ReadHistogram THEN histogram
         ELSE IF ok THEN "now" ELSE "broken") \in Origin
    BY DEF Origin
  <2> QED
    BY <1>3, <1>4, <2>1, <2>2, <2>3 DEF OpcAnswers
<1>5. CASE OpcGivesUp
  BY <1>3, <1>5 DEF OpcGivesUp
<1>6. CASE AdcChannel
  <2>1. PICK selected \in BOOLEAN, ran \in BOOLEAN, read \in BOOLEAN :
          /\ ConfigureAdc(selected, ran)
          /\ afe' = [afe EXCEPT ![channel] = IF read THEN converted' ELSE 0]
          /\ faults' = IF selected /\ ran /\ read THEN faults
                       ELSE faults \cup {"adc"}
    BY <1>6 DEF AdcChannel
  <2>2. mux' \in 0 .. Channels /\ converted' \in Conversion
    BY <2>1, Constants DEF ConfigureAdc, Conversion
  <2>3. afe' \in [1 .. Channels -> Conversion]
    BY <2>1, <2>2, Constants DEF Conversion
  <2>4. channel' \in 1 .. Channels /\ stage' \in {"adc", "cc2"}
    BY <1>6, Constants DEF AdcChannel
  <2> QED
    BY <1>6, <2>1, <2>2, <2>3, <2>4 DEF AdcChannel, opcVars
<1>7. CASE Cc2Sample
  BY <1>7 DEF Cc2Sample, opcVars, adcVars
<1> QED
  BY <1>1, <1>2, <1>4, <1>5, <1>6, <1>7

LEMMA TypeStep == TypeOK /\ Opened /\ [Next]_vars => TypeOK'
<1> SUFFICES ASSUME TypeOK, Opened, [Next]_vars PROVE TypeOK'
  OBVIOUS
<1>1. ASSUME UNCHANGED sensors PROVE SensorsTypeOK'
  BY <1>1 DEF TypeOK, SensorsTypeOK, sensors
<1>2. ASSUME Reboot PROVE TypeOK'
  BY <1>2, RebootType
<1>3. CASE \/ WaitForModem \/ Ping \/ PingTry \/ PingTimeout \/ SelectApn
           \/ ConfigSocket \/ Feed \/ Receive \/ Close
  <2>1. CASE WaitForModem \/ Ping
    BY <1>1, <1>2, <2>1, Constants DEF SocketOpens, CloseSocket, AllFree,
      opened, WaitForModem, Ping, Go, Pass, At,
       TypeOK, Starting, Loop, Ending
  <2>2. CASE PingTry \/ PingTimeout
    BY <1>1, <1>2, <2>2, Constants DEF SocketOpens, CloseSocket, AllFree,
      opened, PingTry, PingTimeout, Go, Pass, At,
       TypeOK, Opened, Starting, Loop, Ending
  <2>3. CASE SelectApn \/ ConfigSocket
    BY <1>1, <1>2, <2>3, Constants DEF SocketOpens, CloseSocket, AllFree,
      opened, SelectApn, ConfigSocket, Go, Pass, At,
       TypeOK, Starting, Loop, Ending
  <2>4. CASE Feed \/ Receive
    BY <1>1, <1>2, <2>4, Constants DEF SocketOpens, CloseSocket, AllFree,
      opened, Feed, Receive, Go, Pass, At,
       TypeOK, Starting, Loop, Ending
  <2>5. CASE Close
    BY <1>1, <2>5, Constants DEF SocketOpens, CloseSocket, AllFree, opened,
      Close, Go, Pass, At, TypeOK, Opened, Starting,
       Loop, Ending
  <2> QED
    BY <1>3, <2>1, <2>2, <2>3, <2>4, <2>5
<1>4. CASE FotaRun
  <2>1. CASE UNCHANGED sensors
    BY <1>1, <1>4, <2>1, Constants
    DEF SocketOpens, CloseSocket, AllFree, opened, FotaRun, Pass, At, TypeOK,
      Starting, Ending
  <2>2. CASE StaticsCleared
    <3>1. SensorsTypeOK'
      BY <2>2, ClearedType DEF TypeOK
    <3> QED
      BY <1>4, <3>1, Constants DEF SocketOpens, CloseSocket, AllFree, opened,
        FotaRun, Pass, At, TypeOK, Starting, Ending
  <2> QED
    BY <1>4, <2>1, <2>2 DEF FotaRun
<1>5. CASE OpenSocket
  BY <1>2, <1>5, SensorsType, Constants DEF SocketOpens, CloseSocket, AllFree,
    opened, OpenSocket, Pass, At, TypeOK, Loop
<1>6. CASE Sample
  <2>1. SensorsTypeOK'
    BY <1>6, SensorsType DEF Sample, TypeOK
  <2>2. Settle \in Nat
    BY SettleType DEF TypeOK, SensorsTypeOK
  <2> QED
    BY <1>6, <2>1, <2>2, Constants DEF SocketOpens, CloseSocket, AllFree,
      opened, Sample, Pass, At, TypeOK, Loop
<1>7. CASE Send \/ Sleep
  BY <1>1, <1>2, <1>7, Constants DEF SocketOpens, CloseSocket, AllFree, opened,
    Send, Sleep, Pass, At, TypeOK, Loop, Ending
<1>8. CASE Uptime
  BY <1>1, <1>2, <1>8 DEF SocketOpens, CloseSocket, AllFree, opened, Uptime,
    Go, At, clocks, TypeOK, Loop
<1>9. CASE WatchdogExpires
  BY <1>2, <1>9 DEF WatchdogExpires
<1>10. CASE Calm \/ UNCHANGED vars
  BY <1>1, <1>10 DEF SocketOpens, CloseSocket, AllFree, opened, Calm, vars,
    clocks, TypeOK
<1> QED
  BY <1>3, <1>4, <1>5, <1>6, <1>7, <1>8, <1>9, <1>10 DEF Next, MainThread

-----------------------------------------------------------------------------
(* Time. *)

LEMMA CommandCases ==
  ASSUME TypeOK
  PROVE  /\ command \in {1, 2, 3, 4, 5}
         /\ polls \in Nat /\ polls <= OpcPolls
         /\ channel \in Nat /\ channel >= 1 /\ channel <= Channels
BY Constants DEF TypeOK, SensorsTypeOK, FanOn, FanOff

LEMMA Limits ==
  ASSUME TypeOK
  PROVE  /\ OpcLimit \in Nat /\ OpcLimit + Settle <= OpcTime
         /\ AdcLimit \in Nat /\ AdcLimit + AdcTime <= OpcTime + AfeTime
<1> DEFINE waited == polls * PollTime
<1>1. waited \in Nat /\ waited <= Polling
  BY CommandCases, Constants, Products DEF Polling
<1>2. OpcLimit \in Nat /\ OpcLimit + Settle <= OpcTime
  <2> HIDE DEF waited
  <2>1. OpcLimit = (command - 1) * Polling + Settled + waited
    BY DEF OpcLimit, waited
  <2>2. CASE command = 1
    BY <1>1, <2>1, <2>2, Totals, Constants DEF Settle, Settled, OpcTime, FanOn
  <2>3. CASE command = 2
    BY <1>1, <2>1, <2>3, Totals, Constants DEF Settle, Settled, OpcTime, FanOn,
       LaserOn
  <2>4. CASE command = 3
    BY <1>1, <2>1, <2>4, Totals, Constants DEF Settle, Settled, OpcTime, FanOn,
       LaserOn, ReadHistogram
  <2>5. CASE command = 4
    BY <1>1, <2>1, <2>5, Totals, Constants DEF Settle, Settled, OpcTime, FanOn,
       LaserOn, ReadHistogram, LaserOff
  <2>6. CASE command = 5
    BY <1>1, <2>1, <2>6, Totals, Constants DEF Settle, Settled, OpcTime, FanOn,
       LaserOn, ReadHistogram, LaserOff, FanOff
  <2> QED
    BY <2>2, <2>3, <2>4, <2>5, <2>6, CommandCases
<1>3. AdcLimit \in Nat /\ AdcLimit + AdcTime <= OpcTime + AfeTime
  <2> DEFINE before == channel - 1
  <2>1. before \in Nat /\ before + 1 <= Channels /\ before <= Channels
    BY CommandCases, Constants
  <2>2. before * AdcTime \in Nat /\ (before + 1) * AdcTime = before * AdcTime + AdcTime
    BY <2>1, Constants, Products
  <2>3. (before + 1) * AdcTime <= AfeTime
    BY <2>1, Constants, Products DEF AfeTime
  <2> QED
    BY <2>1, <2>2, <2>3, Totals, Constants DEF AdcLimit
<1> QED
  BY <1>2, <1>3

\* The bounds of all places are within the window.
LEMMA InTime ==
  ASSUME TypeOK, Timed, Sampled
  PROVE  IterationFed
<1>1. Settle \in Nat /\ sinceFeed \in Nat
  BY SettleType DEF TypeOK, SensorsTypeOK
<1>2. OpcLimit \in Nat /\ OpcLimit <= OpcTime
  BY <1>1, Limits, Totals
<1>3. AdcLimit \in Nat /\ AdcLimit <= OpcTime + AfeTime
  BY Limits, Totals, Constants
<1>4. pc = "sample" => stage \in {"opc", "adc", "cc2"}
  BY DEF Sampled, TypeOK, SensorsTypeOK
<1> QED
  BY <1>1, <1>2, <1>3, <1>4, Totals, Constants DEF IterationFed, Loop, Timed

\* A command is over: the sleep after it is added, and the next one starts.
LEMMA CommandTime ==
  ASSUME TypeOK, stage = "opc", sinceFeed <= 2 * CallMax + OpcLimit,
         Sampled, Pass(Settle), OpcAnswers \/ OpcGivesUp
  PROVE  \/ stage' = "opc" /\ sinceFeed' <= 2 * CallMax + OpcLimit'
         \/ stage' = "adc" /\ sinceFeed' <= 2 * CallMax + AdcLimit'
<1>1. /\ Settle \in Nat /\ sinceFeed \in Nat /\ sinceFeed' = sinceFeed + Settle
      /\ OpcLimit \in Nat /\ OpcLimit + Settle <= OpcTime
  BY SettleType, Limits DEF TypeOK, SensorsTypeOK, Pass
<1>2. /\ polls' = 0 /\ channel' = 1
      /\ \/ command = FanOff /\ stage' = "adc"
         \/ command # FanOff /\ stage' = "opc" /\ command' = command + 1
  BY DEF OpcAnswers, OpcGivesUp, CommandEnds, adcVars, Sampled
<1>3. CASE command = FanOff /\ stage' = "adc"
  <2>1. AdcLimit' = OpcTime
    BY <1>2, Totals, Constants DEF AdcLimit, OpcTime, Polling
  <2> QED
    BY <1>1, <1>3, <2>1, Totals, Constants
<1>4. CASE command # FanOff /\ stage' = "opc" /\ command' = command + 1
  <2> DEFINE waited == polls * PollTime
  <2>1. waited \in Nat /\ waited <= Polling
    BY CommandCases, Constants, Products DEF Polling
  <2>2. OpcLimit' = command * Polling + Settled'
    BY <1>2, <1>4, CommandCases, Totals, Constants
    DEF OpcLimit, Polling, Settled, FanOn, LaserOn, ReadHistogram, LaserOff,
        FanOff
  <2>3. OpcLimit = (command - 1) * Polling + Settled + waited
    BY DEF OpcLimit
  <2>4. Settled' = Settled + Settle /\ Settled \in Nat
    BY <1>4, CommandCases, Constants DEF Settled, Settle, FanOn, LaserOn,
       ReadHistogram, LaserOff, FanOff
  <2>5. command * Polling = (command - 1) * Polling + Polling
        /\ (command - 1) * Polling \in Nat
    BY CommandCases, Totals
  <2> HIDE DEF waited
  <2> QED
    BY <1>1, <1>4, <2>1, <2>2, <2>3, <2>4, <2>5, Totals, Constants
<1> QED
  BY <1>2, <1>3, <1>4

LEMMA TimedStep == IInv /\ [Next]_vars => Timed'
<1> SUFFICES ASSUME IInv, [Next]_vars PROVE Timed'
  OBVIOUS
<1> USE DEF IInv
<1>0. sinceFeed \in Nat
  BY DEF TypeOK
<1>1. ASSUME Reboot PROVE Timed'
  BY <1>1 DEF Reboot, Timed
<1>2. CASE WaitForModem \/ Ping \/ PingTry \/ PingTimeout \/ SelectApn
  BY <1>1, <1>2 DEF WaitForModem, Ping, PingTry, PingTimeout, SelectApn, Go,
     Timed
<1>3. CASE FotaRun
  BY <1>3 DEF FotaRun, Timed
<1>4. CASE ConfigSocket \/ Feed
  BY <1>0, <1>1, <1>4, Constants DEF ConfigSocket, Feed, Go, Pass, At, Timed
<1>5. CASE Receive
  BY <1>1, <1>5, Constants DEF Receive, Go, Pass, At, Timed
<1>6. CASE OpenSocket
  <2>1. CASE Reboot
    BY <1>1, <2>1
  <2>2. CASE pc' = "sample" /\ SampleStart /\ \E t \in 0 .. CallMax : Pass(t)
    <3>1. stage' = "opc" /\ command' = 1 /\ polls' = 0
      BY <2>2 DEF SampleStart, FanOn
    <3>2. OpcLimit' = 0
      BY <3>1, Totals, Constants DEF OpcLimit, Polling, Settled, FanOn,
        LaserOn,
         ReadHistogram, LaserOff, FanOff
    <3>3. sinceFeed' <= 2 * CallMax
      BY <1>0, <1>6, <2>2, Constants DEF OpenSocket, At, Timed, Pass
    <3> QED
      BY <2>2, <3>1, <3>2, <3>3, Constants DEF Timed
  <2> QED
    BY <1>6, <2>1, <2>2 DEF OpenSocket
<1>7. CASE Sample
  <2>0. pc = "sample"
    BY <1>7 DEF Sample, At
  <2>1. CASE OpcBusy /\ Pass(PollTime) /\ UNCHANGED pc
    <3>1. /\ stage = "opc" /\ stage' = "opc" /\ command' = command
          /\ polls' = polls + 1
      BY <2>1 DEF OpcBusy
    <3>2. (polls + 1) * PollTime = polls * PollTime + PollTime
          /\ polls * PollTime \in Nat
      BY CommandCases, Constants, Products
    <3>3. OpcLimit' = (command - 1) * Polling + Settled
                         + (polls + 1) * PollTime
      BY <3>1 DEF OpcLimit, Polling, Settled
    <3>4. (command - 1) * Polling \in Nat /\ Settled \in Nat
      BY CommandCases, Totals, Constants DEF Settled, FanOn, LaserOn,
         ReadHistogram, LaserOff, FanOff
    <3>5. OpcLimit' = OpcLimit + PollTime /\ OpcLimit \in Nat
      BY <3>2, <3>3, <3>4, Constants DEF OpcLimit
    <3>6. sinceFeed' <= 2 * CallMax + OpcLimit'
      BY <1>0, <2>0, <2>1, <3>1, <3>5, Constants DEF Timed, Pass
    <3> QED
      BY <2>0, <2>1, <3>1, <3>6 DEF Timed
  <2>2. CASE (OpcAnswers \/ OpcGivesUp) /\ Pass(Settle) /\ UNCHANGED pc
    <3>1. stage = "opc"
      BY <2>2 DEF OpcAnswers, OpcGivesUp
    <3>2. \/ stage' = "opc" /\ sinceFeed' <= 2 * CallMax + OpcLimit'
          \/ stage' = "adc" /\ sinceFeed' <= 2 * CallMax + AdcLimit'
      BY <2>0, <2>2, <3>1, CommandTime DEF Timed
    <3> QED
      BY <2>0, <2>2, <3>2 DEF Timed
  <2>3. CASE AdcChannel /\ Pass(AdcTime) /\ UNCHANGED pc
    <3>1. /\ stage = "adc" /\ AdcLimit \in Nat
          /\ AdcLimit + AdcTime <= OpcTime + AfeTime
      BY <2>3, Limits DEF AdcChannel
    <3>2. sinceFeed' <= 2 * CallMax + (AdcLimit + AdcTime)
      BY <1>0, <2>0, <2>3, <3>1, Constants DEF Timed, Pass
    <3>3. CASE stage' = "cc2"
      BY <1>0, <2>0, <2>3, <3>1, <3>2, <3>3, Totals, Constants DEF Timed, Pass
    <3>4. CASE stage' = "adc" /\ channel' = channel + 1
      <4>1. (channel - 1) + 1 = channel /\ channel - 1 \in Nat
        BY CommandCases, Constants
      <4>2. channel * AdcTime = (channel - 1) * AdcTime + AdcTime
        BY <4>1, CommandCases, Constants
      <4>3. AdcLimit' = OpcTime + channel * AdcTime
        BY <3>4, CommandCases DEF AdcLimit, OpcTime, Polling
      <4>4. AdcLimit' = AdcLimit + AdcTime
        BY <4>1, <4>2, <4>3, Totals, Constants DEF AdcLimit
      <4> QED
        BY <2>0, <2>3, <3>2, <3>4, <4>4 DEF Timed
    <3> QED
      BY <2>3, <3>1, <3>3, <3>4 DEF AdcChannel
  <2>4. CASE Cc2Sample /\ Pass(0) /\ pc' = "send"
    BY <1>0, <2>0, <2>4, Totals, Constants DEF Cc2Sample, Timed, Pass
  <2> QED
    BY <1>7, <2>1, <2>2, <2>3, <2>4 DEF Sample
<1>8. CASE Send
  BY <1>0, <1>1, <1>8, Totals, Constants DEF Send, At, Timed, Pass
<1>9. CASE Sleep \/ Close
  BY <1>9 DEF Sleep, Close, Go, Timed
<1>10. CASE Uptime
  BY <1>1, <1>10 DEF Uptime, At, Go, Timed, clocks
<1>11. CASE WatchdogExpires
  BY <1>1, <1>11 DEF WatchdogExpires
<1>12. CASE Calm \/ UNCHANGED vars
  BY <1>12 DEF Calm, vars, clocks, sensors, Timed, OpcLimit, AdcLimit, Settled,
     OpcTime, Polling, AfeTime
<1> QED
  BY <1>2, <1>3, <1>4, <1>5, <1>6, <1>7, <1>8, <1>9, <1>10, <1>11, <1>12
  DEF Next, MainThread

-----------------------------------------------------------------------------
(* The counter of update checks, and the sockets. *)

LEMMA CountedStep == IInv /\ [Next]_vars => Counted'
<1> SUFFICES ASSUME IInv, [Next]_vars PROVE Counted'
  OBVIOUS
<1>0. /\ sent \in Nat /\ fota_interval \in Nat /\ fota_interval <= FotaCounter
      /\ FotaCounter \in Nat
      /\ Counted
  BY Constants DEF IInv, TypeOK
<1>1. ASSUME Reboot PROVE Counted'
  BY <1>0, <1>1 DEF Reboot, Counted, Starting, Loop
<1>2. CASE WaitForModem \/ Ping \/ PingTry \/ PingTimeout \/ SelectApn
  BY <1>0, <1>1, <1>2 DEF WaitForModem, Ping, PingTry, PingTimeout, SelectApn,
     Go, At, Counted, Starting, Loop
<1>3. CASE FotaRun
  BY <1>0, <1>3 DEF FotaRun, At, Counted, Starting, Loop
<1>4. CASE ConfigSocket \/ Feed \/ Receive
  BY <1>0, <1>1, <1>4 DEF ConfigSocket, Feed, Receive, Go, At, Counted,
     Starting, Loop
<1>5. CASE OpenSocket
  BY <1>0, <1>1, <1>5 DEF OpenSocket, At, Counted, Starting, Loop
<1>6. CASE Sample
  BY <1>0, <1>6 DEF Sample, At, Counted, Starting, Loop
<1>7. CASE Send
  BY <1>0, <1>1, <1>7 DEF Send, At, Counted, Starting, Loop
<1>8. CASE Sleep
  BY <1>0, <1>8 DEF Sleep, At, Counted, Starting, Loop
<1>9. CASE Close \/ Uptime
  BY <1>0, <1>1, <1>9 DEF Close, Uptime, Go, At, Counted, Starting, Loop
<1>10. CASE WatchdogExpires
  BY <1>1, <1>10 DEF WatchdogExpires
<1>11. CASE Calm \/ UNCHANGED vars
  BY <1>0, <1>11 DEF Calm, vars, Counted
<1> QED
  BY <1>2, <1>3, <1>4, <1>5, <1>6, <1>7, <1>8, <1>9, <1>10, <1>11
  DEF Next, MainThread

LEMMA OpenedStep == TypeOK /\ Opened /\ [Next]_vars => Opened'
<1> SUFFICES ASSUME TypeOK, Opened, [Next]_vars PROVE Opened'
  OBVIOUS
<1>0. sockets \in Nat /\ leaked \in Nat /\ refused \in Nat
  BY Constants DEF TypeOK
<1>1. ASSUME Reboot PROVE Opened'
  BY <1>1 DEF SocketOpens, CloseSocket, AllFree, opened, Reboot, Opened,
    Starting
<1>2. CASE WaitForModem \/ Ping
  BY <1>0, <1>1, <1>2 DEF SocketOpens, CloseSocket, AllFree, opened,
    WaitForModem, Ping, Go, At, Opened, Starting
<1>3. CASE PingTry \/ PingTimeout
  BY <1>0, <1>1, <1>3 DEF SocketOpens, CloseSocket, AllFree, opened, PingTry,
    PingTimeout, Go, At, Opened, Starting
<1>4. CASE SelectApn \/ ConfigSocket
  BY <1>0, <1>1, <1>4 DEF SocketOpens, CloseSocket, AllFree, opened, SelectApn,
    ConfigSocket, Go, At, Opened, Starting
<1>5. CASE FotaRun
  BY <1>0, <1>5 DEF SocketOpens, CloseSocket, AllFree, opened, FotaRun, At,
    Opened, Starting
<1>6. CASE Feed \/ Receive \/ OpenSocket
  BY <1>0, <1>1, <1>6 DEF SocketOpens, CloseSocket, AllFree, opened, Feed,
    Receive, OpenSocket, Go, At, Opened, Starting
<1>7. CASE Sample \/ Send \/ Sleep
  BY <1>0, <1>1, <1>7 DEF SocketOpens, CloseSocket, AllFree, opened, Sample,
    Send, Sleep, At, Opened, Starting
<1>8. CASE Close \/ Uptime
  BY <1>0, <1>1, <1>8 DEF SocketOpens, CloseSocket, AllFree, opened, Close,
    Uptime, Go, At, Opened, Starting
<1>9. CASE WatchdogExpires
  BY <1>1, <1>9 DEF WatchdogExpires
<1>10. CASE Calm \/ UNCHANGED vars
  BY <1>10 DEF SocketOpens, CloseSocket, AllFree, opened, Calm, vars, Opened
<1> QED
  BY <1>2, <1>3, <1>4, <1>5, <1>6, <1>7, <1>8, <1>9, <1>10
  DEF Next, MainThread

-----------------------------------------------------------------------------
(* What is sampled. *)

\* Outside of the sampling nothing that concerns it changes, except that a
\* restart clears the RAM.
LEMMA NotSampling ==
  ASSUME TypeOK, pc # "sample", [Next]_vars
  PROVE  \/ pc' # "sample" /\ UNCHANGED sensors /\ (pc' = "send" => pc = "send")
         \/ pc' = "modem" /\ StaticsCleared
         \/ pc' = "sample" /\ SampleStart
<1>1. CASE \/ WaitForModem \/ Ping \/ PingTry \/ PingTimeout \/ SelectApn
           \/ ConfigSocket \/ Feed \/ Receive \/ Close
  BY <1>1 DEF WaitForModem, Ping, PingTry, PingTimeout, SelectApn,
     ConfigSocket, Feed, Receive, Close, Go, Reboot
<1>2. CASE FotaRun \/ OpenSocket
  BY <1>2 DEF FotaRun, OpenSocket, Reboot
<1>3. CASE Sample
  BY <1>3 DEF Sample, At
<1>4. CASE Send \/ Sleep \/ Uptime \/ WatchdogExpires
  BY <1>4 DEF Send, Sleep, Uptime, WatchdogExpires, Go, Reboot
<1>5. CASE Calm \/ UNCHANGED vars
  BY <1>5 DEF Calm, vars
<1> QED
  BY <1>1, <1>2, <1>3, <1>4, <1>5 DEF Next, MainThread

\* The sampling itself ends with the message, and the watchdog does not
\* interrupt it.
LEMMA WhileSampling ==
  ASSUME TypeOK, Timed, Sampled, pc = "sample", [Next]_vars
  PROVE  \/ UNCHANGED <<pc, sensors>>
         \/ pc' = "sample" /\ (OpcBusy \/ OpcAnswers \/ OpcGivesUp \/ AdcChannel)
         \/ pc' = "send" /\ Cc2Sample
<1>1. ~ WatchdogExpires
  BY InTime, Constants DEF WatchdogExpires, IterationFed, Loop, TypeOK
<1>2. CASE MainThread
  BY <1>2 DEF MainThread, WaitForModem, Ping, PingTry, PingTimeout, SelectApn,
     ConfigSocket, Feed, Receive, Close, FotaRun, OpenSocket, Sample, Send,
     Sleep, Uptime, At
<1>3. CASE Calm \/ UNCHANGED vars
  BY <1>3 DEF Calm, vars
<1> QED
  BY <1>1, <1>2, <1>3 DEF Next

\* A command leaves in the buffer what it should for the next one.
LEMMA CommandSampled ==
  ASSUME TypeOK, Sampled, pc = "sample", pc' = "sample",
         OpcAnswers \/ OpcGivesUp
  PROVE  Sampled'
<1>1. PICK h \in Origin, ok \in BOOLEAN :
        /\ CommandEnds(h, ok)
        /\ ok /\ command = ReadHistogram => h = "now"
        /\ command = ReadHistogram => h \in {"zero", "now", "broken"}
        /\ command # ReadHistogram => h = histogram
  <2>1. CASE OpcGivesUp
    BY <2>1 DEF OpcGivesUp, TypeOK, SensorsTypeOK, Sampled
  <2>2. CASE OpcAnswers
    BY <2>2 DEF OpcAnswers, TypeOK, SensorsTypeOK, Origin
  <2> QED
    BY <2>1, <2>2
<1>2. stage = "opc" /\ channel = 1
  BY DEF OpcAnswers, OpcGivesUp, Sampled
<1>3. channel' = 1 /\ afe' = afe
      /\ faults' = IF ok THEN faults ELSE faults \cup {"opc"}
  BY <1>1, <1>2 DEF CommandEnds, adcVars
<1>4. command \in {ReadHistogram, LaserOff, FanOff} =>
        h # "earlier" /\ ("opc" \notin faults' => h = "now")
  BY <1>1, <1>2, <1>3 DEF Sampled, Fresh, ReadHistogram, LaserOff, FanOff
<1>5. CASE command = FanOff
  <2>1. /\ stage' = "adc"
        /\ opcSample' = DecodeHistogram(h)
    BY <1>1, <1>5 DEF CommandEnds
  <2>2. opcSample'.data = h
    BY <2>1 DEF DecodeHistogram
  <2> QED
    BY <1>3, <1>4, <1>5, <2>1, <2>2 DEF Sampled, Fresh
<1>6. CASE command # FanOff
  <2>1. /\ stage' = "opc" /\ command' = command + 1 /\ histogram' = Buffer(h)
    BY <1>1, <1>2, <1>6 DEF CommandEnds
  <2>2. CASE command \in {ReadHistogram, LaserOff}
    BY <1>3, <1>4, <2>1, <2>2 DEF Sampled, Fresh, Buffer, ReadHistogram,
       LaserOff, FanOff
  <2>3. CASE command \in {FanOn, LaserOn}
    BY <1>3, <2>1, <2>3 DEF Sampled, Fresh, Buffer, FanOn, LaserOn,
       ReadHistogram, LaserOff, FanOff
  <2> QED
    BY <1>6, <2>2, <2>3, CommandCases DEF FanOn, LaserOn, ReadHistogram,
       LaserOff, FanOff
<1> QED
  BY <1>5, <1>6

LEMMA AdcSampled ==
  ASSUME TypeOK, Sampled, pc = "sample", pc' = "sample", AdcChannel
  PROVE  Sampled'
<1>1. PICK selected \in BOOLEAN, ran \in BOOLEAN, read \in BOOLEAN :
        /\ ConfigureAdc(selected, ran)
        /\ afe' = [afe EXCEPT ![channel] = IF read THEN converted' ELSE 0]
        /\ faults' = IF selected /\ ran /\ read THEN faults
                     ELSE faults \cup {"adc"}
  BY DEF AdcChannel
<1>2. stage = "adc" /\ stage' \in {"adc", "cc2"} /\ opcSample' = opcSample
      /\ ("opc" \in faults' <=> "opc" \in faults)
  BY <1>1 DEF AdcChannel, opcVars
<1>3. ASSUME "adc" \notin faults'
      PROVE  \A c \in 1 .. channel : afe'[c] = c
  <2>1. selected /\ ran /\ read /\ "adc" \notin faults
    BY <1>1, <1>3
  <2>2. converted' = channel
    BY <1>1, <2>1 DEF ConfigureAdc
  <2>3. afe \in [1 .. Channels -> Conversion] /\ channel \in 1 .. Channels
    BY DEF TypeOK, SensorsTypeOK
  <2>4. afe'[channel] = channel
        /\ \A c \in 1 .. Channels : c # channel => afe'[c] = afe[c]
    BY <1>1, <2>1, <2>2, <2>3
  <2>5. \A c \in 1 .. channel - 1 : afe[c] = c
    BY <1>2, <2>1 DEF Sampled
  <2> QED
    BY <2>3, <2>4, <2>5, Constants
<1>4. \/ channel = Channels /\ stage' = "cc2"
      \/ stage' = "adc" /\ channel' = channel + 1 /\ (channel' - 1) = channel
  BY <1>2, CommandCases DEF AdcChannel
<1>5. Fresh(opcSample.data)'
  BY <1>2 DEF Sampled, Fresh
<1> QED
  BY <1>2, <1>3, <1>4, <1>5 DEF Sampled

LEMMA SampledStep == TypeOK /\ Timed /\ Sampled /\ [Next]_vars => Sampled'
<1> SUFFICES ASSUME TypeOK, Timed, Sampled, [Next]_vars PROVE Sampled'
  OBVIOUS
<1>1. CASE pc # "sample"
  <2>1. CASE pc' # "sample" /\ UNCHANGED sensors /\ (pc' = "send" => pc = "send")
    BY <1>1, <2>1 DEF Sampled, Fresh, sensors
  <2>2. CASE pc' = "modem" /\ StaticsCleared
    BY <2>2 DEF Sampled, StaticsCleared
  <2>3. CASE pc' = "sample" /\ SampleStart
    BY <2>3 DEF Sampled, SampleStart, FanOn, ReadHistogram, LaserOff, FanOff
  <2> QED
    BY <1>1, <2>1, <2>2, <2>3, NotSampling
<1>2. CASE pc = "sample"
  <2>1. CASE UNCHANGED <<pc, sensors>>
    BY <1>2, <2>1 DEF Sampled, Fresh, sensors
  <2>2. CASE pc' = "sample" /\ OpcBusy
    BY <1>2, <2>2 DEF OpcBusy, Sampled, Fresh, adcVars
  <2>3. CASE pc' = "sample" /\ (OpcAnswers \/ OpcGivesUp)
    BY <1>2, <2>3, CommandSampled
  <2>4. CASE pc' = "sample" /\ AdcChannel
    BY <1>2, <2>4, AdcSampled
  <2>5. CASE pc' = "send" /\ Cc2Sample
    BY <1>2, <2>5 DEF Cc2Sample, Sampled, Fresh, opcVars, adcVars
  <2> QED
    BY <1>2, <2>1, <2>2, <2>3, <2>4, <2>5, WhileSampling
<1> QED
  BY <1>1, <1>2

LEMMA SwitchedStep ==
  TypeOK /\ Timed /\ Sampled /\ Switched /\ [Next]_vars => Switched'
<1> SUFFICES ASSUME TypeOK, Timed, Sampled, Switched, [Next]_vars
             PROVE  Switched'
  OBVIOUS
<1>1. CASE pc # "sample"
  <2>1. stage = "idle"
    BY <1>1 DEF Sampled
  <2>2. CASE UNCHANGED sensors
    BY <2>2 DEF Switched, sensors
  <2>3. CASE StaticsCleared
    BY <2>1, <2>3 DEF Switched, StaticsCleared
  <2>4. CASE SampleStart
    BY <2>4 DEF Switched, SampleStart, FanOn, FanOff
  <2> QED
    BY <1>1, <2>2, <2>3, <2>4, NotSampling
<1>2. CASE pc = "sample"
  <2>1. CASE UNCHANGED sensors
    BY <2>1 DEF Switched, sensors
  <2>2. CASE OpcBusy
    BY <2>2 DEF OpcBusy, Switched
  <2>3. CASE OpcGivesUp
    BY <2>3 DEF OpcGivesUp, CommandEnds, Switched
  <2>4. CASE OpcAnswers
    <3>1. PICK ok \in BOOLEAN :
            /\ faults' = IF ok THEN faults ELSE faults \cup {"opc"}
            /\ \/ command = FanOff /\ stage' = "adc"
               \/ command # FanOff /\ stage' = "opc" /\ command' = command + 1
            /\ fan' = IF ok /\ command \in {FanOn, FanOff} THEN command = FanOn
                      ELSE fan
            /\ laser' = IF ok /\ command \in {LaserOn, LaserOff}
                        THEN command = LaserOn ELSE laser
      BY <2>4 DEF OpcAnswers, CommandEnds
    <3>2. SUFFICES ASSUME "opc" \notin faults'
                   PROVE  /\ stage' # "opc" => ~ fan' /\ ~ laser'
                          /\ stage' = "opc" /\ command' = FanOff => ~ laser'
      BY DEF Switched
    <3>3. ok /\ "opc" \notin faults
      BY <3>1, <3>2
    <3>4. CASE command = FanOff /\ stage' = "adc"
      <4>1. ~ laser
        BY <2>4, <3>3, <3>4 DEF Switched, OpcAnswers
      <4>2. command \in {FanOn, FanOff} /\ command \notin {LaserOn, LaserOff}
        BY <3>4 DEF FanOn, LaserOn, LaserOff, FanOff
      <4>3. command # FanOn
        BY <3>4 DEF FanOn, FanOff
      <4>4. ~ fan' /\ ~ laser'
        BY <3>1, <3>3, <4>1, <4>2, <4>3, Zenon
      <4>5. stage' # "opc"
        BY <3>4
      <4> QED
        BY <4>4, <4>5, Zenon
    <3>5. CASE command = LaserOff
      <4>1. command \in {LaserOn, LaserOff} /\ command # LaserOn
        BY <3>5 DEF LaserOn, LaserOff
      <4>2. ~ laser'
        BY <3>1, <3>3, <4>1, Zenon
      <4>3. stage' = "opc"
        BY <3>1, <3>5 DEF LaserOff, FanOff
      <4> QED
        BY <4>2, <4>3, Zenon
    <3>6. CASE command # FanOff /\ command # LaserOff
      BY <3>1, <3>6, CommandCases DEF LaserOff, FanOff
    <3> QED
      BY <3>1, <3>4, <3>5, <3>6
  <2>5. CASE AdcChannel
    <3>1. "opc" \in faults' <=> "opc" \in faults
      BY <2>5 DEF AdcChannel
    <3> QED
      BY <2>5, <3>1 DEF AdcChannel, Switched, opcVars
  <2>6. CASE Cc2Sample
    BY <2>6 DEF Cc2Sample, Switched, opcVars
  <2> QED
    BY <1>2, <2>1, <2>2, <2>3, <2>4, <2>5, <2>6, WhileSampling
<1> QED
  BY <1>1, <1>2

-----------------------------------------------------------------------------
LEMMA NextInv == IInv /\ [Next]_vars => IInv'
BY TypeStep, TimedStep, CountedStep, OpenedStep, SampledStep, SwitchedStep
DEF IInv

LEMMA Invariant == Spec => []IInv
BY InitInv, NextInv, PTL DEF Spec

\* The node's variables keep their types, for all counters and times.
THEOREM TypeCorrect == Spec => []TypeOK
<1>1. IInv => TypeOK
  BY DEF IInv
<1> QED
  BY <1>1, Invariant, PTL

\* Whenever the sum of all times of an iteration fits in the window, the
\* watchdog does not expire in the loop, whatever the sensors do.
THEOREM LoopFed == Spec => []IterationFed
<1>1. IInv => IterationFed
  BY InTime DEF IInv
<1> QED
  BY <1>1, Invariant, PTL

\* At most FOTA_COUNTER + 1 messages are sent between two update checks.
THEOREM ChecksForUpdates == Spec => []UpdateChecked
<1>1. IInv => UpdateChecked
  BY DEF IInv, Counted, UpdateChecked
<1> QED
  BY <1>1, Invariant, PTL

\* Every iteration starts with one slot in use, besides the one a ping may
\* leave and those whose close() was refused, for any number of slots.
THEOREM SocketsGivenBack == Spec => []SocketsBack
<1>1. IInv => SocketsBack
  BY DEF IInv, TypeOK, Opened, SocketsBack
<1> QED
  BY <1>1, Invariant, PTL

\* A message carries the readings of its own cycle, for any number of
\* channels and polls.
THEOREM ReadingsOfThisCycle == Spec => []OwnReadings
<1>1. IInv => OwnReadings
  BY DEF IInv, Sampled, Fresh, OwnReadings, MbEncode
<1> QED
  BY <1>1, Invariant, PTL

\* The fan and the laser of the counter are off outside of the sampling.
THEOREM LeftSwitchedOff == Spec => []SwitchedOff
<1>1. IInv => SwitchedOff
  BY DEF IInv, Sampled, Switched, SwitchedOff
<1> QED
  BY <1>1, Invariant, PTL

-----------------------------------------------------------------------------
(* The configuration. *)

\* A configuration in the socket is of the message type.
Inbox == inbox \in Seq(Lists \cup Refused) /\ Len(inbox) <= 1

\* The type invariant without inbox and replaced.
Values ==
  /\ place \in {"boot", "ping", "pinging", "select", "nap", "loop", "saveping",
             "saveloop"}
  /\ config \in Configs /\ nvs \in Configs \cup {None}
  /\ active \in Networks \cup {None}
  /\ slot \in 1 .. 4
  /\ compiled \in Fallbacks
  /\ up \subseteq Networks \ Dead
  /\ wanted \in Lists /\ accepted \in Lists \cup {None}
  /\ failures \in 0 .. MaxFaults
  /\ flashFaults \in 0 .. MaxFlash /\ changes \in 0 .. MaxChanges

LEMMA TypeSplit == ConfigTypeOK <=> Inbox /\ Values /\ replaced \in BOOLEAN
  BY DEF ConfigTypeOK, Inbox, Values

\* Facts about a queue of at most one message.
LEMMA QueueFacts ==
  ASSUME NEW S, NEW m \in S
  PROVE  /\ <<>> \in Seq(S) /\ Len(<<>>) <= 1
         /\ <<m>> \in Seq(S) /\ Len(<<m>>) <= 1
  OBVIOUS

LEMMA EmptyQueue == \A S : <<>> \in Seq(S) /\ Len(<<>>) <= 1
  OBVIOUS

LEMMA TakeMessage ==
  ASSUME NEW S, NEW q \in Seq(S), Len(q) <= 1, q # <<>>
  PROVE  Head(q) \in S /\ Tail(q) = <<>>
  OBVIOUS

LEMMA InitTyped == ConfigInit => ConfigTypeOK
  <1> SUFFICES ASSUME ConfigInit PROVE Inbox /\ Values /\ replaced \in BOOLEAN
    BY TypeSplit
  <1>1. Inbox BY EmptyQueue DEF ConfigInit, Inbox
  <1>2. Values BY NodeConfigAssumption DEF ConfigInit, Values, Configs
  <1>3. replaced \in BOOLEAN BY DEF ConfigInit
  <1> QED BY <1>1, <1>2, <1>3

LEMMA StepInbox ==
  ASSUME Inbox, Values, [ConfigNext]_configVars
  PROVE  Inbox'
  <1>1. CASE inbox' = <<>>
    BY <1>1, EmptyQueue DEF Inbox
  <1>2. CASE inbox' = inbox
    BY <1>2 DEF Inbox
  <1>3. CASE inbox # <<>> /\ inbox' \in {<<>>, Tail(inbox)}
    BY <1>3, TakeMessage, EmptyQueue DEF Inbox
  <1>4. CASE Deliver
    <2>1. \E m \in Lists \cup Refused : inbox' = <<m>>
      BY <1>4 DEF Deliver, Values
    <2> QED BY <2>1, QueueFacts DEF Inbox
  <1>5. PingReceive \/ LoopReceive
          => inbox # <<>> /\ inbox' \in {<<>>, Tail(inbox)}
    BY DEF PingReceive, LoopReceive
  <1>6. InitConfigNvs \/ Save => inbox' = inbox
    BY DEF InitConfigNvs, Save
  <1>7. SelectPingApn \/ SelectActiveApn => inbox' = <<>>
    BY DEF SelectPingApn, SelectActiveApn, TryNetwork
  <1>8. PingGivenUp \/ SysReboot \/ Crash \/ Upgrade => inbox' = <<>>
    BY DEF PingGivenUp, SysReboot, Crash, Upgrade, ToBoot
  <1>9. SetWanted \/ Outage \/ Recovery \/ UNCHANGED configVars => inbox' = inbox
    BY DEF SetWanted, Outage, Recovery, configVars
  <1> QED
    BY <1>1, <1>2, <1>3, <1>4, <1>5, <1>6, <1>7, <1>8, <1>9
    DEF ConfigNext, NodeNext

LEMMA StepReplaced ==
  ASSUME replaced \in BOOLEAN, [ConfigNext]_configVars
  PROVE  replaced' \in BOOLEAN
  <1>1. CASE Save
    BY <1>1 DEF Save, history
  <1>2. CASE Upgrade
    BY <1>2, Zenon DEF Upgrade
  <1>3. InitConfigNvs \/ SelectPingApn \/ SelectActiveApn \/ PingGivenUp
          \/ PingReceive \/ LoopReceive => UNCHANGED replaced
    BY DEF InitConfigNvs, SelectPingApn, SelectActiveApn, PingGivenUp,
      PingReceive, LoopReceive, history
  <1>4. SysReboot \/ Crash \/ SetWanted \/ Deliver \/ Outage \/ Recovery
          \/ UNCHANGED configVars => UNCHANGED replaced
    BY DEF SysReboot, Crash, SetWanted, Deliver, Outage, Recovery, history,
      node,
      configVars
  <1> QED BY <1>1, <1>2, <1>3, <1>4 DEF ConfigNext, NodeNext

\* A decoded message either changes the list to a complete one or nothing.
LEMMA ConfigDecoded ==
  ASSUME Values, NEW m \in Lists \cup Refused, NEW save, NEW other,
         Decode(m, save, other)
  PROVE  /\ place' \in {save, other}
         /\ \/ place' = other /\ config' = config
            \/ /\ place' = save
               /\ m \in Lists /\ config' = [config EXCEPT !.list = m]
         /\ config' \in Configs
         /\ config'.fallback = config.fallback
  <1>1. CASE Result(m) = 0
    <2>1. m \in Lists
      <3>1. CASE m = Undecodable
        BY <1>1, <3>1 DEF Result
      <3>2. CASE m = Incomplete /\ m # Undecodable
        BY <1>1, <3>2 DEF Result
      <3> QED BY <3>1, <3>2 DEF Refused
    <2> QED BY <1>1, <2>1 DEF Decode, Values, Configs
  <1>2. CASE Result(m) # 0
    BY <1>2 DEF Decode, Values, Configs
  <1> QED BY <1>1, <1>2

LEMMA StepValues ==
  ASSUME Inbox, Values, [ConfigNext]_configVars
  PROVE  Values'
  <1> USE NodeConfigAssumption DEF Values, env, node, history, Fault, NoFault,
    FlashFault,
        NoFlash, Change
  <1>1. CASE InitConfigNvs
    <2>1. Defaults \in Configs BY DEF Defaults, Configs
    <2>2. nvs # None => nvs \in Configs OBVIOUS
    <2>3. HasFlashConfig(nvs) => nvs \in Configs BY <2>2 DEF HasFlashConfig
    <2>4. HasFlashConfig(nvs) => [Defaults EXCEPT !.list = nvs.list] \in Configs
      BY <2>1, <2>3 DEF Configs
    <2> QED BY <1>1, <2>1, <2>4 DEF InitConfigNvs, SaveApnConfig
  <1>2. CASE SelectPingApn
    <2>1. config.fallback \in Networks BY DEF Configs
    <2> QED BY <1>2, <2>1 DEF SelectPingApn, TryNetwork
  <1>3. CASE SelectActiveApn
    <2>1. Entry(config, slot) \in Networks BY DEF Configs, Entry
    <2> QED BY <1>3, <2>1 DEF SelectActiveApn, TryNetwork, LastSlot
  <1>4. CASE PingReceive
    <2>1. Head(inbox) \in Lists \cup Refused
      BY <1>4, TakeMessage DEF PingReceive, Inbox
    <2>2. place' \in {"saveping", "select"} /\ config' \in Configs
      BY <1>4, <2>1, ConfigDecoded DEF PingReceive
    <2> QED BY <1>4, <2>2 DEF PingReceive
  <1>5. CASE LoopReceive
    <2>1. Head(inbox) \in Lists \cup Refused
      BY <1>5, TakeMessage DEF LoopReceive, Inbox
    <2>2. place' \in {"saveloop", "loop"} /\ config' \in Configs
      BY <1>5, <2>1, ConfigDecoded DEF LoopReceive
    <2> QED BY <1>5, <2>2 DEF LoopReceive
  <1>6. CASE Save
    <2>1. config.list \in Lists BY DEF Configs
    <2> QED BY <1>6, <2>1 DEF Save, SaveApnConfig
  <1>7. CASE PingGivenUp
    BY <1>7 DEF PingGivenUp
  <1>8. CASE SysReboot \/ Crash \/ Upgrade
    BY <1>8 DEF SysReboot, Crash, Upgrade, ToBoot, Configs
  <1>9. CASE SetWanted \/ Deliver \/ Outage \/ Recovery
    BY <1>9 DEF SetWanted, Deliver, Outage, Recovery
  <1>10. CASE UNCHANGED configVars
    BY <1>10 DEF configVars
  <1> QED
    BY <1>1, <1>2, <1>3, <1>4, <1>5, <1>6, <1>7, <1>8, <1>9, <1>10
    DEF ConfigNext, NodeNext

\* Every variable keeps its type (config.c, config_message.c): stored lists
\* are complete, as has_flash_config() expects.
THEOREM ConfigTypeCorrect == ConfigSpec => []ConfigTypeOK
  <1>1. ConfigTypeOK /\ [ConfigNext]_configVars => ConfigTypeOK'
    <2> SUFFICES ASSUME ConfigTypeOK, [ConfigNext]_configVars PROVE ConfigTypeOK'
      OBVIOUS
    <2>1. Inbox /\ Values /\ replaced \in BOOLEAN BY TypeSplit
    <2>2. Inbox' /\ Values' BY <2>1, StepInbox, StepValues
    <2>3. replaced' \in BOOLEAN BY <2>1, StepReplaced
    <2> QED BY <2>2, <2>3 DEF ConfigTypeOK, Inbox, Values
  <1> QED BY InitTyped, <1>1, PTL DEF ConfigSpec

-----------------------------------------------------------------------------
\* Neither a record of another firmware version nor a message replaces the
\* fourth entry (has_flash_config, decode_config_message).
FallbackCompiled == config.fallback = compiled

LEMMA CompiledFallback == ConfigSpec => []FallbackCompiled
  <1>1. ConfigInit => FallbackCompiled
    BY DEF ConfigInit, FallbackCompiled
  <1>2. ConfigTypeOK /\ FallbackCompiled /\ [ConfigNext]_configVars
          => FallbackCompiled'
    <2> SUFFICES ASSUME ConfigTypeOK, FallbackCompiled, [ConfigNext]_configVars
                 PROVE  FallbackCompiled'
      OBVIOUS
    <2> USE DEF FallbackCompiled, env, node, history
    <2>0. Inbox /\ Values BY TypeSplit
    <2>1. CASE InitConfigNvs
      BY <2>1 DEF InitConfigNvs, HasFlashConfig, Defaults
    <2>2. CASE UNCHANGED <<config, compiled>>
      BY <2>2
    <2>3. CASE PingReceive \/ LoopReceive
      <3>1. Head(inbox) \in Lists \cup Refused
        BY <2>0, <2>3, TakeMessage DEF PingReceive, LoopReceive, Inbox
      <3>2. config'.fallback = config.fallback
        BY <2>0, <2>3, <3>1, ConfigDecoded DEF PingReceive, LoopReceive
      <3> QED BY <2>3, <3>2 DEF PingReceive, LoopReceive
    <2>4. CASE SysReboot \/ Crash \/ Upgrade
      BY <2>4 DEF SysReboot, Crash, Upgrade, ToBoot
    <2>5. SelectPingApn \/ SelectActiveApn \/ Save \/ PingGivenUp
            => UNCHANGED <<config, compiled>>
      BY DEF SelectPingApn, SelectActiveApn, Save, PingGivenUp
    <2>6. SetWanted \/ Deliver \/ Outage \/ Recovery \/ UNCHANGED configVars
            => UNCHANGED <<config, compiled>>
      BY DEF SetWanted, Deliver, Outage, Recovery, configVars
    <2> QED BY <2>1, <2>2, <2>3, <2>4, <2>5, <2>6 DEF ConfigNext, NodeNext
  <1> QED BY <1>1, <1>2, ConfigTypeCorrect, PTL DEF ConfigSpec

-----------------------------------------------------------------------------
\* The stored record is the accepted one, and counts at the next start, unless
\* the flash failed or another fourth entry was compiled in.
Stored ==
  flashFaults = 0 /\ accepted # None /\ ~ replaced =>
    /\ nvs # None /\ nvs.list = accepted /\ nvs.fallback = compiled
    /\ place \notin {"boot", "saveping", "saveloop"} => config.list = accepted

LEMMA StoredStep ==
  ConfigTypeOK /\ FallbackCompiled /\ Stored /\ [ConfigNext]_configVars => Stored'
  <1> SUFFICES ASSUME ConfigTypeOK, FallbackCompiled, Stored,
                      [ConfigNext]_configVars, flashFaults' = 0
               PROVE  Stored'
    BY DEF Stored
  <1> USE DEF Stored, env, node, history
  <1>0. Inbox /\ Values BY TypeSplit
  <1>f. ~FlashFault BY <1>0 DEF Values, FlashFault
  <1>g. flashFaults = 0
    BY <1>f DEF ConfigNext, NodeNext, InitConfigNvs, SelectPingApn,
      SelectActiveApn,
      TryNetwork, PingReceive, LoopReceive, Save, SaveApnConfig, PingGivenUp,
      SysReboot, Crash, Upgrade, SetWanted, Deliver, Outage, Recovery, NoFlash,
      configVars
  <1>n. None \notin Configs /\ None \notin Lists
    BY NodeConfigAssumption DEF Configs
  <1>1. CASE InitConfigNvs
    <2> SUFFICES ASSUME accepted # None, ~ replaced PROVE Stored'
      BY <1>1 DEF InitConfigNvs
    <2>1. HasFlashConfig(nvs) BY <1>g DEF HasFlashConfig
    <2>2. UNCHANGED <<nvs, accepted, replaced, compiled>> /\ config'.list = nvs.list
      BY <1>0, <1>1, <1>f, <2>1 DEF InitConfigNvs, Defaults
    <2> QED BY <1>g, <2>2
  <1>3. CASE PingReceive
    <2>1. Head(inbox) \in Lists \cup Refused
      BY <1>0, <1>3, TakeMessage DEF PingReceive, Inbox
    <2>2. place' = "saveping" \/ config' = config
      BY <1>0, <1>3, <2>1, ConfigDecoded DEF PingReceive
    <2> QED BY <1>3, <1>g, <2>2 DEF PingReceive
  <1>4. CASE LoopReceive
    <2>1. Head(inbox) \in Lists \cup Refused
      BY <1>0, <1>4, TakeMessage DEF LoopReceive, Inbox
    <2>2. place' = "saveloop" \/ config' = config
      BY <1>0, <1>4, <2>1, ConfigDecoded DEF LoopReceive
    <2> QED BY <1>4, <1>g, <2>2 DEF LoopReceive
  <1>5. CASE Save
    BY <1>0, <1>5, <1>f, <1>g, <1>n DEF Save, SaveApnConfig, Values,
      FallbackCompiled
  <1>6. CASE SysReboot \/ Crash \/ Upgrade
    BY <1>6, <1>g DEF SysReboot, Crash, Upgrade, ToBoot
  <1>7. CASE SelectPingApn \/ SelectActiveApn \/ PingGivenUp
    BY <1>7, <1>g DEF SelectPingApn, SelectActiveApn, PingGivenUp
  <1>8. CASE SetWanted \/ Deliver \/ Outage \/ Recovery \/ UNCHANGED configVars
    BY <1>8, <1>g DEF SetWanted, Deliver, Outage, Recovery, configVars
  <1> QED
    BY <1>1, <1>3, <1>4, <1>5, <1>6, <1>7, <1>8 DEF ConfigNext, NodeNext

\* As long as no access to the flash failed and the compiled fourth entry stays
\* the same, a configuration that was stored survives restarts until the next
\* one is accepted (init_config_nvs, save_apn_config).
THEOREM AcceptedKept == ConfigSpec => []AcceptedSurvives
  <1>1. ConfigInit => Stored
    BY DEF ConfigInit, Stored
  <1>2. Stored => AcceptedSurvives
    BY DEF Stored, AcceptedSurvives
  <1> QED
    BY <1>1, <1>2, StoredStep, ConfigTypeCorrect, CompiledFallback, PTL DEF
      ConfigSpec
=============================================================================
