------------------------------ MODULE NodeMain ------------------------------
(***************************************************************************)
(* The main thread of the node (main.c): the start with the ping, the      *)
(* choice of an APN and the first update check, and then the loop: feed    *)
(* the watchdog, look for a configuration message, sample the sensors,     *)
(* send, sleep, check for an update, restart when the node is old enough.  *)
(* The module composes the loop with the sensors (Sensors) and with time,  *)
(* which decides what the watchdog does.  What a socket call, an update    *)
(* check or a configuration message does inside is in N2Sockets, Fota and  *)
(* NodeConfig; here they take time, succeed or fail.                       *)
(***************************************************************************)
EXTENDS Sensors

CONSTANTS Window,        \* window of the watchdog
          RebootAfter,   \* UPTIME_FORCE_REBOOT_LIMIT_SECONDS
          FotaCounter,   \* FOTA_COUNTER
          PingRetries,   \* PING_RETRIES
          CallMax,       \* the longest that a socket call takes
          PollTime,      \* between two polls of the particle counter
          FanTime, LaserTime, SampleTime,   \* the sleeps of opc_sample()
          AdcTime,       \* to sample a channel of the converter
          Slots,         \* MDM_MAX_SOCKETS
          Interval       \* SEND_INTERVAL_SEC

\* The time that one iteration takes at most, before the update check.
Sampling  == 5 * OpcPolls * PollTime + 2 * (FanTime + LaserTime + SampleTime)
               + Channels * AdcTime
Iteration == 3 * CallMax + Sampling + Interval

ASSUME NodeMainAssumption ==
  /\ {RebootAfter, FotaCounter, PingRetries, CallMax, PollTime, FanTime,
      LaserTime, SampleTime, AdcTime, Interval, Window, Slots} \subseteq Nat
  /\ Iteration <= Window

VARIABLES
  pc,             \* where main() is, see TypeOK
  uptime,         \* since the last reset
  sinceFeed,      \* since the watchdog was set up or fed
  fota_interval,  \* iterations since the last update check
  tries,          \* i of do_the_hetzner_ping()
  sockets,        \* slots of the driver that are in use
  leaked,         \* of these, 1 if the ping left its socket open
  refused,        \* history: of these, those whose close() the modem refused
  calm,           \* the network and the modem answer, nobody sends a new
                  \* configuration and no update is scheduled
  sent            \* history: messages sent since the last update check

clocks   == <<uptime, sinceFeed>>
opened   == <<sockets, leaked, refused>>
vars     == <<pc, uptime, sinceFeed, fota_interval, tries, sockets, leaked,
              refused, calm, sent, sensors>>

\* Places before the loop, whose time nothing bounds, and in the loop.
Starting == {"modem", "ping", "pinging", "apn", "check", "config"}
Loop     == {"feed", "recv", "socket", "sample", "send", "sleep"}
Ending     == {"fota", "close", "uptime"}

TypeOK ==
  /\ pc \in Starting \cup Loop \cup Ending
  /\ uptime \in Nat /\ sinceFeed \in Nat
  /\ fota_interval \in 0 .. FotaCounter
  /\ tries \in 0 .. PingRetries
  /\ sockets \in 0 .. Slots /\ leaked \in 0 .. 1 /\ refused \in Nat
  /\ calm \in BOOLEAN /\ sent \in Nat
  /\ SensorsTypeOK

Init ==
  /\ pc = "modem" /\ uptime = 0 /\ sinceFeed = 0
  /\ fota_interval = 0 /\ tries = 0 /\ sockets = 0 /\ leaked = 0
  /\ refused = 0
  /\ calm = TRUE /\ sent = 0
  /\ SensorsInit

---------------------------------------------------------------------------
\* The main thread is at place p and the watchdog has not expired.
At(p) == pc = p /\ sinceFeed <= Window

Pass(t) == uptime' = uptime + t /\ sinceFeed' = sinceFeed + t

(***************************************************************************)
(* socket() fails when the modem does not answer or no slot is free.       *)
(* Nobody looks at the result of close(): when the modem refuses it the    *)
(* slot stays in use.                                                      *)
(***************************************************************************)
SocketFails == ~ calm \/ sockets = Slots
SocketOpens == sockets < Slots /\ sockets' = sockets + 1 /\ UNCHANGED refused
CloseSocket ==
  \/ sockets' = sockets - 1 /\ UNCHANGED refused
  \/ ~ calm /\ refused' = refused + 1 /\ UNCHANGED sockets
AllFree     == sockets' = 0 /\ leaked' = 0 /\ refused' = 0

\* A reset, up to where main() waits for the modem.
Reboot ==
  /\ pc' = "modem" /\ uptime' = 0 /\ sinceFeed' = 0
  /\ fota_interval' = 0 /\ tries' = 0 /\ AllFree
  /\ StaticsCleared
  /\ UNCHANGED <<calm, sent>>

\* The step ends at place p; the loop's counter and the sensors stay.
Go(p) == pc' = p /\ UNCHANGED <<fota_interval, sent, calm, sensors>>

\* wait_for_sockets()
WaitForModem ==
  /\ At("modem")
  /\ \/ ~ calm /\ Go("modem") /\ Pass(1)
     \/ Go("ping") /\ Pass(0)
  /\ UNCHANGED <<tries, opened>>

(***************************************************************************)
(* do_the_hetzner_ping(): without contact it returns; without a socket it  *)
(* reboots; without a message it returns and leaves the socket open.       *)
(***************************************************************************)
Ping ==
  /\ At("ping")
  /\ \/ SocketFails /\ Reboot
     \/ /\ ~ calm /\ Go("apn") /\ Pass(CallMax)
        /\ UNCHANGED <<tries, opened>>
     \/ /\ Go("apn") /\ Pass(0)
        /\ SocketOpens /\ leaked' = 1 /\ UNCHANGED tries
     \/ /\ Go("pinging") /\ Pass(0)
        /\ SocketOpens /\ tries' = 0 /\ UNCHANGED leaked

\* One attempt; a message that is refused or brings nothing new ends the ping,
\* a new configuration is saved and does not.
PingTry ==
  /\ At("pinging") /\ tries < PingRetries
  /\ \/ /\ Go("apn") /\ Pass(0)
        /\ CloseSocket /\ UNCHANGED <<tries, leaked>>
     \/ /\ Go("pinging") /\ Pass(1)
        /\ tries' = tries + 1 /\ UNCHANGED opened

\* (mutated) the socket stays open
PingTimeoutLeaks ==
  /\ At("pinging") /\ tries = PingRetries
  /\ Go("apn") /\ Pass(0) /\ UNCHANGED <<tries, opened>>

PingTimeout ==
  /\ At("pinging") /\ tries = PingRetries
  /\ Go("apn") /\ Pass(0)
  /\ CloseSocket /\ UNCHANGED <<tries, leaked>>

\* (mutated) no update check at the start
SelectApnNoCheck ==
  /\ At("apn")
  /\ Go("config") /\ Pass(0) /\ UNCHANGED <<tries, opened>>

\* select_active_apn() reboots when no APN works.
SelectApn ==
  /\ At("apn")
  /\ \/ ~ calm /\ Reboot
     \/ ~ calm /\ Go("apn") /\ Pass(1) /\ UNCHANGED <<tries, opened>>
     \/ Go("check") /\ Pass(0) /\ UNCHANGED <<tries, opened>>

(***************************************************************************)
(* fota_run() at the start ("check") and in the loop ("fota"): it lasts as *)
(* long as the answers and the blocks of the image take; after a download  *)
(* it reboots.  Its sockets, one for the report and one for the download,  *)
(* are closed when it returns (Fota).                                      *)
(***************************************************************************)
FotaRun ==
  \E p \in {"check", "fota"} :
    /\ At(p)
    /\ sent' = 0
    /\ \/ /\ ~ calm /\ pc' = p /\ Pass(1)
          /\ UNCHANGED <<fota_interval, tries, opened, calm, sensors>>
       \/ /\ ~ calm
          /\ pc' = "modem" /\ uptime' = 0 /\ sinceFeed' = 0
          /\ fota_interval' = 0 /\ tries' = 0 /\ AllFree
          /\ StaticsCleared /\ UNCHANGED calm
       \/ /\ pc' = IF p = "check" THEN "config" ELSE "close"
          /\ Pass(0)
          /\ \E lost \in 0 .. 2 :
               /\ lost > 0 => ~ calm
               /\ sockets + lost <= Slots
               /\ sockets' = sockets + lost /\ refused' = refused + lost
          /\ UNCHANGED <<fota_interval, tries, leaked, calm, sensors>>

ConfigSocket ==
  /\ At("config")
  /\ \/ SocketFails /\ Reboot
     \/ /\ Go("feed") /\ Pass(0)
        /\ SocketOpens /\ UNCHANGED <<tries, leaked>>

---------------------------------------------------------------------------
\* (mutated) the watchdog is not fed
FeedNever ==
  /\ At("feed") /\ Go("recv")
  /\ UNCHANGED <<clocks, tries, opened>>

Feed ==
  /\ At("feed") /\ Go("recv")
  /\ sinceFeed' = 0
  /\ UNCHANGED <<uptime, tries, opened>>

\* The configuration socket: a message is decoded and saved (NodeConfig).
Receive ==
  /\ At("recv")
  /\ Go("socket") /\ \E t \in 0 .. CallMax : Pass(t)
  /\ UNCHANGED <<tries, opened>>

OpenSocket ==
  /\ At("socket")
  /\ \/ SocketFails /\ Reboot
     \/ /\ pc' = "sample" /\ SampleStart
        /\ \E t \in 0 .. CallMax : Pass(t)
        /\ SocketOpens
        /\ UNCHANGED <<fota_interval, tries, leaked, calm, sent>>

\* The sleeps of opc_sample() that follow its commands.
Settle ==
  CASE command = FanOn         -> FanTime
    [] command = LaserOn       -> LaserTime + SampleTime
    [] command = ReadHistogram -> SampleTime
    [] command = LaserOff      -> LaserTime
    [] command = FanOff        -> FanTime

Sample ==
  /\ At("sample")
  /\ \/ OpcBusy /\ Pass(PollTime) /\ UNCHANGED pc
     \/ (OpcAnswers \/ OpcGivesUp) /\ Pass(Settle) /\ UNCHANGED pc
     \/ AdcChannel /\ Pass(AdcTime) /\ UNCHANGED pc
     \/ Cc2Sample /\ Pass(0) /\ pc' = "send"
  /\ UNCHANGED <<fota_interval, tries, opened, calm, sent>>

Send ==
  /\ At("send")
  /\ \/ ~ calm /\ Reboot
     \/ /\ pc' = "sleep" /\ \E t \in 0 .. CallMax : Pass(t)
        /\ sent' = sent + 1
        /\ UNCHANGED <<fota_interval, tries, opened, calm, sensors>>

\* Every so many iterations there is an update check.
Sleep ==
  /\ At("sleep")
  /\ Pass(Interval)
  /\ IF fota_interval + 1 > FotaCounter
     THEN fota_interval' = 0 /\ pc' = "fota"
     ELSE fota_interval' = fota_interval + 1 /\ pc' = "close"
  /\ UNCHANGED <<tries, opened, calm, sent, sensors>>

Close ==
  /\ At("close") /\ Go("uptime") /\ Pass(0)
  /\ CloseSocket /\ UNCHANGED <<tries, leaked>>

Uptime ==
  /\ At("uptime")
  /\ IF uptime > RebootAfter THEN Reboot
     ELSE Go("feed") /\ UNCHANGED <<clocks, tries, opened>>

\* wdt_callback(): the window is over wherever main() is.
WatchdogExpires == sinceFeed > Window /\ Reboot

Calm == calm' = ~ calm
        /\ UNCHANGED <<pc, clocks, fota_interval, tries, opened, sent, sensors>>

MainThread ==
  \/ WaitForModem \/ Ping \/ PingTry \/ PingTimeout \/ SelectApn \/ FotaRun
  \/ ConfigSocket \/ Feed \/ Receive \/ OpenSocket \/ Sample \/ Send \/ Sleep
  \/ Close \/ Uptime

Next == MainThread \/ WatchdogExpires \/ Calm

\* The processor runs the main thread, and the watchdog does not stop.
Spec == Init /\ [][Next]_vars /\ WF_vars(MainThread) /\ WF_vars(WatchdogExpires)

---------------------------------------------------------------------------
(* Properties *)

\* The watchdog expires only while the node starts or checks for an update
\* (and right after it): however often the particle counter has to be polled
\* and however long the socket calls take, an iteration is over before the
\* window is (main.c:246; an update check is not: main.c:335).
IterationFed == pc \in Loop => sinceFeed <= Window

\* However often the node restarts, by itself or by the watchdog, no more
\* messages are sent between two update checks than the counter allows: the
\* check at the start makes up for the counter that a restart clears
\* (main.c:335, main.c:217).
UpdateChecked == sent <= FotaCounter + 1

\* However pings, update checks and iterations ended, an iteration begins with
\* the configuration socket and no other slot in use than the one of a ping
\* that could not be encoded and those whose close() the modem refused: so
\* while the modem takes its commands no slot but the one is ever lost
\* (main.c:153, main.c:182, main.c:191, main.c:346, n2_offload.c:90).
SocketsBack == pc = "feed" => sockets = 1 + leaked + refused

\* A message never has the histogram of an earlier cycle, and only that of
\* this one when the counter answered; every gas channel has its own reading
\* of this cycle when no transfer to the converter failed (opc_n3.c:271,
\* ads124s08.c:390).
OwnReadings ==
  pc = "send" =>
    /\ MbEncode.opc # "earlier"
    /\ "opc" \notin faults => MbEncode.opc = "now"
    /\ "adc" \notin faults =>
         \A c \in 1 .. Channels : MbEncode.sensor[c] = c

\* When the particle counter took its commands, its fan and laser are off
\* outside of the sampling: no restart hits the node in between, not even the
\* watchdog's (opc_n3.c:253, main.c:353).
SwitchedOff == pc # "sample" /\ "opc" \notin faults => ~ fan /\ ~ laser

\* A particle counter that never answers, or any other failing sensor, does
\* not keep the node from sending, nor do slots that were lost: once the
\* network is calm, it sends again and again, if need be after a restart
\* (opc_n3.c:113, main.c:264).
Reports == <>[]calm => []<>(pc = "sleep")

\* opc_sample_valid is "OPC Sample valid" (src/common/protobuf/aq.proto:60).
\* The code stores the opposite (opc_n3.c:318).
ValidMeansGood == pc = "send" => MbEncode.opc_sample_valid = (MbEncode.opc = "now")
=============================================================================
