----------------------------- MODULE NodeConfig -----------------------------
(***************************************************************************)
(* The configuration of the node: three APNs (with their CoAP servers)     *)
(* that the operator sets, and a fourth compiled into the firmware         *)
(* (config.c, config_message.c).  At start the node reads them from flash, *)
(* asks the ping server through the fourth for a new configuration         *)
(* (main.c), and uses the first APN that answers.  In the main loop it     *)
(* takes configuration messages too.  It may restart at any point.  The    *)
(* names differ from those of NodeMain, as NodeMainProofs extends both.    *)
(***************************************************************************)
EXTENDS Integers, Sequences, Functions

CONSTANTS Networks,    \* an APN with its CoAP server
          Dead,        \* networks that never answer
          Fallbacks,   \* apn4 and coap4, by firmware version
          Lists,       \* apn1..3 and coap1..3 of complete configurations
          DefaultList, \* those of init_default_config()
          None,
          Undecodable, Incomplete,  \* messages that are refused
          MaxFaults,   \* bound: restarts, lost messages, outages
          MaxFlash,    \* bound: failing reads and writes of the flash
          MaxChanges   \* bound: new configurations and firmware versions

ASSUME NodeConfigAssumption ==
  /\ Dead \subseteq Networks /\ Fallbacks \subseteq Networks \ Dead
  /\ Fallbacks # {}
  /\ Lists \subseteq [1 .. 3 -> Networks] /\ DefaultList \in Lists
  /\ None \notin Networks \cup Lists
  /\ None \notin [list : Lists, fallback : Fallbacks]
  /\ {Undecodable, Incomplete} \cap Lists = {}
  /\ MaxFaults \in Nat /\ MaxFlash \in Nat /\ MaxChanges \in Nat

\* Messages that decode_config_message() refuses: not decodable (-1), or with
\* an empty APN or server (-2).
Refused  == {Undecodable, Incomplete}
Configs  == [list : Lists, fallback : Fallbacks]

VARIABLES
  place,     \* "boot": before init_config_nvs(); "ping": select_ping_apn();
             \* "pinging": the loop of do_the_hetzner_ping(); "select":
             \* select_active_apn(); "nap": its last sleep; "loop": the main
             \* loop; "saveping", "saveloop": before the nvs_write()
  config,    \* CURRENT_APN_CONFIG
  nvs,       \* the record in flash, or None
  active,    \* CURRENT_APN_BUFFER and CURRENT_COAP_BUFFER
  slot,      \* i of select_active_apn()
  inbox,     \* messages that wait in the socket
  compiled,  \* the fourth entry of the firmware that runs
  up,        \* networks that answer
  wanted,    \* what the operator wants
  accepted,  \* history: the last list that was stored from a message
  replaced,  \* history: another fourth entry has been compiled in since then
  failures, flashFaults, changes   \* counters for the bounds

configVars == <<place, config, nvs, active, slot, inbox, compiled, up, wanted,
                accepted, replaced, failures, flashFaults, changes>>
env  == <<compiled, up, wanted, changes>>
history == <<accepted, replaced>>

ConfigTypeOK ==
  /\ place \in {"boot", "ping", "pinging", "select", "nap", "loop", "saveping",
             "saveloop"}
  /\ config \in Configs /\ nvs \in Configs \cup {None}
  /\ active \in Networks \cup {None}
  /\ slot \in 1 .. 4
  /\ inbox \in Seq(Lists \cup Refused) /\ Len(inbox) <= 1
  /\ compiled \in Fallbacks
  /\ up \subseteq Networks \ Dead
  /\ wanted \in Lists /\ accepted \in Lists \cup {None}
  /\ replaced \in BOOLEAN
  /\ failures \in 0 .. MaxFaults
  /\ flashFaults \in 0 .. MaxFlash /\ changes \in 0 .. MaxChanges

ConfigInit ==
  /\ place = "boot"
  /\ compiled \in Fallbacks
  /\ config = [list |-> DefaultList, fallback |-> compiled]
  /\ nvs = None
  /\ active = None
  /\ slot = 1
  /\ inbox = <<>>
  /\ up = Networks \ Dead
  /\ wanted \in Lists /\ accepted = None /\ replaced = FALSE
  /\ failures = 0 /\ flashFaults = 0 /\ changes = 0

Fault      == failures < MaxFaults /\ failures' = failures + 1
FlashFault == flashFaults < MaxFlash /\ flashFaults' = flashFaults + 1
NoFlash    == UNCHANGED flashFaults
NoFault    == UNCHANGED failures

-----------------------------------------------------------------------------
(* init_config_nvs() *)

Defaults == [list |-> DefaultList, fallback |-> compiled]

\* has_flash_config(): a record counts if its fourth entry is the compiled one;
\* entries 1 to 3 are copied (stored lists are complete), else all is default.
HasFlashConfig(record) == record # None /\ record.fallback = compiled

\* save_apn_config(): its callers ignore what nvs_write() returns.
\* (mutated) only a missing record is written
SaveOnce(new) == nvs' = (IF nvs = None THEN new ELSE nvs) /\ NoFlash

SaveApnConfig(new) ==
  \/ nvs' = new /\ NoFlash
  \/ FlashFault /\ UNCHANGED nvs

\* (mutated) defaults are always stored
InitForgets ==
  /\ place = "boot" /\ place' = "ping"
  /\ config' = Defaults /\ nvs' = Defaults
  /\ UNCHANGED <<active, slot, inbox, env, history, failures, flashFaults>>

InitConfigNvs ==
  /\ place = "boot"
  /\ place' = "ping"
  /\ \/ /\ HasFlashConfig(nvs)
        /\ config' = [Defaults EXCEPT !.list = nvs.list]
        /\ UNCHANGED nvs /\ NoFlash
     \/ /\ ~HasFlashConfig(nvs)
        /\ config' = Defaults
        /\ SaveApnConfig(Defaults)
     \/ /\ FlashFault                     \* nvs_read() failed
        /\ config' = Defaults
        /\ nvs' \in {nvs, Defaults}
  /\ UNCHANGED <<active, slot, inbox, env, history, failures>>

-----------------------------------------------------------------------------
(* Finding a network. *)

\* modem_restart(), modem_configure() and up to 30 times modem_is_ready().
TryNetwork(network, found, notfound) ==
  /\ active' = network
  /\ inbox' = <<>>
  /\ \/ network \in up /\ found /\ NoFault
     \/ network \in up /\ notfound /\ Fault
     \/ network \notin up /\ notfound /\ NoFault

\* select_ping_apn()
SelectPingApn ==
  /\ place = "ping"
  /\ TryNetwork(config.fallback, place' = "pinging", place' = "select")
  /\ slot' = 1
  /\ UNCHANGED <<config, nvs, history, env, flashFaults>>

\* One iteration of select_active_apn().
ThreeApns == 3   \* (mutated) the secret one is not tried
LastSlot  == 4   \* NVS_APN_COUNT

Entry(c, i) == IF i = 4 THEN c.fallback ELSE c.list[i]

SelectActiveApn ==
  /\ place = "select"
  /\ TryNetwork(Entry(config, slot),
                place' = "loop" /\ UNCHANGED slot,
                IF slot < LastSlot
                  THEN slot' = slot + 1 /\ UNCHANGED place
                  ELSE place' = "nap" /\ UNCHANGED slot)
  /\ UNCHANGED <<config, nvs, history, env, flashFaults>>

-----------------------------------------------------------------------------
(* Configuration messages. *)

\* The result of decode_config_message(), which compares with the
\* configuration in RAM.
Result(message) == CASE message = Undecodable -> -1
                     [] message = Incomplete -> -2
                     [] message = config.list -> -3
                     [] OTHER -> 0

\* decode_config_message() up to save_apn_config().
Decode(message, save, other) ==
  IF Result(message) = 0
    THEN place' = save /\ config' = [config EXCEPT !.list = message]
    ELSE place' = other /\ UNCHANGED config

\* An answer of the ping server.
PingReceive ==
  /\ place = "pinging"
  /\ inbox # <<>>
  /\ Decode(Head(inbox), "saveping", "select")
  /\ inbox' = IF place' = "select" THEN <<>> ELSE Tail(inbox)
  /\ UNCHANGED <<nvs, active, slot, env, history, failures, flashFaults>>

\* No answer after PING_RETRIES attempts.
PingGivenUp ==
  /\ place = "pinging"
  /\ Fault
  /\ place' = "select"
  /\ inbox' = <<>>
  /\ UNCHANGED <<config, nvs, active, slot, env, history, flashFaults>>

\* The main loop reads the configuration socket and ignores the result.
LoopReceive ==
  /\ place = "loop"
  /\ inbox # <<>>
  /\ Decode(Head(inbox), "saveloop", "loop")
  /\ inbox' = Tail(inbox)
  /\ UNCHANGED <<nvs, active, slot, env, history, failures, flashFaults>>

Save ==
  /\ place \in {"saveping", "saveloop"}
  /\ place' = IF place = "saveping" THEN "pinging" ELSE "loop"
  /\ SaveApnConfig(config)
  /\ IF nvs' = config THEN accepted' = config.list /\ replaced' = FALSE
                     ELSE UNCHANGED history
  /\ UNCHANGED <<config, active, slot, inbox, env, failures>>

-----------------------------------------------------------------------------
(* Restarts. *)

ToBoot(fallback) ==
  /\ place' = "boot" /\ active' = None /\ slot' = 1 /\ inbox' = <<>>
  /\ compiled' = fallback
  /\ config' = [list |-> DefaultList, fallback |-> fallback]

\* After two hours, a failed sendto(), or the nap of select_active_apn().
SysReboot ==
  /\ place \in {"loop", "nap"}
  /\ ToBoot(compiled)
  /\ UNCHANGED <<nvs, history, up, wanted, changes, failures, flashFaults>>

\* Power loss and watchdog.
Crash ==
  /\ place # "boot"
  /\ Fault
  /\ ToBoot(compiled)
  /\ UNCHANGED <<nvs, history, up, wanted, changes, flashFaults>>

Change == changes < MaxChanges /\ changes' = changes + 1

\* Another firmware version starts.
Upgrade ==
  /\ place = "loop"
  /\ Change
  /\ \E version \in Fallbacks :
       /\ ToBoot(version)
       /\ replaced' = (replaced \/ version # compiled)
  /\ UNCHANGED <<nvs, up, wanted, accepted, failures, flashFaults>>

-----------------------------------------------------------------------------
(* The operator, its servers and the network (external). *)

node == <<place, config, nvs, active, slot, history, flashFaults>>

SetWanted ==
  /\ Change
  /\ wanted' \in Lists
  /\ UNCHANGED <<node, inbox, compiled, up, failures>>

\* The ping server answers, the operator sends.
Deliver ==
  /\ place \in {"pinging", "loop"} /\ active \in up
  /\ inbox = <<>>
  /\ \/ inbox' = <<wanted>> /\ NoFault
     \/ Fault /\ \E message \in Lists \cup Refused : inbox' = <<message>>
  /\ UNCHANGED <<node, env>>

Outage ==
  /\ Fault
  /\ \E network \in up : up' = up \ {network}
  /\ UNCHANGED <<node, inbox, compiled, wanted, changes>>

Recovery ==
  /\ up # Networks \ Dead
  /\ up' = Networks \ Dead
  /\ UNCHANGED <<node, inbox, compiled, wanted, changes, failures>>

-----------------------------------------------------------------------------
NodeNext == \/ InitConfigNvs \/ SelectPingApn \/ SelectActiveApn
            \/ PingReceive \/ LoopReceive \/ Save

ConfigNext == \/ NodeNext \/ PingGivenUp \/ SysReboot \/ Crash \/ Upgrade
              \/ SetWanted \/ Deliver \/ Outage \/ Recovery

ConfigSpec == ConfigInit /\ [][ConfigNext]_configVars

\* The node runs and reboots every two hours; outages end, and the ping
\* server answers.
ConfigFairSpec ==
  /\ ConfigSpec
  /\ WF_configVars(NodeNext) /\ SF_configVars(SysReboot)
  /\ WF_configVars(Recovery)
  /\ WF_configVars(place = "pinging" /\ Deliver)

-----------------------------------------------------------------------------
(* Properties. *)

\* A configuration that was stored from a message survives restarts anywhere
\* until the next one is stored: flash and RAM have it except while that one is
\* being saved.  It may be lost when the flash fails, as a failing read looks
\* like a missing record, and when a firmware with another fourth entry
\* starts, which takes the whole record for missing (init_config_nvs,
\* has_flash_config, save_apn_config).
AcceptedSurvives ==
  flashFaults = 0 /\ accepted # None /\ ~ replaced =>
    /\ nvs # None /\ nvs.list = accepted
    /\ place \notin {"boot", "saveping", "saveloop"} => config.list = accepted

\* Whatever was configured before, failing writes and refused or stale
\* messages included, flash ends up with what the operator wants.
Configured == <>[](nvs # None /\ nvs.list = wanted)

\* ... and the node comes back to its main loop on a network that is listed,
\* even when no network of the operator's list works.
Connected ==
  []<>(place = "loop" /\ active \in Range(config.list) \cup {compiled})
=============================================================================
