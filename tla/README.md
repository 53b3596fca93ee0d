# Verification of the air quality sensor node

TLA+ modules, TLC configurations and TLAPS proofs for the software of this
repository: the firmware of the sensor node (`Firmware/src`, Zephyr, C) and the
server that collects its measurements (`server`, Go). All paths below are
relative to `src/`.

## The system

```
 sensors: OPC-N3  ADS124S08/AFE-3  ChipCap2   GPS (UART ISR + thread)
                 \       |        /          /
                  main loop (main.c) -- watchdog -- NVS config (config.c)
                     |  socket API            \
              n2_offload.c, at_commands.c      FOTA (fota.c, flash.c, MCUboot)
                     |  rings, semaphores
              comms.c: URC thread, MAX14830 reader thread
                     |  UART
              SARA N2 modem ... network ... Horde
                                              |  stream / UDP / fetch
                        server listeners -> calculate -> persist -> log
                                         -> websocket broker -> circular -> MQTT
```

| Component | State | Operations | What is hard | What makes it correct |
|---|---|---|---|---|
| UDP socket layer (`n2_offload.c`, `at_commands.c`) | `sockets[]`, `next_free_port`, `mdm_sem` | socket, close, connect, poll, recv(from), send(to), `receive_cb` | main and URC thread interleave; late, lost and misattributed answers; failing closes; modem restarts | every call returns and gives the semaphore; `sockets[]` and the modem agree; datagrams reach the right socket, in order, and is announced |
| Modem link (`comms.c`, `max14830.c`) | two ring buffers, two counting semaphores, the URC state of the input | `comms_handle_char`, `modem_read`, `modem_write`, URC thread, restart | two producers/consumers at different priorities, full buffers | no notification is cut or merged; the answer stream is complete |
| Node configuration (`config.c`, `config_message.c`) | RAM configuration, NVS copy, the APN in use | init, select APN, decode a configuration message | power loss between RAM and flash, a failing write, unreachable APNs | the fallback entry is never lost; what was acknowledged survives a restart |
| Main loop (`main.c`) | sockets, FOTA counter, uptime, watchdog | one iteration | errors at every call, watchdog against long operations | the node sends or restarts, always again |
| Firmware update (`fota.c`, `flash.c`, `fota_tlv.c`) | image banks, block transfer | report, download, reboot, confirm | lost blocks, time-outs, power loss, revert | only a complete image is requested; a bad one is reverted |
| GPS (`gps.c`, `gps_cache.c`, `gps_std.c`, `nmealib.c`) | `gps_fix`, `current` | ISR updates, thread copies, main copies | torn and stale copies | a sample is one fix |
| Particle, gas and climate sensors (`opc_n3.c`, `ads124s08.c`, `chipcap2.c`, `messagebuffer.c`) | last samples, OPC status | sample, encode | bus errors, busy device, stale samples | a sample is marked valid only if it is |
| Websocket broker (`server/pkg/pipeline/stream`) | client map, queues, frames | mainLoop, register, unregister, publish, list, read and write loops | goroutines, channels closed from two places, full queues | no panic, no blocking, every client gets messages in order |
| Server pipeline (`server/pkg/pipeline`, `listener`, `store`, `model`) | calibration cache, database, ring | listeners publish concurrently | unsynchronised cache, failing inserts, lost connections | a message is calculated with its device's calibration |
| Fetch and calibration import (`server/cmd/aq`) | `since`, `until`, database | page backwards | crash between pages, equal timestamps | after a run the backlog is in the database |

`PROJECT.json` lists every part of the repository, the ones that are left out
with the reason; see also "Not modelled" below.

## The modules

| Part | Modules | Proofs |
|---|---|---|
| socket layer | `N2Sockets`, `UdpSockets` (abstract), `N2SocketsMC` | `N2SocketsProofs` |
| decoders of the modem's answers | `AtCommands` | `AtCommandsProofs` |
| rings, URC thread, UART driver | `ModemLink` | `ModemLinkProofs` |
| networks and configuration | `NodeConfig`, `NodeConfigMC` | `NodeMainProofs` |
| firmware update | `Fota` | `FotaProofs` |
| GPS | `Gps` | `GpsProofs` |
| sensors, main loop, watchdog | `Sensors`, `NodeMain` (extends it) | `NodeMainProofs` |
| listeners, fetch, calibration cache, store | `Server`, `ServerMC` | `ServerProofs` |
| websocket broker | `StreamBroker` | `StreamBrokerProofs` |

How they fit together:

- `N2Sockets` takes the modem's answer to a command to be one record.
  `AtCommands` has the tokens of the answers and shows that a decoder may be seen
  that way (`RightAnswer`, `OneAnswerEach`); `ModemLink` has the ring buffers below
  both and shows that notifications get through whole and in order.
- `UdpSockets` is what the socket layer promises an application; `N2Sockets`
  implements it while answers come in time.
- `NodeMain` composes the loop of `main()` with `Sensors`, time and the watchdog.
  A socket call, an update check and the choice of a network each take time,
  succeed, fail or reboot there; what they do inside is in `N2Sockets`, `Fota` and
  `NodeConfig`, which in turn see the rest of the node as "the main loop, which
  reboots after two hours".
- `Gps` shows how a fix gets into a sample, `Sensors` the same for the other
  sensors; `NodeMain` sends the sample.
- `Server` ends where a message is stored, `StreamBroker` begins where the
  pipeline hands it to the broker.

Each module keeps to recursive functions and library operators, so that it can
be proved about. Properties are stated at the end of a module, theorems in the
module beside it; those of the configuration, which `main()` sets up, are with the
ones of the main loop, for which `NodeConfig` has names that differ from those of
`NodeMain`. Definitions marked "mutated" are plausible bugs; they are used
to see that every property can be violated by one.

## N2Sockets: the UDP socket layer

| Module state | Code |
|---|---|
| `id`, `in_use`, `connected`, `local_port`, `incoming_len` | the fields of `sockets[]` (`n2_offload.c:33-44`), one function per field |
| `next_free_port`, `mdm_sem` | the globals of these names; the binary semaphore is its count |
| `main` | where the main thread is: idle, in the wait loop of `offload_recv`, or waiting for the answer to the AT command named by `main.pc` |
| `urc` | the URC thread: reading, or in `receive_cb` with the parsed number |
| `urcq`, `rx` | `urc_rb` and `rx_rb`, one element per notification or answer |
| `held` | descriptors the application has and has not closed (no caller looks at the result of `close`) |
| `outdated` | history: slots that were in use when the modem was last restarted |
| `wire`, `cmds`, `mport`, `mqueue` | external: serial line in both directions, the modem's sockets and their unread datagrams |

Every socket call is two actions, `...Call` (take `mdm_sem`, write the command)
and `...Return` (decode the answer, change `sockets[]`), because the thread
blocks in between and the URC thread runs. Each path of a return gives `mdm_sem`
back by itself, as in the code. The paths that take the semaphore and return
before a command are one step each (`EarlyReturn`): no free slot, nothing to
read, no remote address, an address `inet_ntop()` refuses, and `poll()`.
`DecodeInput` takes
whatever answer is oldest, or gives up: immediately when no answer can come any
more, and at most `MaxLate` times although one is still under way -- the answer
then stays for the next command, as nothing flushes `rx_rb`. `MainRuns` encodes
the priorities: the URC thread is cooperative (-9) and main is preemptible, so
main only runs while the URC thread waits for input or for the semaphore.
`modem_restart()` is called by `config.c` where the functions that open sockets
have returned: what they opened is closed, or its close was refused, or the
descriptor was dropped with its socket open, as by a ping that cannot be encoded
(`Drop`, `main.c:153-156`). `RestartCall` starts the ports anew and leaves
`sockets[]` as it is, so such slots stay in use with their ports and numbers.

An answer is one record: the character-level decoders are represented by what
they extract. The argument checks that return before any state changes are left
out. `incoming_len` counts notifications instead of bytes; the code only
compares it with 0.

Runs (module `N2SocketsMC`, two slots: enough for a slot that leaks and one that
is reused, for two descriptors that must differ, and for a modem number that
changes owner):

- `N2Sockets_timely`: no faults, up to three `socket()` calls between restarts,
  two unread datagrams per socket and two payloads. `ModemAgreement`,
  `NoPhantomData`, and `ImplementsUdpSockets`, the refinement of `UdpSockets`: the
  mapping puts the datagram of an answer under way back in front of the modem's
  queue.
- `N2Sockets_faults`: one late answer, one lost command, refused closes, dropped
  descriptors, one unread datagram. `HeldPortsDistinct`, and under fairness
  `CallReturns` (socket calls and the callback; a path that forgets its give, an
  early return for example, leaves the URC thread waiting for good) and
  `EventuallyReadable`. One
  modem socket number is enough here: the two slots must then fight for it. One
  unread datagram is the case the comment in `nsorf_eol` relies on; see "What the
  models show of the code" for more.

Fairness (`Fairness`): the waiting decoder, the reader thread, the URC thread
and the modem each keep going (weak fairness). Decoders have time-outs, the
reader polls in a loop, the URC thread outranks main. Nothing makes the
application call or the network send.

Proved (`N2SocketsProofs`) for all values of the constants, with late and lost
answers, refused closes and dropped descriptors: `TypeCorrect` and
`PortsDistinct`. `HeldPortsDistinct` alone is not inductive: a new socket gets
`next_free_port`, so the invariant `IInv` adds that the ports of all slots in use
that are not `outdated` are below it (`PortsBelowNext`), that a call under way is
the one that holds `mdm_sem` (`SemReleased`), and, while `socket()` waits, that the
slot it fills is free and has that very port. A restart resets the counter; what
is in use then becomes `outdated`, and such a slot is no descriptor again, as
nobody can close it. A slot that leaked before the restart can have the port of
a later descriptor; its modem socket is gone.

Proved for any number of slots, modem sockets, datagrams and restarts, while
answers come in time, closes succeed and no descriptor is dropped (`Timely`:
`MaxLate`, `MaxLost`, `CloseMayFail` and `MayDrop` are off; with a late OK the properties are false, see below):
`TablesAgree`, `NothingPhantom` and the refinement, `SocketsImplementApi`. They share
the invariant `TInv`, which has a part for each thing that must agree:

- `Exchange`: the line is quiet between calls, and during one holds the command
  or its answer, not both; an answer says what the modem has done
  (`ReplyFits`). This is what a late answer breaks.
- `Tables` and `NoneLost`: `sockets[]` against the modem's table at every point of a
  call; a modem socket belongs to a descriptor or to the call under way.
- `Queues`: the modem holds datagrams for open sockets only, of their port.
- `Notifications`: one for a closed socket is ahead of the answer to `close()`,
  and the URC thread, which outranks main, has dealt with it before the next call
  can be given the same number.
- `Announced`: `incoming_len`, the notifications on the line, in the ring and in
  the callback (`Pending`) together are at most what the modem holds, plus the
  datagram of an answer under way.

A step of the refinement is shown action by action (`RefinementStep`): a return of
`socket()`, `recvfrom()` or `close()` and an arriving datagram are steps of
`UdpSockets`, everything else stutters. The lemmas before them are about the line:
what sending, delivering and removing an element does to the oldest answer, to
the commands and to the number of notifications of a socket.

## StreamBroker: the websocket broker

| Module state | Code |
|---|---|
| `registered`, `closed`, `send` | keys of `Broker.clients`, clients whose channel is closed, channel buffers |
| `conn`, `reader`, `writer`, `left`, `last` | the websocket and the two goroutines of a client; `left` is what the inner loop of `writeLoop` still has to receive |
| `registering`, `broadcast`, `request` | senders blocked on `register`, the buffers of `broadcast` and `list` |
| `loop` | `mainLoop`: in its select, or inside one of the two loops over the map |
| `lister`, `listed` | a goroutine in `ListClients` |

`mainLoop` takes one action per select case and one per iteration of the inner
loops, because the write loops run between iterations; Go's iteration over the
map is an arbitrary order. Messages are numbered modulo `Modulus`; queue
capacities are constants (256 and 64 in the code), 1 or 2 in the runs, so that
full queues are common.

Run `StreamBroker`: one client that connects, fails, falls behind and leaves at
any time, with a lister. `RegisteredOpen` (no send on or close of a closed
channel), `FrameNeverBlocks`, `InOrder`; and under fairness `BrokerResponsive`,
`RemovedDisconnects`, `DeadClientEvicted`. A second client adds states and no
case to the safety properties, which are proved for any number of them.

Fairness: goroutines are scheduled; select chooses at random among ready cases
(strong fairness of single cases); reads and pings on a closed websocket fail.
`PublishFairness`, that sensors keep reporting, is used for `DeadClientEvicted`.

Proved (`StreamBrokerProofs`): `TypeCorrect`, `NoClosedChannel`,
`FramesComplete`, `MessagesInOrder`. The invariant adds `OnceRegistered`, that a client is handed to
the broker before it can be in the map and only once, without which a removed
client could be registered again with its channel closed.

## Fota: the firmware update

| Module state | Code |
|---|---|
| `pc` | where the node is: MCUboot, `main()` before `fota_init`, inside `fota_run`, `fota_report_version` or `fota_download_image` (before and after `sendto()` and `connect()`, whose failures close the socket by themselves), or the main loop |
| `bank0`, `bank1`, `confirmed`, `pending` | the two image slots of MCUboot and its trailer (external) |
| `buf` | what `dfu_ctx` of `flash.c` buffers before it writes |
| `total_size`, `current` | the local of that name, and `block_ctx.current` |
| `located` | whether `resp` holds the endpoint |
| `sockets` | descriptors `fota.c` holds |
| `asked`, `answers`, `blocks` | request and answers under way (external) |

An image is the sequence of its blocks, so that a missing, duplicated or stale
block makes a different image. Of the TLV answer only `scheduled_update` and the
endpoint matter. The node may restart in any state; failing calls, lost
messages, strays and restarts share the bound `MaxFaults`. Neither tokens nor
message ids are compared in `fota.c`, so `StrayAnswer` delivers any block, or an
empty answer, after which `resp` is uninitialised: `Decision` is then any of its
outcomes. The history variable `strayed` records that. After a stray the node
may request a wrong image; MCUboot refuses it, and the update starts over.

The server tells a node with the old image to update, and may tell one with the
new image to install it again, also while that image is on trial (`Verdict`).
Nothing in the code refuses the second download: `main()` ignores the result of
`fota_init()` (`main.c:217`) and the first block erases the other bank
(`flash.c:35`), which is the image MCUboot would go back to. The history variable
`again` records that it was scheduled; `FallbackKept` claims the fallback until
then, and `Upgraded` that the node ends up with the new image all the same.

Run `Fota` (four blocks, a buffer of two, four faults: the buffer fills twice,
and a failed download, a failed confirmation and a failed request fit one
behaviour): `SocketsClosed` (the failures of `sendto()` and `connect()` are steps of
their own), `UpgradeComplete`, `FallbackKept`, and under fairness `Upgraded`.
Fairness: the node runs, the server answers and eventually
schedules the update, and the node reboots after two hours (`main.c:348-356`):
strong fairness, since it is only looked at between two runs of `fota_run()`.

Proved (`FotaProofs`): `TypeCorrect` and `NoSocketLeak` for all behaviours;
`CompleteImage` and `FallbackIntact` for images and buffers of any length until an
answer strays, the latter also until a download is scheduled during the trial. The invariant `Clean` says that at most the answer to the current
request is under way (`ReportChannel`, `BlockChannel`), and that bank and buffer
together are the prefix of the image of length `total_size` (`Progress`); the
lemma `BlockWritten` shows that `write_firmware_block()` appends to that
concatenation whatever the buffer does.

## NodeConfig: networks and configuration

| Module state | Code |
|---|---|
| `config`, `nvs` | `CURRENT_APN_CONFIG` and the record in flash; the three entries the operator sets are one value, `list` |
| `active`, `slot` | `CURRENT_APN_BUFFER` with `CURRENT_COAP_BUFFER`, and `i` of `select_active_apn()` |
| `compiled` | the fourth entry of the firmware that runs; `Upgrade` changes it |
| `inbox`, `up`, `wanted` | messages, networks and the operator (external) |
| `accepted`, `replaced` | history: the last list stored from a message; whether another fourth entry was compiled in since |

Saving is an action of its own (`Save`), because a restart may come between the
change in RAM and the write. A write or read of the flash may fail `MaxFlash`
times, and no caller of `save_apn_config()` looks at its result.

Run `NodeConfig` (five networks, one of them dead; three lists, one all dead;
two firmware versions; two faults, one failure of the flash, two changes by the
operator): `AcceptedSurvives`, and under fairness `Configured` and `Connected`. Fairness: the node runs, it reboots after two hours
(strong, as above), outages end and the ping server answers.

`init_config_nvs()` copies the list of the record and not its fourth entry
(`config.c:167-178`). When that entry differs from the compiled one the whole record
counts as missing and the defaults are stored over the operator's list
(`config.c:142-155`). `AcceptedSurvives` therefore ends with such an upgrade
(`replaced`) or a failure of the flash, and with nothing else; `Configured` says
that the operator gets the wanted list into flash again after both.

Proved (`NodeMainProofs`): `ConfigTypeCorrect`, and `AcceptedKept`, whose induction
(`Stored`) needs that a record is found after a restart: while neither of the two
has happened its fourth entry is the compiled one. That the configuration in RAM
has the compiled entry is a lemma (`CompiledFallback`).

The comment at `main.c:175` says that a message with other parameters "will force
a reboot"; the code saves it and goes on, so that it takes effect at the next
restart. This is visible in `Save` and has no run of its own.

## ModemLink: rings and URC thread

| Module state | Code |
|---|---|
| `rx_rb`, `rx_sem`, `urc_rb`, `urc_sem` | the rings and semaphores of `comms.c` |
| `prev`, `in_urc` | the static variables of `comms_handle_char()` |
| `buf`, `callback` | the line the URC thread assembles, and its call of `receive_cb` |
| `main` | whether main holds `mdm_sem`, and whether it is inside `modem_read()` |
| `wire`, `due` | what the modem sends (external) |
| `called`, `overrun` | history: the calls, and whether a ring was ever full |

A character stands for a part of a line. `ReadFromRxFifo` is the reader thread of
the driver with `comms_handle_char()`, which it calls for every character it
finds (`max14830.c:216-247`). Reader and URC thread are cooperative, so that one
character and one iteration are atomic; main only runs while the URC thread
waits (`MainRuns`), and is interrupted between `k_sem_take` and `ring_buf_get`.
Sending blocks until the FIFO of the chip took the command (`MaxSend`).

Run `ModemLink`: three notifications and one command, rings of 8 and 4 places for
lines of 6 and 3 parts, so that both can be full; in the code (255 and 64 bytes)
about 14 and 4 notifications fit. `SemaphoresCount` holds for full rings as well;
`CalledInOrder` (each notification once, in order and whole) and, under fairness,
`AllCalled` until a ring was full. Fairness: the threads run, and a decoder ends,
by its answer or its time-out.

Proved (`ModemLinkProofs`, for all sizes): `TypeCorrect`, `CountsMatch` and
`CallsInOrder`. That `rx_sem` and `rx_rb` agree needs the character of main between
the two calls (`main`) to be counted, and the limit of the semaphore to be the size
of the ring. `CalledInOrder` needs `OInv`: while no ring was full, `buf`, `urc_rb` and
the part of the line on the wire that `comms_handle_char()` is still going to copy
are, one after the other, whole lines (`WholeLines`), whose numbers rise without a
gap from the last call to the last notification sent (`Numbered`). A character that
is copied or taken leaves this sequence as it is (`PassedOn`), a new line is added
to its end (`LineAdded`), and the end of a line in `buf` takes one from its front
(`LineRead`).

## AtCommands: the decoders

| Module state | Code |
|---|---|
| `rx` | `rx_rb` with what is still on the line |
| `cmd`, `rb`, `prev`, `is_urc` | the command whose decoder runs, and the variables of `decode_input()` |
| `ctx` | the context of the callbacks and the results they fill in |
| `first`, `read` | history: the first token left on the line when `cmd` was written, and how many ends of answers its decoder has read |
| `answer`, `aligned` | history: what the modem answered to `cmd`, and whether no earlier answer, and no part of a line, was left when it was written |

A character is a token: OK, ERROR, a name with its plus sign, a number, or an
octet of data. The callbacks for a character and for the end of a line
(`CharCb`, `EolCb`) have one operator per command. A notification may come before,
between and after the lines of an answer; an answer may still be under way at the
time-out, and stays in `rx` then.

Run `AtCommands`: three commands of any kind, one notification in each answer, one
late answer. `RightAnswer`: a decoder that finds nothing left of an earlier answer,
and no part of a line, returns the modem's verdict and values. `OneAnswerEach`: a
decoder stops at the first end of an answer it comes to, its own or one that an
earlier decoder left; it passes none by and takes nothing of the next, so that no
more answers wait than commands timed out before theirs. A decoder that begins
with the second half of a line's end runs two lines together and is left out. Two
commands are enough for an answer that is left over and its effect on the next
decoder; the third is needed for the rest of a line. A command that the modem
does not answer may time out in the middle of a notification, of which only the first
half came in time. The next decoder then begins inside that notification, sees no
plus sign, and takes its numbers for results (for the socket number of `AT+NSOCR`,
say). Nothing in the code prevents this; `aligned` leaves it out.

The answer to `AT+CGSN` begins with a plus sign like a notification, so its decoder
takes every line; the node asks for it before any socket exists, when no notification comes.

Proved (`AtCommandsProofs`), for any number of commands, notifications, late
answers, time-outs and octets of data: types, `OneAnswerEach` and `RightAnswer`.
The second has an upper and an exact part. Only an answer adds an end of an answer
to the line and no decoder leaves one half read (`Waiting`; `Ends` counts them). A
decoder has read an end only when it is the line it reads now (`Stops`), because an
end is always a line of its own in what is left (`Framed`), also where a time-out
has cut. `RightAnswer` needs the invariant `Unmixed`. What is left in `rx` is
`Trailing`: blank lines and whole notifications (`Noise`) behind the last end of an
answer, whose first line alone may have lost its beginning to a time-out. An aligned
decoder goes through phases: noise and then the information line (`BeforeLine`), the
line up to some token (`InsideLine`), noise and then OK or ERROR (`BeforeEnd`), that
end up to some token (`InsideEnd`), or noise alone when no answer has come
(`InNoise`). A token of noise leaves the context of the callbacks as it is
(`NoiseRead`), a token of a line adds its part to the context (`LineRead`, one lemma
for each command), the callback at the end of the line turns the parts into the
results of the answer (`LineEnds`), and the callbacks that see the tokens of OK and
ERROR change none of them (`Unheard`). A line is told from noise by its first token
only, which is why no decoder may begin in the middle of one.

## Gps: from the receiver to the sample

| Module state | Code |
|---|---|
| `nmea`, `fix` | `nmea_buffer` (`gps.c`), `gps_fix` (`gps_cache.c`), filled by the interrupt handler |
| `current`, `retries`, `gps` | `current`, `gps_retries_before_fix` and the GPS thread |
| `sample`, `main` | the fix in main's sample, and whether main is in the copy |
| `sky`, `acquired`, `now`, `heard` | the receiver and its reception (external) |

A sentence is a sequence of tokens; any one of a sentence may be lost, its
checksum or its line feed too, so that two sentences run into one another
(`nmea_valid()`, `nmea_parse()`). Positions and times are the same numbers, so
that a mixed fix is seen. The copies are two steps each, the time and then the
position: the handler interrupts both, the thread interrupts that of main. No lock
excludes the handler. Latitude and longitude are one number, so that a position
torn between the two inside `memcpy()` is not seen.

`NeverBackwards` forbids that a sample gets an older time or position, or one that
was never sent. It lets them be zeroed, which is what `aq.proto:25` says happens
without a fix. The code does not do it: it goes on sending the last fix.

Run `Gps` (two fixes, two lost tokens, the receiver needs two rounds for a fix
and is reset after the second without one): `RightFix`, `SampleOrdered`,
`NeverBackwards`, and under fairness `FixReachesSample`. Two fixes are enough for
a torn one. Fairness: the receiver is never silent, the thread's sleeps end, and
main samples again and again -- strong fairness, as it is interrupted; `Reports`
of `NodeMain` says that it does. A receiver that needs longer than the limit (ten
minutes) is reset for ever; `GpsAssumption` excludes it.

Proved (`GpsProofs`), for any number of fixes and lost tokens, any limit and any
buffer that takes the longest sentence: `TypeCorrect`, `CacheIsOneFix`,
`PositionAsNew` and `SamplesForward`. The invariant has three parts.

- `Decoding`: the cache is one fix, none later than the receiver's, and what is
  left in `nmea_buffer` cannot turn into another. The sum is the set of tokens
  that occur an odd number of times, which is what an exclusive or tells apart.
  Losing a token of the content therefore changes the sum by exactly that token
  (`LossChangesSum`): the sentence is not valid. Losing the sum or one of the ends
  leaves a sentence that is not valid or is decoded as it was sent: without the
  star the check is skipped (`nmealib.c:81`) and the sum is read as part of the last
  field, which the decoders read as the same number.
- `Waits`: without its line feed a sentence stays in the buffer and the next one is
  appended. What waits is at most a carriage return (`Short`), has an end before
  its dollar (`Headless`), so that nothing appended makes it valid, or is the
  sentence itself up to its star, not older than the cache (`Kept`): its body ends
  there whatever is appended, and it is decoded when the next line feed comes.
- `Copying`: `sample` is not newer than `current`, nor that than the cache, field by
  field, and outside of the thread's copy the position of `current` is as new as
  its time, because both copies take the time first.

That the buffer takes a whole sentence (`BufferSize >= 12` tokens;
`MAX_NMEA_BUFFER` is 254 and the longest sentence has 82 characters) is assumed in
the module: a buffer that overran within every sentence would lose all of them.

## Sensors and NodeMain: the main loop

| Module state | Code |
|---|---|
| `pc`, `tries`, `fota_interval` | where `main()` is, `i` of the ping, `fota_interval` |
| `uptime`, `sinceFeed` | `k_uptime_get()`; the time since the watchdog was set up or fed |
| `sockets`, `leaked`, `refused` | slots in use; history: whether a ping that could not be encoded left one of them, and how many closes the modem refused |
| `stage`, `command`, `polls` | the sensor and the OPC command under way, `retryCount` of `OPC_command()` |
| `fan`, `laser`, `mux`, `converted` | the devices: the OPC-N3's switches, the converter's input and its last result |
| `histogram`, `opcSample`, `afe`, `cc2` | the static buffers, each value named by where it comes from |
| `calm`, `sent`, `faults` | whether the network answers, nobody sends a configuration and no update is due; history |

A value is what it was read from: this cycle, an earlier one, a failed transfer,
nothing. Every transfer may fail, the counter may be busy up to its limit, a
socket call takes any time up to `CallMax`, and a restart is possible wherever the
code calls `sys_reboot()`, and wherever the watchdog expires. A reset clears RAM
and not the sensors. Each `close()` may be refused by the modem, whereupon the slot
stays in use (`n2_offload.c:90-94`) and nobody looks at the result (`main.c:182`,
`191`, `346`); without a free slot `socket()` fails and the code goes the way of any
other failure. A message with other parameters does not reboot the node.

Run `NodeMain` (two gas channels, one poll; times of a few units that add up to
the window exactly, two messages per update check, a reboot after a few
iterations, three slots): `IterationFed`, `UpdateChecked`, `SocketsBack`, `OwnReadings`,
`SwitchedOff`, and under fairness `Reports`. Two channels are enough for a channel
that gets the reading of another; the exact sum makes any sleep that is left out
of `Iteration` visible. The assumption `Iteration <= Window` is what the constants
of the code fulfil as long as a socket call takes at most `CallMax`; the calls
before the loop and an update check have no such limit (`main.c:246`, `335`).
Fairness: the processor runs main, and the watchdog does not stop.

Run `NodeMain_valid` (violation): `ValidMeansGood`, see the findings.

Proved (`NodeMainProofs`, for all times, limits and channels): `TypeCorrect`,
`LoopFed`, `ChecksForUpdates`, `SocketsGivenBack`, `ReadingsOfThisCycle`,
`LeftSwitchedOff`. The invariant has one part for each: `Timed` bounds `sinceFeed`
at every place of the loop by what was spent up to it, for the sampling by the
commands and polls and channels that are done; `Counted` relates `sent`,
`fota_interval` and the place; `Opened` the slots, what was refused and the place; `Sampled` says for
every stage which values are already those of this cycle; `Switched` which of fan
and laser may be on.

## Server: how messages get into the database

| Module state | Code |
|---|---|
| `archive` | the messages Horde keeps (external) |
| `imported`, `rows` | the tables `cal` and `messages` |
| `up` | which of the processes `aq run` and `aq fetch` run |
| `conn`, `stream` | the stream of the Horde listener and what is on its way in it |
| `cache` | `calibrationCache` and `lastCacheUpdate`; history: when the map was listed (`listed`), who has read it and not yet the time (`readers`) |
| `pub` | where each of the two publishing goroutines is in the pipeline, with its message |
| `fetch` | `since`, `until` and the page of `fetch` |
| `known`, `slowest` | history: calibrations that were there when run started; the longest load of the cache |
| `doubtful`, `fetch.whole` | history: messages that may get a second row; nothing was skipped |

The two listeners of `run` publish to one pipeline without a lock. `Find`, `Check`,
`List`, `Swap`, `Stamp`, `Again` and `Put` are the places where they interleave: the
map is read and later the time; the map is replaced and later the time, and while
one goroutine writes the time the other reads anything. The clock goes on at every
place. `calculate.New()` loads the cache in the same way before the listeners start
(`RunLoads`, `RunStart`). `fetch` is another process; it pages backwards, starts after
the newest stored row, and may be interrupted in between. A failing decode, load or
insert skips the message as in the code.

`CalibratedInTime` is what the unlocked cache promises. A calibration may be
missed for `minCacheUpdateDelay` and two loads (`Missed`): the load that the map
came from and that of the other goroutine, which wrote the time later. A message
between whose two reads the other goroutine replaced the map or wrote the time is
`excused`: it sees the old map and the new time, skips the refresh and is stored
without a calibration that may have been imported long before
(`calculate.go:85`, `calculate.go:100`). So is one whose load failed. With one load
instead of two the property is violated.

The comment at `fetch.go:53-55` doubts that the API has millisecond resolution and
says that a whole second must be added; the code adds one millisecond. What the
API makes of a time is the parameter `resolution` (`ApiTime`): both ends of an
interval are rounded down. `FetchComplete` holds for any resolution. `StoredOnce`
says which messages may get a second row (`doubtful`): those run had received and not
yet stored when a fetch started; those that come over the stream in the very
time up to which a fetch asks (`fetch.go:56`: both processes store them); and, with
a resolution of more than a millisecond, those that fall together with the first
time fetch asks for (`Seam`), the newest row among them.

Run `Server`: a behaviour keeps to one of seven instances of the bounds
(`ServerMC`), chosen at the start: `Paging` (three messages in three milliseconds,
pages of two, two fetches: a millisecond can be split by a page), `Interrupted`
(the same in two milliseconds, with one process stopped in the middle), `Coarse` (one
fetch from an API with a resolution of two milliseconds, over what run has stored),
`Caching` (both listeners, two packets over UDP, a calibration, a restart, a clock
that reaches three times the delay, so that loads can be slow), `TwoDates` (of two
calibrations of a device one is the right one), `TwoDevices` (a message of one device
loads the cache under one of the other) and `Mixed` (both processes).
`FetchComplete`, `StoredOnce`, `CalibratedInTime`, `RightCalibration`.

Run `Server_reconnect` (violation): `Reconnects`, under fairness of the
goroutines, see the findings.

Proved (`ServerProofs`, for all devices, dates, delays, page sizes and bounds):
`TypeCorrect`, `CalibrationRight`, `CalibrationInTime`, `NothingStoredTwice` and
`FetchLeavesNoGap`. The invariant of the first adds `Cached`, that what run knew when it started stays in the cache
through every replacement, also by an old copy, because nothing is deleted from
the table; and `Down`, that no goroutine of a stopped process is left to write to
the cache. `DatesAssumption` says that of several calibrations one is the newest
and one the oldest; a database has only so many. The invariant of the second
(`TInv`) says of the cache (`CacheTimely`) and of every place of a goroutine (`Timely`)
that a map holds all that was imported before it was listed, and that the time is
newer than the listing by two of the slowest loads at most.

The last two share the invariant `SInv`. What run has of the stream (`RunWill`) and
what fetch has on its page or will still ask for (`FetchWill`) are lists of
messages that will be stored. `StoredFirst`: unless it is doubtful, a message has
one row at most, is on neither list once it has one, and never on both; for that
the archive is in the order of its times (`Chronological`), the stream in the order
of the archive (`InTurn`), and a page is newer than what is asked for next
(`Paged`). `Gapless`: of what was there when a whole fetch started, everything has
a row or is on its list; `Whole` and `split` are exactly what that needs. That
there is a newest row at all is proved from the well-foundedness of the naturals
(`MaxOfBounded`).

## Runs

| Run | Module | Shows |
|---|---|---|
| `N2Sockets_timely` | `N2SocketsMC` | While every answer comes in time and closes succeed, sockets[] and the modem agree, incoming_len announces only what the modem has, and a descriptor hands out each datagram of its own port once and in order. |
| `N2Sockets_faults` | `N2SocketsMC` | With one late answer, one lost command, refused closes and dropped descriptors, every call still returns and the URC thread is never stuck on mdm_sem, early returns included; a descriptor has a port that no slot in use has, through restarts of the modem; and until an answer is late or lost every datagram is announced to poll(). |
| `StreamBroker` | `StreamBroker` | A client that connects, fails, falls behind and leaves at any time, and ListClients calls: mainLoop never uses a closed channel and always comes back to its select, frames never block, the client gets every message in order until it is dropped, is then disconnected, and is evicted if it died before it was registered. |
| `Fota` | `Fota` | Four blocks, a flash buffer of two, and up to four failing calls, lost messages, stray answers and restarts anywhere: the server may schedule the image again at any time. Without strays only complete images are requested, and the fallback of an image on trial is kept unless a download is scheduled during the trial; with them MCUboot may refuse what was requested, but the node always ends up with the new image confirmed. |
| `NodeConfig` | `NodeConfigMC` | Restarts anywhere, lost and refused messages, outages, failing flash and firmware versions with another fourth entry: a stored configuration survives while the flash works and the fourth entry stays the same, the operator gets the wanted configuration into flash, and the node comes back to its main loop although a whole list of networks may be dead. |
| `ModemLink` | `ModemLink` | Three notifications, with main holding mdm_sem and reading at any time: the semaphores count what is in the rings, full ones too, and until one was full each notification is delivered once, in order and whole. |
| `AtCommands` | `AtCommands` | Three commands of any kind with notifications before, inside and after their answers, an answer that is late and one that never comes: each decoder returns the modem's verdict and values, and takes exactly the first answer it comes to. |
| `Gps` | `Gps` | Sentences of four kinds with up to two lost tokens, reception that comes and goes, and copies interrupted anywhere: the cache is one fix, samples never go back to an older fix or to one that was never sent, and a fix reaches them. |
| `NodeMain` | `NodeMain` | The main loop with the sensors and the watchdog: dead, slow and failing devices, refused calls to close(), restarts at every socket call and by the watchdog, downloads of any length. |
| `NodeMain_valid` | `NodeMain` | A counter that answers with a right checksum is sent as invalid, one that never answers as valid. |
| `Server` | `ServerMC` | Ingest of the server: live stream and UDP through the unlocked calibration cache while the clock goes on, the paging fetch in another process with an API of one or two milliseconds resolution, imports, interruptions and restarts of both. |
| `Server_reconnect` | `ServerMC` | After an error of the stream the listener of Horde does not connect again. |

Deadlock is checked in every run but `N2Sockets_faults` (`recv()` waits for the
network), `ModemLink` and `AtCommands` (nothing more is sent or asked) and the two of
`Server` (all bounds are reached).

## Theorems

| Theorem | Module | Property |
|---|---|---|
| `TypeCorrect` | `N2SocketsProofs` | types |
| `PortsDistinct` | `N2SocketsProofs` | `HeldPortsDistinct` |
| `TablesAgree` | `N2SocketsProofs` | `ModemAgreement` |
| `NothingPhantom` | `N2SocketsProofs` | `NoPhantomData` |
| `SocketsImplementApi` | `N2SocketsProofs` | `ImplementsUdpSockets` (refinement) |
| `TypeCorrect` | `StreamBrokerProofs` | types |
| `MessagesInOrder` | `StreamBrokerProofs` | `InOrder` |
| `NoClosedChannel` | `StreamBrokerProofs` | `RegisteredOpen` |
| `FramesComplete` | `StreamBrokerProofs` | `FrameNeverBlocks` |
| `TypeCorrect` | `FotaProofs` | types |
| `NoSocketLeak` | `FotaProofs` | `SocketsClosed` |
| `CompleteImage` | `FotaProofs` | `UpgradeComplete` |
| `FallbackIntact` | `FotaProofs` | `FallbackKept` |
| `AcceptedKept` | `NodeMainProofs` | `AcceptedSurvives` |
| `ConfigTypeCorrect` | `NodeMainProofs` | types of `NodeConfig` |
| `TypeCorrect` | `GpsProofs` | types |
| `CacheIsOneFix` | `GpsProofs` | `RightFix` |
| `PositionAsNew` | `GpsProofs` | `SampleOrdered` |
| `SamplesForward` | `GpsProofs` | `NeverBackwards` |
| `TypeCorrect` | `ModemLinkProofs` | types |
| `CountsMatch` | `ModemLinkProofs` | `SemaphoresCount` |
| `CallsInOrder` | `ModemLinkProofs` | `CalledInOrder` |
| `TypeCorrect` | `AtCommandsProofs` | types |
| `OneEach` | `AtCommandsProofs` | `OneAnswerEach` |
| `RightResults` | `AtCommandsProofs` | `RightAnswer` |
| `TypeCorrect` | `NodeMainProofs` | types of `NodeMain` |
| `LoopFed` | `NodeMainProofs` | `IterationFed` |
| `ChecksForUpdates` | `NodeMainProofs` | `UpdateChecked` |
| `SocketsGivenBack` | `NodeMainProofs` | `SocketsBack` |
| `ReadingsOfThisCycle` | `NodeMainProofs` | `OwnReadings` |
| `LeftSwitchedOff` | `NodeMainProofs` | `SwitchedOff` |
| `CalibrationRight` | `ServerProofs` | `RightCalibration` |
| `CalibrationInTime` | `ServerProofs` | `CalibratedInTime` |
| `NothingStoredTwice` | `ServerProofs` | `StoredOnce` |
| `FetchLeavesNoGap` | `ServerProofs` | `FetchComplete` |
| `TypeCorrect` | `ServerProofs` | types |

All but the refinement and `NeverBackwards`, an action property, are of the form
`Spec => []P` (`ConfigSpec` for `NodeConfig`), with named conditions in front where
the text above says so: the invariant of the proof module, stronger than `P`, holds
initially, is kept by every action, and implies `P`.

## Findings

Two runs are expected to fail: they check what the repository says of the
program and the code does not do.

- `NodeMain_valid`: `opc_n3.c:318` compares the verdict of the checksum, `true` for a
  good one, with `OPC_OK`, which is 0. A good histogram is sent as invalid and a
  missing one as valid, against `common/protobuf/aq.proto:60`.
- `Server_reconnect`: after an error of the stream the listener's goroutine sends
  to a channel nobody receives from (`hordelistener.go:69`) and never reaches the
  reconnect it announces (`hordelistener.go:96`).

## What the models show of the code

Facts met while modelling. They are in the actions, and limit what the
properties claim.

- `nsorf_eol` (`at_commands.c:300`) always reports 0 bytes left, so `recv()` clears
  `incoming_len` (`n2_offload.c:208`): of two unread datagrams the second is not
  announced until a third arrives. `EventuallyReadable` therefore has one.
- A late OK for an earlier command makes `socket()` return a descriptor with the
  modem number -2 (`at_commands.h:30`, `at_commands.c:233`, `n2_offload.c:391`).
  `ModemAgreement` is therefore for answers in time.
- With a full `rx_rb`, `comms_handle_char()` returns before it updates `prev`
  (`comms.c:124`) and the next notification is not recognised, against
  `comms.h:10`. `CalledInOrder` and `AllCalled` hold until then.
- The non-blocking send of the answer to `ListClients` on an unbuffered channel
  skips clients (`broker.go:79`, `broker.go:99`).
- `recv()` waits without a limit (`n2_offload.c:249`); `main.c` and `fota.c` only call
  it after `poll()` or with `MSG_DONTWAIT`.
- A position stays in `gps_fix` after the reception is lost (`gps_cache.c:52`), and
  the receiver is only reset until its first fix: a node without a fix sends its
  last one, and not zeros as `aq.proto:25` says. `update_rmc` compares field 3,
  the latitude, with "A", so speed and track are never stored; `gsa.vdop` is read
  from the field of HDOP.
- The first histogram after power-on should be discarded (`opc_n3.c:29-31`) and is
  not. The `valid` of the converter is `~(...)`, true for every outcome.
- The comment at `main.c:348` says "once a day"; the limit is two hours
  (`config.h:18`). The comment at `main.c:175` says that a message with other
  parameters "will force a reboot"; the code saves it and goes on (`Save`).
- A fetch that is interrupted has stored the newest pages; the next one starts
  after them, and the gap stays (`fetch.go:56`, `fetch.go:109`). A page that splits a
  millisecond loses the rest of it. `FetchComplete` says when neither happens.
- If the API has a resolution of a second, as the comment at `fetch.go:53-55`
  supposes, every fetch asks for the newest row again and stores it twice.
- A goroutine that reads the map of the cache, and the time after the other has
  refreshed both, gives up without a calibration that is in the new map
  (`calculate.go:85-102`).
- The boot of a firmware with another fourth network entry discards the operator's
  configuration (`config.c:142-155`).
- A download that is scheduled while an image is on trial erases the one MCUboot
  would go back to (`main.c:217`, `flash.c:35`).
- A `close()` the modem refuses loses the slot until the next restart, as nobody
  looks at the result (`n2_offload.c:90-94`).
- A message over UDP has no `ReceivedTime` and gets the oldest calibration.
- `loadCalibrationData` keeps the last file of a device only
  (`calibration.go:24-102`).

## What stays with TLC

Liveness under fairness (and `ENABLED`) is out of reach of the provers used
here, as is induction over recursively defined data. Model-checked only are
therefore `CallReturns`, `EventuallyReadable`, `BrokerResponsive`,
`RemovedDisconnects`, `DeadClientEvicted`, `Upgraded`, `Configured`, `Connected`,
`AllCalled`, `FixReachesSample` and `Reports`. Every safety property that a run
checks and that holds is the subject of a theorem.

## Not modelled

- Board support, firmware build, hardware, enclosure, documents: no state that
  changes at run time, or external tools. `modem_init` runs before `main()`, and
  `wait_for_reset()` (`max14830.c:183-192`) polls the chip without a watchdog.
- Register access of the SPI and I2C drivers: bit layouts and delays. What a
  transfer yields or that it fails is in `Sensors`.
- The layout of messages: nanopb and generated protocol buffers, the CoAP and TLV
  texts, NMEA number formats. A decoding error is an outcome of the action that
  decodes. A failing `mb_encode()` is not modelled.
- The conversion of raw readings to concentrations (`server/pkg/model`,
  `calculate`): floating-point arithmetic without state. A NaN it yields cannot be
  marshalled and the broker drops the message (`broker.go:125`).
- The MIC listener, the MQTT and log stages of the pipeline, the circular buffer,
  whose lock is held while MQTT waits (`circularbuffer.go:34`), and the HTTP
  handlers of the web API other than the websocket: calls of libraries and of the
  database without an order of their own.
- The read-only and administrative commands of `aq`.

A hazard that no property covers has the reason in `PROJECT.json`.
