-------------------------------- MODULE Fota --------------------------------
(***************************************************************************)
(* The firmware update of the node: fota_run (fota.c) reports the version  *)
(* to the server, downloads a scheduled image block by block into the      *)
(* second flash bank (flash.c) and restarts; fota_init confirms the image  *)
(* that booted.  MCUboot, the CoAP block options and the server are        *)
(* external.  The node may restart at any point.                           *)
(*                                                                         *)
(* An image is the sequence of its blocks; the new one has blocks          *)
(* 1 .. N, the old one is the single block 0.                              *)
(***************************************************************************)
EXTENDS Integers, Sequences

CONSTANTS N,          \* blocks of the new image
          BufBlocks,  \* blocks that fit the buffer of flash_img
          MaxFaults   \* bound: failing calls, lost messages, restarts, strays

ASSUME FotaAssumption ==
  /\ N \in Nat \ {0} /\ BufBlocks \in Nat \ {0}
  /\ MaxFaults \in Nat

Prefix(n) == [i \in 1 .. n |-> i]
NewImage  == Prefix(N)
OldImage  == <<0>>
Nothing   == -1    \* no request under way
Report    == 0     \* the version report; 1 .. N ask for a block

\* What the answer to a report says of scheduled_update; an empty answer
\* (an acknowledgement) says nothing.
Reports == {"yes", "no", "empty"}

VARIABLES
  pc,         \* "boot": MCUboot; "start": ping and APN selection; "init":
              \* fota_init; "run": fota_run; "reporting", "reported",
              \* "download", "connecting", "block", "wait": inside it;
              \* "upgrade": do_reboot; "idle": main loop
  bank0, bank1,   \* the image that runs, and the second bank
  confirmed,      \* boot_is_img_confirmed()
  pending,        \* boot_request_upgrade() was made
  buf,            \* blocks in the buffer of dfu_ctx
  total_size,     \* payload accepted by this download, in blocks
  current,        \* block_ctx.current: the block to ask for
  located,        \* resp holds the endpoint of the image
  sockets,        \* descriptors fota.c holds
  asked,          \* request on its way to the server
  answers,        \* answers to reports that wait in the socket
  blocks,         \* block answers that wait in the socket
  scheduled,      \* the server has an update for old nodes
  strayed,        \* history: a duplicate, stale or empty answer arrived
  again,          \* history: an update was scheduled for an image on trial
  faults          \* counter for MaxFaults

flash == <<bank0, bank1, confirmed, pending>>
ram   == <<buf, total_size, current, located>>
net   == <<asked, answers, blocks>>
env   == <<scheduled, strayed, again>>
vars  == <<pc, flash, ram, sockets, net, env, faults>>

\* The type invariant; a restart leaves no descriptor behind.
TypeOK ==
  /\ pc \in {"boot", "start", "init", "run", "reporting", "reported",
             "download", "connecting", "block", "wait", "upgrade", "idle"}
  /\ bank0 \in {OldImage, NewImage}
  /\ bank1 \in Seq(0 .. N) /\ buf \in Seq(0 .. N)
  /\ confirmed \in BOOLEAN /\ pending \in BOOLEAN
  /\ scheduled \in BOOLEAN /\ strayed \in BOOLEAN
  /\ again \in BOOLEAN
  /\ total_size \in Nat /\ current \in 1 .. N /\ located \in BOOLEAN
  /\ sockets \in 0 .. 1
  /\ asked \in Nothing .. N
  /\ answers \in Seq(Reports) /\ blocks \in Seq(1 .. N)
  /\ faults \in 0 .. MaxFaults

Init ==
  /\ pc = "boot"
  /\ bank0 = OldImage /\ bank1 = <<>>
  /\ confirmed = TRUE /\ pending = FALSE
  /\ buf = <<>> /\ total_size = 0 /\ current = 1 /\ located = FALSE
  /\ sockets = 0
  /\ asked = Nothing /\ answers = <<>> /\ blocks = <<>>
  /\ scheduled = FALSE /\ strayed = FALSE /\ again = FALSE
  /\ faults = 0

Fault == faults < MaxFaults /\ faults' = faults + 1
NoFault == UNCHANGED faults

-----------------------------------------------------------------------------
(* Starting. *)

\* MCUboot (external): a requested image is tried if it is complete, and the
\* image before it comes back unless the new one was confirmed.
Bootable(image) == image \in {OldImage, NewImage}

Swap == bank0' = bank1 /\ bank1' = bank0

Boot ==
  /\ pc = "boot"
  /\ pc' = "start"
  /\ pending' = FALSE
  /\ IF Bootable(bank1) /\ (pending \/ ~confirmed)
       THEN Swap /\ confirmed' = ~pending
       ELSE UNCHANGED <<bank0, bank1>> /\ confirmed' \in {confirmed, TRUE}
  /\ UNCHANGED <<ram, sockets, net, env, faults>>

\* main() before fota_init().  Without any APN the node sleeps and restarts.
Start ==
  /\ pc = "start"
  /\ \/ pc' = "init" /\ NoFault
     \/ pc' = "boot" /\ Fault
  /\ UNCHANGED <<flash, ram, sockets, net, env>>

\* (mutated) the image is not confirmed
NeverConfirm == pc = "init" /\ pc' = "run" /\ UNCHANGED confirmed /\ NoFault
                /\ UNCHANGED <<bank0, bank1, pending, ram, sockets, net, env>>

\* fota_init(), whose result main() ignores.
FotaInit ==
  /\ pc = "init"
  /\ pc' = "run"
  /\ \/ confirmed' = TRUE /\ NoFault
     \/ ~confirmed /\ UNCHANGED confirmed /\ Fault
  /\ UNCHANGED <<bank0, bank1, pending, ram, sockets, net, env>>

\* Everything in RAM goes, the modem restarts too.
ClearRam ==
  /\ buf' = <<>> /\ total_size' = 0 /\ current' = 1 /\ located' = FALSE
  /\ sockets' = 0
  /\ asked' = Nothing /\ answers' = <<>> /\ blocks' = <<>>

\* Power loss, watchdog or sys_reboot() elsewhere.
Restart ==
  /\ pc # "boot"
  /\ Fault
  /\ pc' = "boot"
  /\ ClearRam
  /\ UNCHANGED <<flash, env>>

\* The main loop restarts the node every two hours ...
TimedReboot ==
  /\ pc = "idle"
  /\ pc' = "boot"
  /\ ClearRam
  /\ UNCHANGED <<flash, env, faults>>

\* ... and calls fota_run() every FOTA_COUNTER iterations.
NextRun ==
  /\ pc = "idle"
  /\ pc' = "run"
  /\ UNCHANGED <<flash, ram, sockets, net, env, faults>>

-----------------------------------------------------------------------------
(* fota_run() gives up: back to the main loop. *)

GiveUp == pc' = "idle"

\* close(sock): what waits in the socket is gone.
Close == /\ sockets' = sockets - 1
         /\ asked' = Nothing /\ answers' = <<>> /\ blocks' = <<>>

\* socket()
Opens == sockets' = sockets + 1 /\ UNCHANGED net

-----------------------------------------------------------------------------
(* fota_report_version() *)

\* Up to socket(): the report is encoded first.
OpenReport ==
  /\ pc = "run"
  /\ \/ pc' = "reporting" /\ Opens /\ NoFault
     \/ GiveUp /\ Fault /\ UNCHANGED <<sockets, net>>
  /\ UNCHANGED <<flash, ram, env>>

\* sendto()
SendReport ==
  /\ pc = "reporting"
  /\ \/ /\ pc' = "reported"
        /\ asked' = Report
        /\ UNCHANGED <<sockets, answers, blocks>>
        /\ NoFault
     \/ GiveUp /\ Close /\ Fault
  /\ UNCHANGED <<flash, ram, env>>

\* wait_for_response(): 60 s without an answer.
TimedOut(queue) == asked = Nothing /\ queue = <<>>

\* A time-out, an error of recvfrom(), or (after the close) an answer that
\* cannot be read.
ReportFails ==
  /\ pc = "reported"
  /\ \/ TimedOut(answers) /\ NoFault
     \/ answers # <<>> /\ Fault
  /\ GiveUp
  /\ Close
  /\ UNCHANGED <<flash, ram, env>>

\* (mutated) scheduled_update is not looked at
DownloadAlways(answer) == {"download"}

\* The answer, and fota_run()'s decision.  fota_run() does not initialise
\* resp: after an empty answer scheduled_update has any value.
Decision(answer) ==
  {next \in {"download", "idle"} :
     /\ answer = "yes" => next = "download"
     /\ answer = "no" => next = "idle"}

ReportAnswered ==
  /\ pc = "reported"
  /\ answers # <<>>
  /\ pc' \in Decision(Head(answers))
  /\ located' = (Head(answers) # "empty")
  /\ Close
  /\ UNCHANGED <<flash, buf, total_size, current, env, faults>>

-----------------------------------------------------------------------------
(* fota_download_image() *)

OpenDownload ==
  /\ pc = "download"
  /\ \/ /\ pc' = "connecting"
        /\ Opens
        /\ total_size' = 0 /\ current' = 1
        /\ UNCHANGED <<buf, located>>
        /\ NoFault
     \/ GiveUp /\ Fault /\ UNCHANGED <<ram, sockets, net>>
  /\ UNCHANGED <<flash, env>>

\* (mutated) a failing connect() returns without close()
ConnectLeaks ==
  /\ pc = "connecting"
  /\ \/ pc' = "block" /\ NoFault
     \/ GiveUp /\ Fault
  /\ UNCHANGED <<flash, ram, sockets, net, env>>

\* connect()
Connect ==
  /\ pc = "connecting"
  /\ \/ pc' = "block" /\ NoFault /\ UNCHANGED <<sockets, net>>
     \/ GiveUp /\ Close /\ Fault
  /\ UNCHANGED <<flash, ram, env>>

AskBlock ==
  /\ pc = "block"
  /\ \/ /\ pc' = "wait"
        /\ asked' = IF located THEN current ELSE Nothing
        /\ UNCHANGED <<sockets, answers, blocks>>
        /\ NoFault
     \/ GiveUp /\ Close /\ Fault
  /\ UNCHANGED <<flash, ram, env>>

\* write_firmware_block(): the first block erases the bank and the buffer,
\* the last one flushes; a full buffer is written before the block enters.
EraseFailed(first, stored) == stored   \* (mutated) nothing is erased
Erase(first, stored) == IF first THEN <<>> ELSE stored

WriteFirmwareBlock(b, first, last) ==
  LET bank   == Erase(first, bank1)
      held   == Erase(first, buf)
      full   == Len(held) = BufBlocks
      synced == IF full THEN bank \o held ELSE bank
      rest   == IF full THEN <<b>> ELSE Append(held, b)
  IN  /\ bank1' = IF last THEN synced \o rest ELSE synced
      /\ buf' = IF last THEN <<>> ELSE rest

\* A time-out, an answer that cannot be read, or a flash error, with the bank
\* erased already if it was the first block.
BlockFails ==
  /\ pc = "wait"
  /\ \/ TimedOut(blocks) /\ NoFault /\ UNCHANGED <<bank1, buf>>
     \/ blocks # <<>> /\ Fault /\ UNCHANGED <<bank1, buf>>
     \/ /\ blocks # <<>> /\ Fault
        /\ bank1' = Erase(total_size = 0, bank1)
        /\ buf' = Erase(total_size = 0, buf)
  /\ GiveUp
  /\ Close
  /\ UNCHANGED <<bank0, confirmed, pending, total_size, current, located,
                 env>>

\* coap_update_from_block() and coap_next_block(): the answer says which
\* block it is, and whether more follow.
IsLast(size) == size = N

ReceiveBlock ==
  /\ pc = "wait"
  /\ blocks # <<>>
  /\ LET b == Head(blocks)
     IN  /\ total_size' = total_size + 1
         /\ WriteFirmwareBlock(b, total_size = 0, IsLast(total_size + 1))
         /\ \/ /\ b < N
               /\ pc' = "block" /\ current' = b + 1
               /\ blocks' = Tail(blocks)
               /\ UNCHANGED <<sockets, asked, answers>>
            \/ /\ b = N
               /\ pc' = "upgrade" /\ current' = N
               /\ Close
  /\ UNCHANGED <<bank0, confirmed, pending, located, env, faults>>

\* do_reboot(): the node restarts also when the request fails.
DoReboot ==
  /\ pc = "upgrade"
  /\ pc' = "boot"
  /\ \/ pending' = TRUE /\ NoFault
     \/ UNCHANGED pending /\ Fault
  /\ ClearRam
  /\ UNCHANGED <<bank0, bank1, confirmed, env>>

-----------------------------------------------------------------------------
(* The server and the network (external). *)

Schedule ==
  /\ ~scheduled
  /\ scheduled' = TRUE
  /\ UNCHANGED <<pc, flash, ram, sockets, net, strayed, again, faults>>

\* A node with the old image is told to update.  One with the new image may be
\* told to as well, on trial or not, when the operator schedules it again.
Verdict ==
  \/ /\ answers' = Append(answers, IF scheduled /\ bank0 = OldImage
                                   THEN "yes" ELSE "no")
     /\ UNCHANGED again /\ NoFault
  \/ /\ scheduled /\ bank0 = NewImage /\ Fault
     /\ answers' = Append(answers, "yes")
     /\ again' = (again \/ ~confirmed)

ServerAnswers ==
  /\ asked # Nothing
  /\ asked' = Nothing
  /\ \/ /\ asked = Report
        /\ Verdict
        /\ UNCHANGED blocks
     \/ /\ asked # Report
        /\ blocks' = Append(blocks, asked)
        /\ UNCHANGED <<answers, again, faults>>
  /\ UNCHANGED <<pc, flash, ram, sockets, scheduled, strayed>>

Lose ==
  /\ asked # Nothing
  /\ Fault
  /\ asked' = Nothing
  /\ UNCHANGED <<pc, flash, ram, sockets, answers, blocks, env>>

\* An acknowledgement, a duplicate, or an answer meant for an earlier request:
\* types, tokens and message ids are not looked at.
StrayAnswer ==
  /\ Fault
  /\ strayed' = TRUE
  /\ \/ /\ pc = "reported"
        /\ \E a \in Reports : answers' = Append(answers, a)
        /\ UNCHANGED blocks
     \/ /\ pc \in {"block", "wait"}
        /\ \E b \in 1 .. N : blocks' = Append(blocks, b)
        /\ UNCHANGED answers
  /\ UNCHANGED <<pc, flash, ram, sockets, asked, scheduled, again>>

-----------------------------------------------------------------------------
NodeNext ==
  \/ Boot \/ Start \/ FotaInit \/ NextRun
  \/ OpenReport \/ SendReport \/ ReportFails \/ ReportAnswered
  \/ OpenDownload \/ Connect \/ AskBlock \/ BlockFails \/ ReceiveBlock \/ DoReboot

Next ==
  \/ NodeNext \/ Restart \/ TimedReboot
  \/ Schedule \/ ServerAnswers \/ Lose \/ StrayAnswer

Spec == Init /\ [][Next]_vars

\* The node runs, the server answers and will schedule the update; a node that
\* keeps coming back to its main loop gets two hours old.
FairSpec == /\ Spec
            /\ WF_vars(NodeNext) /\ SF_vars(TimedReboot)
            /\ WF_vars(ServerAnswers) /\ WF_vars(Schedule)

-----------------------------------------------------------------------------
(* Properties. *)

\* As long as each answer was the one asked for, only a complete image is ever
\* requested for the next boot, whatever was left in the bank by an earlier
\* download that failed or was cut off (fota_download_image,
\* write_firmware_block).
UpgradeComplete == pending /\ ~strayed => bank1 = NewImage

\* While an image runs on trial, a complete image is in the other bank, so that
\* MCUboot can go back to it, whatever failed, was cut off or reported again
\* meanwhile.  Only the server can spoil it: fota_run() is called although
\* main() ignores that fota_init() could not confirm, and a download that is
\* scheduled during the trial erases the bank (main.c:217, flash.c:35).
FallbackKept ==
  ~confirmed /\ ~strayed /\ ~again => bank0 = NewImage /\ Bootable(bank1)

\* Every way out of fota_report_version() and fota_download_image() closes its
\* socket, once: those before socket(), after sendto(), connect() or send()
\* failed, after a time-out, and after every error of the transfer.
SocketsClosed == pc \in {"run", "download", "upgrade", "idle"} => sockets = 0

\* The node ends up with the new image, confirmed, after any faults: a failed
\* download is repeated, a bad image is not booted, an image that could not be
\* confirmed is reverted and installed again (fota_run, fota_init, main).
Upgraded == <>[](bank0 = NewImage /\ confirmed)
=============================================================================
