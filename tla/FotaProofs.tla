----------------------------- MODULE FotaProofs -----------------------------
(***************************************************************************)
(* Theorems about Fota for every image length, buffer size and bound.      *)
(***************************************************************************)
EXTENDS Fota, TLAPS

\* One descriptor while fota_run() uses a socket, none otherwise.
SocketCount ==
  sockets = IF pc \in {"reporting", "reported", "connecting", "block", "wait"}
            THEN 1 ELSE 0

\* As long as nothing strays, at most the answer to the current request is under way.
\* (A report of an image on trial is answered "yes" only if it is scheduled
\* again.)
Allowed == confirmed = TRUE \/ again = TRUE

ReportChannel ==
  /\ pc # "reported" => answers = <<>>
  /\ pc = "reported" =>
       /\ asked \in {Nothing, Report}
       /\ \/ answers = <<>>
          \/ asked = Nothing /\ answers = <<"no">>
          \/ asked = Nothing /\ answers = <<"yes">> /\ Allowed

BlockChannel ==
  /\ pc # "wait" => blocks = <<>>
  /\ pc \notin {"reported", "wait"} => asked = Nothing
  /\ pc = "wait" => \/ asked = current /\ blocks = <<>>
                    \/ asked = Nothing /\ blocks \in {<<>>, <<current>>}

\* What was downloaded is a prefix of the image, wherever it is stored.
Progress == pc \in {"connecting", "block", "wait"} =>
  /\ current = total_size + 1
  /\ total_size > 0 => bank1 \o buf = Prefix(total_size)

Downloading ==
  pc \in {"download", "connecting", "block", "wait", "upgrade"} => Allowed
Downloaded  == pc = "upgrade" => bank1 = NewImage
Requested   == pending = TRUE => pc = "boot" /\ bank1 = NewImage
TrialIntact == ~ Allowed => bank0 = NewImage /\ Bootable(bank1)

Clean == /\ ReportChannel /\ BlockChannel /\ Progress
         /\ Downloading /\ Downloaded /\ Requested /\ TrialIntact

TypeInv == TypeOK /\ SocketCount

-----------------------------------------------------------------------------
(* Lemmas about the flash. *)

\* The images differ.
LEMMA ImagesDiffer == OldImage # NewImage
  <1>1. OldImage[1] = 0 BY DEF OldImage
  <1>2. NewImage[1] = 1 BY FotaAssumption DEF NewImage, Prefix
  <1> QED BY <1>1, <1>2

\* Both images are sequences of blocks.
LEMMA ImagesTyped == OldImage \in Seq(0 .. N) /\ NewImage \in Seq(0 .. N)
  BY FotaAssumption DEF OldImage, NewImage, Prefix

\* Appending the next block to a prefix gives the next prefix.
LEMMA PrefixAppend ==
  ASSUME NEW n \in Nat
  PROVE  Append(Prefix(n), n + 1) = Prefix(n + 1)
  <1> DEFINE s == Append(Prefix(n), n + 1)
  <1>1. Prefix(n) \in Seq(Nat) /\ Len(Prefix(n)) = n BY DEF Prefix
  <1>2. s \in Seq(Nat) /\ Len(s) = n + 1 BY <1>1
  <1>3. Prefix(n + 1) \in Seq(Nat) /\ Len(Prefix(n + 1)) = n + 1 BY DEF Prefix
  <1>4. \A i \in 1 .. n + 1 : s[i] = i
    BY <1>1, SMTT(30) DEF Prefix
  <1>5. \A i \in 1 .. n + 1 : Prefix(n + 1)[i] = i BY DEF Prefix
  <1> QED BY <1>2, <1>3, <1>4, <1>5

\* Facts about sequences that the next lemma uses.
LEMMA SeqFacts ==
  ASSUME NEW S, NEW s \in Seq(S), NEW t \in Seq(S), NEW b \in S
  PROVE  /\ <<>> \in Seq(S) /\ <<b>> \in Seq(S)
         /\ s \o t \in Seq(S) /\ Append(s, b) \in Seq(S)
         /\ s \o <<>> = s /\ <<>> \o s = s
         /\ s \o <<b>> = Append(s, b)
         /\ s \o Append(t, b) = Append(s \o t, b)
  <1>1. /\ <<>> \in Seq(S) /\ <<b>> \in Seq(S)
        /\ s \o t \in Seq(S) /\ Append(s, b) \in Seq(S)
    OBVIOUS
  <1>2. s \o <<>> = s /\ <<>> \o s = s OBVIOUS
  <1>3. s \o <<b>> = Append(s, b) OBVIOUS
  <1>4. s \o Append(t, b) = Append(s \o t, b) OBVIOUS
  <1> QED BY <1>1, <1>2, <1>3, <1>4

\* Appending an element keeps the type.
LEMMA AppendTyped ==
  ASSUME NEW S, NEW s \in Seq(S), NEW b \in S
  PROVE  Append(s, b) \in Seq(S)
  OBVIOUS

\* Bank and buffer together grow by the block, or start with it; with the last
\* block everything is in the bank (write_firmware_block).
LEMMA BlockWritten ==
  ASSUME NEW S, bank1 \in Seq(S), buf \in Seq(S),
         NEW b \in S, NEW first \in BOOLEAN, NEW last \in BOOLEAN,
         WriteFirmwareBlock(b, first, last)
  PROVE  /\ bank1' \in Seq(S) /\ buf' \in Seq(S)
         /\ bank1' \o buf' = Append(IF first THEN <<>> ELSE bank1 \o buf, b)
         /\ last => bank1' = bank1' \o buf'
  <1> DEFINE bank == Erase(first, bank1)
             held == Erase(first, buf)
             synced == IF Len(held) = BufBlocks THEN bank \o held ELSE bank
             rest   == IF Len(held) = BufBlocks THEN <<b>> ELSE Append(held, b)
  <1>1. bank \in Seq(S) /\ held \in Seq(S)
    BY SeqFacts DEF Erase
  <1>2. synced \in Seq(S) /\ rest \in Seq(S)
    <2> HIDE DEF bank, held
    <2> QED BY <1>1, SeqFacts
  <1>3. synced \o rest = Append(bank \o held, b)
    <2> HIDE DEF bank, held
    <2>1. bank \o held \in Seq(S) BY <1>1, SeqFacts
    <2>2. CASE Len(held) = BufBlocks
      <3>1. synced = bank \o held /\ rest = <<b>> BY <2>2
      <3>2. (bank \o held) \o <<b>> = Append(bank \o held, b) BY <2>1, SeqFacts
      <3> QED BY <3>1, <3>2
    <2>3. CASE Len(held) # BufBlocks
      <3>1. synced = bank /\ rest = Append(held, b) BY <2>3
      <3>2. bank \o Append(held, b) = Append(bank \o held, b) BY <1>1, SeqFacts
      <3> QED BY <3>1, <3>2
    <2> QED BY <2>2, <2>3
  <1>4. bank \o held = IF first THEN <<>> ELSE bank1 \o buf
    <2>1. CASE first
      <3>1. bank = <<>> /\ held = <<>> BY <2>1 DEF Erase
      <3> QED BY <2>1, <3>1, SeqFacts
    <2>2. CASE ~first
      BY <2>2 DEF Erase
    <2> QED BY <2>1, <2>2
  <1>5. bank1' = IF last THEN synced \o rest ELSE synced
    BY DEF WriteFirmwareBlock
  <1>6. buf' = IF last THEN <<>> ELSE rest
    BY DEF WriteFirmwareBlock
  <1> HIDE DEF bank, held, synced, rest
  <1>7. synced \o rest \in Seq(S) BY <1>2, SeqFacts
  <1>8. CASE last
    <2>1. bank1' = synced \o rest /\ buf' = <<>> BY <1>5, <1>6, <1>8
    <2>2. bank1' \in Seq(S) /\ buf' \in Seq(S) BY <2>1, <1>7, SeqFacts
    <2>3. bank1' \o buf' = synced \o rest BY <2>1, <1>7, SeqFacts
    <2> QED BY <2>1, <2>2, <2>3, <1>3, <1>4
  <1>9. CASE ~last
    <2>1. bank1' = synced /\ buf' = rest BY <1>5, <1>6, <1>9
    <2> QED BY <2>1, <1>2, <1>3, <1>4, <1>9
  <1> QED BY <1>8, <1>9

-----------------------------------------------------------------------------
(* Types and descriptors, with or without strays. *)

Queues == /\ bank1 \in Seq(0 .. N) /\ buf \in Seq(0 .. N)
          /\ answers \in Seq(Reports) /\ blocks \in Seq(1 .. N)

Scalars ==
  /\ pc \in {"boot", "start", "init", "run", "reporting", "reported",
             "download", "connecting", "block", "wait", "upgrade", "idle"}
  /\ bank0 \in {OldImage, NewImage}
  /\ total_size \in Nat /\ current \in 1 .. N
  /\ asked \in Nothing .. N
  /\ faults \in 0 .. MaxFaults
  /\ SocketCount

Flags == /\ confirmed \in BOOLEAN /\ pending \in BOOLEAN
         /\ scheduled \in BOOLEAN /\ strayed \in BOOLEAN /\ again \in BOOLEAN
         /\ located \in BOOLEAN

LEMMA TypeSplit == TypeInv => Queues /\ Scalars /\ Flags
  BY Zenon DEF TypeInv, TypeOK, Queues, Scalars, Flags

LEMMA TypeJoin == Queues /\ Scalars /\ Flags => TypeInv
  <1>1. SocketCount => sockets \in 0 .. 1 BY DEF SocketCount
  <1> QED BY <1>1, Zenon DEF TypeInv, TypeOK, Queues, Scalars, Flags

LEMMA EmptyTyped ==
  /\ <<>> \in Seq(0 .. N) /\ <<>> \in Seq(1 .. N) /\ <<>> \in Seq(Reports)
  OBVIOUS

LEMMA InitTyped == Init => TypeInv
  <1> SUFFICES ASSUME Init PROVE Queues /\ Scalars /\ Flags
    BY TypeJoin
  <1>1. Queues
    BY EmptyTyped DEF Init, Queues
  <1>2. Scalars
    BY FotaAssumption DEF Init, Scalars, SocketCount, Nothing
  <1>3. Flags
    BY Zenon DEF Init, Flags
  <1> QED BY <1>1, <1>2, <1>3

LEMMA StepQueues ==
  ASSUME Queues, Scalars, [Next]_vars
  PROVE  Queues'
  <1> USE FotaAssumption DEF Queues, flash, ram, net, env
  <1>1. CASE Boot
    BY <1>1, ImagesTyped DEF Boot, Swap, Scalars
  <1>2. CASE UNCHANGED <<bank1, buf, answers, blocks>>
    BY <1>2
  <1>3. CASE UNCHANGED <<bank1, buf>> /\ Close
    BY <1>3, EmptyTyped DEF Close
  <1>4. CASE UNCHANGED bank1 /\ ClearRam
    BY <1>4, EmptyTyped DEF ClearRam
  <1>5. CASE BlockFails
    <2>1. bank1' \in {bank1, <<>>} /\ buf' \in {buf, <<>>}
      BY <1>5 DEF BlockFails, Erase
    <2>2. answers' = <<>> /\ blocks' = <<>>
      BY <1>5 DEF BlockFails, Close
    <2> QED BY <2>1, <2>2, EmptyTyped
  <1>6. CASE ReceiveBlock
    <2> DEFINE b == Head(blocks)
    <2>1. b \in 1 .. N /\ Tail(blocks) \in Seq(1 .. N)
      BY <1>6 DEF ReceiveBlock
    <2>2. bank1' \in Seq(0 .. N) /\ buf' \in Seq(0 .. N)
      <3>1. /\ (total_size = 0) \in BOOLEAN /\ IsLast(total_size + 1) \in BOOLEAN
            /\ WriteFirmwareBlock(b, total_size = 0, IsLast(total_size + 1))
        BY <1>6 DEF ReceiveBlock, IsLast
      <3>2. b \in 0 .. N BY <2>1
      <3> QED BY <3>1, <3>2, BlockWritten
    <2>3. \/ answers' = answers /\ blocks' = Tail(blocks)
          \/ answers' = <<>> /\ blocks' = <<>>
      BY <1>6 DEF ReceiveBlock, Close
    <2> QED BY <2>1, <2>2, <2>3, EmptyTyped
  <1>7. CASE ServerAnswers
    <2>1. CASE asked = Report
      <3>1. blocks' = blocks /\ \E a \in Reports : answers' = Append(answers, a)
        BY <1>7, <2>1 DEF ServerAnswers, Verdict, Reports, Report
      <3> QED BY <1>7, <3>1 DEF ServerAnswers
    <2>2. CASE asked # Report
      <3>1. asked \in 1 .. N
        BY <1>7, <2>2 DEF ServerAnswers, Scalars, Nothing, Report
      <3>2. blocks' \in Seq(1 .. N)
        <4>1. blocks' = Append(blocks, asked)
          BY <1>7, <2>2 DEF ServerAnswers
        <4> QED BY <3>1, <4>1, AppendTyped
      <3> QED BY <1>7, <2>2, <3>2 DEF ServerAnswers
    <2> QED BY <2>1, <2>2
  <1>8. CASE StrayAnswer
    <2>1. \/ blocks' = blocks /\ \E a \in Reports : answers' = Append(answers, a)
          \/ answers' = answers /\ \E b \in 1 .. N : blocks' = Append(blocks, b)
      BY <1>8 DEF StrayAnswer
    <2>2. answers' \in Seq(Reports) BY <2>1, AppendTyped
    <2>3. blocks' \in Seq(1 .. N) BY <2>1, AppendTyped
    <2> QED BY <1>8, <2>2, <2>3 DEF StrayAnswer
  <1> QED
    BY <1>1, <1>2, <1>3, <1>4, <1>5, <1>6, <1>7, <1>8
    DEF Next, NodeNext, vars, Start, FotaInit, NextRun, OpenReport, SendReport, Opens,
        ReportFails, ReportAnswered, OpenDownload, Connect, AskBlock, DoReboot, Restart,
        TimedReboot, Schedule, Lose

LEMMA StepScalars ==
  ASSUME Queues, Scalars, [Next]_vars
  PROVE  Scalars'
  <1> USE FotaAssumption DEF Scalars, SocketCount, Nothing, Report, Fault,
        NoFault, flash, ram, net, env, GiveUp, Opens, Close, ClearRam
  <1>1. CASE Boot
    BY <1>1 DEF Boot, Swap, Bootable
  <1>2. CASE Start \/ FotaInit \/ NextRun
    BY <1>2 DEF Start, FotaInit, NextRun
  <1>11. CASE OpenReport \/ SendReport
    BY <1>11 DEF OpenReport, SendReport
  <1>12. CASE ReportFails
    BY <1>12 DEF ReportFails
  <1>3. CASE ReportAnswered
    <2>1. pc' \in {"download", "idle"}
      BY <1>3 DEF ReportAnswered, Decision
    <2> QED BY <1>3, <2>1 DEF ReportAnswered
  <1>4. CASE OpenDownload \/ Connect
    BY <1>4 DEF OpenDownload, Connect
  <1>5. CASE AskBlock
    BY <1>5 DEF AskBlock
  <1>6. CASE BlockFails
    BY <1>6 DEF BlockFails
  <1>7. CASE ReceiveBlock
    <2>1. Head(blocks) \in 1 .. N
      BY <1>7 DEF ReceiveBlock, Queues
    <2> QED BY <1>7, <2>1 DEF ReceiveBlock
  <1>8. CASE DoReboot \/ Restart \/ TimedReboot
    BY <1>8 DEF DoReboot, Restart, TimedReboot
  <1>9. CASE Schedule \/ ServerAnswers \/ Lose \/ StrayAnswer
    BY <1>9 DEF Schedule, ServerAnswers, Verdict, Lose, StrayAnswer
  <1>10. CASE UNCHANGED vars
    BY <1>10 DEF vars
  <1> QED
    BY <1>1, <1>2, <1>3, <1>4, <1>5, <1>6, <1>7, <1>8, <1>9, <1>10, <1>11, <1>12
    DEF Next, NodeNext

LEMMA StepFlags ==
  ASSUME Flags, [Next]_vars
  PROVE  Flags'
  <1> USE DEF Flags, flash, ram, env
  <1>1. CASE Boot
    BY <1>1, Zenon DEF Boot
  <1>2. CASE FotaInit \/ DoReboot \/ ReportAnswered
    BY <1>2, Zenon DEF FotaInit, DoReboot, ClearRam, ReportAnswered
  <1>3. CASE Restart \/ TimedReboot \/ Schedule \/ StrayAnswer
    BY <1>3, Zenon DEF Restart, TimedReboot, ClearRam, Schedule, StrayAnswer
  <1>4. CASE UNCHANGED <<confirmed, pending, located, scheduled, strayed, again>>
    BY <1>4
  <1>5. CASE ServerAnswers
    BY <1>5, Zenon DEF ServerAnswers, Verdict
  <1> QED
    BY <1>1, <1>2, <1>3, <1>4, <1>5, Zenon
    DEF Next, NodeNext, vars, Start, NextRun, OpenReport, SendReport,
        ReportFails, OpenDownload, Connect, AskBlock, BlockFails, ReceiveBlock,
        Lose

LEMMA StepTyped == TypeInv /\ [Next]_vars => TypeInv'
  <1> SUFFICES ASSUME TypeInv, [Next]_vars PROVE TypeInv'
    OBVIOUS
  <1>1. Queues /\ Scalars /\ Flags BY TypeSplit
  <1>2. Queues' /\ Scalars' /\ Flags'
    BY <1>1, StepQueues, StepScalars, StepFlags
  <1>3. (Queues /\ Scalars /\ Flags => TypeInv)' BY TypeJoin, PTL
  <1> QED BY <1>2, <1>3

\* The types hold and the descriptors are counted, strays or not.
LEMMA Typed == Spec => []TypeInv
  BY InitTyped, StepTyped, PTL DEF Spec

\* Every variable keeps its type (fota.c).
THEOREM TypeCorrect == Spec => []TypeOK
  <1>1. TypeInv => TypeOK BY DEF TypeInv
  <1> QED BY <1>1, Typed, PTL

\* Every way out of fota_report_version() and fota_download_image() closes the
\* socket, even with stray answers.
THEOREM NoSocketLeak == Spec => []SocketsClosed
  <1>1. TypeInv => SocketsClosed BY DEF TypeInv, SocketCount, SocketsClosed
  <1> QED BY <1>1, Typed, PTL

-----------------------------------------------------------------------------
(* The image, as long as no answer has strayed. *)

LEMMA InitClean == Init => Clean
  BY DEF Init, Clean, ReportChannel, BlockChannel, Progress, Downloading,
         Downloaded, Requested, TrialIntact, Allowed

LEMMA StepClean ==
  ASSUME TypeInv, Clean, [Next]_vars, ~strayed'
  PROVE  Clean'
  <1> USE FotaAssumption DEF Clean, ReportChannel, BlockChannel, Progress,
        Downloading, Downloaded, Requested, TrialIntact, Allowed, Nothing,
        Report, flash, ram, net, env
  <1>t. /\ bank0 \in {OldImage, NewImage} /\ confirmed \in BOOLEAN
        /\ pending \in BOOLEAN /\ again \in BOOLEAN /\ current \in 1 .. N /\ total_size \in Nat
    BY DEF TypeInv, TypeOK
  <1>1. CASE Boot
    BY <1>1, <1>t, ImagesDiffer DEF Boot, Swap, Bootable
  <1>2. CASE Start
    BY <1>2 DEF Start
  <1>3. CASE FotaInit
    BY <1>3 DEF FotaInit
  <1>4. CASE NextRun
    BY <1>4 DEF NextRun
  <1>5. CASE OpenReport \/ SendReport
    BY <1>5 DEF OpenReport, SendReport, GiveUp, Opens, Close
  <1>6. CASE ReportFails
    BY <1>6 DEF ReportFails, GiveUp, Close
  <1>7. CASE ReportAnswered
    <2>1. \/ answers = <<"no">>
          \/ answers = <<"yes">> /\ Allowed
      BY <1>7 DEF ReportAnswered
    <2>2. pc' = "idle" \/ (pc' = "download" /\ Allowed)
      BY <1>7, <2>1 DEF ReportAnswered, Decision
    <2> QED BY <1>7, <2>2 DEF ReportAnswered, Close
  <1>8. CASE OpenDownload \/ Connect
    BY <1>8 DEF OpenDownload, Connect, Opens, GiveUp, Close
  <1>9. CASE AskBlock
    BY <1>9 DEF AskBlock, GiveUp, Close
  <1>10. CASE BlockFails
    BY <1>10, ImagesDiffer DEF BlockFails, GiveUp, Close
  <1>11. CASE ReceiveBlock
    <2>1. /\ blocks = <<current>> /\ asked = -1 /\ answers = <<>>
          /\ current = total_size + 1
      BY <1>11 DEF ReceiveBlock
    <2>2. Head(blocks) = current /\ Tail(blocks) = <<>> BY <2>1
    <2>3. bank1' \o buf' = Prefix(total_size + 1)
          /\ (total_size + 1 = N => bank1' = bank1' \o buf')
      <3>1. /\ (total_size = 0) \in BOOLEAN /\ IsLast(total_size + 1) \in BOOLEAN
            /\ WriteFirmwareBlock(current, total_size = 0, IsLast(total_size + 1))
        BY <1>11, <2>2 DEF ReceiveBlock, IsLast
      <3>2. current \in 0 .. N /\ bank1 \in Seq(0 .. N) /\ buf \in Seq(0 .. N)
        BY <1>t DEF TypeInv, TypeOK
      <3>3. /\ bank1' \o buf' = Append(IF total_size = 0 THEN <<>> ELSE bank1 \o buf,
                                       total_size + 1)
            /\ IsLast(total_size + 1) => bank1' = bank1' \o buf'
        BY <2>1, <3>1, <3>2, BlockWritten
      <3>4. (IF total_size = 0 THEN <<>> ELSE bank1 \o buf) = Prefix(total_size)
        <4>1. CASE total_size = 0
          BY <4>1 DEF Prefix
        <4>2. CASE total_size # 0
          BY <1>11, <1>t, <4>2 DEF ReceiveBlock
        <4> QED BY <4>1, <4>2
      <3> QED BY <1>t, <3>3, <3>4, PrefixAppend DEF IsLast
    <2>4. Allowed /\ ~pending
      BY <1>11, <1>t, ImagesDiffer DEF ReceiveBlock
    <2>5. CASE current < N
      BY <1>11, <1>t, <2>1, <2>2, <2>3, <2>4, <2>5 DEF ReceiveBlock
    <2>6. CASE current = N
      <3>1. pc' = "upgrade" /\ bank1' = NewImage
        BY <1>11, <2>1, <2>2, <2>3, <2>6 DEF ReceiveBlock, NewImage
      <3> QED BY <1>11, <2>4, <3>1 DEF ReceiveBlock, Close
    <2>7. current < N \/ current = N BY <1>t
    <2> QED BY ONLY <2>5, <2>6, <2>7
  <1>12. CASE DoReboot
    BY <1>12 DEF DoReboot, ClearRam
  <1>13. CASE Restart
    BY <1>13 DEF Restart, ClearRam
  <1>14. CASE TimedReboot
    BY <1>14 DEF TimedReboot, ClearRam
  <1>15. CASE Schedule
    BY <1>15 DEF Schedule
  <1>16. CASE ServerAnswers
    <2>1. CASE asked = Report
      <3>1. pc = "reported" /\ answers = <<>> /\ blocks = <<>>
        BY <1>16, <1>t, <2>1 DEF ServerAnswers
      <3>2. /\ asked' = Nothing /\ blocks' = <<>>
            /\ UNCHANGED <<pc, flash, ram>>
        BY <1>16, <2>1, <3>1 DEF ServerAnswers
      <3>3. again = TRUE => again' = TRUE
        BY <1>16, <2>1 DEF ServerAnswers, Verdict
      <3>4. \/ answers' = <<"no">>
            \/ answers' = <<"yes">> /\ bank0 = OldImage
            \/ answers' = <<"yes">> /\ (confirmed = TRUE \/ again' = TRUE)
        <4>1. Verdict BY <1>16, <2>1 DEF ServerAnswers
        <4>2. CASE answers' = Append(answers, IF scheduled /\ bank0 = OldImage
                                                THEN "yes" ELSE "no")
          BY <3>1, <4>2
        <4>3. CASE answers' = Append(answers, "yes")
                     /\ again' = (again \/ ~confirmed)
          <5>1. confirmed = TRUE \/ again' = TRUE
            BY ONLY <1>t, <4>3, Zenon
          <5> QED BY <3>1, <4>3, <5>1
        <4> QED BY <4>1, <4>2, <4>3 DEF Verdict
      <3>5. answers' = <<"yes">> => confirmed = TRUE \/ again' = TRUE
        BY <1>t, <3>3, <3>4, ImagesDiffer
      <3> QED BY <3>1, <3>2, <3>3, <3>4, <3>5
    <2>2. CASE asked # Report
      <3>1. pc = "wait" /\ asked = current /\ blocks = <<>>
        BY <1>16, <1>t, <2>2 DEF ServerAnswers
      <3>2. blocks' = <<current>> BY <1>16, <2>2, <3>1 DEF ServerAnswers
      <3> QED BY <1>16, <2>2, <3>1, <3>2 DEF ServerAnswers
    <2> QED BY <2>1, <2>2
  <1>17. CASE Lose
    BY <1>17 DEF Lose
  <1>18. CASE StrayAnswer
    BY <1>18 DEF StrayAnswer
  <1>19. CASE UNCHANGED vars
    BY <1>19 DEF vars
  <1> QED
    BY <1>1, <1>2, <1>3, <1>4, <1>5, <1>6, <1>7, <1>8, <1>9, <1>10, <1>11, <1>12,
       <1>13, <1>14, <1>15, <1>16, <1>17, <1>18, <1>19 DEF Next, NodeNext

\* The history variable is never reset.
LEMMA StepStrayed == TypeInv /\ [Next]_vars /\ ~strayed' => ~strayed
  BY DEF TypeInv, TypeOK, Next, NodeNext, vars, env, Boot, Start, FotaInit,
         NextRun, OpenReport, SendReport, ReportFails, ReportAnswered,
         OpenDownload, Connect, AskBlock, BlockFails, ReceiveBlock, DoReboot, Restart, TimedReboot,
         Schedule, ServerAnswers, Lose, StrayAnswer

\* The invariant while the channel only loses messages.
LEMMA Cleanly == Spec => [](~strayed => Clean)
  <1>1. Init => (~strayed => Clean) BY InitClean
  <1>2. TypeInv /\ (~strayed => Clean) /\ [Next]_vars => (~strayed => Clean)'
    BY StepClean, StepStrayed
  <1> QED BY <1>1, <1>2, Typed, PTL DEF Spec

\* fota_download_image() and write_firmware_block() leave a complete image
\* before do_reboot() requests it, for any image and any faults but strays.
THEOREM CompleteImage == Spec => []UpgradeComplete
  <1>1. (~strayed => Clean) => UpgradeComplete
    BY DEF Clean, Requested, UpgradeComplete
  <1> QED BY <1>1, Cleanly, PTL

\* An image that is not confirmed runs beside a complete one, although main()
\* goes on to fota_run() when the confirmation failed, unless the server
\* schedules a download meanwhile.
THEOREM FallbackIntact == Spec => []FallbackKept
  <1>1. (~strayed => Clean) => FallbackKept
    BY DEF Clean, FallbackKept, TrialIntact, Allowed
  <1> QED BY <1>1, Cleanly, PTL
=============================================================================
