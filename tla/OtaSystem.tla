----------------------------- MODULE OtaSystem -----------------------------
(***************************************************************************)
(* The whole update path: operators upload releases to the server, the     *)
(* gateway polls it, downloads what it announces and programs the STM32.   *)
(* The gateway and the server interleave freely; the only state they share *)
(* is the pair of files the server publishes.                              *)
(***************************************************************************)
EXTENDS OtaGateway

vars == <<gatewayVars, serverVars>>

Init == GatewayInit /\ ServerInit

Next == \/ GatewayNext /\ UNCHANGED serverVars
        \/ ServerNext  /\ UNCHANGED gatewayVars

Spec == Init /\ [][Next]_vars

\* app_main never stops, a request that has begun runs to its end, and the
\* network comes back.  Uploads, faults and failing answers are not promised.
Fairness ==
  /\ WF_vars(GatewayStep /\ UNCHANGED serverVars)
  /\ WF_vars((\E r \in Request : UploadStep(r)) /\ UNCHANGED gatewayVars)
  /\ WF_vars(NetUp /\ UNCHANGED serverVars)

FairSpec == Spec /\ Fairness

-----------------------------------------------------------------------------
(* Invariants *)

TypeOK == GatewayTypeOK /\ ServerTypeOK

\* While uart_boot_firmware has the STM32's flash open for rewriting
\* (control.c:61-70), the in_progress flag in NVS says so, whatever fails and
\* whenever the gateway restarts: the flash is never left half written with
\* nothing recorded that would make app_main take the work up again.  Only a
\* failing NVS call, which the code ignores, can take that away.
UnfinishedIsRecorded == unfinished /\ Spared({"nvs"}) => nvs.in_progress

\* The STM32 sits in its system bootloader (control.c:56-75) only while the
\* in_progress flag is set, so a restart of the gateway never forgets it there.
BootModeRecorded == stmMode = "boot" /\ Spared({"nvs"}) => nvs.in_progress

FlashingNew == ~resumed /\ pc \in {"bootStart", "enterBoot", "unprotect", "erase",
                                   "program", "exitBoot", "clear", "commit", "commitBody"}

\* When http_download_firmware has answered 0 (http_connection.c:117), the file
\* the STM32 is about to be given is the one the pending record's checksum was
\* computed for, from the comparison to the last byte programmed, across
\* everything the server does meanwhile, restarts, broken transfers and failing
\* NVS calls; or the record did not parse, and then the file is empty: a torn
\* pending_version.json (checksum 0) and an answer that breaks off before its
\* first byte (the seed complemented once, 0) agree.  No other file gets past
\* the comparison unverified.  An outage spoils the running checksum for good, a
\* failing fwrite is not noticed.
VerifiedFlash ==
  FlashingNew /\ Spared({"outage", "storage"}) =>
     \/ pendFile # Bad /\ Crc(fwFile) = pendFile.checksum
     \/ pendFile = Bad /\ fwFile = <<>>

\* After the last write, whoever ordered it, the gateway is about to commit a
\* record that is true (control.c:86-87, main.c:53-54).  Behind a download the
\* STM32 holds the image the pending record names, or is empty and the record
\* unparsed.  A flashing that was resumed from whatever OTA0 held commits an
\* unparsed record, so nothing counts as installed and the next poll downloads
\* anew; that one needs NVS calls that work, and uploads with names of their own
\* (OtaWithdrawn shows what the reuse of a name does).
InstalledAsAnnounced ==
  pc \in {"exitBoot", "clear", "commit", "commitBody"} /\ Spared({"outage", "storage"}) =>
     /\ ~resumed => \/ pendFile # Bad /\ Crc(stmFlash) = pendFile.checksum
                    \/ pendFile = Bad /\ stmFlash = <<>>
     /\ resumed /\ Spared({"nvs"}) => pendFile = Bad

UpToDate == /\ verFile # Bad /\ srvMeta # Bad
            /\ verFile.version = srvMeta.version
            /\ ~nvs.in_progress

\* What the poll believes: with no flashing outstanding, a gateway whose
\* version.json names the release the server announces has that very release
\* in the STM32.  It relates the gateway's file, the server's and the flash,
\* over restarts and uploads (new_version, http_connection.c:203-219).
UpToDateIsTrue ==
  UpToDate /\ Spared({"outage", "storage", "nvs"}) =>
     Crc(stmFlash) = verFile.checksum /\ verFile.checksum = srvMeta.checksum

\* "CRC32 check good" (http_connection.c:119): the log line stands for the
\* downloaded file having the announced checksum.
GoodMeansMatch == pc = "bootStart" /\ ~resumed => Crc(fwFile) = checksum_get

\* "Done flash" (uart_command.c:366): a gateway that is up to date has printed
\* that last, so the STM32 holds a whole image.
DoneMeansFlashed == UpToDate => Complete(stmFlash)

\* The image the STM32 runs is also in OTA0 or OTA1, so it could be programmed
\* again: the backup copy_file takes before a download (http_connection.c:57)
\* and the one it puts back after a bad check (line 125) never lose it between
\* them, however many broken downloads follow each other, until a restart
\* comes in the middle of a copy.
InstalledImageKept ==
  ~unfinished /\ Complete(stmFlash) /\ Spared({"power", "outage", "storage"})
     => stmFlash \in {fwFile, bakFile}

\* The gateway's part of a flashing job: whatever restarts, fails or is uploaded
\* meanwhile, the flash only takes blocks of one file, from its first, after an
\* erase, and counts as finished when it has them all (uart_boot_firmware).
Job == INSTANCE FlashJob WITH open <- pc = "program", blocks <- Len(stmFlash),
                              total <- Len(fwFile), whole <- ~unfinished
JobSpec == Job!Spec

-----------------------------------------------------------------------------
(* The strengthenings that make the invariants above inductive, for the     *)
(* proofs in OtaSystem_proofs.                                              *)

\* Where the in_progress flag is known to be set, and what is already restored
\* when it is about to be cleared.
FlagInv ==
  Spared({"nvs"}) =>
    /\ unfinished \/ stmMode = "boot" => nvs.in_progress
    /\ pc \in {"enterBoot", "unprotect", "erase", "program", "exitBoot", "clear"}
         => nvs.in_progress
    /\ pc \in {"exitBoot", "clear"} => ~unfinished
    /\ pc = "clear" => stmMode = "app"

\* The file does not get shorter under the job.
JobInv == pc = "program" => unfinished /\ Len(stmFlash) <= Len(fwFile)

\* Where checksum_get belongs to the record in pending_version.json.
AnswerRead == {"decide", "getFirmware", "backup", "open", "body", "check",
               "bootStart", "enterBoot", "unprotect", "erase", "program",
               "exitBoot", "clear", "commit", "commitBody"}

\* How the file, the two checksums and the flash hang together while the
\* network stayed up and SPIFFS has not failed.
ImageInv ==
  Spared({"outage", "storage"}) =>
    /\ net = "up"
    /\ checksum_get.inv => checksum_get = Zero
    /\ pc = "body" => file /\ ~checksum_cal.inv /\ fwFile = checksum_cal.data
    /\ pc = "check" => fwFile = checksum_cal.data
    /\ pc \in AnswerRead => checksum_get = ChecksumOf(pendFile)
    /\ FlashingNew => \/ Crc(fwFile) = checksum_get
                      \/ checksum_get = Zero /\ fwFile = <<>>
    /\ pc = "program" => /\ Len(stmFlash) <= Len(fwFile)
                         /\ \A k \in 1..Len(stmFlash) : stmFlash[k] = fwFile[k]
    /\ pc \in {"exitBoot", "clear", "commit", "commitBody"} => stmFlash = fwFile

\* Which of OTA0 and OTA1 holds the installed image at each step, while the
\* gateway was not restarted either.
KeepInv ==
  Spared({"power", "outage", "storage"}) =>
    /\ ~unfinished /\ Complete(stmFlash) =>
         /\ pc \in {"boot", "poll", "getVersion", "versionBody", "decide", "getFirmware",
                    "backup", "exitBoot", "clear", "commit", "commitBody"}
              => stmFlash = fwFile
         /\ pc \in {"open", "body", "check", "restore"} => stmFlash = bakFile
         /\ pc \in {"bootStart", "enterBoot", "unprotect", "erase"}
              => stmFlash \in {fwFile, bakFile}
    /\ pc = "program" => unfinished

\* Uploads that do not overlap: they come in order, one at a time, and how far
\* the one in flight has brought the server's two files into agreement.
SerialInv ==
  /\ \A q, r \in Request : q < r /\ upload[r] # "waiting" => upload[q] = "done"
  /\ \A r \in Request : upload[r] \in {"hashed", "dumping"} => sum[r] = Crc(srvBin)
  /\ PublishedAgree

\* Every upload publishes a version name of its own.  Without this the gateway
\* cannot know what it runs by comparing names (run OtaWithdrawn).
FreshNames == \A q, r \in Request : Release[q].version = Release[r].version => q = r

\* The record request r leaves in version.json; the records that have been
\* published; and the versions of those the server has replaced by others.
Announced(r) == [version  |-> Release[r].version,
                 checksum |-> IF r = 1 THEN Crc(Firmware(Release[1].image)) ELSE sum[r]]

Published  == {Announced(r) : r \in {q \in Request : upload[q] = "done"}}
Superseded == {m.version : m \in Published}
                 \ (IF srvMeta = Bad THEN {} ELSE {srvMeta.version})

Installing == {"bootStart", "enterBoot", "unprotect", "erase", "program",
               "exitBoot", "clear", "commit", "commitBody"}

\* For whom each stretch of app_main runs, what new_version compares and what
\* is in the file a download of the version has opened.
CallInv ==
  /\ pc = "decide" => /\ caller = "update_status"
                      /\ current_ver = VersionOf(verFile)
                      /\ update_ver = VersionOf(pendFile)
  /\ pc \in {"getVersion", "versionBody"} /\ caller = "update_status"
       => current_ver = VersionOf(verFile)
  /\ pc = "versionBody" => pendFile = Bad
  /\ pc \in {"getFirmware", "backup", "open", "body", "check", "restore"}
       => caller = "http_download_firmware"
  /\ pc \in Installing => (resumed <=> caller = "update_status")

\* Every record the gateway holds is one the server has published, the pending
\* one no older than the installed one; and the gateway downloads a firmware
\* only when the release it has installed is superseded.
RecordInv ==
  /\ upload[1] = "done"
  /\ \A m \in {srvMeta, pendFile, verFile} : m # Bad => m \in Published
  /\ verFile # Bad /\ pendFile # Bad /\ pendFile.version # verFile.version
       => verFile.version \in Superseded
  /\ caller = "http_download_firmware" /\ pc \notin {"boot", "poll"} /\ verFile # Bad
       => verFile.version \in Superseded

\* While the flag is set, and until the record is committed, version.json names
\* a superseded release or none.  An answer that parsed therefore has another
\* name, and a flashing is resumed only behind one that did not.
InstallInv ==
  Spared({"outage", "storage", "nvs"}) =>
    /\ resumed /\ pc = "bootStart" => nvs.in_progress
    /\ pc \in {"commit", "commitBody"} => ~nvs.in_progress
    /\ nvs.in_progress /\ verFile # Bad => verFile.version \in Superseded
    /\ pc = "decide" /\ nvs.in_progress /\ verFile # Bad /\ pendFile # Bad
         => pendFile.version # verFile.version
    /\ resumed /\ pc \in Installing => pendFile = Bad
    /\ ~nvs.in_progress /\ verFile # Bad
         => Crc(stmFlash) = verFile.checksum \/ verFile.version \in Superseded

-----------------------------------------------------------------------------
(* Action properties *)

\* A gateway that has installed what the server announces never starts another
\* installation (control.c:53), whatever a broken answer, an upload in flight
\* or a restart made it read in between.
NoNeedlessFlash ==
  [][nvs'.in_progress /\ ~nvs.in_progress /\ Spared({"outage", "storage", "nvs"})
       => ~UpToDate]_vars

-----------------------------------------------------------------------------
(* Liveness *)

Converged == /\ UpToDate
             /\ stmFlash = srvBin /\ stmMode = "app"

\* Once uploads and faults have stopped, the STM32 ends up running the last
\* release and the gateway knows it, whatever the restarts, broken transfers and
\* failing NVS calls on the way left in its files and flags.  An outage spoils
\* the running checksum for good, a failing fwrite is not noticed.
Converges == <>[](Quiescent /\ Spared({"outage", "storage"}) => Converged)

\* An erased or half-written flash is always programmed to the end and the
\* STM32 sent back to it, whatever fails, until the flag is lost to an NVS call.
FlashGetsFinished ==
  unfinished ~> \/ ~unfinished /\ stmMode = "app"
                \/ ~Spared({"nvs"})
=============================================================================
