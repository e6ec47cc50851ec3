----------------------------- MODULE OtaGateway -----------------------------
(***************************************************************************)
(* The ESP32 gateway: app_main's polling loop, the two HTTP downloads with *)
(* their event handlers, the files it keeps in SPIFFS, the flags it keeps  *)
(* in NVS, and the order in which uart_boot_firmware erases and programs   *)
(* the STM32.  Files, NVS and the STM32's flash survive a power loss;      *)
(* everything else is RAM.  A step of this module is the code between two  *)
(* points at which a power loss, a network event or an upload can be seen. *)
(* Of the server the gateway sees only the files srvBin and srvMeta.       *)
(***************************************************************************)
EXTENDS FirmwareServer

CONSTANTS Faults,    \* the kinds of fault the environment may inject
          MaxFaults  \* bound: faults injected in a behaviour

\* power:    the ESP32 reboots, with or without the STM32
\* transfer: an HTTP response breaks off while the server stays reachable
\* outage:   the server or the Wi-Fi goes away until NetUp
\* storage:  a SPIFFS call (fopen, fwrite) fails; flash_firmware panics on it
\* nvs:      an NVS call fails; nvs_control.c logs it and returns
FaultKinds == {"power", "transfer", "outage", "storage", "nvs"}

ASSUME FaultsAssumption == Faults \subseteq FaultKinds /\ MaxFaults \in Nat

VARIABLES
  \* SPIFFS
  fwFile,       \* /spiffs/OTA0/firmware.bin
  bakFile,      \* /spiffs/OTA1/rollback.bin
  verFile,      \* /spiffs/version.json
  pendFile,     \* /spiffs/pending_version.json
  \* NVS namespace "storage"
  nvs,
  \* RAM
  pc,           \* where app_main is
  caller,       \* who called http_download_version
  resumed,      \* which branch of app_main called uart_boot_firmware
  current_ver, update_ver, checksum_cal, checksum_get,
  file,         \* is the static FILE* of the firmware handler open?
  clen,         \* content length of the response being read, in chunks
  \* STM32
  stmFlash,     \* contents of its flash
  stmMode,      \* does it run the flash or the system-memory bootloader?
  \* environment
  net,          \* can the server be reached?
  faults,       \* how many faults there were so far
  struck,       \* history: of which kinds
  unfinished    \* history: flash touched and not yet programmed to the end

files  == <<fwFile, bakFile, verFile, pendFile>>
http   == <<checksum_cal, file, clen>>
vers   == <<current_ver, update_ver, checksum_get>>
stm32  == <<stmFlash, stmMode, unfinished>>
strikes == <<faults, struck>>
env    == <<net, strikes>>
gatewayVars == <<files, nvs, pc, caller, resumed, vers, http, stm32, env>>

Location ==
  {"boot", "poll", "getVersion", "versionBody", "decide",
   "getFirmware", "backup", "open", "body", "check", "restore",
   "bootStart", "enterBoot", "unprotect", "erase", "program",
   "exitBoot", "clear", "commit", "commitBody"}

FileTypes ==
  /\ fwFile \in Content /\ bakFile \in Content
  /\ verFile \in Meta \union {Bad} /\ pendFile \in Meta \union {Bad}

FlagTypes == nvs \in [in_progress : BOOLEAN, rollback : BOOLEAN, wifi_disconnect : BOOLEAN]

ControlTypes ==
  /\ pc \in Location
  /\ caller \in {"update_status", "http_download_firmware"}
  /\ resumed \in BOOLEAN

HttpTypes ==
  /\ current_ver \in Version \union {NoVersion}
  /\ update_ver \in Version \union {NoVersion}
  /\ checksum_cal \in Checksum /\ checksum_get \in Checksum
  /\ file \in BOOLEAN /\ clen \in Nat

Stm32Types ==
  /\ stmFlash \in Content /\ stmMode \in {"app", "boot"} /\ unfinished \in BOOLEAN

EnvTypes == /\ net \in {"up", "noserver", "nowifi"}
            /\ faults \in 0..MaxFaults /\ struck \subseteq Faults

GatewayTypeOK == /\ FileTypes /\ FlagTypes /\ ControlTypes
                 /\ HttpTypes /\ Stm32Types /\ EnvTypes

-----------------------------------------------------------------------------
(* Initial state: a gateway whose files setupSPIFFS has just created, next  *)
(* to an STM32 that runs some firmware or none.                             *)

RamInit ==
  /\ pc = "boot"
  /\ caller = "update_status" /\ resumed = FALSE
  /\ current_ver = NoVersion /\ update_ver = NoVersion
  /\ checksum_cal = Zero /\ checksum_get = Zero
  /\ file = FALSE /\ clen = 0

GatewayInit ==
  /\ fwFile = <<>> /\ bakFile = <<>> /\ verFile = Bad /\ pendFile = Bad
  /\ nvs = [in_progress |-> FALSE, rollback |-> FALSE, wifi_disconnect |-> FALSE]
  /\ RamInit
  /\ stmFlash = <<>> /\ stmMode = "app" /\ unfinished = FALSE
  /\ net = "up" /\ faults = 0 /\ struck = {}

\* One fault of the given kind, within the bound; a step suffers at most one.
Strike(kind) == /\ kind \in Faults /\ faults < MaxFaults
                /\ faults' = faults + 1 /\ struck' = struck \union {kind}

\* No fault of these kinds has struck yet.
Spared(kinds) == struck \intersect kinds = {}

Goto(l) == pc' = l

\* write_state_inprogress, write_state_rollback and write_state_wifi_disconnect:
\* when an NVS call fails the old value stays and the caller is not told.
WriteNvs(key, value) ==
  \/ nvs' = [nvs EXCEPT ![key] = value] /\ UNCHANGED strikes
  \/ Strike("nvs") /\ UNCHANGED nvs

\* read_state_inprogress: an NVS call that fails reads as FALSE.
ReadNvs(key, value) ==
  \/ nvs[key] = value /\ UNCHANGED strikes
  \/ ~value /\ nvs[key] /\ Strike("nvs")

\* What a power loss or a full SPIFFS leaves of a file being filled from source.
Torn(source) == {SubSeq(source, 1, k) : k \in 0..Len(source)}

-----------------------------------------------------------------------------
(* app_main and update_status *)

\* setupSPIFFS, nvs_init, wifi_sta_init (which waits for an address for
\* ever) and init_uart.
Boot ==
  /\ pc = "boot" /\ net # "nowifi"
  /\ Goto("poll")
  /\ UNCHANGED <<files, nvs, caller, resumed, vers, http, stm32, env>>

\* update_status calls new_version, which reads version.json and then calls
\* http_download_version.
Poll ==
  /\ pc = "poll"
  /\ current_ver' = VersionOf(verFile)
  /\ caller' = "update_status"
  /\ Goto("getVersion")
  /\ UNCHANGED <<files, nvs, resumed, update_ver, checksum_get, http, stm32, env>>

\* Mutant: an answer that did not parse counts as another version.
NewVersionUnread == current_ver = NoVersion \/ update_ver # current_ver

\* new_version's comparison.
NewVersion ==
  \/ current_ver = NoVersion
  \/ update_ver # NoVersion /\ update_ver # current_ver

\* The end of update_status and the branch app_main takes on it; neither
\* flag set is the 5 s delay before the next poll.
Decide ==
  /\ pc = "decide"
  /\ \/ /\ NewVersion
        /\ caller' = "http_download_firmware"
        /\ Goto("getVersion")
        /\ UNCHANGED <<resumed, strikes>>
     \/ /\ ~NewVersion /\ ReadNvs("in_progress", TRUE)
        /\ resumed' = TRUE
        /\ Goto("bootStart")
        /\ UNCHANGED caller
     \/ /\ ~NewVersion /\ ReadNvs("in_progress", FALSE)
        /\ Goto("poll")
        /\ UNCHANGED <<caller, resumed>>
  /\ UNCHANGED <<files, nvs, vers, http, stm32, net>>

-----------------------------------------------------------------------------
(* http_download_version.  Every way it ends dispatches                     *)
(* HTTP_EVENT_DISCONNECTED, on which the handler parses pending_version.json*)

\* m: what pending_version.json holds at the DISCONNECTED event.
VersionDisconnected(m) ==
  /\ update_ver' = VersionOf(m)
  /\ checksum_get' = ChecksumOf(m)
  /\ Goto(IF caller = "update_status" THEN "decide" ELSE "getFirmware")

\* No connection, or no file to write to (fopen failed): the record parsed
\* is the one an earlier download left.
VersionUnread ==
  /\ pc = "getVersion"
  /\ \/ net # "up" /\ UNCHANGED strikes
     \/ net = "up" /\ Strike("storage")
  /\ VersionDisconnected(pendFile)
  /\ UNCHANGED <<files, nvs, caller, resumed, current_ver, http, stm32, net>>

\* ON_CONNECTED opens pending_version.json with "w+b".
VersionConnected ==
  /\ pc = "getVersion" /\ net = "up"
  /\ pendFile' = Bad
  /\ Goto("versionBody")
  /\ UNCHANGED <<fwFile, bakFile, verFile, nvs, caller, resumed, vers, http, stm32, env>>

VersionBody ==
  /\ pc = "versionBody" /\ net = "up"
  /\ pendFile' = srvMeta
  /\ VersionDisconnected(srvMeta)
  /\ UNCHANGED <<fwFile, bakFile, verFile, nvs, caller, resumed, current_ver, http, stm32, env>>

\* The answer breaks off, or it could not be written.
VersionAborted ==
  /\ pc = "versionBody"
  /\ \/ net # "up" /\ UNCHANGED strikes
     \/ net = "up" /\ (Strike("transfer") \/ Strike("storage"))
  /\ VersionDisconnected(pendFile)
  /\ UNCHANGED <<files, nvs, caller, resumed, current_ver, http, stm32, net>>

-----------------------------------------------------------------------------
(* http_download_firmware and its event handler.  The client dispatches     *)
(* DISCONNECTED when it closes a finished response and again when it is     *)
(* cleaned up, but only at the cleanup of a request that failed; each       *)
(* dispatch complements checksum_cal.                                       *)

FirmwareUnreachable ==
  /\ pc = "getFirmware" /\ net # "up"
  /\ checksum_cal' = Invert(checksum_cal)
  /\ Goto("check")
  /\ UNCHANGED <<files, nvs, caller, resumed, vers, file, clen, stm32, env>>

\* Mutant: no backup is taken.
FirmwareConnectedNoBackup ==
  /\ pc = "getFirmware" /\ net = "up"
  /\ Goto("open")
  /\ UNCHANGED <<files, nvs, caller, resumed, vers, http, stm32, env>>

\* ON_CONNECTED: copy_file(OTA1/rollback.bin, OTA0/firmware.bin) truncates
\* its destination (this step) and fills it (the next) ...
FirmwareConnected ==
  /\ pc = "getFirmware" /\ net = "up"
  /\ \/ bakFile' = <<>> /\ Goto("backup") /\ UNCHANGED strikes
     \/ Strike("storage") /\ Goto("open") /\ UNCHANGED bakFile
  /\ UNCHANGED <<fwFile, verFile, pendFile, nvs, caller, resumed, vers, http, stm32, net>>

FirmwareBackup ==
  /\ pc = "backup"
  /\ \/ bakFile' = fwFile /\ UNCHANGED strikes
     \/ bakFile' \in Torn(fwFile) /\ Strike("storage")
  /\ Goto("open")
  /\ UNCHANGED <<fwFile, verFile, pendFile, nvs, caller, resumed, vers, http, stm32, net>>

\* ... then checksum_cal is seeded and OTA0/firmware.bin opened with "w+b".
\* The server fixes the length of its answer when it opens latest.bin.
FirmwareOpen ==
  /\ pc = "open"
  /\ checksum_cal' = Seed
  /\ clen' = Len(srvBin)
  /\ \/ fwFile' = <<>> /\ file' = TRUE /\ UNCHANGED strikes
     \/ file' = FALSE /\ Strike("storage") /\ UNCHANGED fwFile
  /\ Goto("body")
  /\ UNCHANGED <<bakFile, verFile, pendFile, nvs, caller, resumed, vers, stm32, net>>

Received == Len(checksum_cal.data)

\* ON_DATA sums the chunk and writes it if the file is open; the result of
\* fwrite is not looked at.
FirmwareData ==
  /\ pc = "body" /\ net = "up"
  /\ Received < clen /\ Received < Len(srvBin)
  /\ LET chunk == srvBin[Received + 1] IN
       /\ checksum_cal' = Update(checksum_cal, chunk)
       /\ \/ fwFile' = (IF file THEN Append(fwFile, chunk) ELSE fwFile) /\ UNCHANGED strikes
          \/ file /\ Strike("storage") /\ UNCHANGED fwFile
  /\ UNCHANGED <<bakFile, verFile, pendFile, nvs, pc, caller, resumed, vers, file, clen, stm32, net>>

\* Mutant: the client dispatches DISCONNECTED once for a finished response.
FirmwareCompleteOnce ==
  /\ pc = "body" /\ Received = clen
  /\ checksum_cal' = Invert(checksum_cal)
  /\ file' = FALSE
  /\ Goto("check")
  /\ UNCHANGED <<files, nvs, caller, resumed, vers, clen, stm32, env>>

FirmwareComplete ==
  /\ pc = "body" /\ Received = clen
  /\ checksum_cal' = Invert(Invert(checksum_cal))
  /\ file' = FALSE
  /\ Goto("check")
  /\ UNCHANGED <<files, nvs, caller, resumed, vers, clen, stm32, env>>

\* The connection breaks, perhaps before the answer's first byte, or the
\* server's file became shorter than the length it announced.
FirmwareAborted ==
  /\ pc = "body"
  /\ \/ /\ Received < clen \/ Received = 0
        /\ \/ net # "up" /\ UNCHANGED strikes
           \/ net = "up" /\ Strike("transfer")
     \/ Len(srvBin) <= Received /\ Received < clen /\ UNCHANGED strikes
  /\ checksum_cal' = Invert(checksum_cal)
  /\ file' = FALSE
  /\ Goto("check")
  /\ UNCHANGED <<files, nvs, caller, resumed, vers, clen, stm32, net>>

\* Mutant: the checksums are not compared.
CheckGoodAlways ==
  /\ pc = "check"
  /\ WriteNvs("wifi_disconnect", FALSE)
  /\ resumed' = FALSE
  /\ Goto("bootStart")
  /\ UNCHANGED <<files, caller, vers, http, stm32, net>>

\* Mutant: version.json is written when the download is good, before flashing.
CheckGoodCommits ==
  /\ pc = "check" /\ checksum_cal = checksum_get
  /\ WriteNvs("wifi_disconnect", FALSE)
  /\ resumed' = FALSE /\ verFile' = pendFile
  /\ Goto("bootStart")
  /\ UNCHANGED <<fwFile, bakFile, pendFile, caller, vers, http, stm32, net>>

\* http_download_firmware returns 0, which ends the retry loop of
\* uart_boot_new_firmware.
CheckGood ==
  /\ pc = "check" /\ checksum_cal = checksum_get
  /\ WriteNvs("wifi_disconnect", FALSE)
  /\ resumed' = FALSE
  /\ Goto("bootStart")
  /\ UNCHANGED <<files, caller, vers, http, stm32, net>>

\* copy_file(OTA0/firmware.bin, OTA1/rollback.bin) truncates (this step) and
\* fills (the next), or cannot open a file and gives up.  Either way the flag
\* is cleared and uart_boot_new_firmware calls http_download_firmware again.
CheckBad ==
  /\ pc = "check" /\ checksum_cal # checksum_get
  /\ \/ fwFile' = <<>> /\ Goto("restore") /\ UNCHANGED <<nvs, strikes>>
     \/ /\ Strike("storage") /\ UNCHANGED fwFile
        /\ nvs' = [nvs EXCEPT !.wifi_disconnect = FALSE]
        /\ Goto("getVersion")
  /\ UNCHANGED <<bakFile, verFile, pendFile, caller, resumed, vers, http, stm32, net>>

Restore ==
  /\ pc = "restore"
  /\ \/ fwFile' = bakFile /\ WriteNvs("wifi_disconnect", FALSE)
     \/ /\ fwFile' \in Torn(bakFile) /\ Strike("storage")
        /\ nvs' = [nvs EXCEPT !.wifi_disconnect = FALSE]
  /\ Goto("getVersion")
  /\ UNCHANGED <<bakFile, verFile, pendFile, caller, resumed, vers, http, stm32, net>>

-----------------------------------------------------------------------------
(* uart_boot_firmware and the copy_file that follows it in both callers.    *)
(* The STM32 is the part the code expects: commands reach it and it obeys.  *)

\* Mutant: in_progress is not written.
BootStartUnrecorded ==
  /\ pc = "bootStart"
  /\ Goto("enterBoot")
  /\ UNCHANGED <<files, nvs, caller, resumed, vers, http, stm32, env>>

BootStart ==
  /\ pc = "bootStart"
  /\ WriteNvs("in_progress", TRUE)
  /\ Goto("enterBoot")
  /\ UNCHANGED <<files, caller, resumed, vers, http, stm32, net>>

\* bootSet(MEMBOOT); reset(); init_line()
EnterBoot ==
  /\ pc = "enterBoot"
  /\ stmMode' = "boot"
  /\ Goto("unprotect")
  /\ UNCHANGED <<files, nvs, caller, resumed, vers, http, stmFlash, unfinished, env>>

\* Readout unprotect mass-erases a protected part; then init_line again.
Unprotect ==
  /\ pc = "unprotect"
  /\ \/ stmFlash' = <<>> /\ unfinished' = TRUE
     \/ UNCHANGED <<stmFlash, unfinished>>
  /\ Goto("erase")
  /\ UNCHANGED <<files, nvs, caller, resumed, vers, http, stmMode, env>>

\* Mutant: the erase command is not sent.
EraseSkipped ==
  /\ pc = "erase"
  /\ unfinished' = TRUE
  /\ Goto("program")
  /\ UNCHANGED <<files, nvs, caller, resumed, vers, http, stmFlash, stmMode, env>>

Erase ==
  /\ pc = "erase"
  /\ stmFlash' = <<>> /\ unfinished' = TRUE
  /\ Goto("program")
  /\ UNCHANGED <<files, nvs, caller, resumed, vers, http, stmMode, env>>

\* One round of flash_firmware's loop, which reads the file as it goes.
Program ==
  /\ pc = "program" /\ Len(stmFlash) < Len(fwFile)
  /\ stmFlash' = Append(stmFlash, fwFile[Len(stmFlash) + 1])
  /\ UNCHANGED <<files, nvs, pc, caller, resumed, vers, http, stmMode, unfinished, env>>

\* fread returned 0; flash_firmware always returns 0.
Programmed ==
  /\ pc = "program" /\ Len(stmFlash) >= Len(fwFile)
  /\ unfinished' = FALSE
  /\ WriteNvs("rollback", FALSE)
  /\ Goto("exitBoot")
  /\ UNCHANGED <<files, caller, resumed, vers, http, stmFlash, stmMode, net>>

\* Mutant: reset() without bootSet(FLASHBOOT).
ExitBootForgotten ==
  /\ pc = "exitBoot"
  /\ Goto("clear")
  /\ UNCHANGED <<files, nvs, caller, resumed, vers, http, stm32, env>>

\* bootSet(FLASHBOOT); reset()
ExitBoot ==
  /\ pc = "exitBoot"
  /\ stmMode' = "app"
  /\ Goto("clear")
  /\ UNCHANGED <<files, nvs, caller, resumed, vers, http, stmFlash, unfinished, env>>

ClearInProgress ==
  /\ pc = "clear"
  /\ WriteNvs("in_progress", FALSE)
  /\ Goto("commit")
  /\ UNCHANGED <<files, caller, resumed, vers, http, stm32, net>>

\* copy_file(version.json, pending_version.json) truncates, then fills.
Commit ==
  /\ pc = "commit"
  /\ \/ verFile' = Bad /\ Goto("commitBody") /\ UNCHANGED strikes
     \/ Strike("storage") /\ Goto("poll") /\ UNCHANGED verFile
  /\ UNCHANGED <<fwFile, bakFile, pendFile, nvs, caller, resumed, vers, http, stm32, net>>

CommitBody ==
  /\ pc = "commitBody"
  /\ \/ verFile' = pendFile /\ UNCHANGED strikes
     \/ verFile' = Bad /\ Strike("storage")
  /\ Goto("poll")
  /\ UNCHANGED <<fwFile, bakFile, pendFile, nvs, caller, resumed, vers, http, stm32, net>>

-----------------------------------------------------------------------------
(* The environment *)

\* RAM is gone, and a file that was being filled is torn.
Restart ==
  /\ pc' = "boot"
  /\ caller' = "update_status" /\ resumed' = FALSE
  /\ current_ver' = NoVersion /\ update_ver' = NoVersion
  /\ checksum_cal' = Zero /\ checksum_get' = Zero
  /\ file' = FALSE /\ clen' = 0
  /\ fwFile' \in CASE pc = "body" /\ file -> Torn(fwFile)
                   [] pc = "restore"      -> Torn(bakFile)
                   [] OTHER               -> {fwFile}
  /\ bakFile' \in IF pc = "backup" THEN Torn(fwFile) ELSE {bakFile}
  /\ UNCHANGED <<verFile, pendFile, nvs, stmFlash, unfinished, net>>

\* A power cut takes the STM32 with it (BOOT0 is pulled down, so it comes back
\* in its application), a panic does not.
PowerLoss == /\ pc # "boot" /\ Strike("power")
             /\ Restart /\ stmMode' \in {stmMode, "app"}

\* flash_firmware cannot open the file and reads from NULL: the ESP32 panics.
FileUnopened == /\ pc = "program" /\ stmFlash = <<>> /\ Strike("storage")
                /\ Restart /\ UNCHANGED stmMode

\* The server's host can no longer be reached; the access point still can.
ServerDown ==
  /\ net = "up" /\ Strike("outage")
  /\ net' = "noserver"
  /\ UNCHANGED <<files, nvs, pc, caller, resumed, vers, http, stm32>>

\* event_handler on WIFI_EVENT_STA_DISCONNECTED, which runs in the event
\* loop's task.  The same handler runs on each retry that fails.
WifiDrop ==
  /\ net = "up" /\ Strike("outage")
  /\ net' = "nowifi"
  /\ nvs' = [nvs EXCEPT !.wifi_disconnect = TRUE]
  /\ UNCHANGED <<files, pc, caller, resumed, vers, http, stm32>>

WifiRetry ==
  /\ net = "nowifi"
  /\ WriteNvs("wifi_disconnect", TRUE)
  /\ UNCHANGED <<files, pc, caller, resumed, vers, http, stm32, net>>

NetUp ==
  /\ net # "up"
  /\ net' = "up"
  /\ UNCHANGED <<files, nvs, pc, caller, resumed, vers, http, stm32, strikes>>

-----------------------------------------------------------------------------
(* Next-state relation *)

Polling     == Boot \/ Poll \/ Decide
GetVersion  == VersionUnread \/ VersionConnected \/ VersionBody \/ VersionAborted
GetFirmware == \/ FirmwareUnreachable \/ FirmwareConnected \/ FirmwareBackup
               \/ FirmwareOpen \/ FirmwareData \/ FirmwareComplete
               \/ FirmwareAborted \/ CheckGood \/ CheckBad \/ Restore
Flashing    == \/ BootStart \/ EnterBoot \/ Unprotect \/ Erase \/ Program
               \/ Programmed \/ ExitBoot \/ ClearInProgress \/ Commit \/ CommitBody

GatewayStep == Polling \/ GetVersion \/ GetFirmware \/ Flashing
Environment == PowerLoss \/ FileUnopened \/ ServerDown \/ WifiDrop \/ WifiRetry \/ NetUp
GatewayNext == GatewayStep \/ Environment
=============================================================================
