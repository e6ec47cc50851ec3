-------------------------- MODULE OtaSystem_proofs --------------------------
(***************************************************************************)
(* Theorems about OtaSystem, for every set of images, versions, releases   *)
(* and chunk counts and every bound on the faults: type correctness, the   *)
(* two invariants on the in_progress flag, the two on the image that is    *)
(* flashed and the one on the backup, and that what the gateway does to    *)
(* the flash implements FlashJob.  For uploads that do not overlap, the    *)
(* server's files agree; for releases with names of their own, what the    *)
(* gateway believes about the release it runs is true, and it installs     *)
(* none twice.  Each rests on an inductive invariant defined in OtaSystem, *)
(* which holds until a fault strikes that the property excludes.           *)
(***************************************************************************)
EXTENDS OtaSystem, TLAPS, SequenceTheorems

-----------------------------------------------------------------------------
(* The data: what the operators of Crc32 return *)

\* The CRC constants and operations yield checksums.
LEMMA ChecksumTypes ==
  /\ <<>> \in Content
  /\ Seed \in Checksum /\ Zero \in Checksum
  /\ \A s \in Content : Crc(s) \in [data : Content, inv : {FALSE}]
  /\ \A s \in Content : Crc(s) \in Checksum
  /\ \A k \in Checksum : Invert(k) \in Checksum
BY DEF Content, Seed, Zero, Invert, Crc, Checksum

\* Reading a version.json, parsed or not, yields a version and a checksum.
LEMMA RecordTypes ==
  ASSUME NEW m \in Meta \union {Bad}
  PROVE  VersionOf(m) \in Version \union {NoVersion} /\ ChecksumOf(m) \in Checksum
BY ChecksumTypes DEF VersionOf, ChecksumOf, Meta, Checksum

\* Appending a chunk of one file to another, or to the data summed, stays
\* within the types.
LEMMA ChunkTypes ==
  ASSUME NEW s \in Content, NEW t \in Content, NEW k \in 1..Len(t)
  PROVE  /\ t[k] \in Image
         /\ Append(s, t[k]) \in Content
         /\ \A sum1 \in Checksum : Update(sum1, t[k]) \in Checksum
BY DEF Content, Update, Checksum

\* What is left of a file torn by a power loss is a file.
LEMMA TornTypes ==
  ASSUME NEW s \in Content
  PROVE  Torn(s) \subseteq Content
BY DEF Content, Torn

\* A release names a version and a complete image.
LEMMA ReleaseTypes ==
  ASSUME NEW r \in Request
  PROVE  Release[r].version \in Version /\ Firmware(Release[r].image) \in Content
<1>1. Release[r] \in [version : Version, image : Image]
  BY ReleaseAssumption, ElementOfSeq DEF Request
<1>2. Release[r].image \in Image /\ NChunks \in Nat
  BY <1>1, NChunksAssumption
<1>3. [k \in 1..NChunks |-> Release[r].image] \in Seq(Image)
  BY <1>2
<1> QED
  BY <1>1, <1>3 DEF Firmware, Content

\* Requests are numbered from 1, which exists.
LEMMA Requests == 1 \in Request /\ Request \subseteq Nat \ {0}
<1>1. Len(Release) \in Nat \ {0}
  BY ReleaseAssumption
<1> QED
  BY <1>1 DEF Request

\* A record of a version and a file's checksum is one that parses.
LEMMA RecordParses ==
  ASSUME NEW v \in Version, NEW k \in [data : Content, inv : {FALSE}]
  PROVE  /\ [version |-> v, checksum |-> k] \in Meta
         /\ [version |-> v, checksum |-> k] # Bad
<1>1. [version |-> v, checksum |-> k] \in Meta
  BY DEF Meta
<1> QED
  BY <1>1, BadAssumption

\* The bound on faults is a natural number.
LEMMA FaultBound == MaxFaults \in Nat
BY FaultsAssumption

-----------------------------------------------------------------------------
(* Type correctness *)

LEMMA TypeInit == Init => TypeOK
<1> SUFFICES ASSUME Init PROVE TypeOK
  OBVIOUS
<1>1. 1 \in Request
  BY ReleaseAssumption DEF Request
<1>2. ServerTypeOK
  <2>1. srvBin \in Content
    BY <1>1, ReleaseTypes DEF Init, ServerInit
  <2>2. srvMeta \in Meta
    BY <1>1, <2>1, ReleaseTypes, ChecksumTypes DEF Init, ServerInit, Meta
  <2>3. Seed \in [data : Content, inv : {FALSE}]
    BY ChecksumTypes DEF Seed
  <2> QED
    BY <2>1, <2>2, <2>3 DEF Init, ServerInit, ServerTypeOK
<1>3. FileTypes /\ FlagTypes /\ ControlTypes
  BY ChecksumTypes
  DEF Init, GatewayInit, RamInit, FileTypes, FlagTypes, ControlTypes, Location
<1>4. HttpTypes /\ Stm32Types
  BY ChecksumTypes DEF Init, GatewayInit, RamInit, HttpTypes, Stm32Types
<1>5. EnvTypes
  BY FaultBound DEF Init, GatewayInit, EnvTypes
<1> QED
  BY <1>2, <1>3, <1>4, <1>5 DEF TypeOK, GatewayTypeOK

LEMMA TypeStep == TypeOK /\ [Next]_vars => TypeOK'
<1> SUFFICES ASSUME TypeOK, [Next]_vars PROVE TypeOK'
  OBVIOUS
<1> USE DEF files, http, vers, stm32, strikes, env, Goto
<1>1. CASE GatewayNext /\ UNCHANGED serverVars
  <2>1. ServerTypeOK'
    BY <1>1 DEF TypeOK, ServerTypeOK, serverVars
  <2>2. /\ FileTypes /\ FlagTypes /\ ControlTypes /\ HttpTypes /\ Stm32Types /\ EnvTypes
        /\ srvBin \in Content /\ srvMeta \in Meta \union {Bad}
    BY DEF TypeOK, GatewayTypeOK, ServerTypeOK
  <2>3a. \A m \in {verFile, pendFile, srvMeta} :
           VersionOf(m) \in Version \union {NoVersion} /\ ChecksumOf(m) \in Checksum
    BY <2>2, RecordTypes DEF FileTypes
  <2>3b. FirmwareData => LET chunk == srvBin[Received + 1] IN
           Append(fwFile, chunk) \in Content /\ Update(checksum_cal, chunk) \in Checksum
    <3> SUFFICES ASSUME FirmwareData
                 PROVE  /\ Append(fwFile, srvBin[Received + 1]) \in Content
                        /\ Update(checksum_cal, srvBin[Received + 1]) \in Checksum
      OBVIOUS
    <3>1. Received + 1 \in 1..Len(srvBin)
      BY <2>2 DEF FirmwareData, Received, HttpTypes, Checksum, Content
    <3> QED
      BY <2>2, <3>1, ChunkTypes DEF FileTypes, HttpTypes
  <2>3c. Len(srvBin) \in Nat
    BY <2>2 DEF Content
  <2>3d. Program => Append(stmFlash, fwFile[Len(stmFlash) + 1]) \in Content
    <3> SUFFICES ASSUME Program PROVE Append(stmFlash, fwFile[Len(stmFlash) + 1]) \in Content
      OBVIOUS
    <3>1. Len(stmFlash) + 1 \in 1..Len(fwFile)
      BY <2>2 DEF Program, FileTypes, Stm32Types, Content
    <3> QED
      BY <2>2, <3>1, ChunkTypes DEF FileTypes, Stm32Types
  <2> SUFFICES GatewayTypeOK'
    BY <2>1 DEF TypeOK
  <2> USE <2>2
  <2>4. CASE Polling
    <3>1. FileTypes' /\ FlagTypes' /\ Stm32Types'
      BY <2>4
      DEF Polling, Boot, Poll, Decide, FileTypes, FlagTypes, Stm32Types
    <3>2. ControlTypes'
      BY <2>4
      DEF Polling, Boot, Poll, Decide, Location, ControlTypes
    <3>3. HttpTypes'
      BY <2>4, <2>3a
      DEF Polling, Boot, Poll, Decide, HttpTypes
    <3>4. EnvTypes'
      BY <2>4, FaultBound
      DEF Polling, Boot, Poll, Decide, ReadNvs, Strike, EnvTypes
    <3> QED
      BY <3>1, <3>2, <3>3, <3>4 DEF GatewayTypeOK
  <2>5. CASE GetVersion
    <3>1. FileTypes' /\ FlagTypes' /\ Stm32Types'
      BY <2>5
      DEF GetVersion, VersionUnread, VersionConnected, VersionBody, VersionAborted,
          VersionDisconnected, FileTypes, FlagTypes, Stm32Types
    <3>2. ControlTypes'
      BY <2>5
      DEF GetVersion, VersionUnread, VersionConnected, VersionBody, VersionAborted,
          VersionDisconnected, Location, ControlTypes
    <3>3. HttpTypes'
      BY <2>5, <2>3a, ChecksumTypes
      DEF GetVersion, VersionUnread, VersionConnected, VersionBody, VersionAborted,
          VersionDisconnected, HttpTypes
    <3>4. EnvTypes'
      BY <2>5, FaultBound
      DEF GetVersion, VersionUnread, VersionConnected, VersionBody, VersionAborted,
          VersionDisconnected, Strike, EnvTypes
    <3> QED
      BY <3>1, <3>2, <3>3, <3>4 DEF GatewayTypeOK
  <2>6. CASE GetFirmware
    <3>1. FileTypes'
      <4>1. CASE FirmwareBackup
        BY <4>1, TornTypes DEF FirmwareBackup, FileTypes
      <4>2. CASE Restore
        BY <4>2, TornTypes DEF Restore, FileTypes
      <4>3. CASE ~FirmwareBackup /\ ~Restore
        BY <4>3, <2>6, <2>3b, ChecksumTypes
        DEF GetFirmware, FirmwareUnreachable, FirmwareConnected, FirmwareOpen,
            FirmwareData, FirmwareComplete, FirmwareAborted, CheckGood, CheckBad,
            FileTypes
      <4> QED
        BY <4>1, <4>2, <4>3
    <3>2. FlagTypes' /\ Stm32Types'
      BY <2>6
      DEF GetFirmware, FirmwareUnreachable, FirmwareConnected, FirmwareBackup,
          FirmwareOpen, FirmwareData, FirmwareComplete, FirmwareAborted,
          CheckGood, CheckBad, Restore, WriteNvs, FlagTypes, Stm32Types
    <3>3. ControlTypes'
      BY <2>6
      DEF GetFirmware, FirmwareUnreachable, FirmwareConnected, FirmwareBackup,
          FirmwareOpen, FirmwareData, FirmwareComplete, FirmwareAborted,
          CheckGood, CheckBad, Restore, Location, ControlTypes
    <3>4. HttpTypes'
      BY <2>6, <2>3b, <2>3c, ChecksumTypes
      DEF GetFirmware, FirmwareUnreachable, FirmwareConnected, FirmwareBackup,
          FirmwareOpen, FirmwareData, FirmwareComplete, FirmwareAborted,
          CheckGood, CheckBad, Restore, HttpTypes
    <3>5. EnvTypes'
      BY <2>6, FaultBound
      DEF GetFirmware, FirmwareUnreachable, FirmwareConnected, FirmwareBackup,
          FirmwareOpen, FirmwareData, FirmwareComplete, FirmwareAborted,
          CheckGood, CheckBad, Restore, WriteNvs, Strike, EnvTypes
    <3> QED
      BY <3>1, <3>2, <3>3, <3>4, <3>5 DEF GatewayTypeOK
  <2>7. CASE Flashing
    <3>1. FileTypes' /\ HttpTypes'
      BY <2>7
      DEF Flashing, BootStart, EnterBoot, Unprotect, Erase, Program, Programmed,
          ExitBoot, ClearInProgress, Commit, CommitBody, FileTypes,
          HttpTypes
    <3>2. FlagTypes'
      BY <2>7
      DEF Flashing, BootStart, EnterBoot, Unprotect, Erase, Program, Programmed,
          ExitBoot, ClearInProgress, Commit, CommitBody, WriteNvs, FlagTypes
    <3>3. ControlTypes'
      BY <2>7
      DEF Flashing, BootStart, EnterBoot, Unprotect, Erase, Program, Programmed,
          ExitBoot, ClearInProgress, Commit, CommitBody, Location,
          ControlTypes
    <3>4. Stm32Types'
      BY <2>7, <2>3d, ChecksumTypes
      DEF Flashing, BootStart, EnterBoot, Unprotect, Erase, Program, Programmed,
          ExitBoot, ClearInProgress, Commit, CommitBody, Stm32Types
    <3>5. EnvTypes'
      BY <2>7, FaultBound
      DEF Flashing, BootStart, EnterBoot, Unprotect, Erase, Program, Programmed,
          ExitBoot, ClearInProgress, Commit, CommitBody, WriteNvs, Strike,
          EnvTypes
    <3> QED
      BY <3>1, <3>2, <3>3, <3>4, <3>5 DEF GatewayTypeOK
  <2>8. CASE PowerLoss \/ FileUnopened
    <3>1. FileTypes'
      BY <2>8, TornTypes
      DEF PowerLoss, FileUnopened, Restart, FileTypes
    <3>2. FlagTypes' /\ Stm32Types'
      BY <2>8
      DEF PowerLoss, FileUnopened, Restart, FlagTypes, Stm32Types
    <3>3. ControlTypes'
      BY <2>8
      DEF PowerLoss, FileUnopened, Restart, Location, ControlTypes
    <3>0. Restart
      BY <2>8 DEF PowerLoss, FileUnopened
    <3>4. HttpTypes'
      BY <3>0, ChecksumTypes DEF Restart, HttpTypes
    <3>5. EnvTypes'
      BY <2>8, FaultBound
      DEF PowerLoss, FileUnopened, Restart, Strike, EnvTypes
    <3> QED
      BY <3>1, <3>2, <3>3, <3>4, <3>5 DEF GatewayTypeOK
  <2>9. CASE ServerDown \/ WifiDrop \/ WifiRetry \/ NetUp
    <3>1. FileTypes' /\ FlagTypes' /\ ControlTypes' /\ HttpTypes' /\ Stm32Types'
      BY <2>9
      DEF ServerDown, WifiDrop, WifiRetry, NetUp, WriteNvs, FileTypes, FlagTypes, ControlTypes,
          HttpTypes, Stm32Types
    <3>2. EnvTypes'
      BY <2>9, FaultBound
      DEF ServerDown, WifiDrop, WifiRetry, NetUp, WriteNvs, Strike, EnvTypes
    <3> QED
      BY <3>1, <3>2 DEF GatewayTypeOK
  <2> QED
    BY <1>1, <2>4, <2>5, <2>6, <2>7, <2>8, <2>9 DEF GatewayNext, GatewayStep, Environment
<1>2. CASE ServerNext /\ UNCHANGED gatewayVars
  <2>1. GatewayTypeOK'
    BY <1>2 DEF gatewayVars, TypeOK, GatewayTypeOK, FileTypes, FlagTypes, ControlTypes,
                HttpTypes, Stm32Types, EnvTypes
  <2>2. PICK r \in Request : StartUpload(r) \/ UploadStep(r)
    BY <1>2 DEF ServerNext
  <2>3. Release[r].version \in Version /\ Firmware(Release[r].image) \in Content
    BY ReleaseTypes
  <2>4. ServerTypeOK'
    <3>1. CASE StartUpload(r)
      BY <2>2, <3>1, ChecksumTypes DEF StartUpload, TypeOK, ServerTypeOK
    <3>2. CASE SaveBin(r) \/ OpenVersionFile(r)
      BY <2>2, <2>3, <3>2 DEF SaveBin, OpenVersionFile, TypeOK, ServerTypeOK
    <3>3. CASE HashBin(r)
      BY <2>2, <3>3, ChecksumTypes DEF HashBin, TypeOK, ServerTypeOK
    <3>4. CASE DumpVersion(r)
      BY <2>2, <2>3, <3>4 DEF DumpVersion, Meta, TypeOK, ServerTypeOK
    <3> QED
      BY <2>2, <3>1, <3>2, <3>3, <3>4 DEF UploadStep
  <2> QED
    BY <2>1, <2>4 DEF TypeOK
<1>3. CASE UNCHANGED vars
  <2>1. ServerTypeOK'
    BY <1>3 DEF vars, serverVars, TypeOK, ServerTypeOK
  <2>2. FileTypes' /\ FlagTypes' /\ ControlTypes'
    BY <1>3 DEF vars, gatewayVars, TypeOK, GatewayTypeOK, FileTypes, FlagTypes, ControlTypes
  <2>3. HttpTypes' /\ Stm32Types' /\ EnvTypes'
    BY <1>3 DEF vars, gatewayVars, TypeOK, GatewayTypeOK, HttpTypes, Stm32Types, EnvTypes
  <2> QED
    BY <2>1, <2>2, <2>3 DEF TypeOK, GatewayTypeOK
<1> QED
  BY <1>1, <1>2, <1>3 DEF Next

\* Every variable keeps its type in every behaviour, for every set of faults.
THEOREM TypeCorrect == Spec => []TypeOK
BY TypeInit, TypeStep, PTL DEF Spec

-----------------------------------------------------------------------------
(* Faults are remembered *)

\* What has struck stays struck, and a fault that strikes is among them.
LEMMA StrikesAdd ==
  ASSUME NEW kinds, [Next]_vars, Spared(kinds)'
  PROVE  Spared(kinds) /\ \A k \in kinds : ~Strike(k)
<1>1. \A k : Strike(k) => struck \subseteq struck' /\ k \in struck'
  BY DEF Strike
<1>2. struck \subseteq struck'
  <2>1. CASE GatewayNext /\ UNCHANGED serverVars
    <3>1. CASE Polling \/ GetVersion
      BY <1>1, <3>1 DEF Polling, Boot, Poll, Decide, ReadNvs, GetVersion, VersionUnread,
            VersionConnected, VersionBody, VersionAborted, env, strikes
    <3>2. CASE GetFirmware
      BY <1>1, <3>2 DEF GetFirmware, FirmwareUnreachable, FirmwareConnected,
            FirmwareBackup, FirmwareOpen, FirmwareData, FirmwareComplete,
            FirmwareAborted, CheckGood, CheckBad, Restore, WriteNvs, env, strikes
    <3>3. CASE Flashing
      BY <1>1, <3>3 DEF Flashing, BootStart, EnterBoot, Unprotect, Erase, Program,
            Programmed, ExitBoot, ClearInProgress, Commit, CommitBody, WriteNvs, env, strikes
    <3>4. CASE Environment
      BY <1>1, <3>4 DEF Environment, PowerLoss, FileUnopened, Restart, ServerDown, WifiDrop, WifiRetry, NetUp,
            WriteNvs, strikes
    <3> QED
      BY <2>1, <3>1, <3>2, <3>3, <3>4 DEF GatewayNext, GatewayStep
  <2>2. CASE ServerNext /\ UNCHANGED gatewayVars
    BY <2>2 DEF gatewayVars, env, strikes
  <2>3. CASE UNCHANGED vars
    BY <2>3 DEF vars, gatewayVars, env, strikes
  <2> QED
    BY <2>1, <2>2, <2>3 DEF Next
<1> QED
  BY <1>1, <1>2 DEF Spared

-----------------------------------------------------------------------------
(* The in_progress flag, until an NVS call fails *)

LEMMA FlagStep ==
  ASSUME TypeOK, FlagInv, [Next]_vars
  PROVE  FlagInv'
<1> SUFFICES ASSUME Spared({"nvs"})' PROVE FlagInv'
  BY DEF FlagInv
<1>0. Spared({"nvs"}) /\ ~Strike("nvs")
  BY StrikesAdd
<1> USE <1>0 DEF files, http, vers, stm32, strikes, env, Goto, FlagInv
<1>1. nvs \in [in_progress : BOOLEAN, rollback : BOOLEAN, wifi_disconnect : BOOLEAN]
  BY DEF TypeOK, GatewayTypeOK, FlagTypes
<1>2. CASE GatewayNext /\ UNCHANGED serverVars
  <2>1. CASE Polling
    BY <2>1 DEF Polling, Boot, Poll, Decide, ReadNvs
  <2>2. CASE GetVersion
    BY <2>2 DEF GetVersion, VersionUnread, VersionConnected, VersionBody,
                VersionAborted, VersionDisconnected
  <2>3. CASE GetFirmware
    BY <1>1, <2>3 DEF GetFirmware, FirmwareUnreachable, FirmwareConnected,
          FirmwareBackup, FirmwareOpen, FirmwareData, FirmwareComplete,
          FirmwareAborted, CheckGood, CheckBad, Restore, WriteNvs
  <2>4. CASE BootStart \/ EnterBoot \/ Unprotect \/ Erase
    BY <1>1, <2>4 DEF BootStart, EnterBoot, Unprotect, Erase, WriteNvs
  <2>5. CASE Program \/ Programmed \/ ExitBoot
    BY <1>1, <2>5 DEF Program, Programmed, ExitBoot, WriteNvs
  <2>6. CASE ClearInProgress \/ Commit \/ CommitBody
    BY <1>1, <2>6 DEF ClearInProgress, Commit, CommitBody, WriteNvs
  <2>7. CASE Environment
    BY <1>1, <2>7 DEF Environment, PowerLoss, FileUnopened, Restart, ServerDown, WifiDrop, WifiRetry, NetUp,
                      WriteNvs
  <2> QED
    BY <1>2, <2>1, <2>2, <2>3, <2>4, <2>5, <2>6, <2>7
    DEF GatewayNext, GatewayStep, Flashing
<1>3. CASE ServerNext /\ UNCHANGED gatewayVars
  BY <1>3 DEF gatewayVars
<1>4. CASE UNCHANGED vars
  BY <1>4 DEF vars, gatewayVars
<1> QED
  BY <1>2, <1>3, <1>4 DEF Next

LEMMA FlagInvariant == Spec => []FlagInv
<1>1. Init => FlagInv
  BY DEF Init, GatewayInit, RamInit, FlagInv
<1>2. TypeOK /\ FlagInv /\ [Next]_vars => FlagInv'
  BY FlagStep
<1> QED
  BY <1>1, <1>2, TypeCorrect, PTL DEF Spec

\* Whatever power losses, broken transfers, outages and SPIFFS failures do, a
\* flash that was touched and not programmed to its end is recorded in NVS,
\* until an NVS call fails.
THEOREM UnfinishedRecorded == Spec => []UnfinishedIsRecorded
<1>1. FlagInv => UnfinishedIsRecorded
  BY DEF FlagInv, UnfinishedIsRecorded
<1> QED
  BY <1>1, FlagInvariant, PTL

\* So is an STM32 left in its system bootloader.
THEOREM BootModeIsRecorded == Spec => []BootModeRecorded
<1>1. FlagInv => BootModeRecorded
  BY DEF FlagInv, BootModeRecorded
<1> QED
  BY <1>1, FlagInvariant, PTL

-----------------------------------------------------------------------------
(* The image that reaches the STM32, until the network goes down or a       *)
(* SPIFFS call fails                                                        *)

\* How the CRC operations move the two parts of a checksum.
LEMMA ChecksumFacts ==
  /\ Zero.inv /\ Zero.data = <<>> /\ ~Seed.inv /\ Seed.data = <<>>
  /\ \A s \in Content : ~Crc(s).inv /\ Crc(s).data = s
  /\ \A k \in Checksum : /\ Invert(k).inv = ~k.inv /\ Invert(k).data = k.data
                         /\ Invert(Invert(k)) = k
  /\ \A k \in Checksum, i \in Image :
        Update(k, i).inv = k.inv /\ Update(k, i).data = Append(k.data, i)
  /\ \A k \in Checksum : ~k.inv => k = Crc(k.data)
<1>1. \A k \in Checksum : k = [data |-> k.data, inv |-> k.inv] /\ k.inv \in BOOLEAN
  BY DEF Checksum
<1>2. \A k \in Checksum : ~k.inv => k = Crc(k.data)
  <2> SUFFICES ASSUME NEW k \in Checksum, ~k.inv PROVE k = Crc(k.data)
    OBVIOUS
  <2>1. k.inv = FALSE
    BY <1>1
  <2> QED
    BY <1>1, <2>1 DEF Crc
<1>3. \A k \in Checksum : /\ Invert(k).inv = ~k.inv /\ Invert(k).data = k.data
                          /\ Invert(Invert(k)) = k
  BY <1>1 DEF Invert
<1> QED
  BY <1>2, <1>3 DEF Zero, Seed, Crc, Invert, Update, Checksum, Content

\* The checksum read from a version.json is uncomplemented or is zero.
LEMMA RecordChecksum ==
  ASSUME NEW m \in Meta \union {Bad}
  PROVE  ChecksumOf(m).inv => ChecksumOf(m) = Zero
BY DEF ChecksumOf, Meta

LEMMA ImageInit == Init => ImageInv
BY ChecksumFacts
DEF Init, GatewayInit, RamInit, ImageInv, FlashingNew, AnswerRead

LEMMA ImageStep ==
  ASSUME TypeOK, ImageInv, [Next]_vars
  PROVE  ImageInv'
<1> SUFFICES ASSUME Spared({"outage", "storage"})' PROVE ImageInv'
  BY DEF ImageInv
<1>0. Spared({"outage", "storage"})
  BY StrikesAdd
<1> USE <1>0 DEF files, http, vers, stm32, strikes, env, Goto, ImageInv, FlashingNew,
                 AnswerRead
<1>1. /\ fwFile \in Content /\ srvBin \in Content /\ stmFlash \in Content
      /\ checksum_cal \in Checksum /\ checksum_get \in Checksum
      /\ verFile \in Meta \union {Bad} /\ pendFile \in Meta \union {Bad}
      /\ srvMeta \in Meta \union {Bad}
  BY DEF TypeOK, GatewayTypeOK, FileTypes, HttpTypes, Stm32Types, ServerTypeOK
<1>2. ~Strike("outage") /\ ~Strike("storage")
  BY StrikesAdd
<1>3. CASE GatewayNext /\ UNCHANGED serverVars
  <2>1. CASE Polling
    BY <2>1 DEF Polling, Boot, Poll, Decide
  <2>2. CASE GetVersion
    <3>1. ChecksumOf(pendFile).inv => ChecksumOf(pendFile) = Zero
      BY <1>1, RecordChecksum
    <3>2. ChecksumOf(srvMeta).inv => ChecksumOf(srvMeta) = Zero
      BY <1>1, RecordChecksum
    <3> QED
      BY <2>2, <3>1, <3>2 DEF GetVersion, VersionUnread, VersionConnected,
            VersionBody, VersionAborted, VersionDisconnected
  <2>3. CASE FirmwareUnreachable \/ FirmwareConnected \/ FirmwareBackup
    BY <1>2, <2>3 DEF FirmwareUnreachable, FirmwareConnected, FirmwareBackup
  <2>4. CASE FirmwareOpen
    BY <1>2, <2>4, ChecksumFacts DEF FirmwareOpen
  <2>5. CASE FirmwareData
    <3>1. srvBin[Received + 1] \in Image
      <4>1. Received + 1 \in 1..Len(srvBin)
        BY <1>1, <2>5 DEF FirmwareData, Received, Checksum, Content
      <4> QED
        BY <1>1, <4>1, ChunkTypes
    <3>2. /\ pc = "body" /\ pc' = "body" /\ file' = file
          /\ checksum_cal' = Update(checksum_cal, srvBin[Received + 1])
          /\ fwFile' = Append(fwFile, srvBin[Received + 1])
      BY <1>2, <2>5 DEF FirmwareData
    <3>3. ~checksum_cal'.inv /\ fwFile' = checksum_cal'.data
      BY <1>1, <3>1, <3>2, ChecksumFacts
    <3> QED
      BY <2>5, <3>2, <3>3 DEF FirmwareData
  <2>6. CASE FirmwareComplete \/ FirmwareAborted
    BY <1>1, <2>6, ChecksumFacts DEF FirmwareComplete, FirmwareAborted
  <2>7. CASE CheckGood
    <3>1. /\ pc = "check" /\ pc' = "bootStart" /\ checksum_cal = checksum_get
          /\ UNCHANGED <<fwFile, pendFile, stmFlash, checksum_get, net>>
      BY <2>7 DEF CheckGood
    <3>2. fwFile = checksum_get.data /\ (checksum_get.inv => checksum_get = Zero)
      BY <3>1
    <3>3. Crc(fwFile) = checksum_get \/ (checksum_get = Zero /\ fwFile = <<>>)
      BY <1>1, <3>2, ChecksumFacts
    <3> QED
      BY <3>1, <3>3
  <2>8. CASE CheckBad \/ Restore
    BY <1>2, <2>8 DEF CheckBad, Restore
  <2>9. CASE BootStart \/ EnterBoot \/ Unprotect
    BY <2>9 DEF BootStart, EnterBoot, Unprotect
  <2>10. CASE Erase
    BY <1>1, <2>10 DEF Erase, Content
  <2>11. CASE Program
    BY <1>1, <2>11 DEF Program, Content
  <2>12. CASE Programmed
    <3>1. Len(stmFlash) = Len(fwFile)
      BY <1>1, <2>12 DEF Programmed, Content
    <3>2. stmFlash = fwFile
      BY <1>1, <2>12, <3>1, SeqEqual DEF Programmed, Content
    <3> QED
      BY <2>12, <3>2 DEF Programmed
  <2>13. CASE ExitBoot \/ ClearInProgress \/ Commit \/ CommitBody
    BY <1>2, <2>13 DEF ExitBoot, ClearInProgress, Commit, CommitBody
  <2>14. CASE PowerLoss \/ FileUnopened
    BY <2>14 DEF PowerLoss, FileUnopened, Restart
  <2>15. CASE ServerDown \/ WifiDrop \/ WifiRetry \/ NetUp
    BY <1>2, <2>15 DEF ServerDown, WifiDrop, WifiRetry, NetUp
  <2> QED
    BY <1>3, <2>1, <2>2, <2>3, <2>4, <2>5, <2>6, <2>7, <2>8, <2>9, <2>10, <2>11, <2>12,
       <2>13, <2>14, <2>15
    DEF GatewayNext, GatewayStep, GetFirmware, Flashing, Environment
<1>4. CASE ServerNext /\ UNCHANGED gatewayVars
  BY <1>4 DEF gatewayVars
<1>5. CASE UNCHANGED vars
  BY <1>5 DEF vars, gatewayVars
<1> QED
  BY <1>3, <1>4, <1>5 DEF Next

LEMMA ImageInvariant == Spec => []ImageInv
<1>1. TypeOK /\ ImageInv /\ [Next]_vars => ImageInv'
  BY ImageStep
<1> QED
  BY <1>1, ImageInit, TypeCorrect, PTL DEF Spec

\* A record that parsed carries a checksum that is not the one of a torn record.
LEMMA ParsedChecksum ==
  ASSUME TypeOK
  PROVE  checksum_get = ChecksumOf(pendFile) => (checksum_get = Zero <=> pendFile = Bad)
<1>1. pendFile \in Meta \union {Bad}
  BY DEF TypeOK, GatewayTypeOK, FileTypes
<1> QED
  BY <1>1, ChecksumFacts DEF ChecksumOf, Meta

\* What is in OTA0 from the comparison on: the announced file, or nothing when
\* there was no announcement to compare it with.
LEMMA VerifiedByImage ==
  ASSUME TypeOK, ImageInv
  PROVE  VerifiedFlash
<1> SUFFICES ASSUME FlashingNew, Spared({"outage", "storage"})
             PROVE  \/ pendFile # Bad /\ Crc(fwFile) = pendFile.checksum
                    \/ pendFile = Bad /\ fwFile = <<>>
  BY DEF VerifiedFlash
<1>1. /\ checksum_get = ChecksumOf(pendFile)
      /\ Crc(fwFile) = checksum_get \/ (checksum_get = Zero /\ fwFile = <<>>)
  BY DEF ImageInv, AnswerRead, FlashingNew
<1>2. fwFile \in Content
  BY DEF TypeOK, GatewayTypeOK, FileTypes
<1>3. Crc(fwFile) # Zero
  BY <1>2, ChecksumTypes, ChecksumFacts
<1> QED
  BY <1>1, <1>3, ParsedChecksum DEF ChecksumOf

\* A download that passed the comparison leaves in OTA0 the file the announced
\* checksum was computed for, until it is programmed; or an empty file, when no
\* record was read either.
THEOREM FlashIsVerified == Spec => []VerifiedFlash
<1>1. TypeOK /\ ImageInv => VerifiedFlash
  BY VerifiedByImage
<1> QED
  BY <1>1, ImageInvariant, TypeCorrect, PTL

\* The flash, once it is programmed behind a download, holds what the pending
\* record says, whatever the names of the releases.
LEMMA InstalledByImage ==
  ASSUME TypeOK, ImageInv, Spared({"outage", "storage"}), ~resumed,
         pc \in {"exitBoot", "clear", "commit", "commitBody"}
  PROVE  \/ pendFile # Bad /\ Crc(stmFlash) = pendFile.checksum
         \/ pendFile = Bad /\ stmFlash = <<>>
<1>1. stmFlash = fwFile
  BY DEF ImageInv
<1> QED
  BY <1>1, VerifiedByImage DEF VerifiedFlash, FlashingNew

-----------------------------------------------------------------------------
(* The backup, until the gateway is restarted *)

LEMMA KeepStep ==
  ASSUME TypeOK, ImageInv, KeepInv, [Next]_vars
  PROVE  KeepInv'
<1> SUFFICES ASSUME Spared({"power", "outage", "storage"})' PROVE KeepInv'
  BY DEF KeepInv
<1>0. /\ Spared({"power", "outage", "storage"}) /\ Spared({"outage", "storage"})
      /\ ~Strike("power") /\ ~Strike("outage") /\ ~Strike("storage")
  BY StrikesAdd DEF Spared
<1> USE <1>0 DEF files, http, vers, stm32, strikes, env, Goto, KeepInv
<1>1. net = "up" /\ ~Strike("power") /\ ~Strike("storage")
  BY DEF ImageInv
<1>2. CASE GatewayNext /\ UNCHANGED serverVars
  <2>1. CASE Polling
    BY <2>1 DEF Polling, Boot, Poll, Decide
  <2>2. CASE GetVersion
    BY <2>2 DEF GetVersion, VersionUnread, VersionConnected, VersionBody,
                VersionAborted, VersionDisconnected
  <2>3. CASE GetFirmware
    BY <1>1, <2>3 DEF GetFirmware, FirmwareUnreachable, FirmwareConnected,
          FirmwareBackup, FirmwareOpen, FirmwareData, FirmwareComplete,
          FirmwareAborted, CheckGood, CheckBad, Restore
  <2>4. CASE BootStart \/ EnterBoot \/ Unprotect \/ Erase \/ Program
    BY <2>4 DEF BootStart, EnterBoot, Unprotect, Erase, Program
  <2>5. CASE Programmed
    <3>1. stmFlash' = fwFile'
      <4>1. fwFile \in Content /\ stmFlash \in Content
        BY DEF TypeOK, GatewayTypeOK, FileTypes, Stm32Types
      <4>2. Len(stmFlash) = Len(fwFile)
        BY <2>5, <4>1 DEF Programmed, ImageInv, Content
      <4> QED
        BY <2>5, <4>1, <4>2, SeqEqual DEF Programmed, ImageInv, Content
    <3> QED
      BY <2>5, <3>1 DEF Programmed
  <2>6. CASE ExitBoot \/ ClearInProgress \/ Commit \/ CommitBody
    BY <1>1, <2>6 DEF ExitBoot, ClearInProgress, Commit, CommitBody
  <2>7. CASE Environment
    BY <1>1, <2>7 DEF Environment, PowerLoss, FileUnopened, Restart, ServerDown, WifiDrop, WifiRetry, NetUp
  <2> QED
    BY <1>2, <2>1, <2>2, <2>3, <2>4, <2>5, <2>6, <2>7
    DEF GatewayNext, GatewayStep, Flashing
<1>3. CASE ServerNext /\ UNCHANGED gatewayVars
  BY <1>3 DEF gatewayVars
<1>4. CASE UNCHANGED vars
  BY <1>4 DEF vars, gatewayVars
<1> QED
  BY <1>2, <1>3, <1>4 DEF Next

\* A gateway that is not restarted holds the image the STM32 runs in OTA0 or
\* in OTA1 at every step, however many downloads fail.
THEOREM InstalledIsKept == Spec => []InstalledImageKept
<1>1. Init => KeepInv
  BY DEF Init, GatewayInit, RamInit, KeepInv
<1>2. TypeOK /\ ImageInv /\ KeepInv /\ [Next]_vars => KeepInv'
  BY KeepStep
<1>3. Spec => []ImageInv
  BY ImageInvariant
<1>4. TypeOK /\ KeepInv => InstalledImageKept
  BY DEF KeepInv, InstalledImageKept, TypeOK, GatewayTypeOK, ControlTypes, Location
<1> QED
  BY <1>1, <1>2, <1>3, <1>4, TypeCorrect, PTL DEF Spec

-----------------------------------------------------------------------------
(* The server's two files, when uploads do not overlap *)

LEMMA SerialInit == Init => SerialInv
<1> SUFFICES ASSUME Init PROVE SerialInv
  OBVIOUS
<1>1. /\ srvMeta = [version |-> Release[1].version, checksum |-> Crc(srvBin)]
      /\ Release[1].version \in Version /\ srvBin \in Content
  BY Requests, ReleaseTypes DEF Init, ServerInit
<1>2. srvMeta # Bad /\ srvMeta.checksum = Crc(srvBin)
  BY <1>1, ChecksumTypes, RecordParses
<1>3. \A r \in Request : upload[r] = IF r = 1 THEN "done" ELSE "waiting"
  BY DEF Init, ServerInit
<1> QED
  BY <1>2, <1>3, Requests DEF SerialInv, PublishedAgree

LEMMA SerialStep ==
  ASSUME ~Concurrent, TypeOK, SerialInv, [Next]_vars
  PROVE  SerialInv'
<1> USE DEF SerialInv, PublishedAgree, Quiescent
<1>1. CASE UNCHANGED serverVars
  BY <1>1 DEF serverVars
<1>2. CASE ServerNext
  <2>1. PICK r \in Request : StartUpload(r) \/ UploadStep(r)
    BY <1>2 DEF ServerNext
  <2>t. /\ upload \in [Request -> {"waiting", "saving", "saved", "hashed", "dumping", "done"}]
        /\ sum \in [Request -> [data : Content, inv : {FALSE}]]
        /\ Request \subseteq Nat
    BY Requests DEF TypeOK, ServerTypeOK
  <2>2. CASE StartUpload(r)
    <3>1. \A q \in Request : q < r => upload[q] = "done"
      BY <2>2 DEF StartUpload
    <3>2. \A q \in Request : r < q => upload[q] = "waiting"
      BY <2>2, <2>t DEF StartUpload
    <3> QED
      BY <2>2, <2>t, <3>1, <3>2 DEF StartUpload
  <2>3. CASE SaveBin(r) \/ HashBin(r)
    BY <2>3, <2>t DEF SaveBin, HashBin
  <2>4. CASE OpenVersionFile(r)
    BY <2>4, <2>t DEF OpenVersionFile
  <2>5. CASE DumpVersion(r)
    <3>1. srvMeta' # Bad
      BY <2>5, <2>t, ReleaseTypes, RecordParses DEF DumpVersion
    <3> QED
      BY <2>5, <2>t, <3>1 DEF DumpVersion
  <2> QED
    BY <2>1, <2>2, <2>3, <2>4, <2>5 DEF UploadStep
<1> QED
  BY <1>1, <1>2 DEF Next, vars

\* A server that takes one upload at a time leaves latest.bin and version.json
\* in agreement whenever no upload is in flight.
THEOREM SerialUploadsAgree ==
  ASSUME ~Concurrent
  PROVE  Spec => []PublishedAgree
<1>1. TypeOK /\ SerialInv /\ [Next]_vars => SerialInv'
  BY SerialStep
<1>2. SerialInv => PublishedAgree
  BY DEF SerialInv
<1> QED
  BY <1>1, <1>2, SerialInit, TypeCorrect, PTL DEF Spec

-----------------------------------------------------------------------------
(* What the versions say, when every upload has a name of its own *)

LEMMA CallStep ==
  ASSUME TypeOK, CallInv, [Next]_vars
  PROVE  CallInv'
<1>t. resumed \in BOOLEAN /\ caller \in {"update_status", "http_download_firmware"}
  BY DEF TypeOK, GatewayTypeOK, ControlTypes
<1> USE <1>t DEF CallInv, Installing, files, http, vers, stm32, strikes, env, Goto
<1>1. CASE GatewayNext /\ UNCHANGED serverVars
  <2>1. CASE Polling
    BY <2>1 DEF Polling, Boot, Poll, Decide
  <2>2. CASE GetVersion
    BY <2>2 DEF GetVersion, VersionUnread, VersionConnected, VersionBody,
                VersionAborted, VersionDisconnected
  <2>3. CASE GetFirmware
    BY <2>3 DEF GetFirmware, FirmwareUnreachable, FirmwareConnected, FirmwareBackup,
          FirmwareOpen, FirmwareData, FirmwareComplete, FirmwareAborted, CheckGood,
          CheckBad, Restore
  <2>4. CASE Flashing
    <3>1. /\ pc \in Installing /\ pc' \in Installing \union {"poll"}
          /\ UNCHANGED <<caller, resumed>>
      BY <2>4 DEF Flashing, BootStart, EnterBoot, Unprotect, Erase, Program, Programmed,
            ExitBoot, ClearInProgress, Commit, CommitBody
    <3> QED
      BY <3>1
  <2>5. CASE Environment
    <3>1. \/ pc' = "boot"
          \/ UNCHANGED <<pc, caller, resumed, current_ver, update_ver, verFile, pendFile>>
      BY <2>5 DEF Environment, PowerLoss, FileUnopened, Restart, ServerDown, WifiDrop,
            WifiRetry, NetUp
    <3> QED
      BY <3>1
  <2> QED
    BY <1>1, <2>1, <2>2, <2>3, <2>4, <2>5 DEF GatewayNext, GatewayStep
<1>2. CASE UNCHANGED gatewayVars
  BY <1>2 DEF gatewayVars
<1> QED
  BY <1>1, <1>2 DEF Next, vars

\* A published record stays published, a superseded version stays superseded,
\* and the server announces nothing that it has not published.
LEMMA PublishedGrows ==
  ASSUME FreshNames, TypeOK, [Next]_vars,
         upload[1] = "done", srvMeta # Bad => srvMeta \in Published
  PROVE  /\ upload'[1] = "done"
         /\ Published \subseteq Published' /\ Superseded \subseteq Superseded'
         /\ srvMeta' # Bad => srvMeta' \in Published'
<1> USE DEF Published, Announced
<1>1. CASE UNCHANGED serverVars
  BY <1>1 DEF serverVars, Superseded
<1>2. CASE ServerNext
  <2>1. PICK r \in Request : StartUpload(r) \/ UploadStep(r)
    BY <1>2 DEF ServerNext
  <2>2. /\ upload \in [Request -> {"waiting", "saving", "saved", "hashed", "dumping", "done"}]
        /\ sum \in [Request -> [data : Content, inv : {FALSE}]]
    BY DEF TypeOK, ServerTypeOK
  <2>3. upload[r] # "done" /\ \A q \in Request : q # r => upload'[q] = upload[q] /\ sum'[q] = sum[q]
    BY <2>1, <2>2 DEF StartUpload, UploadStep, SaveBin, HashBin, OpenVersionFile, DumpVersion
  <2>4. \A q \in Request : upload[q] = "done"
                             => q # r /\ upload'[q] = "done" /\ Announced(q)' = Announced(q)
    BY <2>3
  <2>5. upload'[1] = "done" /\ r # 1 /\ Published \subseteq Published'
    BY <2>3, <2>4, Requests
  <2>6. CASE StartUpload(r) \/ SaveBin(r) \/ HashBin(r)
    <3>1. srvMeta' = srvMeta
      BY <2>6 DEF StartUpload, SaveBin, HashBin
    <3> QED
      BY <2>5, <3>1 DEF Superseded
  <2>7. CASE OpenVersionFile(r)
    BY <2>5, <2>7 DEF OpenVersionFile, Superseded
  <2>8. CASE DumpVersion(r)
    <3>1. upload'[r] = "done" /\ srvMeta' = Announced(r)'
      BY <2>2, <2>5, <2>8 DEF DumpVersion
    <3>2. srvMeta' \in Published'
      BY <3>1
    <3>3. srvMeta'.version = Release[r].version
      BY <3>1
    <3>4. \A m \in Published : m.version # Release[r].version
      <4> SUFFICES ASSUME NEW q \in Request, upload[q] = "done"
                   PROVE  Announced(q).version # Release[r].version
        OBVIOUS
      <4> QED
        BY <2>4 DEF FreshNames
    <3>5. Superseded \subseteq Superseded'
      BY <2>5, <3>3, <3>4 DEF Superseded
    <3> QED
      BY <2>5, <3>2, <3>5
  <2> QED
    BY <2>1, <2>6, <2>7, <2>8 DEF UploadStep
<1> QED
  BY <1>1, <1>2 DEF Next, vars

\* A record is superseded by any other the server announces.
LEMMA OtherIsSuperseded ==
  ASSUME NEW m \in Published, srvMeta # Bad => srvMeta.version # m.version
  PROVE  m.version \in Superseded
BY DEF Superseded

LEMMA RecordInit == Init => RecordInv
<1> SUFFICES ASSUME Init PROVE RecordInv
  OBVIOUS
<1>1. /\ 1 \in Request /\ upload[1] = "done" /\ srvMeta = Announced(1)
      /\ verFile = Bad /\ pendFile = Bad
  BY Requests DEF Init, GatewayInit, ServerInit, Announced
<1> QED
  BY <1>1 DEF RecordInv, Published

LEMMA RecordStep ==
  ASSUME FreshNames, TypeOK, CallInv, RecordInv, [Next]_vars
  PROVE  RecordInv'
<1> USE DEF RecordInv, files, http, vers, stm32, strikes, env, Goto
<1>1. /\ upload'[1] = "done"
      /\ Published \subseteq Published' /\ Superseded \subseteq Superseded'
      /\ srvMeta' # Bad => srvMeta' \in Published'
  BY PublishedGrows
<1>2. /\ verFile \in Meta \union {Bad} /\ pendFile \in Meta \union {Bad}
      /\ srvMeta \in Meta \union {Bad}
  BY DEF TypeOK, GatewayTypeOK, FileTypes, ServerTypeOK
<1>3. CASE GatewayNext /\ UNCHANGED serverVars
  <2>0. srvMeta' = srvMeta
    BY <1>3 DEF serverVars
  <2>1. CASE Boot \/ Poll
    BY <1>1, <2>1 DEF Boot, Poll
  <2>2. CASE Decide
    <3>1. NewVersion /\ verFile # Bad => verFile.version \in Superseded
      <4> SUFFICES ASSUME NewVersion, verFile # Bad PROVE verFile.version \in Superseded
        OBVIOUS
      <4>1. current_ver = verFile.version /\ current_ver # NoVersion
        BY <1>2, <2>2, NoVersionAssumption DEF Decide, CallInv, VersionOf, Meta
      <4>2. pendFile # Bad /\ pendFile.version # verFile.version
        BY <2>2, <4>1 DEF Decide, CallInv, VersionOf, NewVersion
      <4> QED
        BY <4>2
    <3> QED
      BY <1>1, <2>2, <3>1 DEF Decide, CallInv
  <2>3. CASE VersionUnread \/ VersionConnected \/ VersionAborted
    BY <1>1, <2>3 DEF VersionUnread, VersionConnected, VersionAborted, VersionDisconnected
  <2>4. CASE VersionBody
    <3>1. /\ verFile' = verFile /\ pendFile' = srvMeta /\ caller' = caller
          /\ pc = "versionBody"
      BY <2>4 DEF VersionBody
    <3>2. verFile # Bad /\ srvMeta # Bad /\ srvMeta.version # verFile.version
            => verFile.version \in Superseded
      BY OtherIsSuperseded
    <3> QED
      BY <1>1, <2>0, <3>1, <3>2
  <2>5. CASE GetFirmware
    <3>1. /\ verFile' = verFile /\ pendFile' = pendFile /\ caller' = caller
          /\ pc \notin {"boot", "poll"}
      BY <2>5 DEF GetFirmware, FirmwareUnreachable, FirmwareConnected, FirmwareBackup,
            FirmwareOpen, FirmwareData, FirmwareComplete, FirmwareAborted, CheckGood,
            CheckBad, Restore
    <3> QED
      BY <1>1, <2>0, <3>1
  <2>6. CASE BootStart \/ EnterBoot \/ Unprotect \/ Erase \/ Program \/ Programmed
               \/ ExitBoot \/ ClearInProgress
    <3>1. /\ verFile' = verFile /\ pendFile' = pendFile /\ caller' = caller
          /\ pc \notin {"boot", "poll"}
      BY <2>6 DEF BootStart, EnterBoot, Unprotect, Erase, Program, Programmed,
            ExitBoot, ClearInProgress
    <3> QED
      BY <1>1, <2>0, <3>1
  <2>7. CASE Commit \/ CommitBody
    BY <1>1, <2>7 DEF Commit, CommitBody
  <2>8. CASE Environment
    <3>1. /\ verFile' = verFile /\ pendFile' = pendFile
          /\ \/ caller' = "update_status"
             \/ caller' = caller /\ pc' = pc
      BY <2>8 DEF Environment, PowerLoss, FileUnopened, Restart, ServerDown, WifiDrop,
            WifiRetry, NetUp
    <3> QED
      BY <1>1, <2>0, <3>1
  <2> QED
    BY <1>3, <2>1, <2>2, <2>3, <2>4, <2>5, <2>6, <2>7, <2>8
    DEF GatewayNext, GatewayStep, Polling, GetVersion, Flashing
<1>4. CASE UNCHANGED gatewayVars
  BY <1>1, <1>4 DEF gatewayVars
<1> QED
  BY <1>3, <1>4 DEF Next, vars

LEMMA InstallStep ==
  ASSUME FreshNames, TypeOK, FlagInv, ImageInv, CallInv, RecordInv, InstallInv, [Next]_vars
  PROVE  InstallInv'
<1> SUFFICES ASSUME Spared({"outage", "storage", "nvs"})' PROVE InstallInv'
  BY DEF InstallInv
<1>0. /\ Spared({"outage", "storage", "nvs"}) /\ ~Strike("storage") /\ ~Strike("nvs")
      /\ Spared({"outage", "storage"}) /\ Spared({"nvs"})
  BY StrikesAdd DEF Spared
<1>1. Superseded \subseteq Superseded'
  BY PublishedGrows DEF RecordInv
<1>2. /\ verFile \in Meta \union {Bad} /\ pendFile \in Meta \union {Bad}
      /\ nvs \in [in_progress : BOOLEAN, rollback : BOOLEAN, wifi_disconnect : BOOLEAN]
      /\ resumed \in BOOLEAN
  BY DEF TypeOK, GatewayTypeOK, FileTypes, FlagTypes, ControlTypes
<1>v. net = "up" /\ (pc = "versionBody" => pendFile = Bad)
  BY <1>0 DEF ImageInv, CallInv
<1> USE <1>0 DEF Installing, files, http, vers, stm32, strikes, env, Goto
<1>i. /\ resumed /\ pc = "bootStart" => nvs.in_progress
      /\ pc \in {"commit", "commitBody"} => ~nvs.in_progress
      /\ nvs.in_progress /\ verFile # Bad => verFile.version \in Superseded
      /\ pc = "decide" /\ nvs.in_progress /\ verFile # Bad /\ pendFile # Bad
           => pendFile.version # verFile.version
      /\ resumed /\ pc \in Installing => pendFile = Bad
      /\ ~nvs.in_progress /\ verFile # Bad
           => Crc(stmFlash) = verFile.checksum \/ verFile.version \in Superseded
  BY DEF InstallInv
<1>a. ASSUME UNCHANGED <<verFile, stmFlash, nvs.in_progress>>,
             pc' \notin Installing \union {"decide"}
      PROVE  InstallInv'
  BY <1>1, <1>i, <1>a DEF InstallInv
<1>b. ASSUME UNCHANGED <<verFile, pendFile, stmFlash, nvs.in_progress, resumed>>,
             \/ pc' = pc
             \/ pc \in Installing /\ pc' \notin {"bootStart", "commit", "commitBody", "decide"}
      PROVE  InstallInv'
  BY <1>1, <1>i, <1>b DEF InstallInv
<1>3. CASE GatewayNext /\ UNCHANGED serverVars
  <2>0. Superseded' = Superseded
    BY <1>3 DEF serverVars, Superseded, Published, Announced
  <2>1a. CASE Boot \/ Poll \/ VersionConnected
    BY <1>a, <2>1a DEF Boot, Poll, VersionConnected
  <2>1b. CASE VersionUnread \/ VersionAborted
    <3>1. /\ UNCHANGED <<verFile, pendFile, stmFlash, nvs, resumed>>
          /\ pc' \notin Installing /\ pendFile = Bad
      BY <1>v, <2>1b DEF VersionUnread, VersionAborted, VersionDisconnected
    <3> QED
      BY <1>i, <2>0, <3>1 DEF InstallInv
  <2>1c. CASE VersionBody
    <3>1. /\ UNCHANGED <<verFile, stmFlash, nvs, resumed>> /\ pendFile' = srvMeta
          /\ pc' \notin Installing
      BY <2>1c DEF VersionBody, VersionDisconnected
    <3>2. srvMeta # Bad => srvMeta.version \notin Superseded
      BY DEF Superseded
    <3> QED
      BY <1>i, <2>0, <3>1, <3>2 DEF InstallInv
  <2>2. CASE Decide
    <3>1. CASE pc' # "bootStart"
      BY <1>a, <2>2, <3>1 DEF Decide
    <3>2. CASE pc' = "bootStart"
      <4>1. /\ ~NewVersion /\ nvs.in_progress /\ pc = "decide" /\ pc' = "bootStart"
            /\ UNCHANGED <<verFile, pendFile, stmFlash, nvs>>
        BY <2>2, <3>2 DEF Decide, ReadNvs
      <4>2. pendFile = Bad
        <5> SUFFICES ASSUME pendFile # Bad PROVE FALSE
          OBVIOUS
        <5>1. verFile # Bad /\ pendFile.version = verFile.version
          BY <1>2, <4>1, NoVersionAssumption DEF CallInv, NewVersion, VersionOf, Meta
        <5> QED
          BY <1>i, <4>1, <5>1
      <4> QED
        BY <1>i, <2>0, <4>1, <4>2 DEF InstallInv
    <3> QED
      BY <3>1, <3>2
  <2>3. CASE GetFirmware /\ ~CheckGood
    BY <1>2, <1>a, <2>3 DEF GetFirmware, FirmwareUnreachable, FirmwareConnected,
          FirmwareBackup, FirmwareOpen, FirmwareData, FirmwareComplete, FirmwareAborted,
          CheckBad, Restore, WriteNvs
  <2>4. CASE CheckGood
    <3>1. /\ UNCHANGED <<verFile, pendFile, stmFlash, nvs.in_progress>>
          /\ resumed' = FALSE /\ pc' = "bootStart"
      BY <1>2, <2>4 DEF CheckGood, WriteNvs
    <3> QED
      BY <1>i, <2>0, <3>1 DEF InstallInv
  <2>5. CASE BootStart
    <3>1. /\ UNCHANGED <<verFile, pendFile, stmFlash, resumed>>
          /\ nvs'.in_progress /\ pc = "bootStart" /\ pc' = "enterBoot"
      BY <1>2, <2>5 DEF BootStart, WriteNvs
    <3>2. verFile # Bad => verFile.version \in Superseded
      <4>1. CASE resumed
        BY <1>i, <3>1, <4>1
      <4>2. CASE ~resumed
        BY <3>1, <4>2 DEF CallInv, RecordInv, TypeOK, GatewayTypeOK, ControlTypes
      <4> QED
        BY <4>1, <4>2
    <3> QED
      BY <1>i, <2>0, <3>1, <3>2 DEF InstallInv
  <2>6. CASE EnterBoot \/ Programmed \/ ExitBoot
    BY <1>2, <1>b, <2>6 DEF EnterBoot, Programmed, ExitBoot, WriteNvs
  <2>7. CASE Unprotect \/ Erase \/ Program
    <3>1. /\ UNCHANGED <<verFile, pendFile, nvs, resumed>> /\ pc \in Installing
          /\ nvs.in_progress /\ pc' \notin {"bootStart", "commit", "commitBody", "decide"}
      BY <2>7 DEF Unprotect, Erase, Program, FlagInv
    <3> QED
      BY <1>i, <2>0, <3>1 DEF InstallInv
  <2>8. CASE ClearInProgress
    <3>1. /\ UNCHANGED <<verFile, pendFile, stmFlash, resumed>>
          /\ nvs.in_progress /\ ~nvs'.in_progress /\ pc = "clear" /\ pc' = "commit"
      BY <1>2, <2>8 DEF ClearInProgress, WriteNvs, FlagInv
    <3> QED
      BY <1>i, <2>0, <3>1 DEF InstallInv
  <2>9. CASE Commit
    <3>1. /\ UNCHANGED <<pendFile, stmFlash, resumed, nvs>> /\ verFile' = Bad
          /\ pc = "commit" /\ pc' = "commitBody"
      BY <2>9 DEF Commit
    <3> QED
      BY <1>i, <2>0, <3>1 DEF InstallInv
  <2>10. CASE CommitBody
    <3>1. /\ UNCHANGED <<pendFile, stmFlash, nvs>> /\ verFile' = pendFile
          /\ pc = "commitBody" /\ pc' = "poll"
      BY <2>10 DEF CommitBody
    <3>2. pendFile # Bad => Crc(stmFlash) = pendFile.checksum
      BY <1>i, <1>2, <3>1, InstalledByImage
    <3> QED
      BY <1>i, <2>0, <3>1, <3>2 DEF InstallInv
  <2>11. CASE PowerLoss \/ FileUnopened
    BY <1>a, <2>11 DEF PowerLoss, FileUnopened, Restart
  <2>12. CASE ServerDown \/ WifiDrop \/ WifiRetry \/ NetUp
    BY <1>2, <1>b, <2>12 DEF ServerDown, WifiDrop, WifiRetry, NetUp, WriteNvs
  <2> QED
    BY <1>3, <2>1a, <2>1b, <2>1c, <2>2, <2>3, <2>4, <2>5, <2>6, <2>7, <2>8, <2>9, <2>10,
       <2>11, <2>12
    DEF GatewayNext, GatewayStep, Polling, GetVersion, Flashing, Environment
<1>4. CASE UNCHANGED gatewayVars
  BY <1>b, <1>4 DEF gatewayVars
<1> QED
  BY <1>3, <1>4 DEF Next, vars

\* The records, with what the flash holds while it is spared.
LEMMA InstallInvariant ==
  ASSUME FreshNames
  PROVE  Spec => [](TypeOK /\ CallInv /\ RecordInv /\ InstallInv)
<1>1. Init => CallInv /\ InstallInv
  BY DEF Init, GatewayInit, RamInit, CallInv, InstallInv, Installing
<1>2. TypeOK /\ CallInv /\ [Next]_vars => CallInv'
  BY CallStep
<1>3. TypeOK /\ CallInv /\ RecordInv /\ [Next]_vars => RecordInv'
  BY RecordStep
<1>4. TypeOK /\ FlagInv /\ ImageInv /\ CallInv /\ RecordInv /\ InstallInv /\ [Next]_vars
        => InstallInv'
  BY InstallStep
<1> QED
  BY <1>1, <1>2, <1>3, <1>4, RecordInit, TypeCorrect, FlagInvariant, ImageInvariant, PTL
  DEF Spec

\* The STM32 is left with the very content whose version record is committed,
\* or with a record that does not parse: the resumed flashing included.
THEOREM InstalledIsAnnounced ==
  ASSUME FreshNames
  PROVE  Spec => []InstalledAsAnnounced
<1>1. TypeOK /\ ImageInv /\ InstallInv => InstalledAsAnnounced
  <2> SUFFICES ASSUME TypeOK, ImageInv, InstallInv, Spared({"outage", "storage"}),
                      pc \in {"exitBoot", "clear", "commit", "commitBody"}
               PROVE  /\ ~resumed => \/ pendFile # Bad /\ Crc(stmFlash) = pendFile.checksum
                                     \/ pendFile = Bad /\ stmFlash = <<>>
                      /\ resumed /\ Spared({"nvs"}) => pendFile = Bad
    BY DEF InstalledAsAnnounced
  <2>1. Spared({"nvs"}) => Spared({"outage", "storage", "nvs"})
    BY DEF Spared
  <2> QED
    BY <2>1, InstalledByImage DEF InstallInv, Installing
<1> QED
  BY <1>1, ImageInvariant, InstallInvariant, PTL

\* Comparing file names is enough: when every upload has a name of its own, a
\* gateway that is idle with the name the server announces has that release in
\* the STM32, whatever was uploaded meanwhile, broke off or was restarted.
THEOREM UpToDateIsRight ==
  ASSUME FreshNames
  PROVE  Spec => []UpToDateIsTrue
<1>1. TypeOK /\ RecordInv /\ InstallInv => UpToDateIsTrue
  <2> SUFFICES ASSUME TypeOK, RecordInv, InstallInv, UpToDate,
                      Spared({"outage", "storage", "nvs"})
               PROVE  Crc(stmFlash) = verFile.checksum /\ verFile.checksum = srvMeta.checksum
    BY DEF UpToDateIsTrue
  <2>1. verFile.version \notin Superseded
    BY DEF UpToDate, Superseded
  <2>2. Crc(stmFlash) = verFile.checksum
    BY <2>1 DEF UpToDate, InstallInv
  <2>3. PICK q \in Request : verFile = Announced(q)
    BY DEF RecordInv, Published, UpToDate
  <2>4. PICK r \in Request : srvMeta = Announced(r)
    BY DEF RecordInv, Published, UpToDate
  <2>5. q = r
    BY <2>3, <2>4 DEF UpToDate, Announced, FreshNames
  <2> QED
    BY <2>2, <2>3, <2>4, <2>5
<1> QED
  BY <1>1, InstallInvariant, PTL

\* Nor does it ever set out to install again what it is up to date with.
THEOREM NoFlashIsNeedless ==
  ASSUME FreshNames
  PROVE  Spec => NoNeedlessFlash
<1> DEFINE Step == nvs'.in_progress /\ ~nvs.in_progress /\ Spared({"outage", "storage", "nvs"})
                     => ~UpToDate
<1>1. TypeOK /\ CallInv /\ RecordInv /\ InstallInv /\ [Next]_vars => [Step]_vars
  <2> SUFFICES ASSUME TypeOK, CallInv, RecordInv, InstallInv, Next,
                      nvs'.in_progress, ~nvs.in_progress,
                      Spared({"outage", "storage", "nvs"})
               PROVE  ~UpToDate
    OBVIOUS
  <2>1. nvs \in [in_progress : BOOLEAN, rollback : BOOLEAN, wifi_disconnect : BOOLEAN]
    BY DEF TypeOK, GatewayTypeOK, FlagTypes
  <2>2. BootStart
    <3> USE DEF files, http, vers, stm32, strikes, env
    <3>1. ~Polling /\ ~GetVersion
      BY DEF Polling, Boot, Poll, Decide, GetVersion, VersionUnread, VersionConnected,
             VersionBody, VersionAborted
    <3>2. ~GetFirmware
      BY <2>1 DEF GetFirmware, FirmwareUnreachable, FirmwareConnected, FirmwareBackup,
            FirmwareOpen, FirmwareData, FirmwareComplete, FirmwareAborted, CheckGood,
            CheckBad, Restore, WriteNvs
    <3>3. Flashing => BootStart
      BY <2>1 DEF Flashing, EnterBoot, Unprotect, Erase, Program, Programmed, ExitBoot,
            ClearInProgress, Commit, CommitBody, WriteNvs
    <3>4. ~Environment
      BY <2>1 DEF Environment, PowerLoss, FileUnopened, Restart, ServerDown, WifiDrop,
            WifiRetry, NetUp, WriteNvs
    <3>5. ~UNCHANGED gatewayVars
      BY DEF gatewayVars
    <3> QED
      BY <3>1, <3>2, <3>3, <3>4, <3>5 DEF Next, GatewayNext, GatewayStep
  <2>3. pc = "bootStart" /\ ~resumed
    BY <2>2 DEF BootStart, InstallInv
  <2>4. verFile # Bad => verFile.version \in Superseded
    BY <2>3 DEF CallInv, RecordInv, Installing, TypeOK, GatewayTypeOK, ControlTypes
  <2> QED
    BY <2>4 DEF UpToDate, Superseded
<1> QED
  BY <1>1, InstallInvariant, PTL DEF Spec, NoNeedlessFlash

-----------------------------------------------------------------------------
(* The flashing job *)

LEMMA JobStep ==
  ASSUME TypeOK, JobInv, [Next]_vars
  PROVE  JobInv' /\ [Job!Next]_(Job!vars)
<1> USE DEF JobInv, Job!vars, files, http, vers, stm32, strikes, env, Goto
<1>t. /\ stmFlash \in Content /\ fwFile \in Content /\ fwFile' \in Content
      /\ unfinished \in BOOLEAN
  BY TypeStep DEF TypeOK, GatewayTypeOK, FileTypes, Stm32Types
<1>l. Len(stmFlash) \in Nat /\ Len(fwFile) \in Nat /\ Len(fwFile') \in Nat
  BY <1>t DEF Content
<1>0. ASSUME UNCHANGED <<pc, stmFlash, fwFile, unfinished>>
      PROVE  JobInv' /\ [Job!Next]_(Job!vars)
  BY <1>0
<1>1. ASSUME pc # "program", pc' # "program", UNCHANGED <<stmFlash, unfinished>>
      PROVE  JobInv' /\ [Job!Next]_(Job!vars)
  BY <1>l, <1>1 DEF Job!Next, Job!NewFile
<1>2. CASE Polling \/ GetVersion
  BY <1>1, <1>2
  DEF Polling, Boot, Poll, Decide, GetVersion, VersionUnread, VersionConnected, VersionBody,
      VersionAborted, VersionDisconnected
<1>3. CASE GetFirmware
  BY <1>1, <1>3
  DEF GetFirmware, FirmwareUnreachable, FirmwareConnected, FirmwareBackup, FirmwareOpen,
      FirmwareData, FirmwareComplete, FirmwareAborted, CheckGood, CheckBad, Restore
<1>4. CASE BootStart \/ EnterBoot \/ ExitBoot \/ ClearInProgress \/ Commit \/ CommitBody
  BY <1>1, <1>4 DEF BootStart, EnterBoot, ExitBoot, ClearInProgress, Commit, CommitBody
<1>5. CASE Unprotect
  BY <1>1, <1>5 DEF Unprotect, Job!Next, Job!Wipe
<1>6. CASE Erase
  BY <1>l, <1>6 DEF Erase, Job!Next, Job!Erase
<1>7. CASE Program
  <2>1. /\ pc = "program" /\ pc' = pc /\ unfinished' = unfinished /\ fwFile' = fwFile
        /\ Len(stmFlash) < Len(fwFile)
    BY <1>7 DEF Program
  <2>2. Len(stmFlash') = Len(stmFlash) + 1
    BY <1>t, <1>7 DEF Program, Content
  <2> QED
    BY <1>l, <2>1, <2>2 DEF Job!Next, Job!Program
<1>8. CASE Programmed
  BY <1>l, <1>8 DEF Programmed, Job!Next, Job!Finish
<1>9. CASE PowerLoss \/ FileUnopened
  <2>1. CASE pc = "program"
    BY <1>9, <2>1 DEF PowerLoss, FileUnopened, Restart, Job!Next, Job!GiveUp
  <2>2. CASE pc # "program"
    BY <1>1, <1>9, <2>2 DEF PowerLoss, FileUnopened, Restart
  <2> QED
    BY <2>1, <2>2
<1>10. CASE ServerDown \/ WifiDrop \/ WifiRetry \/ NetUp
  BY <1>0, <1>10 DEF ServerDown, WifiDrop, WifiRetry, NetUp
<1>11. CASE UNCHANGED gatewayVars
  BY <1>0, <1>11 DEF gatewayVars
<1> QED
  BY <1>2, <1>3, <1>4, <1>5, <1>6, <1>7, <1>8, <1>9, <1>10, <1>11
  DEF Next, vars, GatewayNext, GatewayStep, Flashing, Environment

\* What the gateway does to the STM32's flash is a behaviour of FlashJob, over
\* restarts, uploads and every kind of fault: it takes the blocks of one file,
\* each once, after an erase, and counts as finished when it has them all.
THEOREM GatewayDoesJobs == Spec => JobSpec
<1>1. Init => JobInv /\ Job!Init
  <2> SUFFICES ASSUME Init PROVE JobInv /\ Job!Init
    OBVIOUS
  <2>1. pc = "boot" /\ stmFlash = <<>> /\ fwFile = <<>> /\ unfinished = FALSE
    BY DEF Init, GatewayInit, RamInit
  <2> QED
    BY <2>1 DEF JobInv, Job!Init
<1> QED
  BY TypeCorrect, JobStep, <1>1, PTL DEF Spec, JobSpec, Job!Spec
=============================================================================
