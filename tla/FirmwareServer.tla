--------------------------- MODULE FirmwareServer ---------------------------
(***************************************************************************)
(* web/webserver.py: the Flask server the gateway polls.  upload_bin       *)
(* replaces two files one after the other, firmware/latest.bin and         *)
(* firmware/version.json, and runs on a thread per request.  get_firmware  *)
(* serves whatever the files hold when they are read, so the gateway reads *)
(* srvBin and srvMeta directly.                                            *)
(***************************************************************************)
EXTENDS Crc32

CONSTANTS Release,    \* the uploads of a behaviour, in the order they arrive
          Concurrent  \* may two uploads be in flight together?

ASSUME ReleaseAssumption ==
  /\ Release \in Seq([version : Version, image : Image])
  /\ Len(Release) > 0
  /\ Concurrent \in BOOLEAN

VARIABLES srvBin,   \* firmware/latest.bin
          srvMeta,  \* firmware/version.json
          upload,   \* the step each request is at
          sum       \* the local variable checksum of each request

serverVars == <<srvBin, srvMeta, upload, sum>>

Request == 1..Len(Release)

ServerTypeOK ==
  /\ srvBin \in Content
  /\ srvMeta \in Meta \union {Bad}
  /\ upload \in [Request -> {"waiting", "saving", "saved", "hashed", "dumping", "done"}]
  /\ sum \in [Request -> [data : Content, inv : {FALSE}]]

\* The first release is the one the repository ships in web/firmware.
ServerInit ==
  /\ srvBin = Firmware(Release[1].image)
  /\ srvMeta = [version |-> Release[1].version, checksum |-> Crc(srvBin)]
  /\ upload = [r \in Request |-> IF r = 1 THEN "done" ELSE "waiting"]
  /\ sum = [r \in Request |-> Seed]

\* file.save opens latest.bin for writing, which truncates it.
StartUpload(r) ==
  /\ upload[r] = "waiting"
  /\ r > 1 => upload[r - 1] # "waiting"
  /\ Concurrent \/ \A q \in Request : q < r => upload[q] = "done"
  /\ srvBin' = <<>>
  /\ upload' = [upload EXCEPT ![r] = "saving"]
  /\ UNCHANGED <<srvMeta, sum>>

SaveBin(r) ==
  /\ upload[r] = "saving"
  /\ srvBin' = Firmware(Release[r].image)
  /\ upload' = [upload EXCEPT ![r] = "saved"]
  /\ UNCHANGED <<srvMeta, sum>>

\* Mutant: the checksum is taken of the request, which save has read to its end.
HashOfRequest(r) ==
  /\ upload[r] = "saved"
  /\ sum' = [sum EXCEPT ![r] = Crc(<<>>)]
  /\ upload' = [upload EXCEPT ![r] = "hashed"]
  /\ UNCHANGED <<srvBin, srvMeta>>

\* The checksum is taken of the file as it is read back, not of the request.
HashBin(r) ==
  /\ upload[r] = "saved"
  /\ sum' = [sum EXCEPT ![r] = Crc(srvBin)]
  /\ upload' = [upload EXCEPT ![r] = "hashed"]
  /\ UNCHANGED <<srvBin, srvMeta>>

\* open(VERSION_FILE, "w") truncates; json.dump and the close complete it.
OpenVersionFile(r) ==
  /\ upload[r] = "hashed"
  /\ srvMeta' = Bad
  /\ upload' = [upload EXCEPT ![r] = "dumping"]
  /\ UNCHANGED <<srvBin, sum>>

DumpVersion(r) ==
  /\ upload[r] = "dumping"
  /\ srvMeta' = [version |-> Release[r].version, checksum |-> sum[r]]
  /\ upload' = [upload EXCEPT ![r] = "done"]
  /\ UNCHANGED <<srvBin, sum>>

\* A request that has begun; it runs to its end.
UploadStep(r) == SaveBin(r) \/ HashBin(r) \/ OpenVersionFile(r) \/ DumpVersion(r)

ServerNext == \E r \in Request : StartUpload(r) \/ UploadStep(r)

Quiescent == \A r \in Request : upload[r] \in {"waiting", "done"}

\* Whenever no upload is in flight, version.json describes the file that
\* latest.bin holds: upload_bin (webserver.py:36-47) leaves the two files in
\* agreement before it answers "Firmware uploaded successfully!".
PublishedAgree == Quiescent => srvMeta # Bad /\ srvMeta.checksum = Crc(srvBin)
=============================================================================
