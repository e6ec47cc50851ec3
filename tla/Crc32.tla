------------------------------- MODULE Crc32 -------------------------------
(***************************************************************************)
(* The data the OTA path works on: firmware files, their CRC-32 and the    *)
(* version.json record that announces them.                                *)
(*                                                                         *)
(* A firmware file is the sequence of its chunks, a chunk being named by   *)
(* the image it was cut from; a file holding chunks of two images is       *)
(* therefore representable.  A CRC value is the pair of what was summed    *)
(* and whether the register has been complemented: the 32-bit constants    *)
(* of the code, 0xffffffff and 0, are the CRC of no data and its           *)
(* complement.  The abstraction is that CRC-32 has no collisions.          *)
(***************************************************************************)
EXTENDS Naturals, Sequences

CONSTANTS Image,     \* images an operator may upload
          Version,   \* file names, which the server publishes as versions
          NChunks,   \* chunks per complete image
          NoVersion, \* the string "0" of dump_json_str
          Bad        \* a version.json that does not parse (empty, truncated)

ASSUME NChunksAssumption   == NChunks \in Nat \ {0}
ASSUME NoVersionAssumption == NoVersion \notin Version

Content  == Seq(Image)
Firmware(i) == [k \in 1..NChunks |-> i]
Complete(c) == \E i \in Image : c = Firmware(i)

Checksum == [data : Content, inv : BOOLEAN]

Seed           == [data |-> <<>>, inv |-> FALSE]         \* 0xffffffff
Invert(c)      == [data |-> c.data, inv |-> ~c.inv]      \* c ^ 0xFFFFFFFF
Zero           == Invert(Seed)                           \* 0
Update(c, chunk) == [data |-> Append(c.data, chunk), inv |-> c.inv]

\* The checksum the server computes for a file: crcmod's parameters give the
\* value esp_crc32_le yields from the seed 0xffffffff, uncomplemented.
Crc(content)   == [data |-> content, inv |-> FALSE]

\* What version.json may hold when the server wrote it to the end.
Meta == [version : Version, checksum : [data : Content, inv : {FALSE}]]

ASSUME BadAssumption == Bad \notin Meta

\* Mutant: the failed parse is handed on.
VersionOfUnparsed(m) == IF m = Bad THEN Bad ELSE m.version

\* dump_json_str(path, "version") and dump_json_int(path, "checksum").
VersionOf(m)  == IF m = Bad THEN NoVersion ELSE m.version
ChecksumOf(m) == IF m = Bad THEN Zero ELSE m.checksum
=============================================================================
