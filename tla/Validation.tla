----------------------------- MODULE Validation -----------------------------
(***************************************************************************)
(* The payload validators the package ships, chained by the deployer in    *)
(* validatePayload: src/lib/checksum.ts, then src/lib/magic.ts.  They run  *)
(* on a finished upload before it is marked ready; one that throws has the *)
(* upload removed.                                                         *)
(*                                                                         *)
(* A file is how many of its bytes are there and whose upload wrote them.  *)
(* A digest tells any two files apart.  The S3 variants fetch the object   *)
(* where these open the path; an unknown artifact fails both.  Which chain *)
(* serves which kind (composeValidatePayload) is the choice of Wired.      *)
(***************************************************************************)
EXTENDS Naturals

CONSTANTS
  Size,    \* Upload-Length of every upload
  Wired,   \* the validators of the chain
  claim,   \* Upload-Metadata.checksum of each upload, against its bytes
  Mp4      \* uploads whose first twelve bytes hold an ftyp box

ASSUME SizeAssumption == Size \in Nat \ {0}
ASSUME WiredAssumption == Wired \subseteq {"checksum", "sniffer"}

\* What an uploader may send as its checksum.
Claim == {"none", "malformed", "right", "wrong"}

\* parseChecksumMetadata: what is missing or malformed asks for no check.
Checkable(raw) == raw \in {"right", "wrong"}

\* The digest of a file is the one the uploader of m sent.  A part of an upload
\* has another digest than the whole.
DigestIs(file, m) == claim[m] = "right" /\ file = [len |-> Size, by |-> m]

\* The checksum metadata the storage has, if it has any upload.
ChecksumOf(m) == IF m \in DOMAIN claim THEN claim[m] ELSE "none"

\* createChecksumValidator, for an upload whose checksum metadata is m's.
ChecksumPasses(m, known, file) ==
  Checkable(ChecksumOf(m)) => known /\ DigestIs(file, m)

\* sniffMp4: the header is there, and is an ftyp box.
HasFtypBox(file) == file.len > 0 /\ file.by \in Mp4

\* createMp4Sniffer.
SnifferPasses(known, file) == known /\ HasFtypBox(file)

\* (Mistake: the sniffer takes over, the checksum is not looked at.)
PassesSniffed(m, known, file) == "sniffer" \in Wired => SnifferPasses(known, file)

\* The chain, for an artifact the storage knows or not.
Passes(m, known, file) ==
  /\ "checksum" \in Wired => ChecksumPasses(m, known, file)
  /\ "sniffer" \in Wired => SnifferPasses(known, file)
=============================================================================
