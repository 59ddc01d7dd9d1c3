----------------------------- MODULE ZipArchive -----------------------------
(***************************************************************************)
(* PackageAssembler of the export worker: a ZIP archive without            *)
(* compression, laid out by hand, of the files of an export.               *)
(*                                                                         *)
(* A part of the archive is what one Buffer.concat puts together; lengths  *)
(* and positions are in bytes, the constant fields of headers are left     *)
(* out.  A CRC-32 is the text it is computed from.                         *)
(***************************************************************************)
EXTENDS SequencesExt

CONSTANTS
  Paths,        \* the paths of the files, in the order of the call
  NameLength,   \* path -> its length in UTF-8
  Bodies,       \* what a file may hold
  BodyLength,   \* body -> its length
  Wide, Narrow  \* what a 32-bit and a 16-bit field can hold, 2^32 and 2^16

ASSUME ZipAssumption ==
  /\ Paths \in Seq(DOMAIN NameLength)
  /\ NameLength \in [DOMAIN NameLength -> Nat]
  /\ BodyLength \in [Bodies -> Nat]
  /\ {Wide, Narrow} \subseteq Nat \ {0}

LocalHeader == 30
CentralHeader == 46
EndRecord == 22

VARIABLES
  body,        \* files[i].body, for the i-th path
  locals,      \* localParts
  centrals,    \* centralParts
  offset,
  zip          \* [pc : "loop" | "done" | "thrown", end : the end record]

zipVars == <<body, locals, centrals, offset, zip>>

NoEnd == [count |-> 0, size |-> 0, at |-> 0]

ZipInit ==
  /\ body \in [DOMAIN Paths -> Bodies]
  /\ locals = <<>> /\ centrals = <<>> /\ offset = 0
  /\ zip = [pc |-> "loop", end |-> NoEnd]

-----------------------------------------------------------------------------
\* The fields of the two headers of an entry, and what comes after them.
LocalPart(path, data) ==
  [crc |-> data, size |-> BodyLength[data], name |-> NameLength[path],
   path |-> path, data |-> data]

CentralPart(path, data, at) ==
  [crc |-> data, size |-> BodyLength[data], name |-> NameLength[path], at |-> at,
   path |-> path]

LocalLength(piece) == LocalHeader + NameLength[piece.path] + BodyLength[piece.data]
CentralLength(piece) == CentralHeader + NameLength[piece.path]

\* The length of parts that follow each other.
Total(Length(_), parts) == FoldLeft(LAMBDA sum, piece : sum + Length(piece), 0, parts)

\* Buffer.writeUInt32LE and writeUInt16LE throw for a value their field cannot hold.
EntryFits(path, data, at) ==
  BodyLength[data] < Wide /\ at < Wide /\ NameLength[path] < Narrow

\* A plausible slip: an entry is said to start where it ends.
AddFileAfter(i) ==
  LET piece == LocalPart(Paths[i], body[i]) IN
  /\ zip.pc = "loop" /\ i = Len(locals) + 1 /\ i \in DOMAIN Paths
  /\ EntryFits(Paths[i], body[i], offset)
  /\ locals' = Append(locals, piece)
  /\ offset' = offset + LocalLength(piece)
  /\ centrals' = Append(centrals, CentralPart(Paths[i], body[i], offset'))
  /\ UNCHANGED <<body, zip>>

\* An iteration of buildZip's loop.
AddFile(i) ==
  LET piece == LocalPart(Paths[i], body[i]) IN
  /\ zip.pc = "loop" /\ i = Len(locals) + 1 /\ i \in DOMAIN Paths
  /\ EntryFits(Paths[i], body[i], offset)
  /\ locals' = Append(locals, piece)
  /\ centrals' = Append(centrals, CentralPart(Paths[i], body[i], offset))
  /\ offset' = offset + LocalLength(piece)
  /\ UNCHANGED <<body, zip>>

EndFits(end) == end.count < Narrow /\ end.size < Wide /\ end.at < Wide

\* zipEndRecord, and the archive: the local parts, the central ones and the record.
FinishZip ==
  LET end == [count |-> Len(Paths), size |-> Total(CentralLength, centrals), at |-> offset] IN
  /\ zip.pc = "loop" /\ Len(locals) = Len(Paths)
  /\ EndFits(end)
  /\ zip' = [pc |-> "done", end |-> end]
  /\ UNCHANGED <<body, locals, centrals, offset>>

\* A write throws, and the pass of the consumer fails.
ThrowZip ==
  /\ zip.pc = "loop"
  /\ IF Len(locals) < Len(Paths)
       THEN LET i == Len(locals) + 1 IN ~EntryFits(Paths[i], body[i], offset)
       ELSE ~EndFits([count |-> Len(Paths), size |-> Total(CentralLength, centrals),
                      at |-> offset])
  /\ zip' = [zip EXCEPT !.pc = "thrown"]
  /\ UNCHANGED <<body, locals, centrals, offset>>

ZipNext == (\E i \in DOMAIN Paths : AddFile(i)) \/ FinishZip \/ ThrowZip

ZipSpec == ZipInit /\ [][ZipNext]_zipVars

-----------------------------------------------------------------------------
\* Where the i-th part of some starts, when they are put one after the other.
Start(Length(_), parts, i) == Total(Length, SubSeq(parts, 1, i - 1))

\* What a reader extracts through the i-th entry of the central directory: the local
\* header it points at, and as many bytes after it as its fields say.
Extracts(i, path, data) ==
  \E j \in DOMAIN locals :
    /\ Start(LocalLength, locals, j) = centrals[i].at
    /\ locals[j].path = path /\ locals[j].data = data
    /\ \A piece \in {locals[j], centrals[i]} :
         /\ piece.path = path /\ piece.crc = data
         /\ piece.name = NameLength[path] /\ piece.size = BodyLength[data]

\* A finished archive is one that a reader extracts every file of the export from,
\* under its path: the end record finds the central directory, each of its entries the
\* local one, and no field was too narrow for what it holds.
ZipIsReadable ==
  zip.pc = "done" =>
    /\ zip.end.at = Total(LocalLength, locals)
    /\ zip.end.size = Total(CentralLength, centrals)
    /\ zip.end.count = Len(centrals) /\ zip.end.count = Len(Paths)
    /\ \A i \in DOMAIN Paths : Extracts(i, Paths[i], body[i])

=============================================================================
