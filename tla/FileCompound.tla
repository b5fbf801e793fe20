----------------------------- MODULE FileCompound -----------------------------
(***************************************************************************)
(* zim::FileCompound and the readers on top of it: an archive is one file  *)
(* or a row of parts (foo.zimaa, foo.zimab, ...), and a read of a range of *)
(* the archive is put together from reads of the parts.                    *)
(*                                                                         *)
(* A byte is named by where it is on disk, <<file, offset in the file>>,   *)
(* so that what a read returns tells where each byte came from.  Files are *)
(* numbered from 1, offsets from 0.  All readers work on the same open     *)
(* files with pread and keep no state of their own: one call at a time     *)
(* stands for the calls of all threads.                                    *)
(***************************************************************************)
EXTENDS Integers, Sequences

CONSTANTS
  Disks,      \* what may be on disk: [whole, size, start]
  MaxFiles,   \* names from "aa" to "zz"
  PageSize    \* sysconf(_SC_PAGE_SIZE)

(***************************************************************************)
(* whole: the file itself exists, otherwise size lists its parts; start is *)
(* where each part begins in the archive.  A part is never empty: emplace  *)
(* takes the range of an empty part for the range of the next one and      *)
(* drops the latter.                                                       *)
(***************************************************************************)
ASSUME DiskAssumption ==
  \A d \in Disks :
    /\ d.whole \in BOOLEAN
    /\ d.size \in Seq(Nat \ {0})
    /\ d.start \in Seq(Nat)
    /\ Len(d.start) = Len(d.size) + 1
    /\ d.start[1] = 0
    /\ \A i \in 1 .. Len(d.size) : d.start[i + 1] = d.start[i] + d.size[i]
    /\ d.whole => Len(d.size) = 1

ASSUME BoundAssumption == /\ MaxFiles \in Nat \ {0}
                          /\ PageSize \in Nat \ {0}

VARIABLES
  disk,    \* the files
  parts,   \* the map from ranges to parts, in the order of its keys
  fsize,   \* _fsize
  reader,  \* the reader in use: where it begins (_offset) and its size
  pc,      \* where the thread is
  req,     \* the range asked for, relative to the reader
  offset,  \* the locals of MultiPartFileReader::read
  size,
  current, \* the iterator of its loop ...
  second,  \* ... and the end of found_range
  dest,    \* the bytes delivered
  direct   \* the answer of getDirectAccessInformation

vars == <<disk, parts, fsize, reader, pc, req, offset, size, current, second, dest, direct>>
call == <<req, offset, size, current, second, dest, direct>>

NoAccess == <<0, 0>>
NoRange == [offset |-> 0, size |-> 0]

Minimum(a, b) == IF a < b THEN a ELSE b

-----------------------------------------------------------------------------
(* The map of parts *)

\* Mutant: ranges that touch are the same.
LessUnlessTouching(l, r) == l.min < r.min /\ l.max < r.min

\* less_range::operator()
less(l, r) == l.min < r.min /\ l.max <= r.min

\* std::map::emplace of a range that lies behind the others.
Emplace(r) ==
  IF \E i \in 1 .. Len(parts) : ~ less(parts[i], r) /\ ~ less(r, parts[i])
  THEN parts ELSE Append(parts, r)

\* FileCompound::addPart
AddPart(f) ==
  /\ parts' = Emplace([min |-> fsize, max |-> fsize + disk.size[f], file |-> f])
  /\ fsize' = fsize + disk.size[f]

First(S) == CHOOSE i \in S : \A j \in S : i <= j
End == Len(parts) + 1
Query(o, s) == [min |-> o, max |-> o + s]

\* locate(offset, size): equal_range, that is the first part that is not
\* before the range and the first part behind it, or end().
LowerBound(o, s) == First({i \in 1 .. Len(parts) : ~ less(parts[i], Query(o, s))} \cup {End})
UpperBound(o, s) == First({i \in 1 .. Len(parts) : less(Query(o, s), parts[i])} \cup {End})

-----------------------------------------------------------------------------
(* Opening *)

\* FileCompound(filename): the file itself ...
OpenWhole ==
  /\ pc = "closed"
  /\ disk.whole
  /\ AddPart(1)
  /\ pc' = "opened"
  /\ UNCHANGED <<disk, reader, call>>

\* ... or, when that throws, its parts,
OpenParts ==
  /\ pc = "closed"
  /\ ~ disk.whole
  /\ fsize' = 0
  /\ pc' = "parts"
  /\ UNCHANGED <<disk, parts, reader, call>>

OpenPart ==
  /\ pc = "parts"
  /\ Len(parts) < Minimum(MaxFiles, Len(disk.size))
  /\ AddPart(Len(parts) + 1)
  /\ UNCHANGED <<disk, reader, pc, call>>

\* until one is missing.
LastPart ==
  /\ pc = "parts"
  /\ Len(parts) = Minimum(MaxFiles, Len(disk.size))
  /\ pc' = IF parts = <<>> THEN "failed" ELSE "opened"
  /\ UNCHANGED <<disk, parts, fsize, reader, call>>

\* makeFileReader: the whole archive, or (Archive(fd, offset, size)) a segment
\* of a single file.  Nothing here tests that the segment lies in the file: the
\* model has the callers that name one which does.
MakeReader(o, s) ==
  /\ pc = "opened"
  /\ IF Len(parts) > 1 THEN o = 0 /\ s = fsize ELSE o + s <= fsize
  /\ reader' = [offset |-> o, size |-> s]
  /\ pc' = "idle"
  /\ UNCHANGED <<disk, parts, fsize, call>>

\* sectionSubReader: can_read, then sub_reader.
SubReader(o, s) ==
  /\ pc = "idle"
  /\ o <= reader.size /\ o + s <= reader.size
  /\ reader' = [offset |-> reader.offset + o, size |-> s]
  /\ UNCHANGED <<disk, parts, fsize, pc, call>>

-----------------------------------------------------------------------------
(* Reading *)

\* The n bytes at o of a file.
Bytes(f, o, n) == [j \in 1 .. n |-> <<f, o + j - 1>>]

\* FD::readAt
readAt(f, n, o) == Bytes(f, o, n)

\* makeMmappedBuffer
makeMmappedBuffer(f, o, n) ==
  LET pageAlignedOffset == o - (o % PageSize)
      alignmentAdjustment == o - pageAlignedOffset
      mapped == Bytes(f, pageAlignedOffset, n + alignmentAdjustment)
  IN  SubSeq(mapped, alignmentAdjustment + 1, alignmentAdjustment + n)

CanRead(o, s) == o <= reader.size /\ o + s <= reader.size

\* mmap refuses a length of 0, and mmapReadOnly throws: so does a read of no
\* bytes at the beginning of a page.
MmapThrows(o, n) == n + (o % PageSize) = 0

\* get_buffer of a range that lies in one file, at o of it
Map(f, o, n) ==
  IF MmapThrows(o, n) THEN pc' = "threw" /\ dest' = <<>>
                      ELSE pc' = "done" /\ dest' = makeMmappedBuffer(f, o, n)

\* FileReader::read
ReadFile(o, s) ==
  /\ pc = "idle" /\ Len(parts) = 1
  /\ CanRead(o, s)
  /\ req' = [offset |-> o, size |-> s]
  /\ dest' = readAt(parts[1].file, s, reader.offset + o)
  /\ pc' = "done"
  /\ UNCHANGED <<disk, parts, fsize, reader, offset, size, current, second, direct>>

\* FileReader::get_buffer
GetFileBuffer(o, s) ==
  /\ pc = "idle" /\ Len(parts) = 1
  /\ CanRead(o, s)
  /\ req' = [offset |-> o, size |-> s]
  /\ Map(parts[1].file, reader.offset + o, s)
  /\ UNCHANGED <<disk, parts, fsize, reader, offset, size, current, second, direct>>

\* MultiPartFileReader::get_buffer when the range is in only one part.  At the
\* end of the archive, where the checksum is, nobody asks for a buffer of no
\* bytes (there the iterator would be moved past end()).
GetBuffer(o, s) ==
  /\ pc = "idle" /\ Len(parts) > 1
  /\ CanRead(o, s) /\ reader.offset + o < fsize
  /\ req' = [offset |-> o, size |-> s]
  /\ LET first == LowerBound(reader.offset + o, s)
     IN  /\ UpperBound(reader.offset + o, s) = first + 1
         /\ Map(parts[first].file, (reader.offset + o) - parts[first].min, s)
  /\ UNCHANGED <<disk, parts, fsize, reader, offset, size, current, second, direct>>

\* MultiPartFileReader::read(offset) of one char
ReadChar(o) ==
  /\ pc = "idle" /\ Len(parts) > 1
  /\ o < reader.size
  /\ req' = [offset |-> o, size |-> 1]
  /\ LET r == parts[LowerBound(reader.offset + o, 0)]
     IN  dest' = readAt(r.file, 1, (reader.offset + o) - r.min)
  /\ pc' = "done"
  /\ UNCHANGED <<disk, parts, fsize, reader, offset, size, current, second, direct>>

\* MultiPartFileReader::read, where get_buffer ends too when the range lies in
\* several parts.
Read(o, s) ==
  /\ pc = "idle" /\ Len(parts) > 1
  /\ CanRead(o, s)
  /\ req' = [offset |-> o, size |-> s]
  /\ dest' = <<>>
  /\ IF s = 0
     THEN /\ pc' = "done"
          /\ UNCHANGED <<offset, size, current, second>>
     ELSE /\ pc' = "loop"
          /\ offset' = reader.offset + o
          /\ size' = s
          /\ current' = LowerBound(reader.offset + o, s)
          /\ second' = UpperBound(reader.offset + o, s)
  /\ UNCHANGED <<disk, parts, fsize, reader, direct>>

\* Mutant: the part's size instead of what is left of it.
WholePart(s, r, l) == Minimum(s, disk.size[r.file])

SizeToGet(s, r, l) == Minimum(s, disk.size[r.file] - l)

\* The body of the loop over found_range
ReadPart ==
  /\ pc = "loop" /\ current # second
  /\ LET r == parts[current]
         local == offset - r.min
         n == SizeToGet(size, r, local)
     IN  /\ dest' = dest \o readAt(r.file, n, local)
         /\ size' = size - n
         /\ offset' = offset + n
  /\ current' = current + 1
  /\ UNCHANGED <<disk, parts, fsize, reader, pc, req, second, direct>>

ReadEnds ==
  /\ pc = "loop" /\ current = second
  /\ pc' = "done"
  /\ UNCHANGED <<disk, parts, fsize, reader, call>>

\* Item::getDirectAccessInformation for a blob of s bytes at o: the file and
\* the offset in it, unless its cluster is compressed or it is split on two
\* parts.  Also an empty blob is not at the end of the archive (see GetBuffer).
GetDirectAccess(o, s) ==
  /\ pc = "idle"
  /\ CanRead(o, s) /\ reader.offset + o < fsize
  /\ req' = [offset |-> o, size |-> s]
  /\ \/ direct' = NoAccess
     \/ LET full == reader.offset + o
            first == LowerBound(full, s)
        IN  direct' = IF UpperBound(full, s) # first + 1 THEN NoAccess
                      ELSE <<parts[first].file, full - parts[first].min>>
  /\ pc' = "located"
  /\ UNCHANGED <<disk, parts, fsize, reader, offset, size, current, second, dest>>

\* The caller has the answer and the locals of the call are gone.
Return ==
  /\ pc \in {"done", "located", "threw"}
  /\ pc' = "idle"
  /\ req' = NoRange
  /\ offset' = 0 /\ size' = 0 /\ current' = 1 /\ second' = 1
  /\ dest' = <<>> /\ direct' = NoAccess
  /\ UNCHANGED <<disk, parts, fsize, reader>>

-----------------------------------------------------------------------------
Init ==
  /\ disk \in Disks
  /\ parts = <<>>
  /\ fsize = 0
  /\ reader = NoRange
  /\ pc = "closed"
  /\ req = NoRange
  /\ offset = 0 /\ size = 0 /\ current = 1 /\ second = 1
  /\ dest = <<>> /\ direct = NoAccess

Open == OpenWhole \/ OpenParts \/ OpenPart \/ LastPart

Call(o, s) == \/ MakeReader(o, s) \/ SubReader(o, s)
              \/ ReadFile(o, s) \/ GetFileBuffer(o, s)
              \/ Read(o, s) \/ GetBuffer(o, s) \/ ReadChar(o)
              \/ GetDirectAccess(o, s)

Next == \/ Open
        \/ \E o, s \in 0 .. fsize : Call(o, s)
        \/ ReadPart \/ ReadEnds \/ Return
        \/ pc = "failed" /\ UNCHANGED vars

Spec == Init /\ [][Next]_vars

-----------------------------------------------------------------------------
(* Properties *)

\* Where byte x of the archive is: in the file that begins at or before it and
\* ends behind it.
IsByte(b, x) ==
  /\ b[1] \in 1 .. Len(disk.size)
  /\ b[2] \in 0 .. disk.size[b[1]] - 1
  /\ x = disk.start[b[1]] + b[2]

\* Every read delivers the bytes asked for, all of them and in order, whether
\* the range lies in one part or in several, and through any chain of
\* sub_readers; only a read of no bytes may throw.
ReadExact ==
  /\ pc = "threw" => req.size = 0
  /\ pc = "done" =>
    /\ Len(dest) = req.size
    /\ \A j \in 1 .. req.size : IsByte(dest[j], reader.offset + req.offset + j - 1)

\* The location that getDirectAccessInformation gives out is that of the blob,
\* and all of the blob is in that file.
DirectAccessExact ==
  pc = "located" /\ direct # NoAccess =>
    /\ IsByte(direct, reader.offset + req.offset)
    /\ req.size > 0 =>
         IsByte(<<direct[1], direct[2] + req.size - 1>>, reader.offset + req.offset + req.size - 1)
-----------------------------------------------------------------------------
(* The inductive invariant *)

\* The map holds the parts opened so far: their ranges begin at 0, are in the
\* order of the files and leave no gap.
MapInv ==
  /\ disk \in Disks
  /\ \E n \in 0 .. Len(disk.size) :
       /\ parts = [i \in 1 .. n |-> [min |-> disk.start[i], max |-> disk.start[i + 1], file |-> i]]
       /\ fsize = disk.start[n + 1]
       /\ pc = "closed" => n = 0
       /\ pc \notin {"closed", "parts", "failed"} => n > 0

\* A reader lies in the archive, a call's range in its reader.
RangeInv ==
  /\ pc \in {"closed", "parts", "failed", "opened", "idle", "loop", "done", "located", "threw"}
  /\ reader \in [offset : Nat, size : Nat]
  /\ req \in [offset : Nat, size : Nat]
  /\ pc \notin {"closed", "parts", "failed", "opened"} => reader.offset + reader.size <= fsize
  /\ pc \in {"loop", "done", "located", "threw"} => req.offset + req.size <= reader.size

\* Between two rounds of the loop: dest holds the beginning of the range,
\* offset and size are the rest of it, and current is the part where the rest
\* begins, or the end when there is none.
LoopInv ==
  pc = "loop" =>
    /\ offset \in Nat /\ size \in Nat
    /\ offset + size = reader.offset + req.offset + req.size
    /\ req.size > 0 /\ size <= req.size
    /\ second = UpperBound(reader.offset + req.offset, req.size)
    /\ current \in 1 .. second
    /\ current < second => /\ size > 0
                           /\ parts[current].min <= offset
                           /\ offset < parts[current].max
    /\ current = second => size = 0
    /\ dest \in Seq((1 .. Len(disk.size)) \X Nat)
    /\ Len(dest) = req.size - size
    /\ \A j \in 1 .. Len(dest) : IsByte(dest[j], reader.offset + req.offset + j - 1)

\* The inductive invariant behind ReadExact and DirectAccessExact.
FInv == MapInv /\ RangeInv /\ LoopInv /\ ReadExact /\ DirectAccessExact
=============================================================================
