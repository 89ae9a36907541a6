------------------------------ MODULE DvdaZone ------------------------------
(***************************************************************************)
(* One DVD-Audio titleset as dvda_titleset_t (src/src/lib/dvdaiso/        *)
(* dvda_zone.cpp) builds and reads it: open() numbers the blocks of the  *)
(* ATS_xx_1..9.AOB files into one block space, a missing file taking a    *)
(* placeholder extent, and assigns the title's sector-pointer records to  *)
(* its tracks, each track spanning the lowest to the highest block of its *)
(* records; get_block() and get_blocks() read blocks by their number.    *)
(*                                                                         *)
(* The image is read through the disc's UDF file system (this build       *)
(* always mounts the media), where each present AOB file starts on a      *)
(* sector of its own and the files follow one another; a read runs on    *)
(* over the end of a file into what follows on the disc and stops only at *)
(* the end of the image.  A block of data read is named by the file and  *)
(* the sector of that file it comes from.                                 *)
(***************************************************************************)
EXTENDS Integers, Sequences, FiniteSetsExt

CONSTANTS
  BLK,          \* DVD_BLOCK_SIZE, in bytes
  NAobs,        \* AOB files per titleset (9 in the code)
  Sizes,        \* the sizes in bytes an AOB file may have
  Placeholder,  \* blocks given to a missing AOB ((1024*1024-32)*1024/BLK)
  Layouts,      \* titles: [idx: track start indexes, recs: sector records]
  MaxFirst,     \* highest block number a read starts at
  MaxReq,       \* most blocks one get_blocks call asks for
  UIntMax       \* stands for UINT32_MAX: above every block number

ASSUME
  /\ BLK \in Nat \ {0} /\ NAobs \in Nat \ {0} /\ Placeholder \in Nat \ {0}
  /\ Sizes \subseteq Nat \ {0}
  /\ MaxReq \in Nat \ {0}

Absent == [present |-> FALSE, size |-> 0]
Files == {Absent} \cup [present : {TRUE}, size : Sizes]

(* Unsigned 32-bit arithmetic on block numbers.                          *)
U32(x) == IF x < 0 THEN x + UIntMax + 1
          ELSE IF x > UIntMax THEN x - UIntMax - 1 ELSE x

(* Sectors a file of s bytes occupies.                                   *)
SectorsOf(s) == s \div BLK + (IF s % BLK > 0 THEN 1 ELSE 0)

VARIABLES
  files,     \* files[i]: ATS_xx_i.AOB, present or not, and its size
  media,     \* sectors of the image that hold AOB data (a short image cuts it)
  layout,    \* the title read from the ATS_xx_0.IFO
  opened,    \* dvda_titleset_t::open has run
  aobs,      \* aobs[i].block_first / block_last
  tracks,    \* per track: its sector-pointer record indexes, first and last
  req,       \* the last read asked for: first block and count
  cells,     \* what the read left in buf_ptr: per block, its file and sector
  nread      \* the block count it returned, or -1 for a get_block error

vars == <<files, media, layout, opened, aobs, tracks, req, cells, nread>>

(* The sector of the image at which present file i starts.              *)
Base(f, i) ==
  MapThenSumSet(LAMBDA j : SectorsOf(f[j].size), {j \in 1 .. i - 1 : f[j].present})

(* The spec's numbering (4.1): the AOBs' blocks one after the other,     *)
(* a missing AOB taking a contiguous placeholder extent.                *)
RefNumber(d) ==
  MapThenSumSet(LAMBDA j : IF files[j].present THEN SectorsOf(files[j].size)
                           ELSE Placeholder,
                1 .. d.file - 1) + d.sector

Init ==
  /\ files \in [1 .. NAobs -> Files]
  /\ LET full == Base(files, NAobs + 1) IN media \in {full, (full - 1)} \cap Nat
  /\ layout \in Layouts
  /\ opened = FALSE
  /\ aobs = <<>>
  /\ tracks = <<>>
  /\ req = [first |-> 0, count |-> 0]
  /\ cells = <<>>
  /\ nread = 0

-----------------------------------------------------------------------------
(* open(): aobs[i].block_first = aob_offset; block_last from the file's  *)
(* size rounded up to whole blocks, or the placeholder extent; then     *)
(* aob_offset = block_last + 1, all in uint32_t.                         *)
(* Fault variant: the next extent starts at block_last.                 *)
RECURSIVE ExtentsNoIncrement(_, _, _)
ExtentsNoIncrement(f, k, offset) ==
  IF k > Len(f) THEN <<>>
  ELSE LET last == U32(IF f[k].present THEN offset + SectorsOf(f[k].size) - 1
                       ELSE offset + Placeholder - 1)
       IN <<[first |-> offset, last |-> last]>> \o ExtentsNoIncrement(f, k + 1, last)

RECURSIVE Extents(_, _, _)
Extents(f, k, offset) ==
  IF k > Len(f) THEN <<>>
  ELSE LET last == U32(IF f[k].present THEN offset + SectorsOf(f[k].size) - 1
                       ELSE offset + Placeholder - 1)
       IN <<[first |-> offset, last |-> last]>> \o Extents(f, k + 1, U32(last + 1))

(* The track index after track k, 0 for the last track.                  *)
NextIndex(idx, k) == IF k < Len(idx) THEN idx[k + 1] ELSE 0

(* The records (1-based) that open() gives track k: j >= its index and  *)
(* below the next track's index, or any j when that index is 0.         *)
(* Fault variant: the next track's first record given to track k too.   *)
SectorPointersInclusive(idx, nrecs, k) ==
  {j \in 1 .. nrecs : j >= idx[k] /\ (j <= NextIndex(idx, k) \/ NextIndex(idx, k) = 0)}

SectorPointers(idx, nrecs, k) ==
  {j \in 1 .. nrecs : j >= idx[k] /\ (j < NextIndex(idx, k) \/ NextIndex(idx, k) = 0)}

(* dvda_track_t::get_first / get_last: min and max over the records, 0  *)
(* for a track with none.                                                *)
TrackFirst(recs, sp) == IF sp = {} THEN 0 ELSE Min({recs[j].first : j \in sp})
TrackLast(recs, sp) == IF sp = {} THEN 0 ELSE Max({recs[j].last : j \in sp})

(* dvda_titleset_t::open over the AOB files and the title's tables.      *)
Open ==
  /\ ~opened
  /\ opened' = TRUE
  /\ aobs' = Extents(files, 1, 0)
  /\ tracks' = [k \in 1 .. Len(layout.idx) |->
                  LET sp == SectorPointers(layout.idx, Len(layout.recs), k) IN
                  [sp |-> sp, first |-> TrackFirst(layout.recs, sp),
                   last |-> TrackLast(layout.recs, sp)]]
  /\ UNCHANGED <<files, media, layout, req, cells, nread>>

-----------------------------------------------------------------------------
(* The file and sector of the data at sector s of the image.            *)
MediaData(s) ==
  LET i == CHOOSE j \in 1 .. NAobs :
             files[j].present /\ Base(files, j) <= s
             /\ s < Base(files, j) + SectorsOf(files[j].size)
  IN [file |-> i, sector |-> s - Base(files, i)]

(* dvda_fileobject_t::read of cnt bytes at byte offset off of file i:    *)
(* the image from there on, up to its end; the whole blocks read.        *)
ReadAt(i, off, cnt) ==
  LET s0 == Base(files, i) + off \div BLK
      n == Max({0, Min({cnt, media * BLK - (Base(files, i) * BLK + off)})}) \div BLK
  IN [k \in 1 .. n |-> MediaData(s0 + k - 1)]

(* dvda_fileobject_t::seek: only inside the file.                       *)
SeekOk(i, off) == files[i].present /\ off < files[i].size

(* The first AOB whose extent holds block b, present or not, or 0.       *)
AobOf(b) ==
  IF \E i \in 1 .. NAobs : aobs[i].first <= b /\ b <= aobs[i].last
  THEN Min({i \in 1 .. NAobs : aobs[i].first <= b /\ b <= aobs[i].last})
  ELSE 0

(* dvda_titleset_t::get_blocks(first, last, buf): read from the AOB     *)
(* holding first; past its extent go on at the start of the next AOB,    *)
(* writing after the blocks already read.  The buffer and the count.     *)
(* Fault variants: the second read written at the start of the buffer;  *)
(* the second read sized from first instead of the next extent's start. *)
GetBlocksOverwrite(first, last) ==
  LET i == AobOf(first)
      off == (first - aobs[i].first) * BLK
  IN
  IF i = 0 \/ ~SeekOk(i, off) THEN [n |-> 0, buf |-> <<>>]
  ELSE IF last <= aobs[i].last
  THEN LET r == ReadAt(i, off, (last + 1 - first) * BLK) IN [n |-> Len(r), buf |-> r]
  ELSE LET p1 == ReadAt(i, off, (aobs[i].last + 1 - first) * BLK) IN
       IF i + 1 <= NAobs /\ SeekOk(i + 1, 0)
       THEN LET p2 == ReadAt(i + 1, 0, (last + 1 - aobs[i + 1].first) * BLK) IN
            [n |-> Len(p1) + Len(p2),
             buf |-> IF Len(p2) >= Len(p1) THEN p2
                     ELSE p2 \o SubSeq(p1, Len(p2) + 1, Len(p1))]
       ELSE [n |-> Len(p1), buf |-> p1]

GetBlocksOverrun(first, last) ==
  LET i == AobOf(first)
      off == (first - aobs[i].first) * BLK
  IN
  IF i = 0 \/ ~SeekOk(i, off) THEN [n |-> 0, buf |-> <<>>]
  ELSE IF last <= aobs[i].last
  THEN LET r == ReadAt(i, off, (last + 1 - first) * BLK) IN [n |-> Len(r), buf |-> r]
  ELSE LET p1 == ReadAt(i, off, (aobs[i].last + 1 - first) * BLK) IN
       IF i + 1 <= NAobs /\ SeekOk(i + 1, 0)
       THEN LET p2 == ReadAt(i + 1, 0, (last + 1 - first) * BLK) IN
            [n |-> Len(p1) + Len(p2), buf |-> p1 \o p2]
       ELSE [n |-> Len(p1), buf |-> p1]

GetBlocks(first, last) ==
  LET i == AobOf(first)
      off == (first - aobs[i].first) * BLK
  IN
  IF i = 0 \/ ~SeekOk(i, off) THEN [n |-> 0, buf |-> <<>>]
  ELSE IF last <= aobs[i].last
  THEN LET r == ReadAt(i, off, (last + 1 - first) * BLK) IN [n |-> Len(r), buf |-> r]
  ELSE LET p1 == ReadAt(i, off, (aobs[i].last + 1 - first) * BLK) IN
       IF i + 1 <= NAobs /\ SeekOk(i + 1, 0)
       THEN LET p2 == ReadAt(i + 1, 0, (last + 1 - aobs[i + 1].first) * BLK) IN
            [n |-> Len(p1) + Len(p2), buf |-> p1 \o p2]
       ELSE [n |-> Len(p1), buf |-> p1]

(* dvda_zone_t::get_blocks(titleset, block_no, blocks, buf).             *)
ReadBlocks(first, count) ==
  LET r == GetBlocks(first, first + count - 1) IN
  /\ opened
  /\ req' = [first |-> first, count |-> count]
  /\ cells' = r.buf
  /\ nread' = r.n
  /\ UNCHANGED <<files, media, layout, opened, aobs, tracks>>

(* dvda_titleset_t::get_block(block, buf): the first present AOB whose  *)
(* extent holds the block, one whole block read, or an error.            *)
GetBlock(b) ==
  LET holders == {i \in 1 .. NAobs : files[i].present
                                     /\ aobs[i].first <= b /\ b <= aobs[i].last}
      i == Min(holders)
      off == (b - aobs[i].first) * BLK
  IN IF holders = {} \/ ~SeekOk(i, off) THEN <<>> ELSE ReadAt(i, off, BLK)

ReadBlock(b) ==
  /\ opened
  /\ req' = [first |-> b, count |-> 1]
  /\ cells' = GetBlock(b)
  /\ nread' = IF Len(cells') = 1 THEN 1 ELSE -1
  /\ UNCHANGED <<files, media, layout, opened, aobs, tracks>>

Next ==
  \/ Open
  \/ \E f \in 0 .. MaxFirst, c \in 1 .. MaxReq : ReadBlocks(f, c)
  \/ \E b \in 0 .. MaxFirst : ReadBlock(b)

Spec == Init /\ [][Next]_vars

-----------------------------------------------------------------------------
DataLabels == [file : 1 .. NAobs, sector : Nat]

TypeOK ==
  /\ files \in [1 .. NAobs -> Files] /\ media \in Nat
  /\ layout \in Layouts /\ opened \in BOOLEAN
  /\ opened => aobs \in [1 .. NAobs -> [first : 0 .. UIntMax, last : 0 .. UIntMax]]
  /\ req \in [first : 0 .. MaxFirst, count : 0 .. MaxReq]
  /\ cells \in Seq(DataLabels) /\ Len(cells) <= MaxReq
  /\ nread \in -1 .. MaxReq

(* Every sector of every present AOB that the image holds is read back  *)
(* by get_block under the block number the spec gives it: open()'s      *)
(* extents, with placeholders for missing files and the round-up of a   *)
(* partial last block, number the data the way the track tables do.     *)
BlockAddressing ==
  opened =>
    \A i \in 1 .. NAobs : files[i].present =>
      \A o \in 0 .. SectorsOf(files[i].size) - 1 :
        Base(files, i) + o < media =>
          GetBlock(RefNumber([file |-> i, sector |-> o]))
            = <<[file |-> i, sector |-> o]>>

(* get_blocks leaves in the buffer, in order, the blocks first, first+1, *)
(* ... it was asked for, as many as it says it read and never more than *)
(* asked: across the boundary of two AOB files and at a short image.    *)
GetBlocksInOrder ==
  nread >= 0 =>
    /\ nread <= req.count
    /\ Len(cells) >= nread
    /\ \A c \in 1 .. nread : RefNumber(cells[c]) = req.first + c - 1

(* The spec's track invariant (3): each track's block range has first   *)
(* <= last, and the ranges of the tracks of a title do not overlap.     *)
TrackRangesDisjoint ==
  opened =>
    \A k1, k2 \in DOMAIN tracks :
      /\ tracks[k1].first <= tracks[k1].last
      /\ k1 # k2 => tracks[k1].last < tracks[k2].first
                    \/ tracks[k2].last < tracks[k1].first

=============================================================================
