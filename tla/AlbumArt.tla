------------------------------ MODULE AlbumArt ------------------------------
(***************************************************************************)
(* The chunked cover-art commands of src/src/command/FileCommands.cxx.   *)
(* "albumart URI OFFSET" fixes up container URIs (FixIsoOrDffUri), maps  *)
(* a database URI to the directory that holds the song's real file       *)
(* (read_db_art, RealDirectoryOfSong), opens the first cover file found  *)
(* there (find_stream_art) through the client's one-entry stream cache   *)
(* last_album_art, and answers the file's size and at most binary_limit *)
(* bytes from OFFSET (read_stream_art).  "readpicture URI OFFSET" sends *)
(* the same kind of chunk of the first picture in the song's tags        *)
(* (PrintPictureHandler).  A client fetches a whole file by asking again *)
(* at the offset it has reached until it has the size it was told.      *)
(*                                                                         *)
(* A path is the sequence of its segments; a trailing "" segment is a    *)
(* trailing '/'.  Byte i of a file f is the value <<f, i>>.  The stream  *)
(* cache (LastInputStream), InputStream and PathTraitsUTF8 are not part  *)
(* of the sources: the cache is a directory with the stream opened for   *)
(* it and the stream's position, which a close timer may drop between   *)
(* commands; InputStream::Read returns between one byte and what was    *)
(* asked for while the stream has data left (storage may be remote, and *)
(* a remote stream returns what it has buffered), and nothing at its    *)
(* end; GetParent is the path before its last separator.                 *)
(***************************************************************************)
EXTENDS Integers, Sequences, SequencesExt

CONSTANTS
  Uris,          \* the URIs the client may name
  SegExt,        \* SegExt[s]: the lower-cased suffix of path segment s
  MusicRoot,     \* storage->MapUTF8 prefix: the music directory
  DbSongs,       \* the URIs db->GetSong finds a song for
  RealUp,        \* RealUp[u]: the "../" prefixes of song u's real_uri
  CoverFiles,    \* the <<directory, name>> files present
  CoverSize,     \* CoverSize[f]: size of cover file f
  Pictures,      \* Pictures[u]: the pictures TagScanAny reports, in order
  PictureSize,   \* PictureSize[p]
  BinaryLimit,   \* client.binary_limit
  XferUris,      \* the URIs whose art the client fetches
  RealDir,       \* RealDir[u]: the directory holding u's real file
  ExpectedCover  \* ExpectedCover[u]: the cover file of RealDir[u], or <<>>

ASSUME
  /\ XferUris \subseteq Uris
  /\ \A u \in Uris : Len(u) > 0
  /\ BinaryLimit \in Nat \ {0}

Cmds == {"albumart", "readpicture"}

(* find_stream_art's art_names, tried in this order.                     *)
ArtNames == <<"cover.png", "cover.jpg", "cover.webp">>

NoFile == <<>>

Min2(a, b) == IF a < b THEN a ELSE b

Content(f) == [i \in 1 .. CoverSize[f] |-> <<f, i>>]
PictureContent(p) == [i \in 1 .. PictureSize[p] |-> <<p, i>>]

(* PathTraitsUTF8::GetParent                                              *)
GetParent(p) == IF Len(p) <= 1 THEN <<".">> ELSE Front(p)

-----------------------------------------------------------------------------
(* FixIsoOrDffUri: a URI ending in a container suffix loses its last     *)
(* segment (erase from the last separator), and ends with a separator   *)
(* if it had one or if what is left no longer ends in that suffix.       *)
FixExts == {".dff", ".dar", ".iso", ".sid"}

FixSep(u) == Last(u) = ""
FixStrip(u) == IF FixSep(u) THEN Front(u) ELSE u
FixHit(u) == SegExt[Last(FixStrip(u))] \in FixExts

(* erase(npos) throws std::out_of_range: a container suffix, no '/'.     *)
FixFails(u) == FixHit(u) /\ Len(FixStrip(u)) = 1

FixIsoOrDffUriNoSep(u) ==
  LET v == FixStrip(u) IN
  IF FixHit(u) THEN Front(v)
  ELSE IF FixSep(u) THEN Append(v, "") ELSE v

FixIsoOrDffUri(u) ==
  LET v == FixStrip(u)
      w == IF FixHit(u) THEN Front(v) ELSE v
      sep == FixSep(u) \/ (FixHit(u) /\ SegExt[Last(w)] # SegExt[Last(v)])
  IN IF sep THEN Append(w, "") ELSE w

(* RealDirectoryOfSong: one level up for each "../" of the song's       *)
(* real_uri; the directory as it is for a URI that is not a song.       *)
RECURSIVE Up(_, _)
Up(d, n) == IF n = 0 THEN d ELSE Up(GetParent(d), n - 1)

RealDirectoryOfSong(uri, dir) ==
  IF uri \in DbSongs THEN Up(dir, RealUp[uri]) ELSE dir

(* handle_album_art on a database URI, then read_db_art: the directory   *)
(* whose covers are searched.                                            *)
ArtDirectory(u) ==
  LET uri == FixIsoOrDffUri(u)
  IN RealDirectoryOfSong(uri, GetParent(MusicRoot \o uri))

(* find_stream_art: the first of art_names that opens, or nullptr.       *)
FindStreamArt(d) ==
  LET i == SelectInSeq(ArtNames, LAMBDA n : <<d, n>> \in CoverFiles)
  IN IF i = 0 THEN NoFile ELSE <<d, ArtNames[i]>>

(* InputStream::Read of up to want bytes from position p of file f: how *)
(* many it returns; Bytes(f, p, k) are those bytes.                      *)
ReadLen(f, p, want) ==
  IF p >= CoverSize[f] THEN {0} ELSE 1 .. Min2(want, CoverSize[f] - p)

Bytes(f, p, k) == [i \in 1 .. k |-> <<f, p + i>>]

(* The directory and the cover file of each fetched URI, which do not  *)
(* change while the client runs (tabulated once).                        *)
ArtDirOf == [u \in XferUris |-> ArtDirectory(u)]
ArtFileOf == [d \in {ArtDirOf[u] : u \in XferUris} |-> FindStreamArt(d)]

-----------------------------------------------------------------------------
VARIABLES
  cache,   \* client.last_album_art: [dir, file, pos]; dir <<>> when closed
  xfer     \* xfer[u, c]: the client's fetch of u's art with command c:
           \* its state, offset and the bytes it has

vars == <<cache, xfer>>

Closed == [dir |-> <<>>, file |-> NoFile, pos |-> 0]

Init ==
  /\ cache = Closed
  /\ xfer = [x \in XferUris \X Cmds |->
               [st |-> "idle", offset |-> 0, got |-> <<>>]]

(* The client starts fetching at offset 0.                               *)
Start(u, c) ==
  /\ xfer[u, c].st = "idle"
  /\ xfer' = [xfer EXCEPT ![u, c].st = "active"]
  /\ UNCHANGED cache

(* The client takes a chunk and goes on while it has less than the size. *)
Received(u, c, size, data) ==
  xfer' = [xfer EXCEPT ![u, c] =
             [st |-> IF @.offset + Len(data) >= size THEN "done" ELSE "active",
              offset |-> @.offset + Len(data),
              got |-> @.got \o data]]

(* An ACK: the client gives up.                                          *)
Failed(u, c) == xfer' = [xfer EXCEPT ![u, c].st = "failed"]

(* Where the stream reads from: is->Seek(offset) first.                  *)
SeekPosNoSeek(hit, offset) == IF hit THEN cache.pos ELSE 0
SeekPos(hit, offset) == offset

(* buffer_size: what is left from the offset, at most binary_limit.     *)
BufferSizeShort(size, offset) == Min2(size - offset - 1, BinaryLimit)
BufferSize(size, offset) == Min2(size - offset, BinaryLimit)

(* last_album_art.Open(art_directory, ...): the cached stream is used   *)
(* when it was opened for this directory.                                *)
CacheHitAnyStream(d) == cache.file # NoFile
CacheHit(d) == cache.dir = d

(* read_stream_art(r, d, offset) for the fetch of u: the cached stream  *)
(* if it is d's, else find_stream_art(d) in its place; then the size,   *)
(* the offset check, buffer_size, and one Read, or two when the stream  *)
(* was ready and the first gave less than half the buffer.               *)
ReadStreamArt(u, d, offset) ==
  LET hit == CacheHit(d)
      f == IF hit THEN cache.file ELSE ArtFileOf[d]
      pos0 == IF hit THEN cache.pos ELSE 0
  IN
  IF f = NoFile
  THEN /\ cache' = [dir |-> d, file |-> NoFile, pos |-> 0]
       /\ Failed(u, "albumart")
  ELSE IF offset > CoverSize[f]
  THEN /\ cache' = [dir |-> d, file |-> f, pos |-> pos0]
       /\ Failed(u, "albumart")
  ELSE
    LET n == BufferSize(CoverSize[f], offset)
        p == SeekPos(hit, offset)
    IN
    IF n <= 0
    THEN /\ cache' = [dir |-> d, file |-> f, pos |-> pos0]
         /\ Received(u, "albumart", CoverSize[f], <<>>)
    ELSE
      \E wasReady \in BOOLEAN, k1 \in ReadLen(f, p, n) :
        LET second == wasReady /\ k1 < n \div 2 IN
        \E k2 \in IF second THEN ReadLen(f, p + k1, n - k1) ELSE {0} :
          /\ cache' = [dir |-> d, file |-> f, pos |-> p + k1 + k2]
          /\ Received(u, "albumart", CoverSize[f], Bytes(f, p, k1 + k2))

(* handle_album_art(u, offset) on a database URI.                        *)
HandleAlbumArt(u) ==
  /\ xfer[u, "albumart"].st = "active"
  /\ IF FixFails(u)
     THEN Failed(u, "albumart") /\ UNCHANGED cache
     ELSE ReadStreamArt(u, ArtDirOf[u], xfer[u, "albumart"].offset)

(* PrintPictureHandler::OnPicture for the first picture p: the bytes    *)
(* from offset, at most binary_limit of them.                            *)
PictureChunkNoSubspan(p, offset) ==
  SubSeq(PictureContent(p), 1, Min2(PictureSize[p] - offset, BinaryLimit))

PictureChunk(p, offset) ==
  SubSeq(PictureContent(p), offset + 1, offset + Min2(PictureSize[p] - offset, BinaryLimit))

(* handle_read_picture(u, offset): no picture gives an empty OK, an     *)
(* offset past the first picture a "Bad file offset" ACK.                *)
HandleReadPicture(u) ==
  LET offset == xfer[u, "readpicture"].offset IN
  /\ xfer[u, "readpicture"].st = "active"
  /\ IF Pictures[u] = <<>> \/ offset > PictureSize[Pictures[u][1]]
     THEN Failed(u, "readpicture")
     ELSE Received(u, "readpicture", PictureSize[Pictures[u][1]],
                   PictureChunk(Pictures[u][1], offset))
  /\ UNCHANGED cache

(* LastInputStream's close timer, armed only when a stream was opened,  *)
(* fires between commands.                                               *)
CloseTimer ==
  /\ cache.file # NoFile
  /\ cache' = Closed
  /\ UNCHANGED xfer

Next ==
  \/ \E u \in XferUris, c \in Cmds : Start(u, c)
  \/ \E u \in XferUris : HandleAlbumArt(u)
  \/ \E u \in XferUris : HandleReadPicture(u)
  \/ CloseTimer

(* The client keeps asking while it has not the whole file; the server  *)
(* answers every command.                                                *)
Spec ==
  /\ Init /\ [][Next]_vars
  /\ \A u \in XferUris : WF_vars(HandleAlbumArt(u)) /\ WF_vars(HandleReadPicture(u))

-----------------------------------------------------------------------------
TypeOK ==
  /\ cache.dir \in {<<>>} \cup DOMAIN ArtFileOf
  /\ cache.file \in {NoFile} \cup CoverFiles
  /\ cache.file = NoFile \/ cache.file[1] = cache.dir
  /\ cache.pos \in 0 .. (IF cache.file = NoFile THEN 0 ELSE CoverSize[cache.file])
  /\ \A x \in DOMAIN xfer :
       /\ xfer[x].st \in {"idle", "active", "done", "failed"}
       /\ xfer[x].offset \in Nat /\ xfer[x].offset = Len(xfer[x].got)

HasArt(u, c) ==
  IF c = "albumart" THEN ExpectedCover[u] # NoFile ELSE Pictures[u] # <<>>

ArtContent(u, c) ==
  IF c = "albumart" THEN Content(ExpectedCover[u])
  ELSE PictureContent(Pictures[u][1])

(* albumart looks for covers in the directory of the song's real file:  *)
(* a plain song's own directory, the directory of the ISO or DFF         *)
(* container a virtual track lies in (FixIsoOrDffUri), and the          *)
(* directory of a CUE sheet's audio file (RealDirectoryOfSong); so the  *)
(* stream the client's cache holds is always a cover of such a          *)
(* directory.                                                            *)
ArtFromRealDirectory ==
  /\ \A u \in Uris : ArtDirectory(u) = RealDir[u]
  /\ cache.dir \in {<<>>} \cup {RealDir[u] : u \in XferUris}

(* What the client has put together from the chunks, whatever the order *)
(* of its fetches, the reuse and expiry of the cached stream and the    *)
(* short reads, is the start of the cover of the song's real directory  *)
(* (albumart) or of the song's first picture (readpicture), and all of  *)
(* it once the client stops.                                             *)
AssembledIsArt ==
  \A x \in DOMAIN xfer :
    xfer[x].st \in {"active", "done"} /\ HasArt(x[1], x[2]) =>
      /\ xfer[x].got = SubSeq(ArtContent(x[1], x[2]), 1, xfer[x].offset)
      /\ xfer[x].st = "done" => xfer[x].got = ArtContent(x[1], x[2])

(* A client that keeps asking for the next chunk of a song that has art *)
(* gets all of it: every answer takes the offset forward until the size.*)
TransferCompletes ==
  \A u \in XferUris, c \in Cmds :
    HasArt(u, c) => (xfer[u, c].st = "active" ~> xfer[u, c].st = "done")

=============================================================================
