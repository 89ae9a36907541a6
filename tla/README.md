# TLA+ models of mpd-dbcreate's SACD and DVD-Audio decoders and cover-art commands

This directory holds TLA+ models of the disc-image decoding code in
`src/src`. It has:

- the modules;
- the TLC configurations that check them;
- `PROJECT.json`, which records every component, run, fault variant,
  source mapping, finding and hazard.

Every definition that models code names the lines it stands for in the
`map` section of `PROJECT.json`.

## The system

`mpd-dbcreate` is a cut-down MPD that builds a music database from SACD
and DVD-Audio ISO images. The parts, and how they interact:

| Part | Sources | Role |
|---|---|---|
| SACD plugin | `decoder/plugins/SacdIsoDecoderPlugin.cxx` | Lists a disc's tracks as virtual files (`container_scan`). Reads tags (`scan_file`). Decodes a track (`file_decode`). |
| DST engine | `lib/sacdiso/libdstdec/binding/dst_engine.h`, `dst_decoder.cpp` | A pool of N worker threads, each decoding one DST frame per slot. |
| DVD-A plugin | `decoder/plugins/DvdaIsoDecoderPlugin.cxx` | The same three entry points for DVD-Audio discs. Optionally offers a stereo downmix as a separate track. |
| TrackSession | `lib/dvdaiso/dvda_disc.cpp` | Holds a ring buffer that block reads fill. Drives the substream decoder one frame at a time. Resyncs. Seeks. |
| Substream decoders | `lib/dvdaiso/pcm_audio_stream.cpp`, `mlp_audio_stream.cpp`, `audio_stream.cpp` | Decode LPCM and MLP, reorder channels, downmix. |
| Catalog | `lib/dvdaiso/dvda_zone.cpp`, `audio_track.cpp` | Parse the titleset IFOs. Assign sectors to tracks. Build the track list. |
| Metabase | `lib/dvdaiso/dvda_metabase.cpp` | XML tag overrides, looked up by `scan_info` per track as `titleset.title.track` under a `<store>` keyed by the md5 of `AUDIO_TS.IFO`. |
| Media / file system | `lib/dvdaiso/dvda_filesystem.cpp`, `lib/sacdiso/sacd_media.h` | Byte-level access to the image. |
| Database front end | `DbMain.cxx`, `db/update/*` | Runs one database update. Filters songs by channel count. Validates cue sheets. |
| Commands, outputs | `command/FileCommands.cxx`, `output/Registry.cxx` | Protocol handlers and a static table. |

The only concurrency is in the DST engine. The SACD decode loop runs in
MPD's decoder thread and hands each DST frame to `dst_decoder_t::run()`.
That call loads the frame into slot `slot_index` and wakes that slot's
worker. It then moves `slot_index` on and waits for the *oldest* slot,
the one loaded N-1 calls earlier, and returns that slot's output.
Everything else is sequential. In `mpd-dbcreate` only the database
update thread calls the plugins (`container_scan`, `scan_file`);
`file_decode` is the entry point MPD's decoder thread uses when the
plugins are built into a player. Both plugins keep their open disc in
globals (`sacd_reader`, `dvda_reader`) that persist from one call to the
next. The SACD reader itself (`sacd_disc_t`),
`stream_buffer` and `dvda_block` are not part of the sources.

## Modules

| Module | Models | State | Actions |
|---|---|---|---|
| `DstEngine` | `dst_engine_t<…, MT>` | `slot_index`; per slot: `state`, `inp_data`, `out_data`, the two semaphore counts, the worker's program counter; `run_threads`; the destructor's loop index | Worker: `WorkerStart`, `WorkerSkip`, `WorkerFinish` (the `while (running)` loop). Caller side: `RunLoad`, `RunCollectEmpty`, `RunCollectReady` (`run()`); `DestructStart`, `DestructRelease`, `DestructJoin` (`~dst_engine_t`) |
| `SacdIsoDecode` | `file_decode` with the engine | `pc`; `dsx_buf`; `frame_read`; the reader's cursor; `dst_decoder_initialized`; the command history | `ReadFrame` (read plus lazy `init`), `Load`, `CollectEmpty`, `CollectReady`, `EndOfTrack`, `NextPass`, `Submit`, `SubmitSeek`, the teardown steps, and `Worker(j)` for each thread |
| `DelayLine` | What `dst_engine_t::run` promises its caller | `line`: the N-1 frames in flight, oldest first; `result`; `open` | `Run(x)`, `Take`, `Close` |
| `DvdaTrackSession` | `dvda_disc_t` decoding one track: `read_frame`, `stream_buffer_read`, `create_audio_stream`, `seek`, and the byte accounting of the PCM and MLP decoders | `kind`; `pc`; `stream_block_current`; the ring buffer's read and write offsets; `audio_stream` present or not; whether the stream id is known; the bytes the MLP parser holds; `major_sync_0`; whether the last frame was stale | `FillNone`, `FillTrack`, `FillTrackAndTail` (the refill), `DecodeFrame`, `DecodeEnd`, `Resync`, `CreateStream`, `CreateFailed` (the branches of `read_frame`), `SeekTo` |
| `DvdaIsoDecode` | DVD-A `file_decode` with the session | as above | the session's steps, `Submit`, `SubmitSeek` |
| `SacdPlugin` | The SACD plugin's `init` parameters, `container_update`, `container_scan`, `get_subsong`, `scan_file` with `scan_info`, and `file_decode` up to `client.Ready` | the channel mode and playable area; `sacd_path`; the reader's selected area and track; the names each scan listed; the last call, its name, and what it selected or tagged | `ContainerScan(d)`, `FileDecode(n)`, `ScanFile(n)` |
| `DvdaPlugin` | The DVD-A plugin's `init` parameters, `container_update`, `container_scan`, `scan_file` with `scan_info`, the metabase lookup (`dvda_metabase_t`'s constructor, `get_node`, `track_number_to_id`, `get_track_info`) and `get_info`, `get_subsong`, and `file_decode` up to `client.Ready`, with `dvda_disc_t::open`, `select_track` and `set_downmix`, `dvda_zone_t::open`'s titleset loop, and the `track_list` that `track_list_t::init` builds from the audio titlesets | the plugin parameters; `dvda_path`; `sel_track_index`; `stream_downmix`; the names each scan listed, with the track, downmix and tag source it stored for each; the last call, its name and result; whether an index outside `track_list` was ever selected | `ContainerScan(d)`, `FileDecode(n)`, `ScanFile(n)`, and `ContainerScanFails(d)`, `FileDecodeFails(n)`, `ScanFileFails(n)` for an image the reader does not open |
| `DvdaZone` | One titleset as `dvda_titleset_t` builds and reads it: `open`'s AOB extents and sector-pointer assignment, `dvda_track_t::get_first`/`get_last`, `get_block`, `get_blocks`, over the UDF file objects of `dvda_filesystem.cpp` | the AOB files (present or not, and their sizes); how much of the image there is; the title's tables; the extents and tracks `open` built; the last read, what it left in the buffer and the count it returned | `Open`, `ReadBlocks(first, count)` (`dvda_zone_t::get_blocks`), `ReadBlock(b)` (`get_block`) |
| `AlbumArt` | `albumart` and `readpicture` of `FileCommands.cxx`: `FixIsoOrDffUri`, `RealDirectoryOfSong`, `ArtDirectory`, `find_stream_art`, `read_stream_art`, `read_db_art`, `handle_album_art`, `handle_read_picture`, with the client's one-entry `last_album_art` cache | `cache`: the directory, cover file and read position of the cached stream; `xfer[u, c]`: each client fetch's state, offset and the bytes received | `Start(u, c)` (the client's first request), `HandleAlbumArt(u)`, `HandleReadPicture(u)`, `CloseTimer` (the cache's idle close) |
| `MCSacdIsoDecode`, `MCDvdaIsoDecode`, `MCSacdPlugin`, `MCDvdaPlugin`, `MCDvdaZone`, `MCAlbumArt` | Constants for TLC | | |

How the model abstracts the code:

- A frame is its position in the track.
- A decoded frame is the record `[pos, st]`, where `st` is `"ok"` or
  `"err"` according to the codec's result.
- A frame that did not go through the engine has `st = "raw"`.
- The reader is a cursor. A read returns the frame at the cursor, and a
  successful seek moves the cursor to any frame of the track.
- `dst_decoder.init()` creates the engine, and so starts its threads, on
  its first call. It then may succeed or fail. On failure, the next DST
  frame tries again (`SacdIsoDecoderPlugin.cxx:389-396`).
- Three history variables exist only for the properties. `read_log` and
  `delivered` record every frame read and every frame handed to
  `SubmitAudio`. `buffer_race` records whether the caller ever wrote a
  slot's buffers while that slot's worker was inside `codec.run()`.

Semaphores are counters. `acquire` is an enabling condition.

`SacdIsoDecode` also instantiates `DelayLine` through a refinement
mapping. `line` is the loaded slots read from `slot_index` on, oldest
first. `result` is what the last `run()` returned. `DelayRefinement`
checks that the engine, as `file_decode` drives it, implements that
abstraction.

### The DVD-A session

The model counts data in units, not bytes:

- A disc block is `BLK` units, and `P` of them are its PS1 payload.
- The titleset's payload is one stream.
- `rpos` and `wpos` are the ring buffer's read and write offsets in that
  stream.
- A PCM sample group is `G` units.
- An MLP frame is `M` units, and frames start at `MlpPhase + k*M`.

The decoders are modelled by what they consume:

- PCM `decode` takes whole groups out of at most one block, and its
  `resync` returns 0.
- The MLP parser takes the rest of the current frame, or everything
  buffered if the frame is incomplete. In the incomplete case it
  completes no packet and leaves `*data_size` untouched.
- MLP `resync` finds the next frame start.

`stream_buffer` is not in the sources. It is modelled from the spec as a
FIFO of `Cap` units that is ready to be written when a whole block fits.
The branches of `read_frame` for `RETCODE_REINIT` and
`stream_needs_reinit` are dead code and are left out:
`stream_needs_reinit` is never set, and `set_check(false)` disables the
header check that returns `RETCODE_REINIT`.

### The plugins' names

`container_scan` lists each track as a virtual file whose name encodes
it: `%cC_AUDIO__TRACK%03u.%3s` for SACD, with the area letter `2` or
`M`; and `AUDIO_TS__TRACK%03u%c.%3s` for DVD-A, with `S`, `M`, or `D`
for a stereo downmix. The database stores those names. `file_decode`
and `scan_file` get only the name back and parse it with `get_subsong`.
In the models, a name is the record of its disc, number and letter. The
suffix is left out. Of the tags, the models keep what identifies the
song: the area and track `scan_info` tags (SACD), and the track and
whether `get_info`'s comment says `DMX` (DVD-A). An SACD disc is its
track counts. A DVD-A disc is the sequence of its titles' tracks, each
with the stream its first blocks carry (PCM, MLP or neither), its
channel count, its MLP substream count, and whether it is shorter than
`SHORT_TRACK_SEC`. `track_list_t::init` keeps the tracks whose stream
header it can read. `can_downmix` is `num_substreams > 1` for MLP and
false for PCM. A disc with an empty track list does not open
(`dvda_disc_t::open`), and every entry point then returns at once.

Three details of the code are kept exactly:

- `get_subsong`'s unsigned decrement, so number 0 wraps to `UINT_MAX`.
- DVD-A's `int sel_track_index`, which turns `UINT_MAX` into -1.
- The unchecked `track_list[i]`. An index outside the table yields any
  record, since the read is undefined behaviour.

`UIntMax` is a constant above every track count; it stands for
`UINT_MAX`.

### The zone

`DvdaZone` models one titleset. `open()` numbers the blocks of
`ATS_xx_1..9.AOB` into one block space. A present file covers its size
rounded up to whole blocks. A missing file takes a placeholder extent of
`(1024*1024-32)*1024/2048` blocks. All of this is `uint32_t`
arithmetic. `open()` then gives each sector-pointer record `j` to every
track `k` with `j+1 >= index(k)` and `j+1 < index(k+1)`, where the last
track's next index is 0, meaning "to the end". A track spans the lowest
to the highest block of its records, or `[0, 0]` when it has none.

In this build the files are always read through the image's UDF file
system. Each present AOB starts on a sector of its own, and the files
follow one another on the image. `dvda_fileobject_t::read` is not
clamped to the file: it runs on into whatever follows and stops only at
the end of the image. `seek` fails past the file's size. The model
labels each sector of data with the file and the sector of that file it
comes from. The properties can then compare what a read returns with
the spec's numbering, which is computed separately (`RefNumber`). The
IFO byte parsing is left out: a title is its track start indexes and
its sector records.

### Cover art

`AlbumArt` models the two chunked cover-art commands. `albumart URI
OFFSET` first maps a song URI to the directory that holds its art:

- `FixIsoOrDffUri` strips a virtual track name that follows a `.iso`,
  `.dff`, `.dar` or `.sid` container, and cuts the container's own name
  off as well;
- `RealDirectoryOfSong` walks up from a cue-sheet track by the number of
  levels the database records;
- `ArtDirectory` takes the parent of what is left.

`read_stream_art` then asks the client's `last_album_art` for a stream
of that directory. The cache reopens `cover.png`, `cover.jpg` or
`cover.webp` (the first that exists) only when the directory differs
from the cached one. The handler then seeks to the offset and reads up
to `binary_limit` bytes. A read that returns less than half of what was
asked for, and finds the stream ready, is followed by one more read.
`readpicture` cuts the same kind of chunk from the first picture in the
song's tags.

The model's paths are sequences of segments; a trailing empty segment
is a trailing `/`. Byte `i` of cover file `f` is the pair `<<f, i>>`,
so an assembled transfer can be compared with the file. One
`InputStream::Read` returns 1 to `want` bytes, or 0 at the end.
`LastInputStream` is not in the sources. It is modelled from its use
here: one cached stream, keyed by directory, with a timer that closes it
when it is idle. The client is the environment. It starts a fetch at
offset 0 and asks for the next chunk at its offset until it has the
whole size or gets an error.

What the passing properties say:

- **`ArtFromRealDirectory`:** every URI, virtual tracks in containers and
  cue-sheet tracks included, maps to the directory its art really lives
  in. The cache only ever holds one of those directories.
- **`AssembledIsArt`:** whatever the order in which the client's fetches
  are interleaved on the one cache, the bytes a fetch has put together
  are exactly the start of its cover file, and all of it when the fetch
  is done. A stale cached position, a short first read and a second read
  all have to be handled right for this to hold.
- **`TransferCompletes`:** a client that keeps asking for the next chunk
  of a song that has art eventually has the whole file.
- **`TypeOK`** includes the cache's coherence: a cached stream is always
  a cover file of the cached directory.

Bounds (cover art):

- **Eight URIs.** They are a plain FLAC, a DFF, a track inside an ISO,
  the ISO itself, a directory named like an ISO, a cue-sheet track, a
  song in a subdirectory, and an ISO track in that subdirectory. These
  cover every branch of the URI fix and the walk up.
- **Three fetched URIs.** Two share a directory and one does not, so
  the cache both hits and misses.
- **Covers of 4 and 2 bytes, and 3 in the subdirectory; pictures of 5,
  2 and 0 bytes.** With `binary_limit` 4 these take one or two chunks
  and end on and off a chunk boundary.

The run reaches 18,288 distinct states in about 70 s.

Fairness (cover art): `Spec` has weak fairness on `HandleAlbumArt(u)` and
`HandleReadPicture(u)` for each URI. A client that is waiting for a chunk
gets an answer, because the server runs every command it reads. The
client's own requests (`Start`) and the idle timer have no fairness.
Every fetch ends, so the run does not check for deadlock.

| Variant | Breaks |
|---|---|
| An open stream reused whatever directory it was opened for | `TypeOK` |
| `FixIsoOrDffUri` without the separator kept after the container | `ArtFromRealDirectory` |
| No seek on the cached stream | `AssembledIsArt` |
| The chunk one byte short | `TransferCompletes` |

## Runs

| Run | Cfg | Expect | Shows |
|---|---|---|---|
| `sacd_pipeline` | `MCSacdIsoDecode.cfg` | pass | `NoBufferRace`, `FifoDelivery`, `Termination`, `DelayRefinement` (the engine implements `DelayLine`), plus `TypeOK` |
| `sacd_short_track` | `MCSacdShortTrack.cfg` | violation | `AllFramesDelivered` fails for a 1-frame DST track with 3 workers |
| `sacd_seek_stale` | `MCSacdSeekStale.cfg` | violation | `NoStaleFrameAfterSeek` fails |
| `dvda_session` | `MCDvdaSession.cfg` | pass | `BufferBound`, `MlpFrameAligned`, `SyncedTermination`, plus `TypeOK`, for PCM, MLP and undecodable tracks with seeks |
| `dvda_pcm_seek_hang` | `MCDvdaPcmSeekHang.cfg` | violation | `Termination` fails for a PCM track after a seek |
| `dvda_mlp_stale` | `MCDvdaMlpStale.cfg` | violation | `NoStaleFrame` fails for an MLP track |
| `dvda_tail_overflow` | `MCDvdaTailOverflow.cfg` | violation | `TailReadFits` fails |
| `sacd_plugin_names` | `MCSacdPlugin.cfg` | pass | `ListedNameRoundTrip`, `ListedNameScans`, plus `TypeOK` |
| `dvda_plugin_names` | `MCDvdaPlugin.cfg` | pass | `ListedNameRoundTrip`, `ListedNameScans`, `ListedNameTags`, `ParseFailureIsolated`, plus `TypeOK` |
| `dvda_plugin_oob` | `MCDvdaPluginOob.cfg` | violation | `SelectInTable` fails for `TRACK000` and for numbers past the table |
| `dvda_zone_catalog` | `MCDvdaZone.cfg` | pass | `BlockAddressing`, `GetBlocksInOrder`, `TrackRangesDisjoint`, plus `TypeOK` |
| `album_art` | `MCAlbumArt.cfg` | pass | `ArtFromRealDirectory`, `AssembledIsArt`, `TransferCompletes`, plus `TypeOK` (with the cache's coherence) |

What the passing properties say:

- **`NoBufferRace`:** the one-behind protocol never lets the decoder
  thread touch a slot that is being decoded.
- **`FifoDelivery`:** the frames submitted are a prefix of the frames
  read. So whatever order the workers finish in, nothing is reordered,
  duplicated or skipped ahead.
- **`Termination`:** `file_decode` always returns with every worker it
  started joined. This covers teardown after STOP with frames in flight,
  and engines whose `init()` failed.

- **`BufferBound`:** every refill and every skip stays between the read
  and the write pointer.
- **`MlpFrameAligned`:** an open MLP decoder's input always starts at a
  frame start, after seeks and failed decoder creations included.
- **`SyncedTermination` (DVD-A):** `file_decode` returns for MLP tracks and
  for tracks whose stream id has no decoder. The same statement for every
  kind, `Termination`, does *not* hold for PCM; see the findings.

- **`ListedNameRoundTrip` (both plugins):** every virtual file that
  `container_scan` listed decodes as the area and track (SACD), or the
  track and downmix (DVD-A), that it was listed and tagged for. This
  holds whatever the shared reader had selected before, and for every
  channel mode and parameter. It is the spec's round trip of the name.
- **`ListedNameScans` (both plugins):** `scan_file` accepts every name
  that `container_scan` listed under the same channel mode, and tags it
  as the same area and track (SACD), or track and downmix (DVD-A). The
  two functions implement the channel filter and the index arithmetic
  separately. For DVD-A it also takes the tags from the same source the
  stored tags came from (the same metabase entry, or the disc's own
  tags). It does not claim the tag text is equal: in mode `ALL`
  `container_scan` appends " (Multichannel)", " (Stereo)" or
  " (Downmix)" to the stored album (`DvdaIsoDecoderPlugin.cxx:286-296`,
  `318-328`) and `scan_file` does not, so a rescan reports another album.
  Tag text is abstracted, and that difference is listed as a hazard.
- **`ListedNameTags` (DVD-A):** the tags `container_scan` stores in the
  database for a listed name (through `scan_info`, for each track and
  downmix it lists) come from the metabase `<track>` of the
  `titleset.title.track` id of the very track it was listed for, and
  from the disc's own `get_info` only when the loaded document has no
  such entry. The id passes through two conversions: `scan_info`'s
  `track_index + 1` and `track_number_to_id`'s
  `get_track(track_number - 1)`; `scan_file` adds `get_subsong`'s
  decrement. The document is the one the constructor loads: the file
  beside the image when `tags_with_iso` is set (after copying the store
  file there if it was missing), else the store file.
- **`ParseFailureIsolated` (DVD-A):** a titleset whose descriptor fails
  to parse is skipped alone, as the spec asks of a malformed record.
  After `container_scan` in mode `ALL` over both areas with no short
  filter, the tracks listed as themselves are exactly the readable
  tracks of the audio titlesets that parsed. This holds with the failing
  titleset before or between the good ones. The failing one has already
  added titles when it fails, so only `pop_back` keeps them out.

- **`BlockAddressing`:** every sector of every present AOB that the image
  holds is read back by `get_block` under the block number the spec
  gives it. The extents, the placeholders and the round-up of partial
  blocks must all agree with that numbering.
- **`GetBlocksInOrder`:** after `get_blocks`, the buffer holds, in
  order, the blocks `first`, `first+1`, ... that were asked for. It
  holds as many as the returned count says, and the count never exceeds
  the request. This includes reads across the boundary of two AOBs and
  reads at a truncated end of the image.
- **`TrackRangesDisjoint`:** for the well-formed tables an authoring
  tool writes (sorted, disjoint sector records; track indexes rising
  from record 1), every track's range has `first <= last`, and no two
  tracks of a title overlap.

Bounds (SACD):

- **N = 3 workers.** This leaves two frames in flight, so a younger slot
  can finish before an older one.
- **Four frames.** This fills the pipeline, runs it in its steady state
  and drains it.
- **One seek.** Its target is any frame, and it may succeed or fail.
- **Both frame types.** DSD frames never create the engine.

The passing run reaches 341,531 distinct states in about 25 s and fires
every action.

Bounds (DVD-A):

- **Block of 4 units, 3 of payload, buffer of 12 units.** This gives a
  buffer of three blocks, so it can be full, partly full, or have room
  for a refill.
- **MLP frame of 2 units, PCM group of 2 units.** Neither divides the
  payload of a block, so seeks land inside frames and groups.
- **Tracks of 4 (PCM) and 5 (MLP, no decoder) blocks, and 2 tail blocks.**
  `TrackBlocks` gives the length per kind. The track does not
  fit the buffer in one read, and the last read reaches the tail.
- **Two seeks to any block.** `seek` computes the block from the time,
  and every block can be its result.

The passing run picks the kind in `Init`. It has 339 distinct states and
fires every action.

Fairness: `Spec` puts weak fairness on the decoder thread and on each
worker thread separately. These are OS threads that the scheduler keeps
running while they are runnable. Nothing stronger is assumed.

`CHECK_DEADLOCK FALSE`: `file_decode` returns, so the final state with
`pc = "done"` has no successor by design. `Termination` is the check that
the loop really ends.

Each passing property has a fault variant in `DstEngine`, named in
`PROJECT.json` `mutants`, and each variant breaks it:

| Variant | Breaks |
|---|---|
| `slot_index` without the wrap | `TypeOK` |
| `try_acquire` instead of waiting for the worker | `NoBufferRace` |
| Only `SLOT_READY` output returned | `FifoDelivery` |
| The destructor not waking the worker | `Termination` |
| `slot_index` not advanced before the collect | `DelayRefinement` |
| The tail read not clamped to `blocks_to_sync` | `TypeOK` (DVD-A) |
| A failed decoder creation skipping a whole block past the write pointer | `BufferBound` |
| PCM decode ignoring the buffered size | `BufferBound` |
| The MLP decoder started at the read pointer, not at the sync | `MlpFrameAligned` |
| A failed decoder creation not skipping anything | `SyncedTermination` |

`DvdaTrackSession` holds the DVD-A variants.

Bounds (plugins):

- **Two discs.** A call for one disc replaces the other's reader, so the
  stale-reader cases happen.
- **Numbers 0 to 3 with every letter.** These cover listed names, the
  wrapping `TRACK000`, and names past the table. The passing DVD-A run
  uses numbers 0 to 2 to stay within its time budget. Number 3 is past
  the table and never listed, and `TRACK000` already selects outside the
  table there. The `dvda_plugin_oob` run uses 0 to 3.
- **SACD discs with 2+1 and 0+2 tracks.** One disc has no stereo area.
- **DVD-A discs.** `d1`'s first titleset has a stereo PCM track and a
  multichannel MLP track that can downmix. Its second titleset fails to
  parse after one title was read, and its third is a video titleset.
  `d2`'s first titleset fails at once. Its second has one title with a
  short multichannel PCM track, and one with a track whose header cannot
  be read (left out of the list) and a stereo MLP track that can
  downmix. So `d2`'s tracks get titleset number 1 although they come from
  `ATS_02`. `d3` is an SACD image, whose `AUDIO_TS.IFO` the DVD-A reader
  does not find. All of `d3`'s names fail the same way, so the MC module
  gives it one name.
- **DVD-A tags.** Both `tags_path` and `tags_with_iso` are set, so both
  documents and the copy matter. `d1`'s store has an entry for its
  second track only, and nothing lies beside `d1`: the store is copied
  and one track falls back to the disc's tags. The file beside `d2` was
  edited: it names the track listed second, where the store names the
  first, and it also holds `d1`'s store. A lookup keyed by the wrong
  disc or the wrong track therefore finds a different entry.
- **Every channel mode, playable area and filter parameter.** These are
  initial states, as `init` reads them from the configuration.

The runs reach 11,402 (SACD) and 211,278 (DVD-A, about 2 minutes) distinct states. The zone and track tables are constants of the run, computed once (`TrackTable`, `OpenTable`, `ParsedTable`). The
plugins are called one at a time, so their specifications have no
fairness. The plugin fault variants are:

| Variant | Breaks |
|---|---|
| A signed decrement in `get_subsong` | `TypeOK` (both plugins) |
| The stereo count not added for `M` names (SACD) | `ListedNameRoundTrip` |
| The decrement left out (DVD-A) | `ListedNameRoundTrip` |
| `scan_file` in stereo mode rejecting downmixes (DVD-A) | `ListedNameScans` |
| `scan_file` not taking the stereo count off a multichannel index (SACD) | `ListedNameScans` |
| `track_number_to_id` using the track number as the index (DVD-A) | `ListedNameTags` |
| `dvda_zone_t::open` keeping a titleset that failed to open (DVD-A) | `ParseFailureIsolated` |

Bounds (zone):

- **Blocks of 2 bytes.** AOB files of 1 to 4 bytes take one or two
  blocks, and their last block is whole or partial.
- **Three AOB files, each present or missing.** A missing file takes a
  placeholder of 2 blocks.
- **The image complete or one sector short.**
- **Reads of 1 to 3 blocks from any block up to 7.** These cross every
  file boundary and run past the last block.
- **Three titles.** They have two or three tracks, and one or two
  records per track.

The run reaches 23,070 distinct states in about 20 s. It has no fairness:
nothing in it must eventually happen. The zone fault variants are:

| Variant | Breaks |
|---|---|
| The next extent starting at `block_last`, not `block_last + 1` | `BlockAddressing` |
| The second read of `get_blocks` written at the start of the buffer | `GetBlocksInOrder` |
| The second read sized from `block_first`, not the next extent's start | `TypeOK` |
| The next track's first record given to the track before it too | `TrackRangesDisjoint` |

DVD-A fairness: one thread runs all of `file_decode`, so `Spec` has
weak fairness on the whole next-state relation.

## Findings

1. **A short DST track plays nothing**
   (`SacdIsoDecoderPlugin.cxx:409`). The drain loop stops at the first
   empty result. With at most N-2 frames loaded, the slot after the last
   frame has never been used and is EMPTY, so those frames are destroyed
   with the engine. N is `hardware_concurrency()`, so on a 16-thread
   machine this is any DST track of at most 14 frames (under 0.2 s).
2. **Stale audio after a seek** (`SacdIsoDecoderPlugin.cxx:422`). A seek
   moves the reader but does not flush the engine. The N-1 frames in
   flight are played after `CommandFinished()`. A seek that arrives while
   the pipeline drains is ignored, because `frame_read` stays false.
3. **A PCM track can hang the decoder after a seek**
   (`dvda_disc.cpp:246`). A seek lands on a block boundary, which is in
   general not a sample-group boundary. At the end of the track fewer
   bytes than one group are then left. `decode` consumes nothing, and
   PCM `resync` always returns 0. So `read_frame` jumps back to its start
   forever, with nothing to read and nothing skipped.
4. **A stale full-size MLP frame** (`dvda_disc.cpp:374`). The tail
   over-read keeps its bytes only through `audio_stream->resync`.
   Sometimes the tail is read before the decoder exists: when the track
   fits the buffer, or on the first refill after a seek near the end.
   Then the frame that straddles `block_last` stays incomplete. The MLP
   parser consumes it without completing a packet, and `decode` leaves
   `*data_size` at the caller's 192000 (`mlp_audio_stream.cpp:425`).
   `file_decode` then submits 192000 bytes that the decoder never wrote.
5. **The tail read does not check the free space**
   (`dvda_disc.cpp:370`). It reads up to `blocks_to_read` raw blocks at
   the write pointer after the main read has moved that pointer, and
   does not check `get_write_size()`. Spec §4.2 says refills never
   overwrite unread bytes.

6. **An unchecked track number reaches `track_list`**
   (`DvdaIsoDecoderPlugin.cxx:365`, `:427`). `get_subsong` turns
   `TRACK000` into `UINT_MAX`, which becomes -1 in `sel_track_index`.
   Neither `file_decode` nor `scan_file` compares the index with
   `get_tracks()`. `select_track` and the getters then read
   `track_list[index]` unchecked (`audio_track.h:56`). This is undefined
   behaviour, where the spec says nothing in the core may abort the
   host.

Three more disagreements appear in the models. No run checks them.
`PROJECT.json` records them as hazards:

- `dst_engine_t::run` returns the output of a `SLOT_READY_WITH_ERROR`
  slot exactly like a `SLOT_READY` one (`dst_engine.h:164`). The caller
  cannot tell them apart, so it plays a frame the codec failed to
  decode. Spec §4.5 asks for a per-frame error flag. The models keep the
  status on every delivered frame (`st = "err"`), and TLC reaches such
  deliveries.

The other two arise only for names that `container_scan` never lists:

- SACD `file_decode` goes on to decode whatever the global reader
  selected last when the index is in neither area.
- DVD-A `file_decode` plays nothing when `set_downmix` refuses. The
  spec's `DownmixUnsupported` says it should fall back to undownmixed
  playback.
- `FixIsoOrDffUri` (`FileCommands.cxx:301`) calls
  `fixUri.erase(fixUri.find_last_of('/'))`. For a URI at the top of the
  music directory that ends in `.iso`, `.dff`, `.dar` or `.sid`, there
  is no `/`, `find_last_of` returns `npos`, and `erase(npos)` throws
  `std::out_of_range`. The model treats such a URI as a failed command
  (`FixFails`). No run checks it; it is listed as a hazard.

## Not modelled, and why

- **The MPP engine model and `flush()`.** No caller instantiates or calls
  them.
- **Media and file-system wrappers, and the SACD reader.** They are I/O.
  The SACD reader is not in the sources. The models abstract them to
  reads that succeed or fail.
- **`Registry.cxx`.** It is a static table.
- **`listfiles` and `readcomments` in `FileCommands.cxx`.** They list a
  directory or a file's tags in a single answer. There is no state
  across calls and no chunking to check.
- **`LastInputStream`'s locking.** It is not in the sources, and the
  handlers of one client run one at a time.
- **The metabase copy as a file-system operation.** `XmlDoc` takes the
  copy of the store file beside the image as complete. An unchecked
  `fwrite`, or a target opened when the store cannot be read, leaves a
  truncated file that is never copied again (a hazard in PROJECT.json).
  `get_albumart` and the `utf2xml`/`xml2utf` escaping are not modelled.
- **Dead code.** `ShouldIgnoreCueFile` (`CueValidator.cxx`) and
  `FilteredSongUpdate::ShouldIncludeSong`/`ProcessSongTags` have no
  caller. `audio_stream_t::downmix_channels` and `conv_sample` are
  unreachable from the plugins. PCM never sets `can_downmix`, and
  `set_downmix` refuses without it. MLP with `can_downmix` downmixes
  inside FFmpeg. `track_list_t::init` is only called with its defaults,
  so its metabase branch (`audio_track.cpp:92-96`) never runs.
  `mlppcm_table` is declared but not defined in the sources.
- **`DbMain.cxx`'s update checker.** It polls MPD's `UpdateService`,
  which is not in the sources. `UpdateContainerFile` only stores
  `container_scan`'s list, which `ListedNameScans` and `ListedNameTags`
  cover from the plugin side.
- **Everything listed under "Plan" below.** It is not yet modelled.

## Plan (in order of importance)

1. **Done:** `DstEngine`, `SacdIsoDecode` and `DelayLine`.
2. **Done:** `DvdaTrackSession` and `DvdaIsoDecode`.
3. **Done in part:** `DvdaZone` covers one titleset's extents,
   sector-pointer assignment and block reads. `DvdaPlugin` covers
   `dvda_zone_t::open`'s titleset loop. Still open: the IFO bounds
   checks as byte arithmetic (abstracted to whether a titleset parses),
   and `get_downmix_coef`.
4. **Done:** container naming, `SacdPlugin` and `DvdaPlugin`.
5. **Done in part:** `AlbumArt` covers `albumart` and `readpicture`.
6. Downmix coefficient decoding and the metabase's escaping round trip.
7. **Done in part:** the metabase's track-tag lookup in `DvdaPlugin`.
