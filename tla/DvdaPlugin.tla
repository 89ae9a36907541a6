----------------------------- MODULE DvdaPlugin -----------------------------
(***************************************************************************)
(* The DVD-Audio ISO decoder plugin's entry points as calls on its global *)
(* state (src/src/decoder/plugins/DvdaIsoDecoderPlugin.cxx):               *)
(* container_update() caches the open disc in dvda_path, container_scan() *)
(* lists one virtual file per track and one more per downmix, scan_file() *)
(* reads the tags of one virtual file and file_decode() turns a name back *)
(* into a track index and a downmix flag, selects the track on the shared *)
(* reader (dvda_disc_t) and sets its downmix.                              *)
(*                                                                         *)
(* A virtual name "AUDIO_TS__TRACK%03u%c.%3s" is the record of its number *)
(* and its letter (S, M or D); the suffix plays no part.  A disc is the   *)
(* sequence of its tracks in titleset, title, track order, each with the *)
(* stream its first blocks carry (PCM, MLP or neither), its channel      *)
(* count, its MLP substream count and whether it is shorter than         *)
(* SHORT_TRACK_SEC; the reader's track_list is built from it.            *)
(***************************************************************************)
EXTENDS Integers, SequencesExt

CONSTANTS
  Discs,      \* container files
  Catalog,    \* Catalog[d]: the zone of disc d, as its IFO files describe it
  Nums,       \* the numbers a requested name may carry (%03u)
  UIntMax,    \* stands for UINT_MAX: above every track count
  TrackIds,   \* the <<titleset, title, track>> ids a track may have
  TagsPath,   \* param_tags_path is set
  TagsWithIso,\* param_tags_with_iso
  NoDoc,      \* no file, or none that ixmlLoadDocument loads
  StoreDoc,   \* StoreDoc[d]: <tags_path>/<md5 of d>.xml, or NoDoc
  IsoDoc,     \* IsoDoc[d]: the .xml beside the image of d, or NoDoc
  IfoReadable \* the discs whose AUDIO_TS.IFO get_md5 reads in full

(* A metabase document: its <store> elements, keyed by their id (the    *)
(* disc's md5), each with the ids of its <track> elements.              *)
Docs == UNION {[S -> SUBSET TrackIds] : S \in SUBSET Discs}

DiscTracks == [stream : {"pcm", "mlp", "none"}, channels : 1 .. 6,
               substreams : 1 .. 3, short : BOOLEAN]

(* ATS_nn_0.IFO (or .BUP): whether dvda_titleset_t::open finds it and   *)
(* parses it (magic, size, every record inside the buffer), whether     *)
(* atsm_vobs = 0 (an audio titleset), and its titles' tracks; for a file *)
(* that fails, the titles parsed before the failing record.             *)
Titlesets == [opens : BOOLEAN, audio : BOOLEAN, titles : Seq(Seq(DiscTracks))]

(* AUDIO_TS.IFO (or .BUP) with the DVDAUDIO-AMG magic, and ATS_01 ..     *)
(* ATS_nn for nn up to amg_nr_of_audio_title_sets.                       *)
Zones == [amg : BOOLEAN, ats : Seq(Titlesets)]

(* What the plugin asks of a track_list entry: get_channels() > 2,      *)
(* can_downmix, the duration test, and the dvda_titleset, dvda_title    *)
(* and dvda_track the metabase keys its tags by.                        *)
TrackInfo == [multi : BOOLEAN, dmx : BOOLEAN, short : BOOLEAN, id : TrackIds]

(* The tags of dvda_reader->get_info, apart from every metabase id.      *)
DiscTags == << >>

ASSUME
  /\ \A d \in Discs : Catalog[d] \in Zones /\ Len(Catalog[d].ats) <= 99
  /\ Nums \subseteq 0 .. 999
  /\ UIntMax > 999
  /\ TagsPath \in BOOLEAN /\ TagsWithIso \in BOOLEAN
  /\ \A d \in Discs : StoreDoc[d] \in Docs \cup {NoDoc}
                    /\ IsoDoc[d] \in Docs \cup {NoDoc}
  /\ IfoReadable \subseteq Discs

Modes == {"STEREO", "MULTICHANNEL", "ALL"}    \* GetChannelMode()
Areas == {"BOTH", "TWOCH", "MULCH"}           \* param_playable_area

Names == [disc : Discs, num : Nums, letter : {"S", "M", "D"}]

(* get_audio_stream_info: a track is listed only when its first blocks  *)
(* hold a PCM or an MLP stream header.                                   *)
StreamRead(t) == t.stream \in {"pcm", "mlp"}

(* audio_stream_info.can_downmix: num_substreams > 1 for MLP, never for *)
(* PCM.                                                                 *)
CanDownmix(t) == t.stream = "mlp" /\ t.substreams > 1

(* dvda_zone_t::open: ATS 1 .. min(99, amg_nr_of_audio_title_sets) in  *)
(* turn, each one dvda_titleset_t::open fails on dropped (pop_back); the  *)
(* others keep their order: the ATS file numbers of get_titlesets().    *)
(* Fault variant: a failed titleset kept with the titles it had parsed.  *)
ZoneTitlesetsNoPop(d) == [i \in 1 .. Len(Catalog[d].ats) |-> i]

ZoneTitlesets(d) ==
  SelectSeq([i \in 1 .. Len(Catalog[d].ats) |-> i],
            LAMBDA i : Catalog[d].ats[i].opens)

(* The dvda_disc_t getters on a track_list entry, and the dvda_titleset, *)
(* dvda_title and dvda_track it records.  origin, the ATS file number,  *)
(* title and track the entry was read from, is the model's own record.  *)
Info(e) == [multi |-> e.trk.channels > 2, dmx |-> CanDownmix(e.trk),
            short |-> e.trk.short, id |-> e.id, origin |-> e.origin]

(* track_list_t::init(zone) with its defaults (no downmix entries, no   *)
(* duration threshold): for titleset ts, title ti and track tr of the   *)
(* zone's lists in turn, skipping titlesets that are not audio, every   *)
(* track whose stream info can be read, numbered ts+1, ti+1, tr+1: its  *)
(* place in the lists, which is its ATS file number only when no       *)
(* earlier titleset was dropped.                                         *)
Tracks(d) ==
  LET zs == ZoneTitlesets(d)
      ats(ts) == Catalog[d].ats[zs[ts]]
      Title(ts, ti) ==
        [tr \in 1 .. Len(ats(ts).titles[ti]) |->
           [trk |-> ats(ts).titles[ti][tr], id |-> <<ts, ti, tr>>,
            origin |-> <<zs[ts], ti, tr>>]]
      Set(ts) ==
        IF ats(ts).audio
        THEN FlattenSeq([ti \in 1 .. Len(ats(ts).titles) |-> Title(ts, ti)])
        ELSE << >>
      read == SelectSeq(FlattenSeq([ts \in 1 .. Len(zs) |-> Set(ts)]),
                        LAMBDA e : StreamRead(e.trk))
  IN [k \in 1 .. Len(read) |-> Info(read[k])]

TrackTable == [d \in Discs |-> Tracks(d)]

(* What file_decode went on to play: a track index and the downmix flag. *)
Plays == [track : 0 .. UIntMax, downmix : BOOLEAN]
NotDecoded == [track |-> -1, downmix |-> FALSE]

(* What scan_file tagged: the track, whether the tags name the downmix, *)
(* and where the tags came from: the metabase's <track> element of that *)
(* id, or dvda_reader->get_info (DiscTags).                             *)
Scans == [track : 0 .. UIntMax, downmix : BOOLEAN, tags : TrackIds \cup {DiscTags}]
NotScanned == [track |-> -1, downmix |-> FALSE, tags |-> DiscTags]

VARIABLES
  mode, playable, no_downmixes, no_short,  \* the plugin's parameters
  dvda_path,  \* the disc the reader has open, or "none"
  sel,        \* dvda_disc_t::sel_track_index (an int)
  downmix,    \* dvda_disc_t::stream_downmix
  listed,     \* listed[d]: name |-> the track, downmix and tag source it was listed with
  op,         \* the last call: "none", "decode" or "scan"
  request,    \* the name it was given
  decoded,    \* what file_decode went on to play, or NotDecoded
  scanned,    \* what scan_info tagged, or NotScanned
  oob         \* history: select_track was given an index outside track_list

params == <<mode, playable, no_downmixes, no_short>>
vars == <<params, dvda_path, sel, downmix, listed, op, request, decoded,
          scanned, oob>>

Init ==
  /\ mode \in Modes /\ playable \in Areas
  /\ no_downmixes \in BOOLEAN /\ no_short \in BOOLEAN
  /\ dvda_path = "none"
  /\ sel = -1
  /\ downmix = FALSE
  /\ listed = [d \in Discs |-> <<>>]
  /\ op = "none"
  /\ request = CHOOSE n \in Names : TRUE
  /\ decoded = NotDecoded
  /\ scanned = NotScanned
  /\ oob = FALSE

(* dvda_disc_t::open: mount, then dvda_zone_t::open (AUDIO_TS.IFO), and *)
(* it fails with no titleset left or an empty track list.               *)
ZoneOpens(d) ==
  /\ Catalog[d].amg
  /\ Len(ZoneTitlesets(d)) > 0
  /\ Len(TrackTable[d]) > 0

OpenTable == [d \in Discs |-> ZoneOpens(d)]

DiscOpens(d) == OpenTable[d]

(* container_update(path): true for the disc already open, else a new   *)
(* dvda_disc_t (no downmix, no track selected) that must open the disc. *)
Updates(d) == dvda_path = d \/ DiscOpens(d)

ReaderDownmix(d) == IF dvda_path = d THEN downmix ELSE FALSE

(* container_update failing: the old reader closed, the new one left     *)
(* unopened and dvda_path null.                                         *)
NoReader(d) ==
  /\ ~Updates(d)
  /\ dvda_path' = "none" /\ sel' = -1 /\ downmix' = FALSE

(* get_subsong: sscanf, then the unsigned decrement (0 wraps).          *)
(* Fault variants: the decrement left out; a signed decrement.         *)
SubsongIndexNoDecrement(n) == n.num
SubsongIndexSigned(n) == n.num - 1

SubsongIndex(n) == IF n.num = 0 THEN UIntMax ELSE n.num - 1

(* select_track stores the uint32_t index in the int sel_track_index:   *)
(* UINT_MAX becomes -1.                                                 *)
AsInt(i) == IF i = UIntMax THEN -1 ELSE i

InTable(d, i) == i \in 0 .. Len(TrackTable[d]) - 1

(* track_list.get_track_by_index(i): track_list[i], unchecked; outside *)
(* the table the read is undefined and may yield any record.            *)
TrackAt(d, i) ==
  IF InTable(d, i) THEN {TrackTable[d][i + 1]} ELSE TrackInfo

(* container_scan's filter: whether track t is listed as itself and as  *)
(* a downmix.                                                           *)
ListsTrack(t) ==
  \/ mode = "STEREO" /\ ~t.multi
  \/ mode = "MULTICHANNEL" /\ t.multi
  \/ mode = "ALL" /\ playable = "MULCH" /\ t.multi
  \/ mode = "ALL" /\ playable = "TWOCH" /\ ~t.multi
  \/ mode = "ALL" /\ playable = "BOTH"
ListsDownmix(t) ==
  /\ ~no_downmixes /\ t.dmx
  /\ \/ mode = "STEREO" /\ t.multi
     \/ mode = "ALL" /\ playable # "MULCH"

Listable(t) == ~(no_short /\ t.short)

(* dvda_disc_t::set_downmix: refused for a track that cannot downmix.   *)
SetDownmixOk(t, dm) == ~dm \/ t.dmx

(* file_decode(path) up to client.Ready: open, parse, select, set the   *)
(* downmix; a refused downmix returns without playing.                   *)
FileDecode(n) ==
  LET i == SubsongIndex(n)
      dm == n.letter = "D"
  IN
  /\ Updates(n.disc)
  /\ dvda_path' = n.disc
  /\ sel' = AsInt(i)
  /\ oob' = (oob \/ ~InTable(n.disc, i))
  /\ \E ok \in {SetDownmixOk(t, dm) : t \in TrackAt(n.disc, i)} :
       IF ok
       THEN /\ downmix' = dm
            /\ decoded' = [track |-> i, downmix |-> dm]
       ELSE /\ downmix' = ReaderDownmix(n.disc)
            /\ decoded' = NotDecoded
  /\ op' = "decode"
  /\ request' = n
  /\ UNCHANGED <<params, listed, scanned>>

(* file_decode and scan_file return at once when container_update fails.*)
FileDecodeFails(n) ==
  /\ NoReader(n.disc)
  /\ op' = "decode" /\ request' = n /\ decoded' = NotDecoded
  /\ UNCHANGED <<params, listed, scanned, oob>>

ScanFileFails(n) ==
  /\ NoReader(n.disc)
  /\ op' = "scan" /\ request' = n /\ scanned' = NotScanned
  /\ UNCHANGED <<params, listed, decoded, oob>>

(* scan_file's filter on the selected track's channel count.             *)
(* Fault variant: stereo mode rejects every multichannel track.         *)
ScanAcceptsNoDownmix(t, dm) ==
  \/ mode = "STEREO" /\ ~t.multi
  \/ mode = "MULTICHANNEL" /\ t.multi /\ ~dm
  \/ mode = "ALL"

ScanAccepts(t, dm) ==
  \/ mode = "STEREO" /\ ~(t.multi /\ ~dm)
  \/ mode = "MULTICHANNEL" /\ t.multi /\ ~dm
  \/ mode = "ALL"

(* dvda_disc_t::get_info: nothing for an index outside the table, else *)
(* the comment "DVDA_DMX_..." for a downmix, "DVDA_<n>CH_..." otherwise. *)
CommentDownmix(d, i, dm) == InTable(d, i) /\ dm

(* container_update makes a dvda_metabase_t only with a tags path or    *)
(* with tags beside the image.                                          *)
MetabaseOn == TagsPath \/ TagsWithIso

(* The document the dvda_metabase_t constructor loads.  An empty md5    *)
(* (AUDIO_TS.IFO not read in full) returns before loading.  The store   *)
(* file <tags_path>/<md5>.xml is copied beside the image when that file *)
(* is missing, so the file beside the image, if tags_with_iso, else the *)
(* store file, is what ixmlLoadDocument gets; NoDoc is a failed load. *)
XmlDoc(d) ==
  CASE d \notin IfoReadable -> NoDoc
    [] ~TagsWithIso -> StoreDoc[d]
    [] IsoDoc[d] # NoDoc -> IsoDoc[d]
    [] TagsPath -> StoreDoc[d]
    [] OTHER -> NoDoc

(* get_node(MB_TAG_TRACK, id): the first <store> whose id is the disc's *)
(* md5, then its first <track> of that id.                              *)
GetNode(doc, d, id) == d \in DOMAIN doc /\ id \in doc[d]

(* get_track_info: FALSE when the metabase is not initialized, when     *)
(* get_node finds no <track> or when it has no children (the model's    *)
(* documents list only <track> elements with <meta> children); TRUE     *)
(* once it has passed its <meta> tags to the handler.                   *)
GetTrackInfo(d, id) ==
  /\ MetabaseOn
  /\ XmlDoc(d) # NoDoc
  /\ GetNode(XmlDoc(d), d, id)

(* track_number_to_id(track_number): the titleset, title and track of   *)
(* disc->get_track(track_number - 1), unchecked like every track_list   *)
(* read.                                                                 *)
(* Fault variant: the track number used as the index.                   *)
TrackNumberToIdUnshifted(d, n) == {t.id : t \in TrackAt(d, n)}

TrackNumberToId(d, n) == {t.id : t \in TrackAt(d, n - 1)}

(* scan_info(track_index, downmix): TAG_TRACK track_index + 1, then the *)
(* metabase's tags for track number track_index + 1 (a downmix's title  *)
(* gets " (stereo downmix)"), or, when it has none, the get_info tags:  *)
(* the comment "DVDA_DMX_..." for a downmix inside the table.           *)
ScanInfo(d, i, dm) ==
  {IF GetTrackInfo(d, id)
   THEN [track |-> i, downmix |-> dm, tags |-> id]
   ELSE [track |-> i, downmix |-> CommentDownmix(d, i, dm), tags |-> DiscTags] :
     id \in TrackNumberToId(d, i + 1)}

(* container_scan(path): select every track in turn, skip short ones,   *)
(* name each track "S" or "M" and each downmix "D" (number track + 1),  *)
(* and tag each name by scan_info(track, downmix), which inside the     *)
(* table has one outcome: the source of the tags the database stores.   *)
(* In mode ALL it also appends " (Multichannel)", " (Stereo)" or        *)
(* " (Downmix)" to the album; tag text is not modelled, so that suffix, *)
(* which scan_file never adds, is not part of the record.               *)
ContainerScan(d) ==
  LET cat == TrackTable[d]
      Idx == 0 .. Len(cat) - 1
      own == {[disc |-> d, num |-> i + 1,
               letter |-> IF cat[i + 1].multi THEN "M" ELSE "S"] :
                 i \in {j \in Idx : Listable(cat[j + 1]) /\ ListsTrack(cat[j + 1])}}
      dmx == {[disc |-> d, num |-> i + 1, letter |-> "D"] :
                 i \in {j \in Idx : Listable(cat[j + 1]) /\ ListsDownmix(cat[j + 1])}}
  IN
  /\ Updates(d)
  /\ dvda_path' = d
  /\ sel' = Len(cat) - 1
  /\ downmix' = ReaderDownmix(d)
  /\ listed' = [listed EXCEPT ![d] =
                  [n \in own \cup dmx |->
                     CHOOSE r \in ScanInfo(d, n.num - 1, n.letter = "D") : TRUE]]
  /\ UNCHANGED <<params, op, request, decoded, scanned, oob>>

(* container_scan on a disc that does not open: an empty list.          *)
ContainerScanFails(d) ==
  /\ NoReader(d)
  /\ listed' = [listed EXCEPT ![d] = << >>]
  /\ UNCHANGED <<params, op, request, decoded, scanned, oob>>

(* scan_file(path, handler): open, parse, select, filter, scan_info.     *)
ScanFile(n) ==
  LET i == SubsongIndex(n)
      dm == n.letter = "D"
  IN
  /\ Updates(n.disc)
  /\ dvda_path' = n.disc
  /\ sel' = AsInt(i)
  /\ oob' = (oob \/ ~InTable(n.disc, i))
  /\ \E accepts \in {ScanAccepts(t, dm) : t \in TrackAt(n.disc, i)} :
       scanned' \in IF accepts THEN ScanInfo(n.disc, i, dm) ELSE {NotScanned}
  /\ downmix' = ReaderDownmix(n.disc)
  /\ op' = "scan"
  /\ request' = n
  /\ UNCHANGED <<params, listed, decoded>>

Next ==
  \/ \E d \in Discs : ContainerScan(d) \/ ContainerScanFails(d)
  \/ \E n \in Names : FileDecode(n) \/ FileDecodeFails(n)
  \/ \E n \in Names : ScanFile(n) \/ ScanFileFails(n)

Spec == Init /\ [][Next]_vars

-----------------------------------------------------------------------------
(* The tracks the zone's IFO files describe in the audio titlesets whose *)
(* descriptors parse, as <<ATS file number, title, track>>, whose first  *)
(* blocks hold a stream header.                                          *)
ParsedTracks(d) ==
  LET ats == Catalog[d].ats IN
  LET InTitle(i, ti) ==
        {<<i, ti, tr>> : tr \in {r \in DOMAIN ats[i].titles[ti] :
                                   StreamRead(ats[i].titles[ti][r])}}
      InSet(i) == UNION {InTitle(i, ti) : ti \in DOMAIN ats[i].titles}
  IN UNION {InSet(i) : i \in {j \in DOMAIN ats : ats[j].opens /\ ats[j].audio}}

ParsedTable == [d \in Discs |-> ParsedTracks(d)]

TypeOK ==
  /\ mode \in Modes /\ playable \in Areas
  /\ no_downmixes \in BOOLEAN /\ no_short \in BOOLEAN
  /\ dvda_path \in Discs \cup {"none"}
  /\ sel \in -1 .. 998 /\ downmix \in BOOLEAN
  /\ op \in {"none", "decode", "scan"} /\ request \in Names
  /\ decoded \in Plays \cup {NotDecoded}
  /\ scanned \in Scans \cup {NotScanned} /\ oob \in BOOLEAN

(* Every virtual file container_scan listed is decoded as the track and *)
(* with the downmix it was listed (and tagged) for, whichever disc and  *)
(* track the shared reader had before: the spec's round trip of the     *)
(* (track, downmix) tuple through the virtual file name.                *)
ListedNameRoundTrip ==
  op = "decode" /\ request \in DOMAIN listed[request.disc]
    => decoded = [track |-> listed[request.disc][request].track,
                  downmix |-> listed[request.disc][request].downmix]

(* scan_file accepts every virtual file container_scan listed under the *)
(* same channel mode and tags it as the same track and downmix, from    *)
(* the same source (metabase entry or disc tags) the stored tags came   *)
(* from.  It does not claim equal tag text: the ALL-mode album suffix   *)
(* container_scan adds is abstracted away.                              *)
ListedNameScans ==
  op = "scan" /\ request \in DOMAIN listed[request.disc]
    => scanned = listed[request.disc][request]

(* The tags container_scan stores in the database for each virtual file *)
(* are the metabase entry of the titleset, title and track its name     *)
(* numbers, through scan_info's track number and track_number_to_id's   *)
(* index, and the disc's own tags only when the loaded metabase has no  *)
(* entry for it.                                                         *)
ListedNameTags ==
  \A d \in Discs : \A n \in DOMAIN listed[d] :
    LET t == TrackTable[d][n.num] IN
    listed[d][n].tags = IF GetTrackInfo(d, t.id) THEN t.id ELSE DiscTags

(* select_track is only ever given an index of the track table: the    *)
(* spec's "nothing in this core should ever abort the host process".    *)
SelectInTable == ~oob


(* A titleset whose ATS_nn_0.IFO fails to parse is skipped alone, as the *)
(* spec asks of a malformed record: once container_scan has listed a    *)
(* disc in mode ALL over both areas with no short-track filter, the     *)
(* tracks it named as themselves are exactly the readable tracks of the *)
(* audio titlesets that parsed, before and after the failing one.       *)
ParseFailureIsolated ==
  \A d \in Discs :
    mode = "ALL" /\ playable = "BOTH" /\ ~no_short /\ DOMAIN listed[d] # {}
      => {TrackTable[d][listed[d][n].track + 1].origin :
            n \in {m \in DOMAIN listed[d] : m.letter # "D"}}
           = ParsedTable[d]

=============================================================================
