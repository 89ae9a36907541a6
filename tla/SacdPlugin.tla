----------------------------- MODULE SacdPlugin -----------------------------
(***************************************************************************)
(* The SACD ISO decoder plugin's entry points as calls on its global      *)
(* state (src/src/decoder/plugins/SacdIsoDecoderPlugin.cxx):               *)
(* container_update() caches the open disc in sacd_path, container_scan() *)
(* lists one virtual file per track of each playable area, and            *)
(* file_decode() turns a virtual file name back into an area and a track *)
(* (get_subsong) and selects it on the shared reader, and scan_file()    *)
(* does the same for the tags the database stores (scan_info).           *)
(*                                                                         *)
(* A virtual name "%cC_AUDIO__TRACK%03u.%3s" is the record of its area    *)
(* letter and its number; the suffix is the container's and plays no part.*)
(* The reader (sacd_disc_t) is not part of the sources: it is modelled    *)
(* from the spec as a selected area and a selected track that a new      *)
(* reader does not have.                                                  *)
(***************************************************************************)
EXTENDS Integers

CONSTANTS
  Discs,      \* container files
  TwoCh,      \* TwoCh[d]: sacd_reader->get_tracks(AREA_TWOCH) for disc d
  MulCh,      \* MulCh[d]: sacd_reader->get_tracks(AREA_MULCH)
  Nums,       \* the track numbers a requested name may carry
  UIntMax     \* stands for UINT_MAX: above every track count

ASSUME
  /\ \A d \in Discs : TwoCh[d] \in Nat /\ MulCh[d] \in Nat
  /\ Nums \subseteq Nat
  /\ \A d \in Discs : UIntMax > TwoCh[d] + MulCh[d]

NoTrack == [area |-> "none", track |-> 0]

Modes == {"STEREO", "MULTICHANNEL", "ALL"}      \* GetChannelMode()
PlayableAreas == {"BOTH", "TWOCH", "MULCH"}     \* param_playable_area

AreaTracks == [area : {"none", "TWOCH", "MULCH"}, track : 0 .. UIntMax]

Names == [disc : Discs, letter : {"2", "M"}, num : Nums]

VARIABLES
  mode,       \* GetChannelMode(), fixed for the run
  playable,   \* param_playable_area, fixed for the run
  sacd_path,  \* the disc the reader has open, or "none"
  sel,        \* the reader's selected area and track
  listed,     \* listed[d]: name |-> the area track it was listed for
  op,         \* the last call on a name: "none", "decode" or "scan"
  request,    \* the name it was given
  decoded,    \* the area track that file_decode went on to decode
  scanned     \* the area track scan_info tagged, or NoTrack if it refused

vars == <<mode, playable, sacd_path, sel, listed, op, request, decoded, scanned>>

Init ==
  /\ mode \in Modes
  /\ playable \in PlayableAreas
  /\ sacd_path = "none"
  /\ sel = NoTrack
  /\ listed = [d \in Discs |-> <<>>]
  /\ op = "none"
  /\ request = CHOOSE n \in Names : TRUE
  /\ decoded = NoTrack
  /\ scanned = NoTrack

(* container_update(path): the cached reader if it is this disc's,      *)
(* otherwise a new reader on it with nothing selected.                   *)
ReaderSel(d) == IF sacd_path = d THEN sel ELSE NoTrack

(* get_subsong: sscanf, then "M" adds the stereo count, then the        *)
(* unsigned decrement (wrapping to UINT_MAX for number 0 of area "2").   *)
(* Fault variant: a signed decrement.                                   *)
DecrementSigned(v) == v - 1

Decrement(v) == IF v = 0 THEN UIntMax ELSE v - 1

GetSubsong(n) ==
  Decrement(IF n.letter = "M" THEN n.num + TwoCh[n.disc] ELSE n.num)

(* The name container_scan gives track t (from 0) of an area.            *)
NameOf(d, letter, t) == [disc |-> d, letter |-> letter, num |-> t + 1]

(* Which areas container_scan lists.                                     *)
ListsTwoCh(d) ==
  TwoCh[d] > 0 /\ playable # "MULCH" /\ mode # "MULTICHANNEL"
ListsMulCh(d) ==
  MulCh[d] > 0 /\ playable # "TWOCH" /\ mode # "STEREO"

(* container_scan(path): names for the stereo tracks, then for the      *)
(* multichannel ones, each with the area and track scan_info read; the *)
(* reader is left on the last area selected.                             *)
ContainerScan(d) ==
  LET two == IF ListsTwoCh(d) THEN {NameOf(d, "2", t) : t \in 0 .. TwoCh[d] - 1}
             ELSE {}
      mul == IF ListsMulCh(d) THEN {NameOf(d, "M", t) : t \in 0 .. MulCh[d] - 1}
             ELSE {}
      Meaning(n) == IF n.letter = "2" THEN [area |-> "TWOCH", track |-> n.num - 1]
                    ELSE [area |-> "MULCH", track |-> n.num - 1]
  IN
  /\ sacd_path' = d
  /\ listed' = [listed EXCEPT ![d] = [n \in two \cup mul |-> Meaning(n)]]
  /\ sel' = IF ListsMulCh(d) THEN [ReaderSel(d) EXCEPT !.area = "MULCH"]
            ELSE IF ListsTwoCh(d) THEN [ReaderSel(d) EXCEPT !.area = "TWOCH"]
            ELSE ReaderSel(d)
  /\ UNCHANGED <<mode, playable, op, request, decoded, scanned>>

(* Fault variant: the "M" offset by the stereo count left out.          *)
SelectionNoOffset(n) ==
  LET track == Decrement(n.num) IN
  IF track < TwoCh[n.disc] THEN [area |-> "TWOCH", track |-> track]
  ELSE IF track - TwoCh[n.disc] < MulCh[n.disc]
       THEN [area |-> "MULCH", track |-> track - TwoCh[n.disc]]
  ELSE ReaderSel(n.disc)

(* file_decode's selection: the stereo area for an index below its     *)
(* count, else the multichannel area for the rest; past both areas      *)
(* nothing is selected and the reader keeps its selection.              *)
Selection(n) ==
  LET track == GetSubsong(n) IN
  IF track < TwoCh[n.disc] THEN [area |-> "TWOCH", track |-> track]
  ELSE IF track - TwoCh[n.disc] < MulCh[n.disc]
       THEN [area |-> "MULCH", track |-> track - TwoCh[n.disc]]
  ELSE ReaderSel(n.disc)

(* file_decode(path) up to client.Ready: open, parse, select.           *)
FileDecode(n) ==
  /\ sacd_path' = n.disc
  /\ sel' = Selection(n)
  /\ op' = "decode"
  /\ request' = n
  /\ decoded' = Selection(n)
  /\ UNCHANGED <<mode, playable, listed, scanned>>

(* scan_file's choice: an index below the stereo count is a stereo      *)
(* track, refused in multichannel mode; otherwise the stereo count is   *)
(* taken off and the rest is a multichannel track, refused in stereo    *)
(* mode; past both areas it is refused.  The area and track scan_info   *)
(* tags, or NoTrack.                                                    *)
(* Fault variant: the stereo count not taken off.                      *)
ScanTrackNoOffset(n) ==
  LET track == GetSubsong(n) IN
  IF track < TwoCh[n.disc]
  THEN IF mode = "MULTICHANNEL" THEN NoTrack ELSE [area |-> "TWOCH", track |-> track]
  ELSE IF track - TwoCh[n.disc] < MulCh[n.disc]
  THEN IF mode = "STEREO" THEN NoTrack ELSE [area |-> "MULCH", track |-> track]
  ELSE NoTrack

ScanTrack(n) ==
  LET track == GetSubsong(n) IN
  IF track < TwoCh[n.disc]
  THEN IF mode = "MULTICHANNEL" THEN NoTrack ELSE [area |-> "TWOCH", track |-> track]
  ELSE IF track - TwoCh[n.disc] < MulCh[n.disc]
  THEN IF mode = "STEREO" THEN NoTrack
       ELSE [area |-> "MULCH", track |-> track - TwoCh[n.disc]]
  ELSE NoTrack

(* scan_file(path, handler): open the disc, choose, select the area and *)
(* tag the track (scan_info: TAG_TRACK track + 1, its duration).        *)
ScanFile(n) ==
  /\ sacd_path' = n.disc
  /\ sel' = IF ScanTrack(n) = NoTrack THEN ReaderSel(n.disc)
            ELSE [ReaderSel(n.disc) EXCEPT !.area = ScanTrack(n).area]
  /\ scanned' = ScanTrack(n)
  /\ op' = "scan"
  /\ request' = n
  /\ UNCHANGED <<mode, playable, listed, decoded>>

Next ==
  \/ \E d \in Discs : ContainerScan(d)
  \/ \E n \in Names : FileDecode(n)
  \/ \E n \in Names : ScanFile(n)

Spec == Init /\ [][Next]_vars

-----------------------------------------------------------------------------
TypeOK ==
  /\ mode \in Modes /\ playable \in PlayableAreas
  /\ sacd_path \in Discs \cup {"none"}
  /\ sel \in AreaTracks /\ decoded \in AreaTracks
  /\ scanned \in AreaTracks
  /\ op \in {"none", "decode", "scan"} /\ request \in Names

(* Every virtual file container_scan listed is decoded as the area     *)
(* track it was listed (and tagged) for, whatever the reader decoded   *)
(* before: the spec's round trip of the virtual file name.              *)
ListedNameRoundTrip ==
  op = "decode" /\ request \in DOMAIN listed[request.disc]
    => decoded = listed[request.disc][request]

(* scan_file tags every virtual file container_scan listed with the     *)
(* area and track it was listed for, under the same channel mode: the   *)
(* database never drops a listed song nor stores another track's tags. *)
ListedNameScans ==
  op = "scan" /\ request \in DOMAIN listed[request.disc]
    => scanned = listed[request.disc][request]

=============================================================================
