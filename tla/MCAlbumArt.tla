----------------------------- MODULE MCAlbumArt -----------------------------
(***************************************************************************)
(* AlbumArt on a small music directory: an album "al" holding a plain   *)
(* song, a DSDIFF file, an ISO container with a virtual track and a CUE *)
(* sheet, and a subdirectory "al/sub" with a song and another ISO.      *)
(* "al" has a JPEG and a WebP cover (the JPEG comes first), "al/sub" a  *)
(* PNG one.  binary_limit 4 lets a chunk be short enough for the second *)
(* Read.                                                                 *)
(***************************************************************************)
EXTENDS AlbumArt

MCSegExt ==
  [s \in {"", "al", "sub", "s.flac", "s.dff", "d.iso", "t1.iso", "c.cue", "t1"} |->
     CASE s \in {"s.dff"} -> ".dff"
       [] s \in {"d.iso", "t1.iso"} -> ".iso"
       [] s = "s.flac" -> ".flac"
       [] s = "c.cue" -> ".cue"
       [] OTHER -> ""]

MCMusicRoot == <<"/music">>
Al == <<"/music", "al">>
Sub == <<"/music", "al", "sub">>

UFlac == <<"al", "s.flac">>
UDff == <<"al", "s.dff">>
UIsoTrack == <<"al", "d.iso", "t1.iso">>
UIso == <<"al", "d.iso">>
UIsoDir == <<"al", "d.iso", "">>
UCue == <<"al", "c.cue", "t1">>
USub == <<"al", "sub", "s.flac">>
USubIsoTrack == <<"al", "sub", "d.iso", "t1.iso">>

MCUris == {UFlac, UDff, UIsoTrack, UIso, UIsoDir, UCue, USub, USubIsoTrack}
MCDbSongs == {UFlac, UDff, UIsoTrack, UCue, USub, USubIsoTrack}
MCRealUp == [u \in MCDbSongs |-> IF u = UCue THEN 1 ELSE 0]
MCRealDir == [u \in MCUris |-> IF u \in {USub, USubIsoTrack} THEN Sub ELSE Al]

MCCoverFiles == {<<Al, "cover.jpg">>, <<Al, "cover.webp">>, <<Sub, "cover.png">>}
MCCoverSize ==
  [f \in MCCoverFiles |-> CASE f = <<Al, "cover.jpg">> -> 4
                            [] f = <<Al, "cover.webp">> -> 2
                            [] OTHER -> 3]

MCXferUris == {UFlac, UIsoTrack, USub}
MCExpectedCover ==
  [u \in MCXferUris |-> IF u = USub THEN <<Sub, "cover.png">> ELSE <<Al, "cover.jpg">>]

MCPictures == [u \in MCXferUris |-> CASE u = UFlac -> <<"front", "back">>
                                      [] u = USub -> <<"empty">>
                                      [] OTHER -> <<>>]
MCPictureSize == [p \in {"front", "back", "empty"} |->
                    CASE p = "front" -> 5 [] p = "back" -> 2 [] OTHER -> 0]

=============================================================================
