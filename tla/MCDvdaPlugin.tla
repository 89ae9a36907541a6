---------------------------- MODULE MCDvdaPlugin ----------------------------
(* Three images.  d1: ATS_01 with a stereo PCM track and a             *)
(* multichannel MLP track with two substreams (can downmix); ATS_02,     *)
(* whose descriptor fails to parse after a title with a stereo PCM track *)
(* was read; ATS_03, a video titleset.  d2: ATS_01 fails at once; ATS_02 *)
(* has a title with a short multichannel PCM track and a title with a    *)
(* track whose first blocks hold no audio header (left out of the track *)
(* list) and a stereo MLP track with two substreams.  d3: an SACD image, *)
(* whose AUDIO_TS.IFO the DVD-A reader does not find.                    *)
(* Tags are kept both in a tags directory and beside the images.  d1's  *)
(* store file has an entry for its second track only and nothing lies  *)
(* beside d1, so the store is copied there; the file beside d2 was     *)
(* edited: it names its last track, where the store names the first,   *)
(* and carries d1's store too.  d2's ids count ATS_02 as titleset 1.    *)
EXTENDS DvdaPlugin, TLC

CONSTANTS d1, d2, d3

MCDiscs == {d1, d2, d3}
T(st, ch, sub, sh) == [stream |-> st, channels |-> ch, substreams |-> sub, short |-> sh]
ATS(ok, audio, titles) == [opens |-> ok, audio |-> audio, titles |-> titles]
MCTrackIds == {<<1, 1, 1>>, <<1, 1, 2>>, <<1, 2, 2>>}
MCCatalog ==
  (d1 :> [amg |-> TRUE,
          ats |-> << ATS(TRUE, TRUE, << << T("pcm", 2, 1, FALSE), T("mlp", 6, 2, FALSE) >> >>),
                     ATS(FALSE, TRUE, << << T("pcm", 2, 1, FALSE) >> >>),
                     ATS(TRUE, FALSE, << << T("pcm", 2, 1, FALSE) >> >>) >>]) @@
  (d2 :> [amg |-> TRUE,
          ats |-> << ATS(FALSE, TRUE, << >>),
                     ATS(TRUE, TRUE, << << T("pcm", 6, 1, TRUE) >>,
                                        << T("none", 2, 1, FALSE), T("mlp", 2, 2, FALSE) >> >>) >>]) @@
  (d3 :> [amg |-> FALSE, ats |-> << >>])
MCStoreDoc ==
  (d1 :> (d1 :> {<<1, 1, 2>>})) @@ (d2 :> (d2 :> {<<1, 1, 1>>})) @@ (d3 :> NoDoc)
MCIsoDoc ==
  (d1 :> NoDoc) @@ (d2 :> ((d1 :> {<<1, 1, 2>>}) @@ (d2 :> {<<1, 2, 2>>}))) @@
  (d3 :> NoDoc)
(* d3 is not a DVD-Audio image: get_md5 never runs on it.               *)
MCIfoReadable == {d1, d2}
(* Names up to past the tables, for the unchecked index; for the        *)
(* round trip, names up to the last track (TRACK000 already selects     *)
(* outside the table).                                                  *)
MCNums == 0 .. 3
MCNumsListed == 0 .. 2
(* Every name of d3 fails the same way in container_update: one will do. *)
MCNames == [disc : {d1, d2}, num : Nums, letter : {"S", "M", "D"}]
             \cup {[disc |-> d3, num |-> 1, letter |-> "S"]}
MCUIntMax == 1000
=============================================================================
