---------------------------- MODULE MCSacdPlugin ----------------------------
(* Two discs: one with both areas, one multichannel-only; names numbered  *)
(* 0 to 3, so past either area's count and the wrapping number 0.         *)
EXTENDS SacdPlugin, TLC

CONSTANTS d1, d2

MCDiscs == {d1, d2}
MCTwoCh == (d1 :> 2 @@ d2 :> 0)
MCMulCh == (d1 :> 1 @@ d2 :> 2)
MCNums == 0 .. 3
MCUIntMax == 1000
=============================================================================
