---------------------------- MODULE MCDvdaZone ----------------------------
(***************************************************************************)
(* DvdaZone for TLC: blocks of 2 bytes, three AOB files of 1 to 4 bytes  *)
(* (one or two blocks, the last one partial or whole) or missing, a      *)
(* placeholder of 2 blocks, and titles whose sector-pointer tables are   *)
(* sorted, disjoint and indexed from record 1 as the IFO writer makes    *)
(* them.                                                                 *)
(***************************************************************************)
EXTENDS DvdaZone

R(f, l) == [first |-> f, last |-> l]

MCLayouts ==
  { [idx |-> <<1, 2>>, recs |-> <<R(0, 1), R(2, 4)>>],
    [idx |-> <<1, 3>>, recs |-> <<R(0, 1), R(2, 2), R(3, 5)>>],
    [idx |-> <<1, 2, 3>>, recs |-> <<R(0, 0), R(1, 2), R(3, 3)>>] }
=============================================================================
