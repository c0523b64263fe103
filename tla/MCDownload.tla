----------------------------- MODULE MCDownload -----------------------------
(***************************************************************************)
(* An instance of Download for TLC: lengths on both sides of 2, up to      *)
(* which no space is reserved, and of the sizes of the bar, which are 0, 2 *)
(* and 3 on these screens.                                                 *)
(***************************************************************************)
EXTENDS Download

MCLengths == {0, 2, 3, 5}
MCWidths == {36, 38, 39}
=============================================================================
