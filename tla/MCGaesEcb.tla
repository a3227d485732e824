----------------------------- MODULE MCGaesEcb -----------------------------
(* GaesEcb with a page of 4 bytes: 8 bytes are not split, 16 are split in  *)
(* two, the others in four parts: of whole pages (32), of whole pages and  *)
(* a remainder (34), of half pages (24) and of odd bytes (20).             *)
EXTENDS GaesEcb

AllLengths == {8, 16, 20, 24, 32, 34}
=============================================================================
