--------------------------- MODULE MCSoundReplay ---------------------------
(* Instances of SoundReplay for TLC: a pool of two blocks. Where order and *)
(* loss are checked a block holds two frames of two words and AUBUF two    *)
(* frames; where the runs are about progress or about two sessions a frame *)
(* and AUBUF are one word.                                                 *)
EXTENDS SoundReplay
CONSTANTS b1, b2
MCBlock == {b1, b2}
============================================================================
