--------------------------- MODULE MCModelDownload ---------------------------
(* Instances of ModelDownload for TLC: byte ranges of one or two blocks,   *)
(* so that a file can end inside a range and a hole can open before a      *)
(* block.                                                                  *)
EXTENDS ModelDownload, TLC

RangeOnly == {"range"}
AnyServer == {"range", "whole"}
SizelessServer == {"sizeless", "whole"}
NoFaults  == {}
AllFaults == {"http", "io", "short", "flush", "rename"}
Replacing == {"download"}
AllEvents == Replacing \cup {"pause", "cancel", "delete", "interrupt", "death"}
Symmetry  == Permutations(Workers)
=============================================================================
