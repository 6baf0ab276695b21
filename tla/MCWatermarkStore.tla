-------------------------- MODULE MCWatermarkStore --------------------------
(* WatermarkStore with two positions of a file.                            *)
EXTENDS WatermarkStore

TwoEntries == [offset : {1, 2}, inode : {7}]
=============================================================================
