------------------------------ MODULE MCLevels ------------------------------
(* Levels and compactions of leveldb on a small key space. *)
EXTENDS Compaction
=============================================================================
