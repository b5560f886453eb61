--------------------------- MODULE MCStorageSync ---------------------------
(***************************************************************************)
(* Requests are alike.                                                     *)
(***************************************************************************)
EXTENDS StorageSync, TLC

Alike == Permutations(Requests)
=============================================================================
