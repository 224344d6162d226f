---------------------------- MODULE WholeTableMC ----------------------------
(***************************************************************************)
(* Small instances of WholeTable, with the hash functions of CuckooMapMC.  *)
(***************************************************************************)
EXTENDS WholeTable, CuckooMapMC
=============================================================================
