----------------------------- MODULE MCLotRelocation -----------------------------
(***************************************************************************)
(* All ELF files of LotRelocation with at most MaxSymbols symbols of two   *)
(* names and main, and MaxReferences references: enough for a name that is *)
(* referred to twice, between two references to others, and for symbols of *)
(* each localization at once.                                              *)
(***************************************************************************)
EXTENDS LotRelocation

ThreeNames == {"main", "f", "g"}
=============================================================================
