---------------------------- MODULE MCLibraryBuild ----------------------------
(***************************************************************************)
(* All libraries with at most four symbols of three names: a wrapped       *)
(* function, public data and an import, or more of one of these, with      *)
(* statics that share the name of any, in every order of the linker.       *)
(***************************************************************************)
EXTENDS LibraryBuild

WrapperNames ==
  [f |-> "f_yasld_wrapper", g |-> "g_yasld_wrapper", h |-> "h_yasld_wrapper"]
OriginalNames ==
  [f |-> "f_yasld_original", g |-> "g_yasld_original", h |-> "h_yasld_original"]
=============================================================================
