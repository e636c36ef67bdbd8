------------------------------ MODULE MCYaffLayout ------------------------------
(***************************************************************************)
(* Section lengths for YaffLayout, as the linker scripts make them:        *)
(* multiples of 8, and of 4 for .init_arrays, which a library has not.     *)
(***************************************************************************)
EXTENDS YaffLayout

MCSections ==
  {[text |-> 8, init |-> 4, data |-> 8], [text |-> 24, init |-> 0, data |-> 0]}
=============================================================================
