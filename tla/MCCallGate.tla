------------------------------ MODULE MCCallGate ------------------------------
(***************************************************************************)
(* Two systems for CallGate.                                               *)
(*                                                                         *)
(* Floppy is the one of tests/st (nucleo_f091c/tests/floppy_test): an      *)
(* executable that imports libc, cat_spawner and rule_world, both of which *)
(* import libc again, and a rule_world the host loads by itself; with a    *)
(* second executable that imports libc and a library with nothing to       *)
(* relocate.  "puts" is exported twice, so that the order of the searches  *)
(* matters; putchar is the host's.                                         *)
(*                                                                         *)
(* Pair is small: an executable that imports a library that imports        *)
(* another, and the former loaded once more by the host, so that both have *)
(* several instances; and a library with nothing to relocate, whose LOT is *)
(* empty.                                                                  *)
(***************************************************************************)
EXTENDS CallGate

FloppySymbols == {"puts", "spawn", "rule", "h", "putchar"}
FloppyEnvironment == {"putchar"}
FloppyImages == {"floppy", "hello", "libc", "cat", "rule", "pure"}
FloppyExports ==
  [i \in FloppyImages |-> CASE i = "libc" -> {"puts"}
                            [] i = "cat" -> {"spawn"}
                            [] i = "rule" -> {"rule", "puts"}
                            [] i = "pure" -> {"h"}
                            [] OTHER -> {}]
FloppyImports ==
  [i \in FloppyImages |-> CASE i = "floppy" -> {"puts", "spawn", "rule"}
                            [] i = "hello" -> {"puts", "putchar"}
                            [] i = "libc" -> {"putchar"}
                            [] i = "cat" -> {"puts"}
                            [] i = "rule" -> {"putchar"}
                            [] i = "pure" -> {}]
FloppyTree ==
  "floppy" :> <<"floppy", "libc1", "cat", "libc2", "rule", "libc3">> @@
  "cat" :> <<"cat", "libc2">> @@ "rule" :> <<"rule", "libc3">> @@
  "rule'" :> <<"rule'", "libc4">> @@ "hello" :> <<"hello", "libc5">> @@
  [m \in {"libc1", "libc2", "libc3", "libc4", "libc5", "pure"} |-> <<m>>]
FloppyInstances == DOMAIN FloppyTree
FloppyImageOf ==
  [m \in FloppyInstances |->
     CASE m \in {"rule", "rule'"} -> "rule"
       [] m \in {"floppy", "cat", "hello", "pure"} -> m
       [] OTHER -> "libc"]

PairSymbols == {"f", "g", "h", "env"}
PairEnvironment == {"env"}
PairImages == {"exec", "lib", "base", "pure"}
PairExports ==
  [i \in PairImages |-> CASE i = "lib" -> {"f"} [] i = "base" -> {"g"}
                           [] i = "pure" -> {"h"} [] OTHER -> {}]
PairImports ==
  [i \in PairImages |-> CASE i = "exec" -> {"f"} [] i = "lib" -> {"g"}
                           [] i = "base" -> {"env"} [] OTHER -> {}]
PairTree ==
  "exec" :> <<"exec", "lib1", "base1">> @@ "lib1" :> <<"lib1", "base1">> @@
  "lib2" :> <<"lib2", "base2">> @@
  [m \in {"base1", "base2", "pure"} |-> <<m>>]
PairInstances == DOMAIN PairTree
PairImageOf ==
  [m \in PairInstances |->
     CASE m \in {"exec", "pure"} -> m [] m \in {"lib1", "lib2"} -> "lib"
       [] OTHER -> "base"]
=============================================================================
