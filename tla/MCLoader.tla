------------------------------- MODULE MCLoader -------------------------------
(***************************************************************************)
(* Images for Loader.  app, lib and base share a dependency (a diamond)    *)
(* and lib defines anew what base defines; start has an entry point; bare  *)
(* has nothing but local relocations, and no main; odd has an unknown      *)
(* type, which matters only in a dependency: it names itself as one and is *)
(* refused there.  self, ping and pong are on cycles of dependencies; each *)
(* of the others cannot be loaded, for a reason of its own that shows at a *)
(* different step and depth.  "put" is the environment's, and lib has one  *)
(* too.  The image of lib imports nothing, so that mkimage gives its own   *)
(* "g" the right index.                                                    *)
(***************************************************************************)
EXTENDS Loader, TLC

MCImages ==
  {"app", "lib", "base", "start", "odd", "text", "bare", "lost", "needs",
   "wraps", "strange", "deep", "self", "ping", "pong"}

Default(value) == [i \in MCImages |-> value]

MCKind ==
  ("lib" :> "library") @@ ("base" :> "library") @@
  ("wraps" :> "library") @@ ("pong" :> "library") @@ ("odd" :> "unknown") @@ ("text" :> "none") @@
  ("none" :> "none") @@ Default("executable")
MCDepends ==
  ("app" :> <<"lib", "base">>) @@ ("lib" :> <<"base">>) @@ ("bare" :> <<"base">>) @@
  ("odd" :> <<"base", "odd">>) @@ ("lost" :> <<"none">>) @@ ("needs" :> <<"base">>) @@
  ("wraps" :> <<"base", "text">>) @@ ("strange" :> <<"odd">>) @@
  ("deep" :> <<"lib", "needs">>) @@ ("self" :> <<"self">>) @@
  ("ping" :> <<"base", "pong">>) @@ ("pong" :> <<"ping">>) @@ Default(<<>>)
MCExports ==
  ("app" :> {"main"}) @@ ("lib" :> {"f", "g", "put"}) @@ ("base" :> {"g"}) @@
  ("odd" :> {"main"}) @@ ("deep" :> {"main"}) @@ Default({})
MCWants ==
  ("app" :> {"f", "g", "put"}) @@ ("lib" :> {"g"}) @@ ("base" :> {"put"}) @@
  ("start" :> {"put"}) @@ ("needs" :> {"nowhere"}) @@ Default({})
MCLocals ==
  ("app" :> {"static"}) @@ ("bare" :> {"static"}) @@ Default({})
MCEnvironments == {{}, {"put"}}
=============================================================================
