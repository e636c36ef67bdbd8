---------------------------- MODULE AbstractLoader ----------------------------
(***************************************************************************)
(* What the loader promises to its host, with nothing of how it is done.   *)
(* The host asks for an image to be loaded; the answer is the image linked *)
(* with everything it depends on, or a refusal that leaves no trace, and   *)
(* which of the two depends on the images and the environment alone.  The  *)
(* host may then execute it or get its symbols.  Two things have no        *)
(* defined outcome, and nothing follows them: to run out of memory, and to *)
(* execute what starts nowhere.                                            *)
(*                                                                         *)
(* A linked module is described without addresses: an entry of its offset  *)
(* table refers to the environment (0) or to a position in the tree of its *)
(* own dependencies, listed depth first (1 is the module itself).          *)
(***************************************************************************)
EXTENDS Naturals, FiniteSetsExt, SequencesExt

CONSTANTS
  Images,       \* what the host and the images can name
  NoImage,      \* the file resolver has no answer
  Kind,         \* the cookie and the type in the header of an image
  Depends,      \* the names of the libraries an image depends on, in order
  Exports,      \* the exported symbol table
  Wants,        \* the symbols that the symbol table relocations refer to
  Locals,       \* the symbols that the local relocations refer to
  Entered,      \* images whose header has an entry point
  Environments, \* the symbols of each Environment of the host; {} for none
  FreshEntry,   \* the values that has_entry_ of a new Executable may have
  Endless,      \* images from which a cycle of dependencies is reached
  Sought,       \* the symbols a host looks for in a library
  Allocating    \* images that need memory, when the allocator may have none

VARIABLES executables, libraries, request, result,
  environment,  \* the symbols that the host provides
  resolver      \* whether the host provides files by name

vars == <<executables, libraries, request, result, environment, resolver>>

IsModule(d) == Kind[d] \in {"executable", "library"}

\* The dependencies that are loaded with an image: all before one that is no module.
Followed(i) == {k \in DOMAIN Depends[i] : \A j \in 1..k : IsModule(Depends[i][j])}

\* An image and what it depends on, depth first, as far as that goes.
Tree[i \in Images] ==
  IF i \in Endless THEN <<i>>
  ELSE <<i>> \o FlattenSeq([k \in DOMAIN Depends[i] |->
                              IF k \in Followed(i) THEN Tree[Depends[i][k]] ELSE <<>>])

Definers(i, s) == {k \in DOMAIN Tree[i] : s \in Exports[Tree[i][k]]}

TakesEntry(i) == Kind[i] = "executable" /\ i \in Entered

\* Every dependency is a module, none comes back to the image, and every symbol wanted
\* is defined below.
Complete(i) ==
  /\ i \notin Endless
  /\ Depends[i] # <<>> => resolver
  /\ \A d \in Range(Depends[i]) : IsModule(d)
  /\ \A s \in Wants[i] \ environment : Definers(i, s) # {}

\* An executable starts somewhere; when the flag is set at random it is accepted
\* all the same.
Loadable(kind, i, flag) ==
  /\ Kind[i] # "none"
  /\ \A x \in Range(Tree[i]) : Complete(x)
  /\ kind = "executable" => flag \/ TakesEntry(i) \/ Definers(i, "main") # {}

Linked(i) ==
  [k \in DOMAIN Tree[i] |->
     LET x == Tree[i][k]
     IN  [image |-> x,
          lot |-> [s \in Wants[x] \cup Locals[x] |->
                     IF s \in Locals[x] THEN 1
                     ELSE IF s \in environment THEN 0 ELSE Min(Definers(x, s))]]]

\* Where an executable starts: at the entry point of its header (0), at main, or
\* nowhere (one past its tree).
Main(i, flag) ==
  IF TakesEntry(i) THEN 0
  ELSE IF flag THEN Len(Tree[i]) + 1 ELSE Min(Definers(i, "main"))

NoRequest == [kind |-> "none", image |-> NoImage]
Idle == request = NoRequest /\ result # "undefined"

Init ==
  /\ executables = <<>> /\ libraries = <<>>
  /\ request = NoRequest /\ result = "none"
  /\ environment = {} /\ resolver = FALSE

\* The host changes what it provides, for the requests to come.
Provide ==
  /\ Idle
  /\ environment' \in Environments /\ resolver' \in BOOLEAN
  /\ UNCHANGED <<executables, libraries, request, result>>

Ask(kind, i) ==
  /\ Idle
  /\ request' = [kind |-> kind, image |-> i]
  /\ result' = "none"
  /\ UNCHANGED <<executables, libraries, environment, resolver>>

Answer ==
  LET i == request.image
  IN  /\ request # NoRequest /\ result # "undefined"
      /\ request' = NoRequest
      /\ UNCHANGED <<environment, resolver>>
      /\ \E flag \in FreshEntry :
           \/ /\ ~Loadable(request.kind, i, flag)
              /\ result' = "refused"
              /\ UNCHANGED <<executables, libraries>>
           \/ /\ Loadable(request.kind, i, flag)
              /\ result' = "loaded"
              /\ \/ /\ request.kind = "executable"
                    /\ executables' = Append(executables,
                         [modules |-> Linked(i), main |-> Main(i, flag)])
                    /\ UNCHANGED libraries
                 \/ /\ request.kind = "library"
                    /\ libraries' = Append(libraries, [modules |-> Linked(i)])
                    /\ UNCHANGED executables

\* Memory runs out, under a request for an image that needs some.
Exhaust ==
  /\ request # NoRequest /\ result # "undefined"
  /\ \E x \in Range(Tree[request.image]) : x \in Allocating
  /\ result' = "undefined"
  /\ UNCHANGED <<executables, libraries, request, environment, resolver>>

\* An executable is executed, with arguments for main or without.
Execute(arguments) ==
  /\ Idle
  /\ \E k \in DOMAIN executables :
       LET main == executables[k].main
       IN  result' = CASE main \in DOMAIN executables[k].modules -> "main"
                       [] main \notin DOMAIN executables[k].modules /\ arguments -> "error"
                       [] main = 0 /\ ~arguments -> "entry"
                       [] OTHER -> "undefined"
  /\ UNCHANGED <<executables, libraries, request, environment, resolver>>

\* A symbol is found in a library if it, or what it depends on, exports it.
GetSymbol(s) ==
  /\ Idle
  /\ \E k \in DOMAIN libraries :
       result' = IF Definers(libraries[k].modules[1].image, s) = {}
                 THEN "missing" ELSE "found"
  /\ UNCHANGED <<executables, libraries, request, environment, resolver>>

\* The host gives up what it loaded; nothing else changes.
Drop ==
  /\ Idle
  /\ \/ /\ \E k \in DOMAIN executables : executables' = RemoveAt(executables, k)
        /\ UNCHANGED libraries
     \/ /\ \E k \in DOMAIN libraries : libraries' = RemoveAt(libraries, k)
        /\ UNCHANGED executables
  /\ UNCHANGED <<request, result, environment, resolver>>

Next ==
  \/ \E kind \in {"executable", "library"}, i \in Images : Ask(kind, i)
  \/ Answer \/ Exhaust
  \/ \E arguments \in BOOLEAN : Execute(arguments)
  \/ \E s \in Sought : GetSymbol(s)
  \/ Drop
  \/ Provide

\* What is answered is right, and what is loaded stays as it is.
Spec == Init /\ [][Next]_vars
=============================================================================
