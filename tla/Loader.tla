-------------------------------- MODULE Loader --------------------------------
(***************************************************************************)
(* Loading of an image and of everything it depends on (loader.cpp with    *)
(* the operations of module.cpp, executable.cpp and allocator.hpp it uses).*)
(*                                                                         *)
(* load_module calls itself for every dependency, each time on a Module    *)
(* object it has just constructed and appended to imported_modules_ of the *)
(* one being loaded.  The stack holds one activation per call, with the    *)
(* step it has reached; any step may fail, and every caller then fails too.*)
(* A root object belongs to the host (eul's observing_node); a dependency  *)
(* lives in memory of the host's allocator, and its owner's YasldDeleter   *)
(* gives that memory back without running ~Module.                         *)
(*                                                                         *)
(* Abstractions.  An image is what its header and tables say.  The address *)
(* of a symbol is the module that defines it.  Modules are numbered in     *)
(* order of construction, and a number is not used again.  Bounds: no      *)
(* request is made once MaxModules have been constructed, and the          *)
(* machine's stack holds MaxStack activations; what happens when it        *)
(* overflows is not said.                                                  *)
(***************************************************************************)
EXTENDS Integers, FiniteSetsExt, SequencesExt

CONSTANTS
  Images, NoImage, Kind, Depends, Exports, Wants, Locals, Entered,
  Environments, FreshEntry, Sought, \* as in AbstractLoader
  HasData,      \* images with .data or .bss
  HasInit,      \* images with .init_arrays
  MemoryEnds,   \* whether the host's allocator may return nullptr
  Endless,      \* images from which a cycle of calls of load_module is reached
  MaxModules, MaxStack

ASSUME ImageAssumption ==
  /\ NoImage \notin Images
  /\ Kind \in [Images \cup {NoImage} -> {"executable", "library", "unknown", "none"}]
  /\ Kind[NoImage] = "none"
  /\ Depends \in [Images -> Seq(Images \cup {NoImage})]
  /\ \A i \in Images : Wants[i] \cap Locals[i] = {}
  /\ \A i \in Images : Kind[i] = "none" => Depends[i] = <<>>
  /\ {} \in Environments /\ MaxModules \in Nat /\ MaxStack \in Nat
  /\ FreshEntry \subseteq BOOLEAN /\ FreshEntry # {} /\ MemoryEnds \in BOOLEAN

\* The dependencies that load_module may call itself for: those before one it refuses.
Calls(i) ==
  {Depends[i][k] : k \in {k \in DOMAIN Depends[i] :
     \A j \in 1..k : Kind[Depends[i][j]] \in {"executable", "library"}}}

ASSUME EndlessAssumption ==
  Endless = UNION {S \in SUBSET Images : \A i \in S : Calls(i) \cap S # {}}

VARIABLES
  environment,  \* Loader::environment_, by its symbols
  resolver,     \* whether Loader::file_resolver_ is set
  modules,      \* Module objects, by number
  stack,        \* the activations of load_module, the outermost first
  executables,  \* Loader::executables_
  libraries,    \* Loader::libraries_
  heap,         \* blocks given by the host's allocator and not released
  result        \* of the host's last call; "undefined": the behaviour is

host == <<environment, resolver>>
vars == <<environment, resolver, modules, stack, executables, libraries, heap, result>>

Null == 0            \* an entry of a LOT before it is set
Environment == -1    \* an entry that refers to the environment
Entry == -2          \* main_address_ when it is the entry point of the header

Slots(i) == Wants[i] \cup Locals[i]

New(class, i) ==
  [image |-> i, class |-> class, lot |-> <<>>, data |-> "none", exported |-> FALSE,
   imported |-> <<>>, has_entry |-> FALSE, main |-> Null]

Call(n) == [module |-> n, stage |-> "header", next |-> 1]

Top == Last(stack)
Image == modules[Top.module].image
At(stage) == stack # <<>> /\ result # "undefined" /\ Top.stage = stage

Goto(stage) == stack' = [stack EXCEPT ![Len(stack)].stage = stage]

\* A module and what it imports, depth first.
Tree[n \in DOMAIN modules] ==
  <<n>> \o FlattenSeq([k \in DOMAIN modules[n].imported |-> Tree[modules[n].imported[k]]])

Loaded == executables \o libraries
-----------------------------------------------------------------------------
(***************************************************************************)
(* Memory.  A block is known by the module it belongs to and what it is    *)
(* for.  A nullptr goes unnoticed, since vectors have the sizes they were  *)
(* asked for: the loader writes through it (OutOfMemory).                  *)
(***************************************************************************)
Block(n, use) == [owner |-> n, use |-> use]

Allocate(blocks) == heap' = heap \cup blocks

\* ~Module of a root: its vectors, and through YasldDeleter the memory of the
\* modules it imports; nothing of what those own.
Owned(n) ==
  {Block(n, use) : use \in {"lot", "init", "data", "modules"}}
    \cup {Block(c, "object") : c \in Range(modules[n].imported)}
-----------------------------------------------------------------------------
Init ==
  /\ environment = {} /\ resolver = FALSE
  /\ modules = <<>> /\ stack = <<>>
  /\ executables = <<>> /\ libraries = <<>>
  /\ heap = {}
  /\ result = "none"

\* The header has an entry point and load_module takes it.  mkimage writes one for
\* every library; the mutant forgets to look at the type.
any_entry(i) == i \in Entered
takes_entry(i) == Kind[i] = "executable" /\ i \in Entered

Idle == stack = <<>> /\ result # "undefined"

set_environment(symbols) ==
  /\ Idle /\ environment' = symbols
  /\ UNCHANGED <<resolver, modules, stack, executables, libraries, heap, result>>

\* An empty function object may be registered too.
register_file_resolver(set) ==
  /\ Idle /\ resolver' = set
  /\ UNCHANGED <<environment, modules, stack, executables, libraries, heap, result>>

\* load_executable and load_library: the root is constructed and load_module
\* called.  A host does not load as a library an executable with an entry point,
\* which load_module would cast to the Executable it is not.  has_entry_ of a new
\* Executable is not initialised (that of a dependency is never read).
Begin(kind, i) ==
  /\ Idle /\ Len(modules) < MaxModules
  /\ kind = "library" => ~takes_entry(i)
  /\ \E flag \in IF kind = "executable" THEN FreshEntry ELSE {FALSE} :
       modules' = Append(modules, [New(kind, i) EXCEPT !.has_entry = flag])
  /\ stack' = <<Call(Len(modules) + 1)>>
  /\ result' = "none"
  /\ UNCHANGED <<host, executables, libraries, heap>>

\* A root is destroyed, and its tree with it; a number keeps what it imported.
\* The mutant keeps the memory.
keep(n) == heap
release(n) == heap \ Owned(n)

destroy(n) ==
  /\ heap' = release(n)
  /\ modules' = [x \in DOMAIN modules |->
                   IF x \in Range(Tree[n])
                   THEN [New("library", NoImage) EXCEPT !.imported = modules[x].imported]
                   ELSE modules[x]]

\* A step fails: every caller returns false, and the root goes with the local
\* variable of load_executable or load_library.
Refuse ==
  /\ stack' = <<>>
  /\ destroy(stack[1].module)
  /\ result' = "refused"
  /\ UNCHANGED <<host, executables, libraries>>

\* process_header, allocate_lot, set_text, relocate_init
local_lot_size(i) == Wants[i]                                       \* mutant
lot_size(i) == Slots(i)

HeaderBlocks ==
  {Block(Top.module, use) : use \in {u \in {"lot", "init"} :
                                       \/ u = "lot" /\ lot_size(Image) # {}
                                       \/ u = "init" /\ Image \in HasInit}}

ProcessHeader ==
  /\ At("header")
  /\ \/ Kind[Image] = "none" /\ Refuse
     \/ /\ Kind[Image] # "none"
        /\ Allocate(HeaderBlocks)
        /\ modules' = [modules EXCEPT ![Top.module].lot = [s \in Slots(Image) |-> Null]]
        /\ Goto(IF Depends[Image] = <<>> THEN "data" ELSE "modules")
        /\ UNCHANGED <<host, executables, libraries, result>>

AllocateModules ==
  /\ At("modules")
  /\ Allocate({Block(Top.module, "modules")})
  /\ Goto("dependencies")
  /\ UNCHANGED <<host, modules, executables, libraries, result>>

Dependency == Depends[Image][Top.next]

\* The resolver finds a module, of a type that load_module knows.  The mutant does
\* not look at the type.
any_type(d) == resolver /\ Kind[d] # "none"
IsModule(d) == resolver /\ Kind[d] \in {"executable", "library"}

\* One turn of the loop over the imported libraries, up to the recursive call.
\* The resolver was checked before the loop.
LoadDependency ==
  LET d == Dependency
      last == Top.next = Len(Depends[Image])
      child == Len(modules) + 1
  IN  /\ At("dependencies")
      /\ \/ ~IsModule(d) /\ Refuse
         \/ /\ IsModule(d) /\ Len(stack) < MaxStack
            /\ Allocate({Block(child, "object")})
            /\ modules' = Append([modules EXCEPT ![Top.module].imported = Append(@, child)],
                                 New(Kind[d], d))
            /\ stack' = Append([stack EXCEPT ![Len(stack)].next = @ + 1,
                                             ![Len(stack)].stage =
                                               IF last THEN "data" ELSE "dependencies"],
                               Call(child))
            /\ UNCHANGED <<host, executables, libraries, result>>

\* process_data and set_exported_symbol_table; the mutant leaves the latter for
\* later.
export_later(m) == [m EXCEPT !.data = "copied"]
export(m) == [m EXCEPT !.data = "copied", !.exported = TRUE]

ProcessData ==
  /\ At("data")
  /\ Allocate(IF Image \in HasData THEN {Block(Top.module, "data")} ELSE {})
  /\ modules' = [modules EXCEPT ![Top.module] = export(@)]
  /\ Goto("symbols")
  /\ UNCHANGED <<host, executables, libraries, result>>

\* The allocator returns nullptr for one of the blocks of a step, and what the pointer
\* should be to is written: elements that resize initialises, a Module that is
\* constructed, the first element of what was reserved (of a dependency that is not
\* refused; nothing is written for one that is).
OutOfMemory ==
  /\ MemoryEnds
  /\ \/ At("header") /\ Kind[Image] # "none" /\ HeaderBlocks # {}
     \/ At("modules") /\ IsModule(Dependency)
     \/ At("dependencies") /\ IsModule(Dependency)
     \/ At("data") /\ Image \in HasData
  /\ result' = "undefined"
  /\ UNCHANGED <<host, modules, stack, executables, libraries, heap>>

\* Module::find_symbol: the module itself, then what it imports, depth first.
FirstDefining(seq, s) ==
  LET hits == {k \in DOMAIN seq : s \in Exports[modules[seq[k]].image]}
  IN  IF hits = {} THEN Null ELSE seq[Min(hits)]

\* Loader::find_symbol.  The mutants search all that is loaded, and the
\* module before the environment.
find_anywhere(n, s) ==
  IF s \in environment THEN Environment
  ELSE FirstDefining(FlattenSeq([k \in DOMAIN Loaded |-> Tree[Loaded[k]]]) \o Tree[n], s)
find_own_first(n, s) ==
  IF FirstDefining(Tree[n], s) # Null THEN FirstDefining(Tree[n], s)
  ELSE IF s \in environment THEN Environment ELSE Null
find_symbol(n, s) ==
  IF s \in environment THEN Environment ELSE FirstDefining(Tree[n], s)

ProcessSymbols ==
  LET n == Top.module
  IN  /\ At("symbols")
      /\ \/ (\E s \in Wants[Image] : find_symbol(n, s) = Null) /\ Refuse
         \/ /\ \A s \in Wants[Image] : find_symbol(n, s) # Null
            /\ modules' = [modules EXCEPT ![n].lot =
                 [s \in Slots(Image) |->
                    IF s \in Wants[Image] THEN find_symbol(n, s) ELSE @[s]]]
            /\ Goto("relocations")
            /\ UNCHANGED <<host, executables, libraries, heap, result>>

\* process_local_relocations, process_data_relocations, set_entry
ProcessRelocations ==
  LET n == Top.module
  IN  /\ At("relocations")
      /\ modules' = [modules EXCEPT
           ![n].lot = [s \in Slots(Image) |-> IF s \in Locals[Image] THEN n ELSE @[s]],
           ![n].data = "relocated",
           ![n].has_entry = @ \/ takes_entry(Image),
           ![n].main = IF takes_entry(Image) THEN Entry ELSE @]
      /\ Goto("loaded")
      /\ UNCHANGED <<host, executables, libraries, heap, result>>

\* load_module returns true to the load_module that called it.
Return ==
  /\ At("loaded") /\ Len(stack) > 1
  /\ stack' = Front(stack)
  /\ UNCHANGED <<host, modules, executables, libraries, heap, result>>

\* initialize_main and the rest of load_executable
FinishExecutable ==
  LET n == Top.module
      main == FirstDefining(Tree[n], "main")
  IN  /\ At("loaded") /\ Len(stack) = 1 /\ modules[n].class = "executable"
      /\ \/ ~modules[n].has_entry /\ main = Null /\ Refuse
         \/ /\ modules[n].has_entry \/ main # Null
            /\ modules' = [modules EXCEPT
                 ![n].main = IF modules[n].has_entry THEN @ ELSE main]
            /\ executables' = Append(executables, n)
            /\ stack' = <<>>
            /\ result' = "loaded"
            /\ UNCHANGED <<host, libraries, heap>>

\* the rest of load_library
FinishLibrary ==
  /\ At("loaded") /\ Len(stack) = 1 /\ modules[Top.module].class = "library"
  /\ libraries' = Append(libraries, Top.module)
  /\ stack' = <<>>
  /\ result' = "loaded"
  /\ UNCHANGED <<host, modules, executables, heap>>

\* Executable::execute.  With arguments it refuses an executable that has an entry
\* point; without, it dereferences main_address_ because has_entry_ says that there
\* is one.
execute(n, arguments) ==
  LET m == modules[n]
  IN  CASE ~m.has_entry /\ m.main # Null -> "main"
        [] ~m.has_entry /\ m.main = Null -> "error"
        [] m.has_entry /\ arguments -> "error"
        [] m.has_entry /\ ~arguments /\ m.main # Null -> "entry"
        [] OTHER -> "undefined"

Execute(n, arguments) ==
  /\ Idle
  /\ result' = execute(n, arguments)
  /\ UNCHANGED <<host, modules, stack, executables, libraries, heap>>

\* SymbolGet::get_symbol, of a library the host holds
get_symbol(n, s) ==
  /\ Idle
  /\ result' = IF FirstDefining(Tree[n], s) = Null THEN "missing" ELSE "found"
  /\ UNCHANGED <<host, modules, stack, executables, libraries, heap>>

\* The host gives up its handle: the object is destroyed, and its node leaves
\* the observing list.
Drop ==
  /\ Idle
  /\ \/ /\ \E k \in DOMAIN executables :
             /\ executables' = RemoveAt(executables, k)
             /\ destroy(executables[k])
        /\ UNCHANGED libraries
     \/ /\ \E k \in DOMAIN libraries :
             /\ libraries' = RemoveAt(libraries, k)
             /\ destroy(libraries[k])
        /\ UNCHANGED executables
  /\ UNCHANGED <<host, stack, result>>

Step ==
  \/ ProcessHeader \/ AllocateModules \/ LoadDependency \/ ProcessData
  \/ ProcessSymbols \/ ProcessRelocations \/ Return
  \/ FinishExecutable \/ FinishLibrary

Next ==
  \/ \E kind \in {"executable", "library"}, i \in Images : Begin(kind, i)
  \/ \E symbols \in Environments : set_environment(symbols)
  \/ \E set \in BOOLEAN : register_file_resolver(set)
  \/ \E n \in Range(executables), arguments \in BOOLEAN : Execute(n, arguments)
  \/ \E n \in Range(libraries), s \in Sought : get_symbol(n, s)
  \/ Step \/ OutOfMemory \/ Drop

\* The loader runs to its end once it is called; the host need not do anything.
Spec == Init /\ [][Next]_vars /\ WF_vars(Step)
-----------------------------------------------------------------------------
Live == (UNION {Range(Tree[Loaded[k]]) : k \in DOMAIN Loaded})
          \cup IF stack = <<>> THEN {} ELSE Range(Tree[stack[1].module])

\* Every variable keeps its type; has_entry is a field of an Executable, and what
\* load_module casts to one (set_entry) is one.
TypeOK ==
  /\ environment \in Environments /\ resolver \in BOOLEAN
  /\ \A n \in DOMAIN modules :
       LET m == modules[n]
       IN  /\ m.image \in Images \cup {NoImage} /\ m.class \in {"executable", "library"}
           /\ m.lot # <<>> =>
                m.lot \in [Slots(m.image) -> {Null, Environment} \cup DOMAIN modules]
           /\ m.data \in {"none", "copied", "relocated"} /\ m.exported \in BOOLEAN
           /\ m.imported \in Seq(n + 1..Len(modules))
           /\ m.has_entry \in BOOLEAN /\ m.has_entry => m.class = "executable"
           /\ m.main \in {Null, Entry} \cup DOMAIN modules
  /\ executables \in Seq(DOMAIN modules) /\ libraries \in Seq(DOMAIN modules)
  /\ \A k \in DOMAIN stack :
       /\ stack[k].module \in DOMAIN modules
       /\ k > 1 => stack[k].module \in Range(modules[stack[k - 1].module].imported)
       /\ k < Len(stack) => stack[k].stage \in {"dependencies", "data"}
  /\ result \in {"none", "loaded", "refused", "entry", "main", "error",
                 "found", "missing", "undefined"}

\* Module::find_symbol dereferences the exported symbol table of every module it
\* visits, without asking whether it is there: when symbols are looked up, all
\* modules below have finished the step that sets it.
TablesSet ==
  At("symbols") => \A x \in Range(Tree[Top.module]) : modules[x].exported

\* What the offset table of a live module refers to is the environment or a
\* module of its own tree, so dropping one root never leaves another with an
\* address in freed memory (Loader::find_symbol, the unique_ptr in Module).
NoSlotDangles ==
  \A n \in Live :
    Range(modules[n].lot) \subseteq {Null, Environment} \cup Range(Tree[n])

\* Memory that a live module is using has not been released, whatever was loaded,
\* refused and dropped before (the vectors of Module, YasldDeleter).
UsedIsAllocated ==
  \A n \in Live :
    /\ DOMAIN modules[n].lot # {} => Block(n, "lot") \in heap
    /\ modules[n].data # "none" /\ modules[n].image \in HasData =>
         Block(n, "data") \in heap
    /\ modules[n].imported # <<>> => Block(n, "modules") \in heap
    /\ \A c \in Range(modules[n].imported) : Block(c, "object") \in heap

\* Loading that fails half way, at any depth, and loading that the host undoes
\* leave nothing that the root itself allocated; what its dependencies allocated
\* is leaked, since ~Module does not run for them (YasldDeleter).
RootLeavesNothing ==
  \A b \in heap : b.owner \notin Live =>
    \E m \in DOMAIN modules : b.owner \in Range(modules[m].imported)

\* Where x is in a tree; one more than its length, if it is not there.
Position(tree, x) ==
  IF x \in {Environment, Entry} THEN 0
  ELSE Min({k \in DOMAIN tree : tree[k] = x} \cup {Len(tree) + 1})

LinkedTree(n) ==
  LET below == Tree[n]
  IN  [k \in DOMAIN below |->
         LET m == modules[below[k]]
             tree == Tree[below[k]]
         IN  [image |-> m.image,
              lot |-> [s \in DOMAIN m.lot |-> Position(tree, m.lot[s])]]]

LinkedExecutable(n) ==
  [modules |-> LinkedTree(n), main |-> Position(Tree[n], modules[n].main)]
LinkedLibrary(n) == [modules |-> LinkedTree(n)]

LinkedExecutables == [k \in DOMAIN executables |-> LinkedExecutable(executables[k])]
LinkedLibraries == [k \in DOMAIN libraries |-> LinkedLibrary(libraries[k])]

Request ==
  IF stack = <<>> THEN [kind |-> "none", image |-> NoImage]
  ELSE [kind |-> modules[stack[1].module].class, image |-> modules[stack[1].module].image]

Allocating ==
  {i \in Images : MemoryEnds /\ (i \in HasData \cup HasInit
                                  \/ Slots(i) # {} \/ Depends[i] # <<>>)}

Abstract == INSTANCE AbstractLoader WITH
  executables <- LinkedExecutables, libraries <- LinkedLibraries, request <- Request

\* Step by step, with failures at any depth, the loader accepts exactly the images that
\* can be linked (but for the missing main that an uninitialised has_entry_ hides), and
\* links each module of the tree, each instance of a shared dependency included, as
\* AbstractLoader says; executing one runs what it was linked to run.  Only when memory
\* ends, or for an executable that the flag hid the missing main of, is there no saying
\* what happens.  An image that reaches a cycle of dependencies is never loaded.
ImplementsLoading == Abstract!Spec

\* Every request is answered, whatever fails on the way, but those that reach a cycle of
\* calls: load_module does not look for one, and only the type of a dependency, which it
\* looks at before it calls itself, keeps it from a cycle behind a module of unknown type.
EveryRequestAnswered ==
  (stack # <<>> /\ modules[stack[1].module].image \notin Endless)
    ~> (stack = <<>> \/ result = "undefined")
=============================================================================
