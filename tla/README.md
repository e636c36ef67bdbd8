# Yasld: a TLA+ model of the loader, its image format and its call gate

Yasld loads relocatable modules ("YAFF" images) on microcontrollers without an
MMU. `mkimage` turns an ELF file into an image; the loader leaves `.text` in
place, gives every instance of a module its own data and its own offset table
(LOT, addressed by r9), links instances by name, and passes calls between them
through wrappers that ask the loader whose LOT to use. This directory models
that way from the compiled library to the return of a call, checks the models with TLC,
and proves the most important results for all values of the constants with TLAPS.

    tlc -workers 2 -config CallGate_floppy.cfg MCCallGate    # a run
    tlapm CallGateProofs.tla                                 # a proof

## 1. The system

| component (source) | state | operations | hard because | what makes it correct |
|---|---|---|---|---|
| **Call gate** (`arch/armv6-m/call_wrapped.s.tmpl`, `supervisor_call.cpp`, `call.S`) | r9, the machine stack; per module one `ForeignCallContext` and `active_` | wrapper entry and exit, `call_main`, `call_entry` | nesting, re-entrance, several instances of one text, handles dropped during a call | code runs on its own LOT; a return goes to the caller it belongs to |
| **Searches** (`Loader::find_*`, `Module::find_*`) | the lists `executables_`, `libraries_` and the trees of `imported_modules_` | by program counter, by LOT, by name | three searches with different keys that must agree | what is found at run time is what was linked |
| **Loader** (`loader.cpp`) | `environment_`, `file_resolver_`, the lists, the recursion of `load_module` | `load_executable`, `load_library`, `set_environment`, `register_file_resolver` | failure at any step and depth; shared dependencies | every request that can end is answered, and rightly; nothing dangles |
| **Module, Executable, Library** (`module.cpp`, `executable.cpp`, `library.hpp`) | LOT, init, data, spans, exported symbols, `main_address_`, `has_entry_` | `allocate_*`, `relocate_init`, `find_symbol`, `initialize_main`, `execute`, `get_symbol` | order of the steps; an uninitialised flag | what is executed is what was linked to be |
| **Memory** (`allocator.hpp`) | the blocks the host's allocator gave out | `allocate`, `deallocate`, `YasldDeleter` | dependencies are released without their destructor; nobody looks for a null pointer | memory in use stays allocated; a refused root leaves nothing |
| **Parser and tables** (`parser.cpp`, `item_table.hpp`, `symbol.cpp`, `dependency.cpp`) | addresses of the tables | iteration, `operator[]` | each table starts where the one before ends, known only from lengths of names | writer and reader agree on every place |
| **mkimage** (`mkimage.py`, `relocation_set.py`, `elf_parser.py`) | symbols, `RelocationSet`, the image | `__process_symbols`, `__process_relocations`, `__fix_offsets_in_code`, `__build_image` | indices shared by references, two symbol tables, three sections | every reference reads the symbol it was compiled for; every pointer is the address it was meant to be |
| **Library build** (`generate_wrappers.py`, `fix_names.py`, `cmake/`) | the symbols of the linked library | wrappers for public functions, three renamings by `objcopy` | names decide, and names may be shared; archives are not scanned | exported functions are reached through their wrappers only; a library's own code is not changed |
| linker scripts, host stub, logging, `headers_parsers.py` | - | - | - | not modelled (section 7) |

Interactions: the host calls the loader; `load_module` calls the host's file
resolver and allocator and itself; compiled code calls through LOT entries that
the loader wrote, into wrappers that call back into the loader (`svc`), into
functions of the environment directly, and so possibly into the loader again.
There is one thread.

## 2. The modules

| module | models | extends or instantiates |
|---|---|---|
| `AbstractCalls` | what calls promise: one stack of suspended callers, each with its r9 | |
| `CallGate` | the call gate and the searches | `AbstractCalls` through `Calls` |
| `CallGateProofs` | its theorems, and that it implements `AbstractCalls` | `CallGate` |
| `AbstractLoader` | what loading promises, without addresses | |
| `Loader` | `load_module` step by step | `AbstractLoader` through `Abstract` |
| `LoaderProofs` | theorems about its own state, and facts about trees of modules | `Loader` |
| `LoaderRefinement` | that it implements `AbstractLoader` | `LoaderProofs` |
| `LotRelocation` | references through the LOT, from the ELF file to the loaded module | |
| `LotRelocationProofs` | its theorems: how entries are numbered and used, and what is read through them | `LotRelocation` |
| `LibraryBuild` | from compiled symbols to the ELF file of a library | `LotRelocation` through `Lot` |
| `LibraryBuildProofs` | its theorems | `LibraryBuild`; `LotRelocationProofs` through `LotP` |
| `YaffLayout`, `YaffLayoutProofs` | the places of tables, names and sections, written and read; the theorems | |
| `Addresses`, `AddressesProofs` | addresses of symbols and pointers, from the ELF file to RAM | |
| `SequenceLemmas` | facts about `Min`, `Append`, `FlattenSeq`... that several proofs cite | |
| `MCCallGate`, `MCLoader`, `MCLotRelocation`, `MCLibraryBuild`, `MCYaffLayout` | instances for TLC | |

### CallGate

State: `executables` and `libraries` are the loader's lists, `active` and `ctx` the
fields `active_` and `foreign_call_context_` of every module, `r9` the register,
by the instance whose LOT it addresses, and `frames` the activations on the
machine stack. An address is known by what it belongs to: a program counter by its
image (all instances share the text), a LOT by its instance, a return address by
the depth of the activation it returns to.

`Enter` is the first half of a wrapper with `process_entry_supervisor_call`,
`Leave` the second half with `process_exit_supervisor_call`. Both have the branch
in which no module is found: the code has a TODO there and goes on, so `control`
becomes "lost". So it does, by definition, when a return address of another activation
is restored: that returns never mix up callers is thus a statement about r9 and about
which returns complete. `CallImport`, `CallLibrary` and `CallPointer` are the three ways into a
wrapper; `execute`/`ReturnFromMain` is `call_main` and `call_entry`, which keep r9
on the stack; `CallEnvironment` is a call without a wrapper.

`Practices` says what clients do beyond calling what they import: "callback" (call
function pointers, or a library from a function of the host), "spawn" (execute a
module from a call while an instance of one of its images is active),
"transitive" (call a symbol of an imported library through `SymbolGet`), "twice"
(load an image as two roots), "unload" (drop a handle while its tree is in use),
"null" (call with a null pointer in r9). The interface permits all six, and its
documentation excludes none but for cycles of dependencies. The last matters
because of `EmptyLot`, the images that have nothing to relocate: their LOT is a null
pointer as well, so `find_module_with_lot` takes a host with r9 = 0 for such a module,
and one such module for another. An instance that is dropped may be loaded again, with
the same LOT; that its memory goes to another instance while a call is under way is not modelled,
so "whatever clients do" means whatever they do with these practices. Properties are of two kinds: those that hold for every set of
practices, and those that need `Practices = {}`.

### Loader

`stack` holds the activations of `load_module` with the step each has reached, and
the actions are its steps in order: `ProcessHeader`, `AllocateModules`,
`LoadDependency` (once per dependency; it starts the recursive call),
`ProcessData`, `ProcessSymbols`, `ProcessRelocations`, `Return`, and for the root
`FinishExecutable` or `FinishLibrary`. Each early `return false` is the disjunct
`Refuse`: all callers fail as well and the root is destroyed. `heap` is the memory
the host's allocator gave out, by owner and use; `OutOfMemory` is a step whose
allocation returns a null pointer, which the code writes through, so that `result` is
"undefined" and nothing follows. (`reserve` writes nothing: a module whose list of imports got no
memory is still refused properly if its first dependency is.) `FreshEntry` is the set of values the uninitialised
`has_entry_` of a new `Executable` may have; the runs use both. `Execute` and
`get_symbol` are what the host does with what it loaded.

`AbstractLoader` knows images only. Its `Answer` accepts or refuses in one step (or
`Exhaust` ends all, for images that need memory), and gives each module of the tree as what its LOT entries refer to: the environment
(0) or a position in the module's own tree. The mapping `Abstract` turns module
numbers into positions, so that the refinement also says that the instances of a
shared dependency are linked each with its own tree, and that `execute` runs `main`
or the entry point of the module it is in.

### LotRelocation

`process_relocation` reads one GOT reference into `RelocationSet`,
`fix_offsets_in_code` patches the code, `build_image` writes the relocations with
symbol indices, `load_module` fills the LOT. The input is any ELF file with at most
`MaxSymbols` symbols. `SameNames` admits statics that share a name,
`OwnReferences` code that imports symbols and refers to symbols it exports; the two
constants separate what works from the two findings about mkimage. A module without
references has an empty `code` from the start and gets its image, with empty tables, at
once.

### LibraryBuild

The input is a sequence of symbols of five kinds (public functions and data of the
target, public functions of archives it is linked with, imports, statics) and the
references of the library's own code. `generate_wrappers` decides what is wrapped, `link`
joins symbols and wrappers in any order that a linker may choose (statics first), `fix_names` is the three calls of `objcopy` and the new order
of the symbol table. From there on `mkimage` is any step of `LotRelocation`, so the
properties speak of what the loaded library reads and exports. A reference is to a
symbol, by its place in the table, while `objcopy`, mkimage and the loader go by names:
that is where they may part.

### YaffLayout

`build_image` writes the file, `parse` is the constructor of `Parser`. A word of the
file is the number of bytes in it before its first zero, which decides where
strings end and nothing else does. `written` and `parsed` are the places of the same
nine parts, six tables and three sections, according to each side.

### Addresses

Sections follow one another in the ELF file and are scattered at run time.
`build_image` encodes the symbol, the entry point and the pointers in `.init_arrays`
and `.data`, each as a section and an offset packed into one word; `relocate_init`,
`process_data`, `process_local_relocations`, `process_data_relocations` and `set_entry`
are the loader's steps in the order of `load_module`. `Meant` is the reference: the
address in RAM of what an ELF address stands for. Symbol, entry point and pointers in
`.data` may be anywhere; words of `.init_arrays` hold functions, with relocations of
type `R_ARM_TARGET1` or `R_ARM_ABS32`. The properties are equivalences: they say which
pointers are right and that all others are wrong, so they state the limits
of the code with the same precision as what it does.

## 3. The runs

| run | states | time | shows |
|---|---|---|---|
| `CallGate_floppy` | 835,320 | 81 s | with no practices: no call is lost, each reaches the instance it was linked to, returns restore r9, at most one instance of an image is active |
| `CallGate_anyclient` | 800,288 | 43 s | with all practices but "twice": no code runs on another's LOT, contexts of active modules are live, every completed return is the right one |
| `Loader_linked` | 47,520 | 22 s | the loader implements `AbstractLoader`, images with cycles of dependencies included: these are never loaded, and every request for another is answered; memory and LOT entries in use are not freed |
| `LotRelocation_correct` | 153,160 | 9 s | every reference of every input reads its symbol |
| `LibraryBuild_wrappers` | 1,187,598 | 29 s | exported functions are reached through wrappers, wrappers call their functions, own code reads what it should but for the cases named |
| `YaffLayout_parts` | 666,792 | 25 s | the parser finds every table and name; the sections if and only if the image is at a multiple of 16 |
| `Addresses_pointers` | 175,616 | 2 s | exactly which pointers, symbols and entry points are where they were meant to be |

Each of the others checks one statement of the repository that does not hold; the
counterexamples are short and worth reading.

| run | statement | what happens |
|---|---|---|
| `CallGate_callback` | `module.hpp:68` saving the caller in the module "works thanks to [no] cyclic dependency" | a module entered again through a function pointer loses its first caller, without any cycle |
| `CallGate_spawn` | `module.hpp:115` "only one instance of library is active" | an executable started from a call makes a second instance active |
| `LotRelocation_exports` | `Readme.md:108` "index in symbol table" | an index counted in the exported table is used with the imported one |
| `LotRelocation_statics` | `mkimage.py:192` duplicated symbols are refused | a dictionary has already merged them |
| `YaffLayout_name` | `Readme.md:53` the name is padded with its trailing zero | the parser pads it without |

### Bounds

- `MaxDepth` (6 activations; 5 for `Pair`, 4 for `CallGate_callback`). Six holds the chain hello, host function, floppy,
  cat_spawner, libc, host function, in which one executable starts another. Four
  already lets a module be entered twice with another in between and both searches pick a
  wrong instance. No other counter of CallGate grows.
- `Floppy` has the diamond of the repository's system test, five instances of one
  library, two executables, a symbol that two libraries export and one of the host, and
  a library without relocations. `Pair` is smaller, since all practices together have
  many more states; two of its images still have two instances each.
  No run has two roots of one library ("twice"): with all other practices they make too many
  states, and the theorems for all practices include it.
- `MaxModules = 3`: no request is made once three modules were constructed (a
  request under way may construct more: `deep` has five). Up to three roots are
  loaded, dropped and replaced. `MaxStack = 4` bounds the depth of
  `load_module`, where it ends what would not end; an image that is not endless needs 3 at most, or
  `EveryRequestAnswered` would fail.
- `MaxSymbols = 3`, `MaxReferences = 4`: a name referred to twice with two
  references to others in between, with symbols of each localization.
- `LibraryBuild`: 4 symbols of 3 names and 2 references are a wrapped function, public data and
  an import at once, and a static that shares the name of one of them, with the wrapper before, between
  or after the others.
- Module names of 1, 6 and 11 bytes leave every remainder modulo 4 but 0; names of
  libraries and symbols have 3 or 4 bytes, on both sides of the boundary where the
  trailing zero needs a word of its own; tables have up to 2 entries; images are at 0,
  4, 24 and 32, two of which are multiples of 16, with and without `.init_arrays`.
- Sections of 2, 2, 2 and 1 words, apart in memory: pointers to both ends of each, an
  entry point and a symbol anywhere.

Deadlock is checked in `CallGate_floppy`. In `CallGate_anyclient` lost control is an
end; the others run a module through mkimage and the loader once, or stop at the
bound on requests, or where a cycle of dependencies has used up the stack.

### Fairness

Only `Loader` has liveness: `EveryRequestAnswered`. It assumes `WF_vars(Step)`, that the
code of `load_module`, once called, is executed: it is sequential and waits for nothing.
What may keep a request from its answer is the recursion, which nothing bounds; the property says that
it ends for every image from which no cycle is reached by calls that `load_module` can make (for
the others, those in `Endless`, `ImplementsLoading` says that they are never loaded). In
`Loader_linked` an image of unknown type depends on itself, and only the check of the type ends a request
for it. Nothing is assumed of the host.

## 4. What is proved

All theorems are checked by `tlapm` for all values of the constants that meet the
named assumptions.

- **`CallGateProofs`**: `[]RunsOnOwnLot`, `[]ContextIsLive` and `[]TypeOK` for any
  system of images, any practices and any depth. RunsOnOwnLot is not inductive: an
  exit takes r9 from a context. The invariant `Inv` adds `ContextIsLive` (what is in
  the context of an active module is the r9 of the caller of an activation on the
  stack) and `CallersOnOwnLot` (that r9 was the caller's own). It needs nothing about
  how modules are found: a return address of another activation is the lost branch.
- In the same module, for `Practices = {}`: `[]NeverLost`,
  `[]DispatchMatchesBinding`, `[]ActiveIffOnStack`, `[]OneInstanceActive`. The invariant
  `Reliable` adds that nothing below an activation has the image of an unfinished
  call (`ImagesDescend`), that unfinished calls have different images
  (`GatesDiffer`), that what is on the stack is loaded, and that roots have
  different images. `AcyclicAssumption` makes `ImagesDescend` inductive; from it, the
  active module that an exit finds by program counter is the one that is leaving. That a
  name and a program counter lead to the same instance is a lemma about the two
  searches in one tree. The last theorem is `Spec => ImplementsCalls`, each action a step of
  `AbstractCalls` or a stutter.
- **`LoaderProofs`**: `[]TypeOK`, `[]TablesSet`, `[]NoSlotDangles`, `[]UsedIsAllocated` and
  `[]RootLeavesNothing` for any images, any number of modules and every order of
  loads, failures and drops. `Tree` is defined by recursion along `imported`. That it
  exists needs `InOrder` (a module is constructed before those it imports), by an
  induction from the newest module down (`TreeExists`); after that a tree is used
  only as the least set that holds its root and what its members import
  (`TreeIsClosure`). The five are not inductive. That destroying one root spares all
  others needs that a module has one parent (`OneParent`) or is a root
  (`RootsHaveNoParent`, `RootsAlive`), so that trees of different roots are disjoint, and
  that the live ones are closed under imports (`AliveClosed`). That nothing of a refused
  root is left needs that every block belongs to a root or to a dependency
  (`Accounted`). What each unfinished `load_module` has done so far is `Activations`: its
  module is imported by the one before and comes after it, and has the blocks of its
  stage. The invariant `IInv` is the conjunction.
- **`LoaderRefinement`**: `Spec => ImplementsLoading` for all images, with cycles of dependencies
  too: any failure at any depth included, the loader accepts what
  `AbstractLoader` accepts and links every module of a tree as it says. An image in `Endless`
  calls for another one (`EndlessCalls`), so that none is ever finished; along the calls of all others
  there is an induction (`AlongDependencies`), by which their trees exist (`PromisedTree`). The invariant
  `RInv` adds to `IInv` that a tree is an interval of numbers, depth first
  (`Consecutive`, `Unfinished`), that modules import what their images depend on
  (`Dependencies`), that LOT entries are what `find_symbol` finds (`Bound`), and where
  executables start (`Starts`). A module that has left `load_module` has, place by place,
  the tree of its image (`Matches`, by induction from the newest module down, and along
  dependencies for the tree of images). A search then finds the place of the first image that
  exports the symbol (`SearchFinds`), and a loaded tree is the promised one
  (`TreeIsLinked`). Each step inside of `load_module` is a stutter, as nothing that the host
  holds is touched; a refusal is `Answer` because one image in the tree of the request
  is not `Complete`, found by the step that refuses. Dropping a root leaves the trees of the others
  alone since live modules are closed under imports (`DestroyRefines`).
- **`LotRelocationProofs`**: `[]IndicesAreDense`, `[]CodeUsesItsEntry`, `[]TypeOK` for
  any number of symbols and references, with or without shared names. The invariant relates
  each entry and each omitted reference to the reference it was made for. Then
  `[]CodeReadsItsSymbol` for ELF files of every size, if no two symbols share a name and
  code that imports symbols refers to none that it exports (`~SameNames`,
  `~OwnReferences`: the conditions that the two findings about mkimage violate). For that
  `Computed` is added: image and LOT are functions of the ELF file and the relocations. That
  the LOT is filled right takes a lemma on numbering (the k-th member of a set and the
  rank of a member are inverse to each other), from which the writes of the loader, symbol
  table relocations first and local ones after, have each index once. What is read is
  then said without those conditions (`WhatIsRead`, `NameInTables`): an internal
  symbol itself, and otherwise the one with the name that the index selects, which is
  the right name, an imported one, or an exported one that comes earlier.
- **`LibraryBuildProofs`**: `[]TypeOK`, `[]ExportsAreGuarded`, `[]WrappersCallOriginals` and
  `[]OwnCodeReads` for any number of symbols of all kinds and any names. The invariant
  says what each step leaves to the next: wrapped functions, the linked symbols (`IsLinked`),
  names and bindings after `objcopy` (`IsRenamed`), the order of the symbol table
  (`IsPlaced` after the linker, `IsOrdered` after `objcopy`) and the ELF file (`IsElf`). From `mkimage` on it is the invariant of
  `LotRelocationProofs`, instantiated for the library's names and bounds; the step there is
  that the file is one of `LotRelocation`'s inputs, since no two global symbols share
  a name after the renaming. The order of the symbols is any that the linker may choose, so
  that a wrong index in a library with imports may also be that of a wrapper; without imports
  own code reads none.
- **`YaffLayoutProofs`**: `[]TypeOK` for any names, tables, sections and base addresses, and
  `[]ParserFindsParts` and `[]NamesAreRead` under `RoomForZero`, that the length of a
  module's name is not a multiple of 4. `RoomIsNeeded` shows that this condition is necessary: the
  table of libraries is found exactly when it holds, the statement behind the run
  `YaffLayout_name`. The image is a concatenation of parts, so a lemma on `FlattenSeq`
  (`FlattenPlaces`) says where each part begins; a string has as many words as `strlen` makes
  the reader skip (`StringFacts`, `StrlenFinds`), so each walk follows the entries it was
  written from (`DependenciesFollow`, `SymbolsFollow`).
- **`AddressesProofs`**: `[]TypeOK`, `[]ReferencesAgree` and `[]PointersAreMeant` for sections of
  any size at any addresses, exceptions included: both directions of each
  equivalence. The invariant describes image, init, data and refs as functions of the ELF
  file at each stage.

The assumptions: `KindAssumption`, `TreeAssumption` and `OwnershipAssumption` describe
how trees of modules are built; `ImageAssumption` says what an image of `Loader` is
(nothing about cycles: a load that never ends breaks no invariant), and `EndlessAssumption`
which images `Endless` names; `AcyclicAssumption` says that what `CallGate` has loaded has no
cycles, which `module.hpp:68` asks for, and which no loaded module can have; `ImportAssumption` is how linkers resolve symbols;
`SectionAssumption` asks for a nonempty `.text` that is not at address 0, and that the vector
of `.init_arrays` is neither right after the text nor where `.data` is: with these a wrong
address cannot be right by accident; `NameAssumption` that the names objcopy gives are
new and that a library does not define `main`. TLC evaluates each on the instances.

## 5. Only model-checked

`EveryRequestAnswered`: liveness is out of the prover's reach. All other invariants and both
refinements that the runs check are theorems as well.

## 6. Abstractions worth knowing

- r4 is saved and restored with the return address and is not modelled apart from it.
- The loader may be called by the host only outside of `load_module` (in `Loader`), but
  from any depth of calls (in `CallGate`, where a load is one step).
- Dropping a root removes it from the lists (eul's observing list, which is not part
  of the repository); its text, shared and in flash, stays.
- An address of what was copied to memory that was never allocated has no meaning: after
  "undefined" (memory ran out, or `execute` without an address) the models stop.
- Words of `.init_arrays` hold functions only; `relocate_init` looks at all of them.
- In `YaffLayout` section lengths are what the linker scripts make them (multiples of 4).
- `src/Readme.md` gives the section flag of a data relocation to the word `to`; code writes
  it to `from` (`mkimage.py:344`, `data_relocation.cpp:37`). The models follow the code.
- Comments at `loader.cpp:363` and `369` speak of imported symbols, then of own ones;
  `Module::find_symbol` (`module.cpp:84`) looks at its own first. The unit test
  `tests/mkimage_tests/test_generate_image.py` expects a header of an earlier layout. The
  models follow the code in both.

## 7. Not modelled

What happens when a cycle of dependencies has used up the machine's stack; the memory of a LOT
given to another instance while calls of the first are under way; threads and
interrupts (one context and one flag per module: outside of the code's contract); code
in RAM (program counters in `.data` and `.bss`); unwrapped function pointers that one
module passes to another; two loaders with different allocators, which share one
holder; the linker and its scripts; the host stub for unit tests; logging; the
exceptions by which mkimage refuses an input; `headers_parsers.py`, which nothing calls.

## 8. Plan

Order: the call gate first, since a mistake there corrupts memory far from its cause;
then the loader, the LOT, the layout, the addresses and the build of libraries. All six
are in place, and all that is checked of them, but for liveness, is proved. What is
left is finer: which of the properties that are proved for `Practices = {}` survive each
practice taken alone, and which refinement of `AbstractCalls` that leaves.
