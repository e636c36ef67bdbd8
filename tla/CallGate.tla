------------------------------ MODULE CallGate ------------------------------
(***************************************************************************)
(* Calls between loaded modules (arch/armv6-m/call.S, call_wrapped.s.tmpl, *)
(* supervisor_call.cpp, and the searches of loader.cpp and module.cpp they *)
(* rest on).                                                               *)
(*                                                                         *)
(* The text of an image is executed in place, so all instances of an image *)
(* share it; each instance has its own offset table (LOT), which its code  *)
(* expects r9 to address.  Every exported function of a library sits       *)
(* behind a wrapper.  On entry the wrapper asks the loader, by its program *)
(* counter and the caller's r9, which instance is called; the caller's     *)
(* r9, lr and r4 go to the ONE context slot of that instance, which is     *)
(* marked active.  On exit the wrapper asks for an active instance by its  *)
(* program counter alone and takes the caller's registers back from there. *)
(*                                                                         *)
(* Abstractions.  An address is known by what it belongs to: a wrapper's   *)
(* program counter by its image, a LOT address by its instance, a return   *)
(* address (and the caller's r4, saved and restored with it) by the depth  *)
(* of the activation it belongs to.  Bound: MaxDepth activations.          *)
(***************************************************************************)
EXTENDS Naturals, FiniteSetsExt, SequencesExt

CONSTANTS
  Instances,    \* Module objects, those created for dependencies included
  Executables,  \* the instances the host loads with load_executable
  Libraries,    \* the instances the host loads with load_library
  Images,       \* YAFF images
  ImageOf,      \* the image each instance was loaded from
  Tree,         \* an instance and its imported_modules_, depth first
  Symbols,      \* names of functions
  Exports,      \* the exported symbol table of each image
  Imports,      \* the imported symbol table of each image
  EmptyLot,     \* images without relocations: the LOT of a module is nullptr
  EnvSymbols,   \* the symbols of the Environment given to the loader
  Host,         \* the runtime system; also the r9 it runs with
  NoModule,     \* nullptr, or an address that is no LOT
  Practices,    \* what clients do besides calls to imported functions
  MaxDepth      \* bound on the depth of nested calls

Roots == Executables \cup Libraries

\* The modules an instance imports, directly or not.
Below(m) == {Tree[m][k] : k \in DOMAIN Tree[m] \ {1}}

ASSUME KindAssumption ==
  /\ Roots \subseteq Instances
  /\ Host \notin Instances
  /\ NoModule \notin Instances \cup {Host}
  /\ ImageOf \in [Instances -> Images]
  /\ Exports \in [Images -> SUBSET Symbols]
  /\ Imports \in [Images -> SUBSET Symbols]
  /\ EmptyLot \subseteq Images /\ \A i \in EmptyLot : Imports[i] = {}
  /\ Practices \subseteq {"callback", "null", "spawn", "transitive", "twice", "unload"}
  /\ MaxDepth \in Nat \ {0}

\* Tree[m] lists m and, for each import in order, the tree of that import.
ASSUME TreeAssumption ==
  /\ Tree \in [Instances -> Seq(Instances)]
  /\ \A m \in Instances : 1 \in DOMAIN Tree[m] /\ Tree[m][1] = m
  /\ \A m \in Instances : \A k \in DOMAIN Tree[m] :
       \A j \in DOMAIN Tree[Tree[m][k]] :
         /\ k + j - 1 \in DOMAIN Tree[m]
         /\ Tree[m][k + j - 1] = Tree[Tree[m][k]][j]

\* No module imports, directly or not, the image it was made from: the loader
\* would recurse for ever on a cycle of dependencies.
ASSUME AcyclicAssumption ==
  \A m \in Instances : \A x \in Below(m) : ImageOf[x] # ImageOf[m]

\* A Module owns the modules it imports (std::unique_ptr).
ASSUME OwnershipAssumption ==
  \A a, b \in Roots : a # b => Range(Tree[a]) \cap Range(Tree[b]) = {}

\* A symbol an image defines is not one it imports.
ASSUME ImportAssumption ==
  \A i \in Images : Imports[i] \cap Exports[i] = {}

VARIABLES
  executables,  \* Loader::executables_
  libraries,    \* Loader::libraries_
  active,       \* Module::active_
  ctx,          \* Module::foreign_call_context_
  r9,           \* the register: whose LOT it addresses
  frames,       \* the activations on the machine stack, newest last
  control       \* "lost" once the machine runs what nobody asked for

vars == <<executables, libraries, active, ctx, r9, frames, control>>

Registers == Instances \cup {Host, NoModule}

\* foreign_call_context_ has no initialiser; no caller is as deep as this.
Indeterminate == [r9 |-> NoModule, lr |-> MaxDepth]
Context == [r9 : Instances \cup {Host}, lr : 0..MaxDepth - 1] \cup {Indeterminate}

\* "gate": entered through a wrapper; "main": through call_main or call_entry;
\* "plain": a function of the environment.  bound is the instance the caller
\* meant to call, r9 the caller's.  A "main" activation keeps r9 on the stack
\* (call.S); for the others bound and r9 are history, which no step reads.
Frame == [kind : {"gate", "main", "plain"},
          code : Instances \cup {Host},
          bound : Instances \cup {Host},
          r9 : Instances \cup {Host}]

Depth == Len(frames)
Top == Last(frames)
Code == IF frames = <<>> THEN Host ELSE Top.code

Loaded == executables \o libraries
IsLoaded(m) == \E k \in DOMAIN Loaded : m \in Range(Tree[Loaded[k]])
-----------------------------------------------------------------------------
(***************************************************************************)
(* The searches.  Each loop over modules returns the first that matches.   *)
(***************************************************************************)
FirstIn(seq, S) ==
  LET hits == {k \in DOMAIN seq : seq[k] \in S}
  IN  IF hits = {} THEN NoModule ELSE seq[Min(hits)]

\* Depth first in the tree of each loaded root, executables before libraries.
FirstLoaded(S) ==
  LET root == FirstIn(Loaded, {m \in Roots : Range(Tree[m]) \cap S # {}})
  IN  IF root = NoModule THEN NoModule ELSE FirstIn(Tree[root], S)

InstancesOf(image) == {m \in Instances : ImageOf[m] = image}

find_any_module(image) == FirstLoaded(InstancesOf(image))            \* mutant
find_active_module(image) ==
  FirstLoaded({m \in InstancesOf(image) : active[m]})

\* r9 holds nullptr: a module without relocations runs with it, and the host may.
IsNull(lot) ==
  \/ lot = Host /\ "null" \in Practices
  \/ lot \in Instances /\ ImageOf[lot] \in EmptyLot

\* The modules whose lot_.data() is the address in r9.
AtLot(lot) ==
  {m \in Instances : m = lot \/ (IsNull(lot) /\ ImageOf[m] \in EmptyLot)}

find_module_with_lot(lot) == FirstLoaded(AtLot(lot))

find_in_all_modules(image, lot) == FirstLoaded(InstancesOf(image))   \* mutant

\* Called from a module: search what it imports.  Called from the runtime
\* system, whose r9 should be no LOT: the loaded roots, not their imports.
find_module_for_pc_and_lot(image, lot) ==
  LET parent == find_module_with_lot(lot)
  IN  IF parent = NoModule THEN FirstIn(Loaded, InstancesOf(image))
                           ELSE FirstIn(Tree[parent], InstancesOf(image))

\* Loader::find_symbol: the environment first, then the module and what it
\* imports.  The result names the instance whose symbol it is.
find_symbol(m, s) ==
  IF s \in EnvSymbols THEN Host
  ELSE FirstIn(Tree[m], {x \in Instances : s \in Exports[ImageOf[x]]})

\* process_symbol_table_relocations succeeds for every module of the tree.
Resolved(m) ==
  \A x \in Range(Tree[m]) : \A s \in Imports[ImageOf[x]] :
    find_symbol(x, s) # NoModule
-----------------------------------------------------------------------------
(***************************************************************************)
(* What clients do.  With no Practices they keep to calls of functions     *)
(* they import and of the host through a library it loaded.  Each practice *)
(* adds something the interface permits.                                   *)
(***************************************************************************)
InUse(m) == \E k \in DOMAIN frames : frames[k].code \in Range(Tree[m])

\* No image of the tree is the image of an active module.
NoneActive(m) ==
  \A x \in Range(Tree[m]) : \A y \in Instances :
    active[y] => ImageOf[x] # ImageOf[y]

MayLoad(m) ==
  \/ "twice" \in Practices
  \/ \A k \in DOMAIN Loaded : ImageOf[Loaded[k]] # ImageOf[m]
MayDrop(m) == "unload" \in Practices \/ ~InUse(m)
MayExecute(m) == "spawn" \in Practices \/ NoneActive(m)
MayCallInto(h, x) ==
  /\ "transitive" \in Practices \/ x = h
  /\ "callback" \in Practices \/ r9 = Host
-----------------------------------------------------------------------------
Init ==
  /\ executables = <<>>
  /\ libraries = <<>>
  /\ active = [m \in Instances |-> FALSE]
  /\ ctx = [m \in Instances |-> Indeterminate]
  /\ r9 = Host
  /\ frames = <<>>
  /\ control = "running"

Running(c) == control = "running" /\ Code = c

\* Module objects are constructed, for the root and everything it imports.
Construct(m) ==
  /\ active' = [x \in Instances |-> active[x] /\ x \notin Range(Tree[m])]
  /\ ctx' = [x \in Instances |->
               IF x \in Range(Tree[m]) THEN Indeterminate ELSE ctx[x]]

load_executable(m) ==
  /\ Running(Host)
  /\ m \notin Range(Loaded) /\ MayLoad(m)
  /\ Resolved(m)
  /\ Construct(m)
  /\ executables' = Append(executables, m)
  /\ UNCHANGED <<libraries, r9, frames, control>>

load_library(m) ==
  /\ Running(Host)
  /\ m \notin Range(Loaded) /\ MayLoad(m)
  /\ Resolved(m)
  /\ Construct(m)
  /\ libraries' = Append(libraries, m)
  /\ UNCHANGED <<executables, r9, frames, control>>

\* The host drops its handle; the observing node leaves the loader's list.
Drop(m) ==
  /\ Running(Host) /\ MayDrop(m)
  /\ \/ \E k \in DOMAIN executables :
          /\ executables[k] = m
          /\ executables' = RemoveAt(executables, k)
          /\ UNCHANGED libraries
     \/ \E k \in DOMAIN libraries :
          /\ libraries[k] = m
          /\ libraries' = RemoveAt(libraries, k)
          /\ UNCHANGED executables
  /\ UNCHANGED <<active, ctx, r9, frames, control>>
-----------------------------------------------------------------------------
Push(kind, code, bound) ==
  frames' = Append(frames,
                   [kind |-> kind, code |-> code, bound |-> bound, r9 |-> r9])

\* call_main and call_entry: r9 to the stack, the executable's LOT into r9.
execute(m) ==
  /\ Running(Host) /\ Depth < MaxDepth
  /\ m \in Range(executables) /\ MayExecute(m)
  /\ Push("main", m, m)
  /\ r9' = m
  /\ UNCHANGED <<executables, libraries, active, ctx, control>>

ReturnFromMain ==
  /\ control = "running" /\ frames # <<>> /\ Top.kind = "main"
  /\ r9' = Top.r9
  /\ frames' = Front(frames)
  /\ UNCHANGED <<executables, libraries, active, ctx, control>>

\* A function of the environment is called through the LOT, with no wrapper.
CallEnvironment(m, s) ==
  /\ Running(m) /\ r9 = m /\ Depth < MaxDepth
  /\ s \in Imports[ImageOf[m]] /\ find_symbol(m, s) = Host
  /\ Push("plain", Host, Host)
  /\ UNCHANGED <<executables, libraries, active, ctx, r9, control>>

ReturnFromEnvironment ==
  /\ control = "running" /\ frames # <<>> /\ Top.kind = "plain"
  /\ frames' = Front(frames)
  /\ UNCHANGED <<executables, libraries, active, ctx, r9, control>>

\* The state a call keeps in the module it enters.  The mutants save the
\* address the wrapper returns to, keep the callee's r9, never deactivate.
save_own_lr(m) == ctx' = [ctx EXCEPT ![m] = [r9 |-> r9, lr |-> Depth + 1]]
save_caller_state(m) == ctx' = [ctx EXCEPT ![m] = [r9 |-> r9, lr |-> Depth]]

restore_lr_only(m) == [ctx[m] EXCEPT !.r9 = r9]
restore_caller_state(m) == ctx[m]

set_active_only(m, value) == active' = [active EXCEPT ![m] = TRUE]
set_active(m, value) == active' = [active EXCEPT ![m] = value]

\* The wrapper of a function of x is entered: its first half and
\* process_entry_supervisor_call.  When no module is found the program counter
\* stays in args[0] and goes to r9 as if it were a LOT.
Enter(x) ==
  LET m == find_module_for_pc_and_lot(ImageOf[x], r9)
  IN  /\ Depth < MaxDepth
      /\ UNCHANGED <<executables, libraries>>
      /\ \/ /\ m # NoModule
            /\ save_caller_state(m)
            /\ set_active(m, TRUE)
            /\ Push("gate", m, x)
            /\ r9' = m
            /\ UNCHANGED control
         \/ /\ m = NoModule
            /\ r9' = NoModule
            /\ control' = "lost"
            /\ UNCHANGED <<active, ctx, frames>>

\* A module calls a function it imports, through its LOT.
CallImport(m, s) ==
  /\ Running(m) /\ r9 = m
  /\ s \in Imports[ImageOf[m]] /\ find_symbol(m, s) \in Instances
  /\ Enter(find_symbol(m, s))

\* The host calls a function it got with SymbolGet from a library it loaded;
\* Module::find_symbol also looks in the library's imports.
CallLibrary(h, x) ==
  /\ Running(Host)
  /\ h \in Range(libraries) /\ x \in Range(Tree[h]) /\ MayCallInto(h, x)
  /\ Enter(x)

\* A module calls a function pointer it was handed: any wrapper of a library.
CallPointer(m, x) ==
  /\ "callback" \in Practices
  /\ Running(m) /\ IsLoaded(x) /\ x \notin Executables
  /\ Enter(x)

\* The second half of the wrapper and process_exit_supervisor_call.  When no
\* module is found the wrapper jumps to args[0], which is still an address in
\* the wrapper; a return address of another activation is no better.
Leave ==
  LET m == find_active_module(ImageOf[Top.code])
  IN  /\ control = "running" /\ frames # <<>> /\ Top.kind = "gate"
      /\ UNCHANGED <<executables, libraries, ctx>>
      /\ \/ /\ m # NoModule
            /\ set_active(m, FALSE)
            /\ r9' = restore_caller_state(m).r9
            /\ \/ /\ restore_caller_state(m).lr = Depth - 1
                  /\ frames' = Front(frames)
                  /\ UNCHANGED control
               \/ /\ restore_caller_state(m).lr # Depth - 1
                  /\ control' = "lost"
                  /\ UNCHANGED frames
         \/ /\ m = NoModule
            /\ control' = "lost"
            /\ UNCHANGED <<active, r9, frames>>
-----------------------------------------------------------------------------
Next ==
  \/ \E m \in Executables : load_executable(m) \/ execute(m)
  \/ \E m \in Libraries : load_library(m)
  \/ \E m \in Roots : Drop(m)
  \/ \E m \in Instances, s \in Symbols : CallEnvironment(m, s) \/ CallImport(m, s)
  \/ \E h \in Libraries, x \in Instances : CallLibrary(h, x)
  \/ \E m, x \in Instances : CallPointer(m, x)
  \/ ReturnFromMain \/ ReturnFromEnvironment \/ Leave

Spec == Init /\ [][Next]_vars
-----------------------------------------------------------------------------
(***************************************************************************)
(* Properties that hold whatever clients do.                               *)
(***************************************************************************)

\* Every variable keeps its type; in particular a context never holds a return
\* address deeper than the machine stack can be.
TypeOK ==
  /\ executables \in Seq(Executables)
  /\ libraries \in Seq(Libraries)
  /\ active \in [Instances -> BOOLEAN]
  /\ ctx \in [Instances -> Context]
  /\ r9 \in Registers
  /\ frames \in Seq(Frame)
  /\ Depth <= MaxDepth
  /\ control \in {"running", "lost"}

\* What r9 has to be while the k-th activation runs: its own LOT, and in a
\* function of the environment the LOT of the module that called it.
Own(k) ==
  IF k = 0 THEN Host
  ELSE IF frames[k].kind = "plain" THEN frames[k].r9 ELSE frames[k].code

\* A module's code runs with r9 addressing the LOT of that very instance, never
\* of another instance of its image or of its caller (call_wrapped.s.tmpl,
\* call.S: without it every access to a global goes to someone else's data).
RunsOnOwnLot == control = "running" => r9 = Own(Depth)

\* Every caller on the stack, too, was running on its own LOT when it called.
CallersOnOwnLot ==
  \A k \in DOMAIN frames :
    /\ frames[k].r9 = Own(k - 1)
    /\ frames[k].kind = "plain" <=> frames[k].code = Host

\* The context slot of an active module belongs to an activation of it that is
\* still on the stack, so what an exit restores is never indeterminate, left
\* over from an earlier call, or another caller's (Module::save_caller_state).
ContextIsLive ==
  \A m \in Instances : active[m] =>
    \E k \in DOMAIN frames :
      /\ frames[k].kind = "gate" /\ frames[k].code = m
      /\ ctx[m] = [r9 |-> frames[k].r9, lr |-> k - 1]

\* The callers of the activations, suspended until these return.
Suspended ==
  [k \in DOMAIN frames |->
     [code |-> IF k = 1 THEN Host ELSE frames[k - 1].code, r9 |-> frames[k].r9]]

Calls == INSTANCE AbstractCalls WITH
  Modules <- Instances, Reliable <- Practices = {}, code <- Code, stack <- Suspended

\* Calls are the abstract ones: a return gives the caller its control and its
\* r9 back, and with no Practices control is never lost.
ImplementsCalls == Calls!Spec
-----------------------------------------------------------------------------
(***************************************************************************)
(* Properties that rest on how clients call (Practices = {}).              *)
(***************************************************************************)

\* Every entry and every exit finds the module it looks for (the two branches
\* that supervisor_call.cpp leaves with "TODO: implement panic").
NeverLost == control = "running"

\* A call runs on the instance whose symbol the loader put in the LOT, or whose
\* handle the host used: what is found by program counter and LOT at run time is
\* what was found by name at load time (find_symbol, find_module_for_pc_and_lot).
DispatchMatchesBinding == \A k \in DOMAIN frames : frames[k].code = frames[k].bound

\* A module is active exactly while a call through its wrapper is unfinished.
ActiveIffOnStack ==
  \A m \in Instances :
    active[m] <=> \E k \in DOMAIN frames :
                    frames[k].kind = "gate" /\ frames[k].code = m

\* module.hpp: "In single threaded only one instance of library is active".
OneInstanceActive ==
  \A x, y \in Instances :
    active[x] /\ active[y] /\ ImageOf[x] = ImageOf[y] => x = y

\* module.hpp: saving the caller's state in the module "Works thanks to
\* limitation that shared libraries cannot contain cyclic dependency", which
\* AcyclicAssumption grants: every return comes back to its caller.
LeaveRestoresCaller ==
  [][Leave => control' = "running" /\ r9' = Top.r9]_vars
=============================================================================
