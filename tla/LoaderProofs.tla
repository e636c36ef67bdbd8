----------------------------- MODULE LoaderProofs -----------------------------
(***************************************************************************)
(* Theorems about Loader, for all images and any number of them: its types,*)
(* that the tables a search reads are set, that no slot of a live module   *)
(* refers outside its tree, that what a live module uses is allocated and  *)
(* that a root leaves nothing behind.                                      *)
(*                                                                         *)
(* The first part is about trees in general: they are defined by recursion *)
(* along imported, and exist because a module is constructed before what   *)
(* it imports.  Only that they are the least closed sets is used after it. *)
(* The second states the invariant; then one lemma for each step keeps it. *)
(***************************************************************************)
EXTENDS Loader, SequenceLemmas, TLAPS

\* How the tree of n is made of those of what it imports (Tree of Loader).
Node(mods, tree, n) ==
  <<n>> \o FlattenSeq([k \in DOMAIN mods[n].imported |-> tree[mods[n].imported[k]]])

\* What a module imports was constructed after it.
Ordered(mods, N) ==
  /\ N \in Nat /\ DOMAIN mods = 1..N
  /\ \A n \in 1..N : mods[n].imported \in Seq(n + 1..N)

\* What module n imports has a greater number.
LEMMA ImportedLater ==
  ASSUME NEW N, NEW mods, Ordered(mods, N), NEW n \in 1..N
  PROVE  /\ mods[n].imported \in Seq(n + 1..N)
         /\ \A k \in DOMAIN mods[n].imported : mods[n].imported[k] \in n + 1..N
<1> DEFINE U == n + 1..N
           imp == mods[n].imported
<1>1. imp \in Seq(U)
  BY DEF Ordered
<1>2. \A k \in DOMAIN imp : imp[k] \in U
  <2> HIDE DEF U, imp
  <2> QED BY <1>1, ElementOfSeq
<1> QED BY <1>1, <1>2

\* So the trees of modules, which are defined by recursion, exist.
LEMMA TreeExists ==
  ASSUME NEW N, NEW mods, Ordered(mods, N)
  PROVE  \E tree : tree = [n \in 1..N |-> Node(mods, tree, n)]
<1> DEFINE IsTree(tree, k) == tree = [n \in N - k + 1..N |-> Node(mods, tree, n)]
           S == {k \in 0..N : \E tree : IsTree(tree, k)}
<1>1. N \in Nat
  BY DEF Ordered
<1>2. 0 \in S
  <2>1. N - 0 + 1..N = {}
    BY <1>1
  <2>2. IsTree([n \in {} |-> 0], 0)
    BY <2>1
  <2>3. 0 \in 0..N
    BY <1>1
  <2> HIDE DEF IsTree
  <2> QED BY <2>2, <2>3
<1>3. ASSUME NEW k \in 0..N - 1, k \in S PROVE k + 1 \in S
  <2>1. k + 1 \in 0..N /\ N - k \in 1..N
    BY <1>1
  <2>2. PICK tree : IsTree(tree, k)
    BY <1>3
  <2> DEFINE more == [n \in N - (k + 1) + 1..N |-> Node(mods, tree, n)]
  <2>3. ASSUME NEW c \in N - k + 1..N PROVE more[c] = tree[c]
    <3>1. tree[c] = Node(mods, tree, c)
      BY <2>2
    <3>2. c \in N - (k + 1) + 1..N
      BY <1>1, <2>1
    <3> QED BY <3>1, <3>2
  <2>4. ASSUME NEW n \in N - (k + 1) + 1..N PROVE Node(mods, more, n) = Node(mods, tree, n)
    <3>1. n \in 1..N
      BY <1>1, <2>1
    <3>2. mods[n].imported \in Seq(n + 1..N)
      BY <3>1 DEF Ordered
    <3>3. ASSUME NEW j \in DOMAIN mods[n].imported
          PROVE  more[mods[n].imported[j]] = tree[mods[n].imported[j]]
      <4>1. mods[n].imported[j] \in n + 1..N
        BY <3>1, <3>3, ImportedLater
      <4>2. mods[n].imported[j] \in N - k + 1..N
        BY <1>1, <2>1, <4>1
      <4> HIDE DEF more
      <4> QED BY <2>3, <4>2
    <3> HIDE DEF more
    <3> QED BY <3>3 DEF Node
  <2>5. IsTree(more, k + 1)
    BY <2>4
  <2> HIDE DEF IsTree, more
  <2> QED BY <2>1, <2>5
<1>4. N \in S
  <2> HIDE DEF S
  <2>1. \A k \in 0..N : k \in S
    BY <1>1, <1>2, <1>3, UpFrom
  <2> QED BY <1>1, <2>1
<1>5. PICK tree : IsTree(tree, N)
  BY <1>4
<1>6. N - N + 1..N = 1..N
  BY <1>1
<1> QED BY <1>5, <1>6

\* What a member of S imports is in S.
Closed(mods, S) ==
  \A x \in S : \A k \in DOMAIN mods[x].imported : mods[x].imported[k] \in S

\* The tree of a module is the least set that holds the module and what its members
\* import.
LEMMA TreeIsClosure ==
  ASSUME NEW N, NEW mods, Ordered(mods, N),
         NEW tree, tree = [n \in 1..N |-> Node(mods, tree, n)]
  PROVE  \A n \in 1..N :
           /\ tree[n] \in Seq(n..N) /\ n \in Range(tree[n])
           /\ Closed(mods, Range(tree[n]))
           /\ \A S \in SUBSET (1..N) : n \in S /\ Closed(mods, S) => Range(tree[n]) \subseteq S
<1> DEFINE P(n) == /\ tree[n] \in Seq(n..N) /\ n \in Range(tree[n])
                   /\ Closed(mods, Range(tree[n]))
                   /\ \A S \in SUBSET (1..N) :
                        n \in S /\ Closed(mods, S) => Range(tree[n]) \subseteq S
           G == {n \in 1..N : P(n)}
<1>1. N \in Nat
  BY DEF Ordered
<1>2. ASSUME NEW n \in 1..N, \A m \in n + 1..N : m \in G PROVE n \in G
  <2> DEFINE imp == mods[n].imported
             below == [k \in DOMAIN imp |-> tree[imp[k]]]
             T == n..N
  <2>1. imp \in Seq(n + 1..N) /\ \A k \in DOMAIN imp : imp[k] \in n + 1..N
    BY ImportedLater
  <2>2. \A k \in DOMAIN imp : P(imp[k])
    <3> HIDE DEF P
    <3> QED BY <1>2, <2>1
  <2>3. tree[n] = <<n>> \o FlattenSeq(below)
    BY DEF Node
  <2>4. \A k \in DOMAIN imp : tree[imp[k]] \in Seq(T)
    <3>1. SUFFICES ASSUME NEW k \in DOMAIN imp PROVE tree[imp[k]] \in Seq(T)
      OBVIOUS
    <3>2. tree[imp[k]] \in Seq(imp[k]..N)
      BY <2>2
    <3>3. imp[k]..N \subseteq T
      BY <2>1
    <3> HIDE DEF T, imp
    <3> QED BY ONLY <3>2, <3>3, WiderSeq
  <2>5. below \in Seq(Seq(T)) /\ DOMAIN below = DOMAIN imp
    BY <2>1, <2>4
  <2>6. /\ FlattenSeq(below) \in Seq(T)
        /\ Range(FlattenSeq(below)) = UNION {Range(below[k]) : k \in DOMAIN below}
    <3> HIDE DEF below, T
    <3> QED BY <2>5, FlattenIsUnion
  <2>7. n \in T /\ <<n>> \in Seq(T) /\ Range(<<n>>) = {n}
    BY <1>1 DEF Range
  <2>8. tree[n] \in Seq(T) /\ Range(tree[n]) = {n} \cup Range(FlattenSeq(below))
    <3> HIDE DEF below, T, imp, P, G
    <3>1. <<n>> \o FlattenSeq(below) \in Seq(T)
      BY ONLY <2>6, <2>7, RangeOfConcatenation
    <3>2. Range(<<n>> \o FlattenSeq(below)) = Range(<<n>>) \cup Range(FlattenSeq(below))
      BY ONLY <2>6, <2>7, RangeOfConcatenation
    <3> QED BY ONLY <2>3, <2>7, <3>1, <3>2
  <2>9. Range(tree[n]) = {n} \cup UNION {Range(tree[imp[k]]) : k \in DOMAIN imp}
    BY <2>5, <2>6, <2>8
  <2> HIDE DEF below
  <2>10. Closed(mods, Range(tree[n]))
    <3>1. SUFFICES ASSUME NEW x \in Range(tree[n]), NEW k \in DOMAIN mods[x].imported
                   PROVE  mods[x].imported[k] \in Range(tree[n])
      BY DEF Closed
    <3>2. CASE x = n
      BY <2>2, <2>9, <3>2
    <3>3. CASE x # n
      <4>1. PICK j \in DOMAIN imp : x \in Range(tree[imp[j]])
        BY <2>9, <3>3
      <4>2. Closed(mods, Range(tree[imp[j]]))
        BY <2>2
      <4> QED BY <2>9, <4>1, <4>2 DEF Closed
    <3> QED BY <3>2, <3>3
  <2>11. ASSUME NEW S \in SUBSET (1..N), n \in S, Closed(mods, S)
         PROVE  Range(tree[n]) \subseteq S
    <3>1. \A k \in DOMAIN imp : imp[k] \in S
      BY <2>11 DEF Closed
    <3>2. \A k \in DOMAIN imp : Range(tree[imp[k]]) \subseteq S
      BY <2>2, <2>11, <3>1
    <3> QED BY <2>9, <2>11, <3>2
  <2>12. P(n)
    BY <2>8, <2>9, <2>10, <2>11
  <2> QED BY <2>12
<1>3. \A n \in 1..N : n \in G
  <2> HIDE DEF G
  <2> QED BY <1>1, <1>2, FromAbove
<1> QED BY <1>3

\* The function that trees of modules are.
TreeOf(mods) == CHOOSE tree : tree = [n \in DOMAIN mods |-> Node(mods, tree, n)]

\* A tree is made of those of what its root imports.
LEMMA TreeEquation ==
  ASSUME NEW N, NEW mods, Ordered(mods, N)
  PROVE  TreeOf(mods) = [n \in 1..N |-> Node(mods, TreeOf(mods), n)]
<1> DEFINE IsTree(t) == t = [m \in 1..N |-> Node(mods, t, m)]
<1>1. DOMAIN mods = 1..N
  BY DEF Ordered
<1>2. \E t : IsTree(t)
  <2>1. \E t : t = [m \in 1..N |-> Node(mods, t, m)]
    BY TreeExists
  <2> QED BY <2>1
<1>3. TreeOf(mods) = CHOOSE t : IsTree(t)
  BY <1>1 DEF TreeOf
<1>4. IsTree(TreeOf(mods))
  <2> HIDE DEF IsTree
  <2> QED BY <1>2, <1>3
<1> QED BY <1>4

\* The tree of module n is the least set that holds n and what its members import.
LEMMA TreesAreClosures ==
  ASSUME NEW N, NEW mods, Ordered(mods, N), NEW n \in 1..N
  PROVE  /\ TreeOf(mods)[n] \in Seq(n..N)
         /\ n \in Range(TreeOf(mods)[n]) /\ Range(TreeOf(mods)[n]) \subseteq n..N
         /\ Closed(mods, Range(TreeOf(mods)[n]))
         /\ \A S \in SUBSET (1..N) : n \in S /\ Closed(mods, S) =>
                                       Range(TreeOf(mods)[n]) \subseteq S
<1> DEFINE tree == TreeOf(mods)
<1>1. tree = [m \in 1..N |-> Node(mods, tree, m)]
  BY TreeEquation
<1> HIDE DEF tree
<1>2. /\ tree[n] \in Seq(n..N) /\ n \in Range(tree[n])
      /\ Closed(mods, Range(tree[n]))
      /\ \A S \in SUBSET (1..N) : n \in S /\ Closed(mods, S) => Range(tree[n]) \subseteq S
  BY <1>1, TreeIsClosure
<1>3. Range(tree[n]) \subseteq n..N
  <2> DEFINE T == n..N
  <2>1. tree[n] \in Seq(T)
    BY <1>2
  <2>2. \A k \in DOMAIN tree[n] : tree[n][k] \in T
    <3> HIDE DEF T
    <3> QED BY <2>1, ElementOfSeq
  <2> QED BY <2>2 DEF Range
<1> QED BY <1>2, <1>3 DEF tree

\* What a module imports, it imports ever after.
Kept(mods, more) ==
  \A n \in DOMAIN mods : \A k \in DOMAIN mods[n].imported :
    k \in DOMAIN more[n].imported /\ more[n].imported[k] = mods[n].imported[k]

\* A tree only grows with what its members import.
LEMMA TreesGrow ==
  ASSUME NEW N, NEW mods, Ordered(mods, N), NEW M, NEW more, Ordered(more, M), N <= M,
         Kept(mods, more),
         NEW n \in 1..N
  PROVE  Range(TreeOf(mods)[n]) \subseteq Range(TreeOf(more)[n])
<1> DEFINE S == Range(TreeOf(more)[n]) \cap 1..N
<1>1. N \in Nat /\ M \in Nat /\ n \in 1..M
  BY DEF Ordered
<1>2. n \in S
  BY <1>1, TreesAreClosures
<1>3. Closed(mods, S)
  <2>1. SUFFICES ASSUME NEW x \in S, NEW k \in DOMAIN mods[x].imported
                 PROVE  mods[x].imported[k] \in S
    BY DEF Closed
  <2>2. mods[x].imported[k] \in 1..N
    <3>1. x \in 1..N
      OBVIOUS
    <3>2. mods[x].imported[k] \in x + 1..N
      BY <3>1, ImportedLater
    <3> QED BY <1>1, <3>1, <3>2
  <2>3. Closed(more, Range(TreeOf(more)[n]))
    BY <1>1, TreesAreClosures
  <2>4. k \in DOMAIN more[x].imported /\ more[x].imported[k] = mods[x].imported[k]
    BY DEF Kept, Ordered
  <2> QED BY <2>2, <2>3, <2>4 DEF Closed
<1>4. Range(TreeOf(mods)[n]) \subseteq S
  <2>1. S \in SUBSET (1..N)
    OBVIOUS
  <2> HIDE DEF S
  <2> QED BY <1>2, <1>3, <2>1, TreesAreClosures
<1> QED BY <1>4

-----------------------------------------------------------------------------
\* The sets that the variables take their values from.
Stages == {"header", "modules", "dependencies", "data", "symbols", "relocations", "loaded"}

Lots == {<<>>} \cup UNION {[Slots(i) -> Int] : i \in Images}

Module ==
  [image : Images \cup {NoImage}, class : {"executable", "library"},
   lot : Lots,
   data : {"none", "copied", "relocated"}, exported : BOOLEAN, imported : Seq(Nat),
   has_entry : BOOLEAN, main : Int]

Activation == [module : Nat, stage : Stages, next : Nat]

\* Modules that exist; what a module imports; its tree.
Alive == {n \in DOMAIN modules : modules[n].image # NoImage}

Imports(n) == Range(modules[n].imported)
Below(n) == Range(Tree[n])

\* The module that load_executable or load_library is loading, and all that are nobody's
\* dependency.
Loading == IF stack = <<>> THEN {} ELSE {stack[1].module}
Roots == Range(executables) \cup Range(libraries) \cup Loading

\* What the host was last told.
Results == {"none", "loaded", "refused", "entry", "main", "error", "found", "missing",
            "undefined"}

\* Types, as far as they do not depend on trees.
Typed ==
  /\ environment \in Environments /\ resolver \in BOOLEAN
  /\ modules \in Seq(Module) /\ stack \in Seq(Activation)
  /\ executables \in Seq(DOMAIN modules) /\ libraries \in Seq(DOMAIN modules)
  /\ heap \subseteq [owner : Nat, use : {"lot", "init", "data", "modules", "object"}]
  /\ result \in Results

\* What a module imports was constructed after it.
InOrder == \A n \in DOMAIN modules : modules[n].imported \in Seq(n + 1..Len(modules))

\* What the fields of a module say of each other.
Sound ==
  \A n \in DOMAIN modules :
    /\ modules[n].has_entry => modules[n].class = "executable"
    /\ takes_entry(modules[n].image) => modules[n].class = "executable"
    /\ modules[n].main \in {Null, Entry} \cup DOMAIN modules

\* A slot refers to the environment or into the tree of its module.
Linked ==
  \A n \in DOMAIN modules :
    \/ modules[n].lot = <<>>
    \/ /\ n \in Alive
       /\ modules[n].lot \in [Slots(modules[n].image) -> {Null, Environment} \cup Below(n)]

\* The live modules are trees: each has one parent or is a root, not both.
OneParent ==
  \A m, n \in DOMAIN modules : Imports(m) \cap Imports(n) # {} => m = n

RootsHaveNoParent == \A n \in Roots, m \in DOMAIN modules : n \notin Imports(m)

\* Nobody imports what was destroyed.
AliveClosed == \A n \in Alive : Imports(n) \subseteq Alive

\* A root is alive and in one list, once; the one being loaded is in none.
RootsAlive ==
  /\ Roots \subseteq Alive
  /\ IsInjective(executables) /\ IsInjective(libraries)
  /\ Range(executables) \cap Range(libraries) = {}
  /\ Loading \cap (Range(executables) \cup Range(libraries)) = {}

\* A module without its table is being loaded and has not come to it.
Exported ==
  \A n \in Alive : modules[n].exported \/
    \E k \in DOMAIN stack :
      stack[k].module = n /\ stack[k].stage \in {"header", "modules", "dependencies", "data"}

\* Stages after the table was set.
Linking == {"symbols", "relocations", "loaded"}

\* What load_module number k has done: its module is a dependency of the one before, and has
\* what the stage it reached has allocated.
Runs(k) ==
  LET n == stack[k].module
  IN  /\ n \in Alive /\ n \in Below(stack[1].module)
      /\ k > 1 => n \in Imports(stack[k - 1].module)
      /\ \A j \in 1..k - 1 : stack[j].module < n
      /\ k < Len(stack) => stack[k].stage \in {"dependencies", "data"}
      /\ stack[k].stage \in {"header", "modules"} => stack[k].next = 1
      /\ stack[k].stage = "modules" => Depends[modules[n].image] # <<>>
      /\ stack[k].stage = "dependencies" =>
           stack[k].next \in DOMAIN Depends[modules[n].image] /\ Block(n, "modules") \in heap
      /\ stack[k].stage \in Linking /\ modules[n].image \in HasData => Block(n, "data") \in heap
      /\ stack[k].stage # "header" =>
           modules[n].lot \in [Slots(modules[n].image) -> {Null, Environment} \cup Below(n)]

Activations == \A k \in DOMAIN stack : Runs(k)

\* What a live module uses is allocated.
Used ==
  \A n \in Alive :
    /\ DOMAIN modules[n].lot # {} => Block(n, "lot") \in heap
    /\ modules[n].data # "none" /\ modules[n].image \in HasData => Block(n, "data") \in heap
    /\ modules[n].imported # <<>> => Block(n, "modules") \in heap
    /\ \A c \in Imports(n) : Block(c, "object") \in heap

\* Blocks are those of roots and of dependencies, of which alone the object is a block.
HasParent(n) == \E m \in DOMAIN modules : n \in Imports(m)
Accounted ==
  \A b \in heap :
    /\ b.owner \in Roots \/ HasParent(b.owner)
    /\ b.use = "object" => HasParent(b.owner)

\* The inductive invariant.
IInv ==
  /\ Typed /\ InOrder /\ Sound /\ Linked /\ OneParent /\ RootsHaveNoParent /\ AliveClosed
  /\ RootsAlive /\ Exported /\ Activations /\ Used /\ Accounted

-----------------------------------------------------------------------------
LEMMA TreeIs == Tree = TreeOf(modules)
BY DEF Tree, TreeOf, Node

LEMMA NextTreeIs == Tree' = TreeOf(modules')
BY DEF Tree, TreeOf, Node

\* The state is one that the facts above are about; so is the next.
LEMMA OrderedModules ==
  ASSUME modules \in Seq(Module), InOrder
  PROVE  Ordered(modules, Len(modules))
BY DEF InOrder, Ordered

LEMMA NextOrderedModules ==
  ASSUME modules' \in Seq(Module), InOrder'
  PROVE  Ordered(modules', Len(modules'))
BY DEF InOrder, Ordered

\* Closed, by the range of imported.
LEMMA ClosedIsImports ==
  ASSUME NEW mods, NEW S
  PROVE  Closed(mods, S) <=> \A x \in S : Range(mods[x].imported) \subseteq S
BY DEF Closed, Range

\* The tree of n is the least closed set that n is in, and has no module before n.
LEMMA BelowFacts ==
  ASSUME modules \in Seq(Module), InOrder, NEW n \in DOMAIN modules
  PROVE  /\ Tree[n] \in Seq(n..Len(modules))
         /\ n \in Below(n) /\ Below(n) \subseteq n..Len(modules)
         /\ \A x \in Below(n) : Imports(x) \subseteq Below(n)
         /\ \A S \in SUBSET DOMAIN modules :
              n \in S /\ (\A x \in S : Imports(x) \subseteq S) => Below(n) \subseteq S
<1>1. Ordered(modules, Len(modules)) /\ DOMAIN modules = 1..Len(modules)
  BY OrderedModules
<1>2. /\ TreeOf(modules)[n] \in Seq(n..Len(modules))
      /\ n \in Range(TreeOf(modules)[n])
      /\ Range(TreeOf(modules)[n]) \subseteq n..Len(modules)
      /\ Closed(modules, Range(TreeOf(modules)[n]))
      /\ \A S \in SUBSET (1..Len(modules)) : n \in S /\ Closed(modules, S) =>
                                    Range(TreeOf(modules)[n]) \subseteq S
  BY <1>1, TreesAreClosures
<1> QED BY <1>1, <1>2, TreeIs, ClosedIsImports DEF Below, Imports

LEMMA NextBelowFacts ==
  ASSUME modules' \in Seq(Module), InOrder', NEW n \in DOMAIN modules'
  PROVE  /\ n \in Below(n)'
         /\ \A x \in Below(n)' : Imports(x)' \subseteq Below(n)'
<1>1. Ordered(modules', Len(modules')) /\ DOMAIN modules' = 1..Len(modules')
  BY NextOrderedModules
<1>2. /\ n \in Range(TreeOf(modules')[n])
      /\ Closed(modules', Range(TreeOf(modules')[n]))
  BY <1>1, TreesAreClosures
<1> QED BY <1>1, <1>2, NextTreeIs, ClosedIsImports DEF Below, Imports

\* While modules only import more, trees only grow; while they import the same, trees
\* stay as they are.
LEMMA BelowGrows ==
  ASSUME modules \in Seq(Module), InOrder, modules' \in Seq(Module), InOrder',
         Len(modules) <= Len(modules'),
         Kept(modules, modules')
  PROVE  \A n \in DOMAIN modules : Below(n) \subseteq Below(n)'
<1>1. Ordered(modules, Len(modules)) /\ DOMAIN modules = 1..Len(modules)
  BY OrderedModules
<1>2. Ordered(modules', Len(modules'))
  BY NextOrderedModules
<1>3. \A n \in DOMAIN modules : Range(TreeOf(modules)[n]) \subseteq Range(TreeOf(modules')[n])
  BY <1>1, <1>2, TreesGrow
<1> QED BY <1>3, TreeIs, NextTreeIs DEF Below

LEMMA BelowStays ==
  ASSUME modules \in Seq(Module), InOrder, modules' \in Seq(Module), InOrder',
         Len(modules) = Len(modules'),
         \A n \in DOMAIN modules : modules'[n].imported = modules[n].imported
  PROVE  \A n \in DOMAIN modules : Below(n)' = Below(n)
<1>1. /\ Ordered(modules, Len(modules)) /\ DOMAIN modules = 1..Len(modules)
      /\ DOMAIN modules' = 1..Len(modules) /\ Len(modules) \in Nat
  BY OrderedModules
<1>2. Ordered(modules', Len(modules))
  BY NextOrderedModules
<1> Kept(modules, modules') /\ Kept(modules', modules)
  BY <1>1 DEF Kept
<1> Len(modules) <= Len(modules)
  BY <1>1
<1>3. \A n \in DOMAIN modules : Range(TreeOf(modules)[n]) \subseteq Range(TreeOf(modules')[n])
  BY <1>1, <1>2, TreesGrow
<1>4. \A n \in DOMAIN modules : Range(TreeOf(modules')[n]) \subseteq Range(TreeOf(modules)[n])
  BY <1>1, <1>2, TreesGrow
<1> QED BY <1>3, <1>4, TreeIs, NextTreeIs DEF Below

\* A step that constructs and destroys nothing.
SameFamily ==
  /\ Len(modules') = Len(modules)
  /\ \A n \in DOMAIN modules :
       modules'[n].imported = modules[n].imported /\ modules'[n].image = modules[n].image

\* Such a step leaves the trees, and what the invariant says of them, alone.
LEMMA FamilyStays ==
  ASSUME IInv, modules' \in Seq(Module), SameFamily, Roots' \subseteq Roots
  PROVE  /\ DOMAIN modules' = DOMAIN modules
         /\ Alive' = Alive
         /\ \A n \in DOMAIN modules : Imports(n)' = Imports(n) /\ Below(n)' = Below(n)
         /\ \A n : HasParent(n)' <=> HasParent(n)
         /\ InOrder' /\ OneParent' /\ RootsHaveNoParent' /\ AliveClosed'
<1>1. modules \in Seq(Module) /\ InOrder
  BY DEF IInv, Typed
<1>2. DOMAIN modules' = DOMAIN modules /\ Len(modules') = Len(modules)
  BY <1>1 DEF SameFamily
<1>3. \A n \in DOMAIN modules :
        modules'[n].imported = modules[n].imported /\ modules'[n].image = modules[n].image
  BY DEF SameFamily
<1>4. Alive' = Alive
  BY <1>2, <1>3 DEF Alive
<1>5. \A n \in DOMAIN modules : Imports(n)' = Imports(n)
  BY <1>3 DEF Imports
<1>6. InOrder'
  BY <1>1, <1>2, <1>3 DEF InOrder
<1>7. \A n \in DOMAIN modules : Below(n)' = Below(n)
  BY <1>1, <1>2, <1>3, <1>6, BelowStays
<1>8. \A n : HasParent(n)' <=> HasParent(n)
  BY <1>2, <1>5 DEF HasParent
<1>9. OneParent' /\ RootsHaveNoParent' /\ AliveClosed'
  <2>1. OneParent'
    BY <1>2, <1>5 DEF OneParent, IInv
  <2>2. RootsHaveNoParent'
    BY <1>2, <1>5 DEF RootsHaveNoParent, IInv
  <2>3. AliveClosed'
    BY <1>4, <1>5 DEF AliveClosed, IInv, Alive
  <2> QED BY <2>1, <2>2, <2>3
<1> QED BY <1>2, <1>4, <1>5, <1>6, <1>7, <1>8, <1>9

\* The activation that runs, and its module.
LEMMA TopFacts ==
  ASSUME IInv, stack # <<>>
  PROVE  /\ Len(stack) \in Nat \ {0} /\ DOMAIN stack = 1..Len(stack)
         /\ Top = stack[Len(stack)] /\ Top \in Activation
         /\ Top.module \in Alive /\ Top.module \in DOMAIN modules /\ Top.module \in Nat
         /\ modules[Top.module] \in Module /\ Image \in Images
<1>1. stack \in Seq(Activation) /\ modules \in Seq(Module)
  BY DEF IInv, Typed
<1>2. Len(stack) \in Nat \ {0} /\ DOMAIN stack = 1..Len(stack)
  BY <1>1
<1>3. Top = stack[Len(stack)] /\ Top \in Activation
  BY <1>1, PopIsFront DEF Top
<1>4. Top.module \in Alive
  BY <1>2, <1>3 DEF IInv, Activations, Runs
<1>5. Top.module \in DOMAIN modules /\ Image # NoImage
  BY <1>4 DEF Alive, Image
<1>6. modules[Top.module] \in Module /\ Top.module \in Nat
  BY <1>1, <1>5
<1>7. Image \in Images
  BY <1>5, <1>6 DEF Image, Module
<1> QED BY <1>2, <1>3, <1>4, <1>5, <1>6, <1>7

\* What reaching the next stage does to the stack.
LEMMA GotoFacts ==
  ASSUME stack \in Seq(Activation), stack # <<>>, NEW stage \in Stages, Goto(stage)
  PROVE  /\ stack' \in Seq(Activation) /\ stack' # <<>>
         /\ Len(stack') = Len(stack) /\ DOMAIN stack' = DOMAIN stack
         /\ \A k \in DOMAIN stack :
              stack'[k].module = stack[k].module /\ stack'[k].next = stack[k].next
         /\ \A k \in DOMAIN stack : k # Len(stack) => stack'[k] = stack[k]
         /\ stack'[Len(stack)].stage = stage
<1>1. DOMAIN stack = 1..Len(stack) /\ Len(stack) \in DOMAIN stack
  OBVIOUS
<1>2. \A k \in DOMAIN stack : stack[k] \in Activation
  BY ElementOfSeq
<1>3. [stack[Len(stack)] EXCEPT !.stage = stage] \in Activation
  BY <1>1, <1>2 DEF Activation
<1>4. stack' = [stack EXCEPT ![Len(stack)] = [stack[Len(stack)] EXCEPT !.stage = stage]]
  BY DEF Goto
<1>5. \A k \in DOMAIN stack :
        stack'[k] = IF k = Len(stack) THEN [stack[Len(stack)] EXCEPT !.stage = stage] ELSE stack[k]
  BY <1>1, <1>4
<1>6. stack' \in Seq(Activation) /\ Len(stack') = Len(stack) /\ DOMAIN stack' = DOMAIN stack
  BY <1>1, <1>3, <1>4
<1>7. \A k \in DOMAIN stack :
        stack'[k].module = stack[k].module /\ stack'[k].next = stack[k].next
  BY <1>1, <1>2, <1>5 DEF Activation
<1>8. stack'[Len(stack)].stage = stage
  BY <1>1, <1>2, <1>5 DEF Activation
<1> QED BY <1>1, <1>5, <1>6, <1>7, <1>8

\* What a change to the fields of one module does to modules.
LEMMA UpdateFacts ==
  ASSUME modules \in Seq(Module), NEW n \in DOMAIN modules, NEW m \in Module,
         modules' = [modules EXCEPT ![n] = m],
         m.image = modules[n].image, m.imported = modules[n].imported
  PROVE  /\ modules' \in Seq(Module) /\ DOMAIN modules' = DOMAIN modules /\ SameFamily
         /\ \A x \in DOMAIN modules : modules'[x] = IF x = n THEN m ELSE modules[x]
<1>1. /\ modules' \in Seq(Module) /\ DOMAIN modules' = DOMAIN modules
      /\ Len(modules') = Len(modules)
  OBVIOUS
<1>2. \A x \in DOMAIN modules : modules'[x] = IF x = n THEN m ELSE modules[x]
  OBVIOUS
<1> QED BY <1>1, <1>2 DEF SameFamily

OwnUses == {"lot", "init", "data", "modules"}

\* A step of load_module that does not call it again: it changes m, the module being
\* loaded, to what it is at the next stage, and allocates for it.
LEMMA ProcessingKeeps ==
  ASSUME IInv, stack # <<>>,
         NEW m \in Module, NEW stage \in Stages \ {"header"}, NEW uses \in SUBSET OwnUses,
         modules' = [modules EXCEPT ![Top.module] = m],
         Goto(stage), Allocate({Block(Top.module, use) : use \in uses}),
         UNCHANGED <<host, executables, libraries, result>>,
         m.image = Image, m.imported = modules[Top.module].imported,
         m.class = modules[Top.module].class,
         m.has_entry => m.class = "executable",
         m.main \in {Null, Entry} \cup DOMAIN modules,
         m.lot \in [Slots(Image) -> {Null, Environment} \cup Below(Top.module)],
         m.exported \/ stage \in {"modules", "dependencies", "data"},
         stage \in {"modules", "dependencies"} =>
           Top.next = 1 /\ Depends[Image] # <<>>,
         stage = "dependencies" => Block(Top.module, "modules") \in heap',
         DOMAIN m.lot # {} => Block(Top.module, "lot") \in heap',
         (m.data # "none" \/ stage \in Linking) /\ Image \in HasData =>
           Block(Top.module, "data") \in heap'
  PROVE  IInv'
<1> DEFINE n == Top.module
<1>1. /\ Len(stack) \in Nat \ {0} /\ DOMAIN stack = 1..Len(stack)
      /\ Top = stack[Len(stack)] /\ Top \in Activation
      /\ n \in Alive /\ n \in DOMAIN modules /\ n \in Nat
      /\ modules[n] \in Module /\ Image \in Images
  BY TopFacts
<1>2. modules \in Seq(Module) /\ stack \in Seq(Activation)
  BY DEF IInv, Typed
<1>3. /\ modules' \in Seq(Module) /\ DOMAIN modules' = DOMAIN modules /\ SameFamily
      /\ \A x \in DOMAIN modules : modules'[x] = IF x = n THEN m ELSE modules[x]
  BY <1>1, <1>2, UpdateFacts DEF Image
<1>4. /\ stack' \in Seq(Activation) /\ stack' # <<>>
      /\ Len(stack') = Len(stack) /\ DOMAIN stack' = DOMAIN stack
      /\ \A k \in DOMAIN stack :
           stack'[k].module = stack[k].module /\ stack'[k].next = stack[k].next
      /\ \A k \in DOMAIN stack : k # Len(stack) => stack'[k] = stack[k]
      /\ stack'[Len(stack)].stage = stage
  BY <1>2, GotoFacts
<1>5. /\ executables' = executables /\ libraries' = libraries
      /\ environment' = environment /\ resolver' = resolver /\ result' = result
  BY DEF host
<1>6. Loading' = Loading /\ Roots' = Roots
  <2>1. stack'[1].module = stack[1].module
    BY <1>1, <1>4
  <2>2. Loading' = Loading
    BY <1>4, <2>1 DEF Loading
  <2> QED BY <1>5, <2>2 DEF Roots
<1>7. /\ Alive' = Alive
      /\ \A x \in DOMAIN modules : Imports(x)' = Imports(x) /\ Below(x)' = Below(x)
      /\ \A x : HasParent(x)' <=> HasParent(x)
      /\ InOrder' /\ OneParent' /\ RootsHaveNoParent' /\ AliveClosed'
  BY <1>3, <1>6, FamilyStays
<1>8. /\ heap' = heap \cup {Block(n, use) : use \in uses}
      /\ heap \subseteq heap'
  BY DEF Allocate
<1>9. Typed'
  <2>1. heap' \subseteq [owner : Nat, use : {"lot", "init", "data", "modules", "object"}]
    <3>1. \A use \in uses :
            Block(n, use) \in [owner : Nat, use : {"lot", "init", "data", "modules", "object"}]
      BY <1>1 DEF Block, OwnUses
    <3>2. heap \subseteq [owner : Nat, use : {"lot", "init", "data", "modules", "object"}]
      BY DEF IInv, Typed
    <3> QED BY <1>8, <3>1, <3>2
  <2> QED BY <1>3, <1>4, <1>5, <2>1 DEF IInv, Typed
<1>10. Sound'
  <2>1. SUFFICES ASSUME NEW x \in DOMAIN modules
                 PROVE  /\ modules'[x].has_entry => modules'[x].class = "executable"
                        /\ takes_entry(modules'[x].image) => modules'[x].class = "executable"
                        /\ modules'[x].main \in {Null, Entry} \cup DOMAIN modules
    BY <1>3 DEF Sound
  <2> QED BY <1>3 DEF IInv, Sound, Image
<1>11. Linked'
  <2>1. SUFFICES ASSUME NEW x \in DOMAIN modules
                 PROVE  \/ modules'[x].lot = <<>>
                        \/ /\ x \in Alive
                           /\ modules'[x].lot \in
                                [Slots(modules'[x].image) -> {Null, Environment} \cup Below(x)]
    BY <1>3, <1>7 DEF Linked
  <2> QED BY <1>1, <1>3 DEF IInv, Linked
<1>12. RootsAlive'
  BY <1>5, <1>6, <1>7 DEF IInv, RootsAlive
<1>13. Exported'
  <2>1. SUFFICES ASSUME NEW x \in Alive, ~modules'[x].exported
                 PROVE  \E k \in DOMAIN stack :
                          /\ stack'[k].module = x
                          /\ stack'[k].stage \in {"header", "modules", "dependencies", "data"}
    BY <1>4, <1>7 DEF Exported
  <2>2. CASE x = n
    BY <1>1, <1>3, <1>4, <2>1, <2>2
  <2>3. CASE x # n
    <3>1. ~modules[x].exported
      BY <1>3, <2>1, <2>3 DEF Alive
    <3>2. PICK k \in DOMAIN stack :
            /\ stack[k].module = x
            /\ stack[k].stage \in {"header", "modules", "dependencies", "data"}
      BY <3>1 DEF IInv, Exported
    <3>3. k # Len(stack)
      BY <1>1, <2>3, <3>2
    <3> QED BY <1>4, <3>2, <3>3
  <2> QED BY <2>2, <2>3
<1>14. Activations'
  <2>1. SUFFICES ASSUME NEW k \in DOMAIN stack PROVE Runs(k)'
    BY <1>4 DEF Activations
  <2> DEFINE x == stack[k].module
  <2>5. /\ stack[1].module \in DOMAIN modules /\ x \in DOMAIN modules
        /\ k > 1 => k - 1 \in DOMAIN stack /\ stack[k - 1].module \in DOMAIN modules
        /\ \A j \in 1..k - 1 : j \in DOMAIN stack
    BY <1>1 DEF IInv, Activations, Runs, Alive
  <2>6. SUFFICES /\ x \in Alive /\ x \in Below(stack[1].module)
                 /\ k > 1 => x \in Imports(stack[k - 1].module)
                 /\ \A j \in 1..k - 1 : stack[j].module < x
                 /\ k < Len(stack) => stack'[k].stage \in {"dependencies", "data"}
                 /\ stack'[k].stage \in {"header", "modules"} => stack'[k].next = 1
                 /\ stack'[k].stage = "modules" => Depends[modules'[x].image] # <<>>
                 /\ stack'[k].stage = "dependencies" =>
                      /\ stack'[k].next \in DOMAIN Depends[modules'[x].image]
                      /\ Block(x, "modules") \in heap'
                 /\ stack'[k].stage \in Linking /\ modules'[x].image \in HasData =>
                      Block(x, "data") \in heap'
                 /\ stack'[k].stage # "header" =>
                      modules'[x].lot \in
                        [Slots(modules'[x].image) -> {Null, Environment} \cup Below(x)]
    <3>1. 1 \in DOMAIN stack /\ stack'[k].module = x /\ Below(x)' = Below(x)
      BY <1>1, <1>4, <1>7, <2>5
    <3> QED BY <1>4, <1>7, <2>5, <3>1 DEF Runs, Block
  <2>2. CASE k = Len(stack)
    <3>1. stack[k] = Top /\ stack[k].module = n
      BY <1>1, <2>2
    <3>2. /\ n \in Alive /\ n \in Below(stack[1].module)
          /\ k > 1 => n \in Imports(stack[k - 1].module)
          /\ \A j \in 1..k - 1 : stack[j].module < n
      BY <3>1 DEF IInv, Activations, Runs
    <3>3. modules'[n].image = Image /\ modules'[n].lot = m.lot
      BY <1>1, <1>3
    <3>4. stack'[k].stage = stage /\ stack'[k].next = Top.next
      BY <1>1, <1>4, <2>2
    <3>5. stage = "dependencies" => Top.next \in DOMAIN Depends[Image]
      <4>1. Depends[Image] # <<>> => 1 \in DOMAIN Depends[Image]
        <5>1. Depends[Image] \in Seq(Images \cup {NoImage})
          BY <1>1, ImageAssumption
        <5> QED BY <5>1
      <4> QED BY <4>1
    <3> QED BY <2>2, <3>1, <3>2, <3>3, <3>4, <3>5
  <2>3. CASE k # Len(stack)
    <3>1. stack'[k] = stack[k]
      BY <1>4, <2>3
    <3>2. stack[k].module # n
      <4>1. k \in 1..Len(stack) - 1
        BY <1>1, <2>3
      <4>2. stack[k].module < n
        BY <1>1, <4>1 DEF IInv, Activations, Runs
      <4> QED BY <1>1, <4>2
    <3>3. stack[k].module \in DOMAIN modules
      BY DEF IInv, Activations, Runs, Alive
    <3>4. modules'[stack[k].module] = modules[stack[k].module]
      BY <1>3, <3>2, <3>3
    <3> QED BY <1>8, <3>1, <3>4 DEF IInv, Activations, Runs
  <2> QED BY <2>2, <2>3
<1>15. Used'
  <2>1. SUFFICES ASSUME NEW x \in Alive
                 PROVE  /\ DOMAIN modules'[x].lot # {} => Block(x, "lot") \in heap'
                        /\ modules'[x].data # "none" /\ modules'[x].image \in HasData =>
                             Block(x, "data") \in heap'
                        /\ modules'[x].imported # <<>> => Block(x, "modules") \in heap'
                        /\ \A c \in Imports(x) : Block(c, "object") \in heap'
    <3>1. \A x \in Alive : Imports(x)' = Imports(x)
      BY <1>7 DEF Alive
    <3> QED BY <1>7, <3>1 DEF Used, Block
  <2>2. /\ modules[x].imported # <<>> => Block(x, "modules") \in heap
        /\ \A c \in Imports(x) : Block(c, "object") \in heap
    BY DEF IInv, Used
  <2>3. CASE x = n
    BY <1>1, <1>3, <1>8, <2>2, <2>3
  <2>4. CASE x # n
    BY <1>3, <1>8, <2>2, <2>4 DEF IInv, Used, Alive
  <2> QED BY <2>3, <2>4
<1>16. Accounted'
  <2>1. SUFFICES ASSUME NEW b \in heap'
                 PROVE  /\ b.owner \in Roots \/ HasParent(b.owner)
                        /\ b.use = "object" => HasParent(b.owner)
    BY <1>6, <1>7 DEF Accounted
  <2>2. CASE b \in heap
    BY <2>2 DEF IInv, Accounted
  <2>3. CASE b \notin heap
    <3>1. PICK use \in uses : b = Block(n, use)
      BY <1>8, <2>3
    <3>2. b.owner = n /\ b.use = use /\ b.use # "object"
      BY <3>1 DEF Block, OwnUses
    <3>3. n \in Roots \/ HasParent(n)
      <4>1. CASE Len(stack) = 1
        BY <1>1, <4>1 DEF Roots, Loading
      <4>2. CASE Len(stack) # 1
        <5>1. Len(stack) > 1 /\ Len(stack) - 1 \in DOMAIN stack /\ Len(stack) \in DOMAIN stack
          BY <1>1, <4>2
        <5>2. /\ n \in Imports(stack[Len(stack) - 1].module)
              /\ stack[Len(stack) - 1].module \in DOMAIN modules
          BY <1>1, <5>1 DEF IInv, Activations, Runs, Alive
        <5> QED BY <5>2 DEF HasParent
      <4> QED BY <4>1, <4>2
    <3> QED BY <3>2, <3>3
  <2> QED BY <2>2, <2>3
<1> QED BY <1>7, <1>9, <1>10, <1>11, <1>12, <1>13, <1>14, <1>15, <1>16 DEF IInv

\* A table that the invariant allows a live module is one that its type allows.
LEMMA LotsHold ==
  ASSUME IInv, NEW n \in Alive,
         NEW lot \in [Slots(modules[n].image) -> {Null, Environment} \cup Below(n)]
  PROVE  lot \in Lots
<1>1. modules \in Seq(Module) /\ InOrder /\ n \in DOMAIN modules
  BY DEF IInv, Typed, Alive
<1>2. Below(n) \subseteq n..Len(modules) /\ n \in Nat /\ Len(modules) \in Nat
  BY <1>1, BelowFacts
<1>3. {Null, Environment} \cup Below(n) \subseteq Int
  BY <1>2 DEF Null, Environment
<1>4. modules[n].image \in Images
  <2>1. modules[n] \in Module
    BY <1>1
  <2> QED BY <2>1 DEF Module, Alive
<1>5. lot \in [Slots(modules[n].image) -> Int]
  BY <1>3
<1> QED BY <1>4, <1>5 DEF Lots

\* When symbols are looked up, the tables of all that is searched are set.
LEMMA TablesBelow ==
  ASSUME IInv, stack # <<>>, Top.stage \in Linking, NEW x \in Below(Top.module)
  PROVE  modules[x].exported
<1> DEFINE n == Top.module
<1>1. /\ Len(stack) \in Nat \ {0} /\ DOMAIN stack = 1..Len(stack)
      /\ Top = stack[Len(stack)] /\ n \in Alive /\ n \in DOMAIN modules /\ n \in Nat
  BY TopFacts
<1>2. modules \in Seq(Module) /\ InOrder
  BY DEF IInv, Typed
<1>3. x \in n..Len(modules) /\ x \in Alive
  <2>1. Below(n) \subseteq n..Len(modules)
    BY <1>1, <1>2, BelowFacts
  <2>2. Alive \in SUBSET DOMAIN modules /\ \A y \in Alive : Imports(y) \subseteq Alive
    BY DEF Alive, IInv, AliveClosed
  <2>3. Below(n) \subseteq Alive
    BY <1>1, <1>2, <2>2, BelowFacts
  <2> QED BY <2>1, <2>3
<1>4. SUFFICES ASSUME ~modules[x].exported PROVE FALSE
  OBVIOUS
<1>5. PICK k \in DOMAIN stack :
        stack[k].module = x /\ stack[k].stage \in {"header", "modules", "dependencies", "data"}
  BY <1>3, <1>4 DEF IInv, Exported
<1>6. k # Len(stack)
  BY <1>1, <1>5 DEF Linking
<1>7. k \in 1..Len(stack) - 1 /\ Len(stack) \in DOMAIN stack
  BY <1>1, <1>6
<1>8. x < n
  BY <1>1, <1>5, <1>7 DEF IInv, Activations, Runs
<1> QED BY <1>1, <1>3, <1>8

\* A search finds nothing or a module that it went through.
LEMMA FirstDefiningFacts ==
  ASSUME NEW T, NEW seq \in Seq(T), NEW s
  PROVE  FirstDefining(seq, s) = Null \/ FirstDefining(seq, s) \in Range(seq)
<1> DEFINE hits == {k \in DOMAIN seq : s \in Exports[modules[seq[k]].image]}
<1>1. CASE hits = {}
  BY <1>1 DEF FirstDefining
<1>2. CASE hits # {}
  <2>1. hits \in SUBSET Nat
    OBVIOUS
  <2>2. Min(hits) \in hits
    <3> HIDE DEF hits
    <3> QED BY <1>2, <2>1, MinIsLeast
  <2>3. FirstDefining(seq, s) = seq[Min(hits)]
    BY <1>2 DEF FirstDefining
  <2>4. Min(hits) \in DOMAIN seq
    BY <2>2
  <2> HIDE DEF hits
  <2> QED BY <2>3, <2>4 DEF Range
<1> QED BY <1>1, <1>2

\* What is found for module n is in its tree, or is the environment.
LEMMA FoundIsBelow ==
  ASSUME IInv, NEW n \in DOMAIN modules, NEW s
  PROVE  /\ find_symbol(n, s) \in {Null, Environment} \cup Below(n)
         /\ FirstDefining(Tree[n], s) \in {Null} \cup Below(n)
<1> DEFINE T == n..Len(modules)
<1>1. Tree[n] \in Seq(T)
  BY BelowFacts DEF IInv, Typed
<1>2. FirstDefining(Tree[n], s) = Null \/ FirstDefining(Tree[n], s) \in Range(Tree[n])
  <2> HIDE DEF T
  <2> QED BY <1>1, FirstDefiningFacts
<1> QED BY <1>2 DEF find_symbol, Below

\* What the invariant says of the module that is being loaded.
LEMMA TopModule ==
  ASSUME IInv, stack # <<>>
  PROVE  LET n == Top.module
         IN  /\ n \in Alive /\ n \in DOMAIN modules /\ modules[n] \in Module
             /\ Image \in Images /\ Image = modules[n].image
             /\ n \in Below(n)
             /\ modules[n].has_entry => modules[n].class = "executable"
             /\ takes_entry(Image) => modules[n].class = "executable"
             /\ modules[n].main \in {Null, Entry} \cup DOMAIN modules
             /\ Top.stage \in {"header", "modules"} => Top.next = 1
             /\ Top.stage = "modules" => Depends[Image] # <<>>
             /\ Top.stage \in Linking /\ Image \in HasData => Block(n, "data") \in heap
             /\ Top.stage \in Linking => modules[n].exported
             /\ Top.stage # "header" =>
                  modules[n].lot \in [Slots(Image) -> {Null, Environment} \cup Below(n)]
             /\ DOMAIN modules[n].lot # {} => Block(n, "lot") \in heap
             /\ modules[n].data # "none" /\ Image \in HasData => Block(n, "data") \in heap
<1> DEFINE n == Top.module
<1>1. /\ Len(stack) \in DOMAIN stack /\ Top = stack[Len(stack)]
      /\ n \in Alive /\ n \in DOMAIN modules /\ modules[n] \in Module
      /\ Image \in Images /\ Image = modules[n].image
  BY TopFacts DEF Image
<1>2. n \in Below(n)
  BY <1>1, BelowFacts DEF IInv, Typed
<1>3. Top.stage \in Linking => modules[n].exported
  BY <1>2, TablesBelow
<1>4. Sound /\ Used /\ Runs(Len(stack))
  BY <1>1 DEF IInv, Activations
<1>5. /\ modules[n].has_entry => modules[n].class = "executable"
      /\ takes_entry(Image) => modules[n].class = "executable"
      /\ modules[n].main \in {Null, Entry} \cup DOMAIN modules
  BY <1>1, <1>4 DEF Sound
<1>6. /\ DOMAIN modules[n].lot # {} => Block(n, "lot") \in heap
      /\ modules[n].data # "none" /\ Image \in HasData => Block(n, "data") \in heap
  BY <1>1, <1>4 DEF Used
<1>7. /\ Top.stage \in {"header", "modules"} => Top.next = 1
      /\ Top.stage = "modules" => Depends[Image] # <<>>
      /\ Top.stage \in Linking /\ Image \in HasData => Block(n, "data") \in heap
      /\ Top.stage # "header" =>
           modules[n].lot \in [Slots(Image) -> {Null, Environment} \cup Below(n)]
  BY <1>1, <1>4 DEF Runs
<1> QED BY <1>1, <1>2, <1>3, <1>5, <1>6, <1>7

\* allocate_modules
LEMMA AllocateModulesKeeps == IInv /\ AllocateModules => IInv'
<1> SUFFICES ASSUME IInv, AllocateModules PROVE IInv'
  OBVIOUS
<1> DEFINE n == Top.module
           m == modules[n]
<1>1. stack # <<>> /\ Top.stage = "modules"
  BY DEF AllocateModules, At
<1>2. /\ n \in DOMAIN modules /\ m \in Module /\ Image = m.image
      /\ m.has_entry => m.class = "executable"
      /\ m.main \in {Null, Entry} \cup DOMAIN modules
      /\ Top.next = 1 /\ Depends[Image] # <<>>
      /\ m.lot \in [Slots(Image) -> {Null, Environment} \cup Below(n)]
      /\ DOMAIN m.lot # {} => Block(n, "lot") \in heap
      /\ m.data # "none" /\ Image \in HasData => Block(n, "data") \in heap
  BY <1>1, TopModule
<1>3. modules' = [modules EXCEPT ![n] = m]
  <2>1. modules \in Seq(Module) /\ modules' = modules
    BY DEF IInv, Typed, AllocateModules
  <2> QED BY <1>2, <2>1
<1>4. /\ Goto("dependencies") /\ heap' = heap \cup {Block(n, "modules")}
      /\ Allocate({Block(n, use) : use \in {"modules"}})
      /\ UNCHANGED <<host, executables, libraries, result>>
  BY DEF AllocateModules, Allocate
<1>5. {"modules"} \in SUBSET OwnUses /\ "dependencies" \in Stages \ {"header"}
      /\ "dependencies" \notin Linking
  BY DEF OwnUses, Stages, Linking
<1> HIDE DEF n, m
<1> QED BY <1>1, <1>2, <1>3, <1>4, <1>5, ProcessingKeeps DEF n, m

\* process_header and what follows up to the imported modules
LEMMA ProcessHeaderKeeps ==
  ASSUME IInv, ProcessHeader, ~Refuse
  PROVE  IInv'
<1> DEFINE n == Top.module
           table == [s \in Slots(Image) |-> Null]
           m == [modules[n] EXCEPT !.lot = table]
           stage == IF Depends[Image] = <<>> THEN "data" ELSE "modules"
           uses == {u \in {"lot", "init"} : \/ u = "lot" /\ Slots(Image) # {}
                                            \/ u = "init" /\ Image \in HasInit}
<1>1. stack # <<>> /\ Top.stage = "header"
  BY DEF ProcessHeader, At
<1>2. /\ n \in Alive /\ n \in DOMAIN modules /\ modules[n] \in Module
      /\ Image = modules[n].image
      /\ modules[n].has_entry => modules[n].class = "executable"
      /\ modules[n].main \in {Null, Entry} \cup DOMAIN modules
      /\ Top.next = 1
      /\ modules[n].data # "none" /\ Image \in HasData => Block(n, "data") \in heap
  BY <1>1, TopModule
<1>3. table \in [Slots(Image) -> {Null, Environment} \cup Below(n)] /\ table \in Lots
  <2>1. table \in [Slots(Image) -> {Null, Environment} \cup Below(n)]
    OBVIOUS
  <2> HIDE DEF table
  <2> QED BY <1>2, <2>1, LotsHold
<1>4. /\ m \in Module /\ m.image = Image /\ m.imported = modules[n].imported
      /\ m.class = modules[n].class /\ m.has_entry = modules[n].has_entry
      /\ m.main = modules[n].main /\ m.lot = table /\ m.data = modules[n].data
  <2> HIDE DEF table
  <2> QED BY <1>2, <1>3 DEF Module
<1>5. modules' = [modules EXCEPT ![n] = m] /\ Goto(stage)
      /\ Allocate({Block(n, use) : use \in uses})
      /\ UNCHANGED <<host, executables, libraries, result>>
  BY DEF ProcessHeader, HeaderBlocks, lot_size
<1>6. /\ uses \in SUBSET OwnUses /\ stage \in Stages \ {"header"} /\ stage \notin Linking
      /\ stage \in {"modules", "dependencies", "data"} /\ stage # "dependencies"
      /\ stage = "modules" => Depends[Image] # <<>>
  BY DEF OwnUses, Stages, Linking
<1>7. /\ heap \subseteq heap'
      /\ DOMAIN m.lot # {} => Block(n, "lot") \in heap'
  <2>1. heap' = heap \cup {Block(n, use) : use \in uses}
    BY <1>5 DEF Allocate
  <2>2. DOMAIN m.lot = Slots(Image)
    BY <1>4
  <2>3. DOMAIN m.lot # {} => "lot" \in uses
    BY <2>2
  <2> HIDE DEF uses
  <2> QED BY <2>1, <2>3
<1> HIDE DEF m, stage, uses, table
<1>8. /\ m.has_entry => m.class = "executable"
      /\ m.main \in {Null, Entry} \cup DOMAIN modules
      /\ m.lot \in [Slots(Image) -> {Null, Environment} \cup Below(n)]
      /\ stage \in {"modules", "dependencies"} => Top.next = 1 /\ Depends[Image] # <<>>
      /\ (m.data # "none" \/ stage \in Linking) /\ Image \in HasData =>
           Block(n, "data") \in heap'
  BY <1>2, <1>3, <1>4, <1>6, <1>7
<1> QED BY <1>1, <1>4, <1>5, <1>6, <1>7, <1>8, ProcessingKeeps

\* process_data and set_exported_symbol_table
LEMMA ProcessDataKeeps == IInv /\ ProcessData => IInv'
<1> SUFFICES ASSUME IInv, ProcessData PROVE IInv'
  OBVIOUS
<1> DEFINE n == Top.module
           m == export(modules[n])
           uses == IF Image \in HasData THEN {"data"} ELSE {}
<1>1. stack # <<>> /\ Top.stage = "data"
  BY DEF ProcessData, At
<1>2. /\ n \in Alive /\ n \in DOMAIN modules /\ modules[n] \in Module
      /\ Image = modules[n].image
      /\ modules[n].has_entry => modules[n].class = "executable"
      /\ modules[n].main \in {Null, Entry} \cup DOMAIN modules
      /\ modules[n].lot \in [Slots(Image) -> {Null, Environment} \cup Below(n)]
      /\ DOMAIN modules[n].lot # {} => Block(n, "lot") \in heap
  BY <1>1, TopModule
<1>3. /\ m \in Module /\ m.image = Image /\ m.imported = modules[n].imported
      /\ m.class = modules[n].class /\ m.has_entry = modules[n].has_entry
      /\ m.main = modules[n].main /\ m.lot = modules[n].lot /\ m.exported = TRUE
  BY <1>2 DEF Module, export
<1>4. modules' = [modules EXCEPT ![n] = m] /\ Goto("symbols")
      /\ UNCHANGED <<host, executables, libraries, result>>
  BY DEF ProcessData
<1>5. /\ Allocate({Block(n, use) : use \in uses}) /\ heap \subseteq heap'
      /\ Image \in HasData => Block(n, "data") \in heap'
  BY DEF ProcessData, Allocate
<1>6. uses \in SUBSET OwnUses /\ "symbols" \in Stages \ {"header"}
      /\ "symbols" \notin {"modules", "dependencies"}
  BY DEF OwnUses, Stages
<1> HIDE DEF m, uses
<1> QED BY <1>1, <1>2, <1>3, <1>4, <1>5, <1>6, ProcessingKeeps

\* process_symbol_table_relocations
LEMMA ProcessSymbolsKeeps ==
  ASSUME IInv, ProcessSymbols, ~Refuse
  PROVE  IInv'
<1> DEFINE n == Top.module
           table == [s \in Slots(Image) |->
                       IF s \in Wants[Image] THEN find_symbol(n, s) ELSE modules[n].lot[s]]
           m == [modules[n] EXCEPT !.lot = table]
<1>1. stack # <<>> /\ Top.stage = "symbols" /\ Top.stage \in Linking
  BY DEF ProcessSymbols, At, Linking
<1>2. /\ n \in Alive /\ n \in DOMAIN modules /\ modules[n] \in Module
      /\ Image = modules[n].image
      /\ modules[n].has_entry => modules[n].class = "executable"
      /\ modules[n].main \in {Null, Entry} \cup DOMAIN modules
      /\ modules[n].exported
      /\ Image \in HasData => Block(n, "data") \in heap
      /\ modules[n].lot \in [Slots(Image) -> {Null, Environment} \cup Below(n)]
      /\ DOMAIN modules[n].lot # {} => Block(n, "lot") \in heap
  BY <1>1, TopModule
<1>3. table \in [Slots(Image) -> {Null, Environment} \cup Below(n)] /\ table \in Lots
      /\ DOMAIN table = DOMAIN modules[n].lot
  <2>1. \A s \in Slots(Image) : find_symbol(n, s) \in {Null, Environment} \cup Below(n)
    BY <1>2, FoundIsBelow
  <2>2. table \in [Slots(Image) -> {Null, Environment} \cup Below(n)]
    BY <1>2, <2>1
  <2>3. DOMAIN table = DOMAIN modules[n].lot
    BY <1>2
  <2> HIDE DEF table
  <2> QED BY <1>2, <2>2, <2>3, LotsHold
<1>4. /\ m \in Module /\ m.image = Image /\ m.imported = modules[n].imported
      /\ m.class = modules[n].class /\ m.has_entry = modules[n].has_entry
      /\ m.main = modules[n].main /\ m.lot = table /\ m.data = modules[n].data
      /\ m.exported = modules[n].exported
  <2> HIDE DEF table
  <2> QED BY <1>2, <1>3 DEF Module
<1>5. modules' = [modules EXCEPT ![n] = m] /\ Goto("relocations") /\ heap' = heap
      /\ Allocate({Block(n, use) : use \in {}})
      /\ UNCHANGED <<host, executables, libraries, result>>
  BY DEF ProcessSymbols, Allocate
<1>6. {} \in SUBSET OwnUses /\ "relocations" \in Stages \ {"header"}
      /\ "relocations" \notin {"modules", "dependencies"}
  BY DEF OwnUses, Stages
<1> HIDE DEF m, table
<1> QED BY <1>1, <1>2, <1>3, <1>4, <1>5, <1>6, ProcessingKeeps

\* process_local_relocations, process_data_relocations and set_entry
LEMMA ProcessRelocationsKeeps == IInv /\ ProcessRelocations => IInv'
<1> SUFFICES ASSUME IInv, ProcessRelocations PROVE IInv'
  OBVIOUS
<1> DEFINE n == Top.module
           table == [s \in Slots(Image) |-> IF s \in Locals[Image] THEN n ELSE modules[n].lot[s]]
           flag == modules[n].has_entry \/ takes_entry(Image)
           main == IF takes_entry(Image) THEN Entry ELSE modules[n].main
           m == [modules[n] EXCEPT !.lot = table, !.data = "relocated",
                                   !.has_entry = flag, !.main = main]
<1>1. stack # <<>> /\ Top.stage = "relocations" /\ Top.stage \in Linking
  BY DEF ProcessRelocations, At, Linking
<1>2. /\ n \in Alive /\ n \in DOMAIN modules /\ modules[n] \in Module
      /\ Image = modules[n].image /\ n \in Below(n)
      /\ flag => modules[n].class = "executable"
      /\ modules[n].main \in {Null, Entry} \cup DOMAIN modules
      /\ modules[n].exported
      /\ Image \in HasData => Block(n, "data") \in heap
      /\ modules[n].lot \in [Slots(Image) -> {Null, Environment} \cup Below(n)]
      /\ DOMAIN modules[n].lot # {} => Block(n, "lot") \in heap
  BY <1>1, TopModule
<1>3. table \in [Slots(Image) -> {Null, Environment} \cup Below(n)] /\ table \in Lots
      /\ DOMAIN table = DOMAIN modules[n].lot
  <2>1. table \in [Slots(Image) -> {Null, Environment} \cup Below(n)]
    BY <1>2
  <2>2. DOMAIN table = DOMAIN modules[n].lot
    BY <1>2
  <2> HIDE DEF table
  <2> QED BY <1>2, <2>1, <2>2, LotsHold
<1>4. flag \in BOOLEAN /\ main \in Int /\ main \in {Null, Entry} \cup DOMAIN modules
  <2>1. DOMAIN modules \subseteq Int
    BY DEF IInv, Typed
  <2>2. modules[n].has_entry \in BOOLEAN
    BY <1>2 DEF Module
  <2>3. flag \in BOOLEAN
    BY <2>2 DEF takes_entry
  <2>4. main \in {Null, Entry} \cup DOMAIN modules
    BY <1>2
  <2> QED BY <2>1, <2>3, <2>4 DEF Null, Entry
<1>5. /\ m \in Module /\ m.image = Image /\ m.imported = modules[n].imported
      /\ m.class = modules[n].class /\ m.has_entry = flag
      /\ m.main = main /\ m.lot = table /\ m.exported = modules[n].exported
  <2> HIDE DEF table, flag, main
  <2> QED BY <1>2, <1>3, <1>4 DEF Module
<1>6. modules' = [modules EXCEPT ![n] = m] /\ Goto("loaded") /\ heap' = heap
      /\ Allocate({Block(n, use) : use \in {}})
      /\ UNCHANGED <<host, executables, libraries, result>>
  BY DEF ProcessRelocations, Allocate
<1>7. {} \in SUBSET OwnUses /\ "loaded" \in Stages \ {"header"}
      /\ "loaded" \notin {"modules", "dependencies"}
  BY DEF OwnUses, Stages
<1> HIDE DEF m, table, flag, main
<1> QED BY <1>1, <1>2, <1>3, <1>4, <1>5, <1>6, <1>7, ProcessingKeeps

\* The host's own calls, and what there is no saying the outcome of.
LEMMA QuietKeeps ==
  ASSUME IInv, UNCHANGED <<modules, stack, executables, libraries, heap>>,
         environment' \in Environments, resolver' \in BOOLEAN, result' \in Results
  PROVE  IInv'
<1>1. /\ modules' = modules /\ stack' = stack /\ executables' = executables
      /\ libraries' = libraries /\ heap' = heap
  OBVIOUS
<1>2. Tree' = Tree
  BY <1>1 DEF Tree
<1>3. Typed' /\ InOrder' /\ Sound'
  BY <1>1 DEF IInv, Typed, InOrder, Sound
<1>4. Alive' = Alive /\ Roots' = Roots /\ Loading' = Loading
  BY <1>1 DEF Alive, Roots, Loading
<1>5. \A n : Below(n)' = Below(n) /\ Imports(n)' = Imports(n) /\ HasParent(n)' = HasParent(n)
  BY <1>1, <1>2 DEF Below, Imports, HasParent
<1>6. Linked' /\ OneParent' /\ RootsHaveNoParent' /\ AliveClosed' /\ RootsAlive'
  BY <1>1, <1>4, <1>5
     DEF IInv, Linked, OneParent, RootsHaveNoParent, AliveClosed, RootsAlive
<1>7. Exported' /\ Used' /\ Accounted'
  BY <1>1, <1>4, <1>5 DEF IInv, Exported, Used, Accounted, Block
<1>8. Activations'
  BY <1>1, <1>4, <1>5 DEF IInv, Activations, Runs, Block
<1> QED BY <1>3, <1>6, <1>7, <1>8 DEF IInv

\* load_module returns to the load_module that called it.
LEMMA ReturnKeeps == IInv /\ Return => IInv'
<1> SUFFICES ASSUME IInv, Return PROVE IInv'
  OBVIOUS
<1>1. /\ stack # <<>> /\ Top.stage = "loaded" /\ Len(stack) > 1 /\ stack' = Front(stack)
      /\ modules' = modules /\ executables' = executables /\ libraries' = libraries
      /\ heap' = heap /\ environment' = environment /\ resolver' = resolver
      /\ result' = result
  BY DEF Return, At, host
<1>2. stack \in Seq(Activation) /\ Len(stack) \in Nat /\ DOMAIN stack = 1..Len(stack)
      /\ Top = stack[Len(stack)]
  BY <1>1, TopFacts DEF IInv, Typed
<1>3. /\ stack' \in Seq(Activation) /\ Len(stack') = Len(stack) - 1
      /\ DOMAIN stack' = 1..Len(stack) - 1 /\ stack' # <<>>
      /\ \A k \in 1..Len(stack) - 1 : stack'[k] = stack[k]
  <2>1. /\ stack' \in Seq(Activation) /\ Len(stack') = Len(stack) - 1
        /\ \A k \in 1..Len(stack) - 1 : stack'[k] = stack[k]
    BY <1>1, <1>2, PopIsFront
  <2> QED BY <1>1, <1>2, <2>1
<1>4. Tree' = Tree
  BY <1>1 DEF Tree
<1>5. /\ 1 \in DOMAIN stack' /\ stack'[1] = stack[1] /\ stack # <<>>
      /\ \A k \in DOMAIN stack' : k \in DOMAIN stack /\ k < Len(stack) /\ stack'[k] = stack[k]
  BY <1>1, <1>2, <1>3
<1>6. Alive' = Alive /\ Roots' = Roots /\ Loading' = Loading
  BY <1>1, <1>3, <1>5 DEF Alive, Roots, Loading
<1>7. \A n : Below(n)' = Below(n) /\ Imports(n)' = Imports(n) /\ HasParent(n)' = HasParent(n)
  BY <1>1, <1>4 DEF Below, Imports, HasParent
<1>8. Typed' /\ InOrder' /\ Sound'
  BY <1>1, <1>3 DEF IInv, Typed, InOrder, Sound
<1>9. Linked' /\ OneParent' /\ RootsHaveNoParent' /\ AliveClosed' /\ RootsAlive'
  BY <1>1, <1>6, <1>7
     DEF IInv, Linked, OneParent, RootsHaveNoParent, AliveClosed, RootsAlive
<1>10. Used' /\ Accounted'
  BY <1>1, <1>6, <1>7 DEF IInv, Used, Accounted, Block
<1>11. Exported'
  <2>1. SUFFICES ASSUME NEW n \in Alive, ~modules[n].exported
                 PROVE  \E k \in DOMAIN stack' :
                          /\ stack'[k].module = n
                          /\ stack'[k].stage \in {"header", "modules", "dependencies", "data"}
    BY <1>1, <1>6 DEF Exported
  <2>2. PICK k \in DOMAIN stack :
          /\ stack[k].module = n
          /\ stack[k].stage \in {"header", "modules", "dependencies", "data"}
    BY <2>1 DEF IInv, Exported
  <2>3. k \in DOMAIN stack' /\ stack'[k] = stack[k]
    BY <1>1, <1>2, <1>3, <2>2
  <2> QED BY <2>2, <2>3
<1>12. Activations'
  <2>1. SUFFICES ASSUME NEW k \in DOMAIN stack' PROVE Runs(k)'
    BY DEF Activations
  <2>2. Runs(k) /\ k < Len(stack) /\ stack'[k] = stack[k]
    BY <1>5 DEF IInv, Activations
  <2>3. /\ k > 1 => stack'[k - 1] = stack[k - 1]
        /\ \A j \in 1..k - 1 : stack'[j] = stack[j]
    BY <1>2, <1>3
  <2> QED BY <1>1, <1>5, <1>6, <1>7, <2>2, <2>3 DEF Runs, Block
<1> QED BY <1>8, <1>9, <1>10, <1>11, <1>12 DEF IInv

\* The call that the host made returns, and the root is in the list of its class.
LEMMA FinishKeeps ==
  ASSUME IInv, stack # <<>>, Len(stack) = 1, Top.stage = "loaded", stack' = <<>>,
         NEW main \in {Null, Entry} \cup DOMAIN modules,
         modules' = [modules EXCEPT ![Top.module].main = main],
         UNCHANGED <<host, heap>>, result' \in Results,
         \/ /\ executables' = Append(executables, Top.module)
            /\ libraries' = libraries
         \/ /\ libraries' = Append(libraries, Top.module)
            /\ executables' = executables
  PROVE  IInv'
<1> DEFINE n == Top.module
           m == [modules[n] EXCEPT !.main = main]
           T == DOMAIN modules
<1>1. /\ DOMAIN stack = {1} /\ n = stack[1].module /\ stack[1].stage = "loaded"
      /\ n \in Alive /\ n \in DOMAIN modules /\ modules[n] \in Module
  BY TopFacts
<1>2. /\ modules \in Seq(Module)
      /\ executables \in Seq(DOMAIN modules) /\ libraries \in Seq(DOMAIN modules)
  BY DEF IInv, Typed
<1>3. main \in Int
  BY <1>2 DEF Null, Entry
<1>4. /\ m \in Module /\ m.image = modules[n].image /\ m.imported = modules[n].imported
      /\ m.class = modules[n].class /\ m.has_entry = modules[n].has_entry
      /\ m.main = main /\ m.lot = modules[n].lot /\ m.data = modules[n].data
      /\ m.exported = modules[n].exported
  BY <1>1, <1>3 DEF Module
<1>5. modules' = [modules EXCEPT ![n] = m]
  OBVIOUS
<1> HIDE DEF m
<1>6. /\ modules' \in Seq(Module) /\ DOMAIN modules' = DOMAIN modules /\ SameFamily
      /\ \A x \in DOMAIN modules : modules'[x] = IF x = n THEN m ELSE modules[x]
  BY <1>1, <1>2, <1>4, <1>5, UpdateFacts
<1>7. \A x \in DOMAIN modules :
        /\ modules'[x].image = modules[x].image /\ modules'[x].lot = modules[x].lot
        /\ modules'[x].imported = modules[x].imported /\ modules'[x].data = modules[x].data
        /\ modules'[x].exported = modules[x].exported /\ modules'[x].class = modules[x].class
        /\ modules'[x].has_entry = modules[x].has_entry
        /\ modules'[x].main = modules[x].main \/ modules'[x].main = main
  BY <1>4, <1>6
<1>8. /\ executables' \in Seq(DOMAIN modules) /\ libraries' \in Seq(DOMAIN modules)
      /\ \/ /\ Range(executables') = Range(executables) \cup {n}
            /\ Range(libraries') = Range(libraries)
         \/ /\ Range(libraries') = Range(libraries) \cup {n}
            /\ Range(executables') = Range(executables)
      /\ IsInjective(executables) /\ n \notin Range(executables) => IsInjective(executables')
      /\ IsInjective(libraries) /\ n \notin Range(libraries) => IsInjective(libraries')
  <2>1. n \in T /\ executables \in Seq(T) /\ libraries \in Seq(T)
    BY <1>1, <1>2
  <2> HIDE DEF T, n
  <2>2. \A seq \in {executables, libraries} :
          /\ Append(seq, n) \in Seq(T) /\ Range(Append(seq, n)) = Range(seq) \cup {n}
          /\ IsInjective(seq) /\ n \notin Range(seq) => IsInjective(Append(seq, n))
    BY <2>1, AppendFacts
  <2>3. \/ executables' = Append(executables, n) /\ libraries' = libraries
        \/ libraries' = Append(libraries, n) /\ executables' = executables
    BY DEF n
  <2> QED BY <2>1, <2>2, <2>3 DEF T
<1>9. Loading = {n} /\ Loading' = {} /\ Roots' = Roots
  BY <1>1, <1>8 DEF Loading, Roots
<1>10. n \notin Range(executables) /\ n \notin Range(libraries)
  BY <1>9 DEF IInv, RootsAlive
<1>11. IsInjective(executables') /\ IsInjective(libraries')
  BY <1>8, <1>10 DEF IInv, RootsAlive
<1>12. /\ Alive' = Alive
       /\ \A x \in DOMAIN modules : Imports(x)' = Imports(x) /\ Below(x)' = Below(x)
       /\ \A x : HasParent(x)' <=> HasParent(x)
       /\ InOrder' /\ OneParent' /\ RootsHaveNoParent' /\ AliveClosed'
  BY <1>6, <1>9, FamilyStays
<1>13. RootsAlive'
  <2>1. Range(executables') \cap Range(libraries') = {}
    BY <1>8, <1>10 DEF IInv, RootsAlive
  <2> QED BY <1>9, <1>11, <1>12, <2>1 DEF IInv, RootsAlive
<1>14. Typed'
  BY <1>6, <1>8 DEF IInv, Typed, host
<1>15. Sound'
  BY <1>6, <1>7 DEF IInv, Sound
<1>16. Linked'
  BY <1>6, <1>7, <1>12 DEF IInv, Linked
<1>17. Exported'
  BY <1>1, <1>6, <1>7, <1>12 DEF IInv, Exported, Alive
<1>18. Activations'
  <2>1. DOMAIN stack' = {}
    OBVIOUS
  <2> QED BY <2>1 DEF Activations
<1>19. Used'
  <2>1. Alive \subseteq DOMAIN modules /\ heap' = heap
    BY DEF Alive
  <2>2. \A x \in Alive :
          /\ modules'[x].image = modules[x].image /\ modules'[x].lot = modules[x].lot
          /\ modules'[x].imported = modules[x].imported /\ modules'[x].data = modules[x].data
          /\ Imports(x)' = Imports(x)
    BY <1>7, <1>12, <2>1
  <2> QED BY <1>12, <2>1, <2>2 DEF IInv, Used, Block
<1>20. Accounted'
  BY <1>9, <1>12 DEF IInv, Accounted
<1> QED BY <1>12, <1>13, <1>14, <1>15, <1>16, <1>17, <1>18, <1>19, <1>20 DEF IInv

\* load_executable, after load_module has returned
LEMMA FinishExecutableKeeps ==
  ASSUME IInv, FinishExecutable, ~Refuse
  PROVE  IInv'
<1> DEFINE n == Top.module
           own == FirstDefining(Tree[n], "main")
           main == IF modules[n].has_entry THEN modules[n].main ELSE own
<1>1. /\ stack # <<>> /\ Len(stack) = 1 /\ Top.stage = "loaded" /\ stack' = <<>>
      /\ modules' = [modules EXCEPT ![n].main = main]
      /\ executables' = Append(executables, n) /\ libraries' = libraries
      /\ UNCHANGED <<host, heap>> /\ result' \in Results
  BY DEF FinishExecutable, At, Results
<1>2. main \in {Null, Entry} \cup DOMAIN modules
  <2>1. n \in DOMAIN modules /\ modules[n].main \in {Null, Entry} \cup DOMAIN modules
    BY <1>1, TopModule
  <2>2. own \in {Null} \cup Below(n)
    BY <2>1, FoundIsBelow
  <2>3. Below(n) \subseteq DOMAIN modules
    <3>1. Below(n) \subseteq n..Len(modules) /\ DOMAIN modules = 1..Len(modules)
      BY <2>1, BelowFacts DEF IInv, Typed
    <3> QED BY <2>1, <3>1
  <2> QED BY <2>1, <2>2, <2>3
<1> HIDE DEF main
<1> QED BY <1>1, <1>2, FinishKeeps

\* load_library, after load_module has returned
LEMMA FinishLibraryKeeps == IInv /\ FinishLibrary => IInv'
<1> SUFFICES ASSUME IInv, FinishLibrary PROVE IInv'
  OBVIOUS
<1> DEFINE n == Top.module
<1>1. /\ stack # <<>> /\ Len(stack) = 1 /\ Top.stage = "loaded" /\ stack' = <<>>
      /\ modules' = modules
      /\ libraries' = Append(libraries, n) /\ executables' = executables
      /\ UNCHANGED <<host, heap>> /\ result' \in Results
  BY DEF FinishLibrary, At, Results
<1>2. /\ n \in DOMAIN modules /\ modules[n] \in Module
      /\ modules[n].main \in {Null, Entry} \cup DOMAIN modules
  BY <1>1, TopModule
<1>3. modules' = [modules EXCEPT ![n].main = modules[n].main]
  <2>1. modules[n] = [modules[n] EXCEPT !.main = modules[n].main]
    BY <1>2 DEF Module
  <2>2. modules \in Seq(Module)
    BY DEF IInv, Typed
  <2> QED BY <1>1, <1>2, <2>1, <2>2
<1> QED BY <1>1, <1>2, <1>3, FinishKeeps

Adds(base, child) ==
  \A x \in DOMAIN modules :
    base[x].imported \in {modules[x].imported, Append(modules[x].imported, child)}

\* What constructing a module, M, does to the others: one of them imports it, if any.
LEMMA ConstructFacts ==
  ASSUME IInv, NEW child, child = Len(modules) + 1, NEW M \in Module, M.imported = <<>>,
         NEW base \in Seq(Module), Len(base) = Len(modules), modules' = Append(base, M),
         Adds(base, child)
  PROVE  /\ modules' \in Seq(Module) /\ Len(modules') = child /\ child \in Nat
         /\ DOMAIN modules' = DOMAIN modules \cup {child} /\ child \notin DOMAIN modules
         /\ \A x \in DOMAIN modules : modules'[x] = base[x]
         /\ modules'[child] = M
         /\ InOrder'
         /\ \A x \in DOMAIN modules :
              /\ Imports(x) \subseteq DOMAIN modules
              /\ base[x].imported = modules[x].imported => Imports(x)' = Imports(x)
              /\ base[x].imported = Append(modules[x].imported, child) =>
                   Imports(x)' = Imports(x) \cup {child}
         /\ Imports(child)' = {}
         /\ \A x \in DOMAIN modules : Below(x) \subseteq Below(x)'
         /\ \A x \in DOMAIN modules' :
              /\ x \in Below(x)'
              /\ \A y \in Below(x)' : Imports(y)' \subseteq Below(x)'
<1>1. /\ modules \in Seq(Module) /\ InOrder /\ Len(modules) \in Nat /\ child \in Nat
      /\ DOMAIN modules = 1..Len(modules)
  BY DEF IInv, Typed
<1>2. /\ modules' \in Seq(Module) /\ Len(modules') = child
      /\ \A x \in DOMAIN modules : modules'[x] = base[x]
      /\ modules'[child] = M
  BY <1>1, PushIsAppend
<1>3. /\ DOMAIN modules' = DOMAIN modules \cup {child} /\ child \notin DOMAIN modules
      /\ DOMAIN modules' = 1..child
  BY <1>1, <1>2
<1>4. ASSUME NEW x \in DOMAIN modules
      PROVE  /\ modules'[x].imported \in Seq(x + 1..child)
             /\ Imports(x) \subseteq DOMAIN modules
             /\ base[x].imported = modules[x].imported => Imports(x)' = Imports(x)
             /\ base[x].imported = Append(modules[x].imported, child) =>
                  Imports(x)' = Imports(x) \cup {child}
             /\ \A k \in DOMAIN modules[x].imported :
                  /\ k \in DOMAIN modules'[x].imported
                  /\ modules'[x].imported[k] = modules[x].imported[k]
  <2> DEFINE T == x + 1..Len(modules)
             U == x + 1..child
             old == modules[x].imported
             new == Append(old, child)
  <2>1. old \in Seq(T) /\ T \subseteq U /\ child \in U /\ T \subseteq DOMAIN modules
    BY <1>1 DEF InOrder
  <2>2. /\ old \in Seq(U) /\ new \in Seq(U) /\ Range(new) = Range(old) \cup {child}
        /\ Range(old) \subseteq DOMAIN modules
    <3> HIDE DEF T, U, old
    <3>1. old \in Seq(U)
      BY ONLY <2>1, WiderSeq
    <3>2. new \in Seq(U) /\ Range(new) = Range(old) \cup {child}
      BY ONLY <2>1, <3>1, AppendFacts
    <3>3. \A k \in DOMAIN old : old[k] \in T
      BY ONLY <2>1, ElementOfSeq
    <3> QED BY <2>1, <3>1, <3>2, <3>3 DEF Range
  <2>3. \A k \in DOMAIN old : k \in DOMAIN new /\ new[k] = old[k]
    <3> HIDE DEF T, U, old
    <3>1. /\ Len(new) = Len(old) + 1 /\ Len(old) \in Nat /\ DOMAIN old = 1..Len(old)
          /\ new \in Seq(U) /\ \A k \in 1..Len(old) : new[k] = old[k]
      BY <2>1, <2>2, PushIsAppend
    <3> QED BY <3>1
  <2>4. modules'[x].imported = base[x].imported /\ base[x].imported \in {old, new}
    BY <1>2 DEF Adds
  <2>5. Imports(x) = Range(old) /\ Imports(x)' = Range(modules'[x].imported)
    BY DEF Imports
  <2> HIDE DEF old, new, U
  <2> QED BY <2>2, <2>3, <2>4, <2>5 DEF old, new, U
<1>5. M.imported \in Seq(child + 1..child) /\ Imports(child)' = {}
  <2>1. Range(M.imported) = {}
    BY DEF Range
  <2>2. <<>> \in Seq(child + 1..child)
    OBVIOUS
  <2> QED BY <1>2, <2>1, <2>2 DEF Imports
<1>6. InOrder'
  BY <1>2, <1>3, <1>4, <1>5 DEF InOrder
<1>7. Kept(modules, modules')
  BY <1>4 DEF Kept
<1>8. \A x \in DOMAIN modules : Below(x) \subseteq Below(x)'
  BY <1>1, <1>2, <1>6, <1>7, BelowGrows
<1>9. \A x \in DOMAIN modules' :
        /\ x \in Below(x)'
        /\ \A y \in Below(x)' : Imports(y)' \subseteq Below(x)'
  BY <1>2, <1>6, NextBelowFacts
<1> QED BY <1>1, <1>2, <1>3, <1>4, <1>5, <1>6, <1>8, <1>9

\* The roots that the host holds, and the loader's lists of them.
LEMMA ListsFacts ==
  ASSUME IInv
  PROVE  /\ Range(executables) \subseteq DOMAIN modules /\ Range(libraries) \subseteq DOMAIN modules
         /\ Roots \subseteq Alive /\ Alive \subseteq DOMAIN modules
<1>1. executables \in Seq(DOMAIN modules) /\ libraries \in Seq(DOMAIN modules)
  BY DEF IInv, Typed
<1> DEFINE T == DOMAIN modules
<1>2. \A k \in DOMAIN executables : executables[k] \in T
  <2> HIDE DEF T
  <2> QED BY <1>1, ElementOfSeq DEF T
<1>3. \A k \in DOMAIN libraries : libraries[k] \in T
  <2> HIDE DEF T
  <2> QED BY <1>1, ElementOfSeq DEF T
<1> QED BY <1>2, <1>3 DEF Range, IInv, RootsAlive, Alive

\* What a Module is when it is constructed.
LEMMA NewFacts ==
  ASSUME NEW class \in {"executable", "library"}, NEW i \in Images \cup {NoImage}
  PROVE  LET m == New(class, i)
         IN  /\ m \in Module /\ m.image = i /\ m.class = class /\ m.lot = <<>>
             /\ m.data = "none" /\ m.imported = <<>> /\ m.main = Null
             /\ ~m.exported /\ ~m.has_entry
<1>1. <<>> \in Lots /\ <<>> \in Seq(Nat) /\ Null \in Int
  BY DEF Lots, Null
<1> QED BY <1>1 DEF New, Module

\* The host asks for an image to be loaded.
LEMMA BeginKeeps ==
  ASSUME IInv, NEW kind \in {"executable", "library"}, NEW i \in Images, Begin(kind, i)
  PROVE  IInv'
<1>1. PICK flag \in IF kind = "executable" THEN FreshEntry ELSE {FALSE} :
        modules' = Append(modules, [New(kind, i) EXCEPT !.has_entry = flag])
  BY DEF Begin
<1> DEFINE M == [New(kind, i) EXCEPT !.has_entry = flag]
<1>2. PICK child : child = Len(modules) + 1
  OBVIOUS
<1>3. /\ stack = <<>> /\ stack' = <<Call(child)>>
      /\ kind = "library" => ~takes_entry(i)
      /\ result' = "none" /\ UNCHANGED <<host, executables, libraries, heap>>
  BY <1>2 DEF Begin, Idle
<1>4. /\ M \in Module /\ M.image = i /\ M.class = kind /\ M.lot = <<>> /\ M.data = "none"
      /\ M.imported = <<>> /\ M.main = Null /\ ~M.exported
      /\ M.has_entry => kind = "executable"
  <2>1. /\ flag \in BOOLEAN
        /\ flag => kind = "executable"
    BY ImageAssumption
  <2>2. <<>> \in Lots /\ <<>> \in Seq(Nat) /\ Null \in Int
    BY DEF Lots, Null
  <2> DEFINE fresh == New(kind, i)
  <2>3. /\ fresh \in Module /\ fresh.image = i /\ fresh.class = kind /\ fresh.lot = <<>>
        /\ fresh.data = "none" /\ fresh.imported = <<>> /\ fresh.main = Null
        /\ ~fresh.exported
    BY <2>2, NewFacts
  <2> HIDE DEF fresh
  <2>4. M = [fresh EXCEPT !.has_entry = flag]
    BY DEF fresh
  <2> HIDE DEF M
  <2>5. M \in Module
    BY <2>1, <2>3, <2>4 DEF Module
  <2>6. /\ M.image = i /\ M.class = kind /\ M.lot = <<>> /\ M.data = "none"
        /\ M.imported = <<>> /\ M.main = Null /\ ~M.exported
    BY <2>3, <2>4 DEF Module
  <2>7. M.has_entry = flag
    BY <2>3, <2>4 DEF Module
  <2> QED BY <2>1, <2>5, <2>6, <2>7
<1> HIDE DEF M
<1>5. modules \in Seq(Module) /\ modules' = Append(modules, M)
  BY <1>1 DEF IInv, Typed, M
<1>6. /\ modules' \in Seq(Module) /\ Len(modules') = child /\ child \in Nat
      /\ DOMAIN modules' = DOMAIN modules \cup {child} /\ child \notin DOMAIN modules
      /\ \A x \in DOMAIN modules : modules'[x] = modules[x]
      /\ modules'[child] = M
      /\ InOrder'
      /\ \A x \in DOMAIN modules : Imports(x) \subseteq DOMAIN modules /\ Imports(x)' = Imports(x)
      /\ Imports(child)' = {}
      /\ \A x \in DOMAIN modules : Below(x) \subseteq Below(x)'
      /\ child \in Below(child)'
  <2>1. Adds(modules, child)
    BY DEF Adds
  <2> QED BY <1>2, <1>4, <1>5, <2>1, ConstructFacts
<1>7. /\ Range(executables) \subseteq DOMAIN modules /\ Range(libraries) \subseteq DOMAIN modules
      /\ Roots \subseteq Alive /\ Alive \subseteq DOMAIN modules
  BY ListsFacts
<1>8. Alive' = Alive \cup {child}
  <2>1. child \in Alive'
    BY <1>4, <1>6, ImageAssumption DEF Alive
  <2>2. \A x \in DOMAIN modules : x \in Alive' <=> x \in Alive
    BY <1>6 DEF Alive
  <2>3. Alive' \subseteq DOMAIN modules \cup {child}
    BY <1>6 DEF Alive
  <2> QED BY <1>7, <2>1, <2>2, <2>3
<1>9. /\ stack' \in Seq(Activation) /\ stack' # <<>> /\ DOMAIN stack' = {1} /\ Len(stack') = 1
      /\ stack'[1] = Call(child)
      /\ stack'[1].module = child /\ stack'[1].stage = "header" /\ stack'[1].next = 1
  <2>1. /\ Call(child) \in Activation /\ Call(child).module = child
        /\ Call(child).stage = "header" /\ Call(child).next = 1
    BY <1>6 DEF Call, Activation, Stages
  <2> QED BY <1>3, <2>1
<1>10. Loading = {} /\ Loading' = {child} /\ Roots' = Roots \cup {child}
  BY <1>3, <1>9 DEF Loading, Roots
<1>11. \A x : HasParent(x)' <=> HasParent(x)
  BY <1>6 DEF HasParent
<1>12. Typed'
  <2> DEFINE T == DOMAIN modules
             U == DOMAIN modules'
  <2>1. executables \in Seq(T) /\ libraries \in Seq(T) /\ T \subseteq U
    BY <1>6 DEF IInv, Typed
  <2>2. executables' \in Seq(U) /\ libraries' \in Seq(U)
    <3> HIDE DEF T, U
    <3> QED BY <1>3, <2>1, WiderSeq
  <2> QED BY <1>3, <1>6, <1>9, <2>2 DEF IInv, Typed, host, Results
<1>13. Sound'
  <2>1. SUFFICES ASSUME NEW x \in DOMAIN modules'
                 PROVE  /\ modules'[x].has_entry => modules'[x].class = "executable"
                        /\ takes_entry(modules'[x].image) => modules'[x].class = "executable"
                        /\ modules'[x].main \in {Null, Entry} \cup DOMAIN modules'
    BY DEF Sound
  <2> QED BY <1>3, <1>4, <1>6 DEF IInv, Sound
<1>14. Linked'
  <2>1. SUFFICES ASSUME NEW x \in DOMAIN modules, modules[x].lot # <<>>
                 PROVE  /\ x \in Alive'
                        /\ modules[x].lot \in
                             [Slots(modules[x].image) -> {Null, Environment} \cup Below(x)']
    BY <1>4, <1>6 DEF Linked
  <2> QED BY <1>6, <1>8, <2>1 DEF IInv, Linked
<1>15. OneParent' /\ RootsHaveNoParent' /\ AliveClosed'
  <2>1. OneParent'
    BY <1>6 DEF IInv, OneParent
  <2>2. RootsHaveNoParent'
    BY <1>6, <1>7, <1>10 DEF IInv, RootsHaveNoParent
  <2>3. AliveClosed'
    BY <1>6, <1>7, <1>8 DEF IInv, AliveClosed
  <2> QED BY <2>1, <2>2, <2>3
<1>16. RootsAlive'
  BY <1>3, <1>6, <1>7, <1>8, <1>10 DEF IInv, RootsAlive
<1>17. Exported'
  <2>1. \A x \in Alive : modules'[x].exported
    BY <1>3, <1>6, <1>7 DEF IInv, Exported
  <2> QED BY <1>8, <1>9, <2>1 DEF Exported
<1>18. Activations'
  <2>1. Runs(1)'
    BY <1>6, <1>8, <1>9 DEF Runs, Linking
  <2> QED BY <1>9, <2>1 DEF Activations
<1>19. Used'
  <2>1. \A x \in Alive : modules'[x] = modules[x] /\ Imports(x)' = Imports(x)
    BY <1>6, <1>7
  <2>2. DOMAIN modules'[child].lot = {}
    BY <1>4, <1>6
  <2> QED BY <1>3, <1>4, <1>6, <1>8, <2>1, <2>2 DEF IInv, Used, Block
<1>20. Accounted'
  BY <1>3, <1>10, <1>11 DEF IInv, Accounted
<1> QED BY <1>6, <1>12, <1>13, <1>14, <1>15, <1>16, <1>17, <1>18, <1>19, <1>20 DEF IInv

\* What a call of load_module for a dependency does to the stack.
LEMMA CallFacts ==
  ASSUME stack \in Seq(Activation), stack # <<>>, NEW child \in Nat, NEW stage \in Stages,
         stack' = Append([stack EXCEPT ![Len(stack)].next = @ + 1,
                                       ![Len(stack)].stage = stage],
                         Call(child))
  PROVE  /\ stack' \in Seq(Activation) /\ stack' # <<>> /\ Len(stack') = Len(stack) + 1
         /\ \A k \in 1..Len(stack) : stack'[k].module = stack[k].module
         /\ \A k \in 1..Len(stack) - 1 : stack'[k] = stack[k]
         /\ stack'[Len(stack)].stage = stage
         /\ stack'[Len(stack)].next = stack[Len(stack)].next + 1
         /\ stack'[Len(stack) + 1].module = child
         /\ stack'[Len(stack) + 1].stage = "header" /\ stack'[Len(stack) + 1].next = 1
<1> DEFINE top == stack[Len(stack)]
           called == [top EXCEPT !.next = top.next + 1, !.stage = stage]
           base == [stack EXCEPT ![Len(stack)] = called]
<1>1. DOMAIN stack = 1..Len(stack) /\ Len(stack) \in DOMAIN stack /\ Len(stack) \in Nat \ {0}
  OBVIOUS
<1>2. top \in Activation
  BY <1>1, ElementOfSeq
<1>3. /\ called \in Activation /\ called.module = top.module /\ called.stage = stage
      /\ called.next = top.next + 1
  <2> DEFINE more == top.next + 1
  <2>1. more \in Nat
    BY <1>2 DEF Activation
  <2> HIDE DEF top, more
  <2>2. /\ called \in Activation /\ called.module = top.module /\ called.stage = stage
        /\ called.next = more
    <3>1. called = [top EXCEPT !.next = more, !.stage = stage]
      BY DEF more
    <3> HIDE DEF called
    <3> QED BY <1>2, <2>1, <3>1 DEF Activation
  <2> QED BY <2>2 DEF more
<1>4. stack' = Append(base, Call(child))
  OBVIOUS
<1> HIDE DEF called
<1>5. /\ base \in Seq(Activation) /\ Len(base) = Len(stack)
      /\ \A k \in 1..Len(stack) : base[k] = IF k = Len(stack) THEN called ELSE stack[k]
  BY <1>1, <1>3
<1> HIDE DEF base
<1>6. /\ Call(child) \in Activation /\ Call(child).module = child
      /\ Call(child).stage = "header" /\ Call(child).next = 1
  BY DEF Call, Activation, Stages
<1>7. /\ stack' \in Seq(Activation) /\ Len(stack') = Len(stack) + 1
      /\ \A k \in 1..Len(stack) : stack'[k] = base[k]
      /\ stack'[Len(stack) + 1] = Call(child)
  <2>1. PICK c : c = Call(child)
    OBVIOUS
  <2>2. stack' = Append(base, c) /\ c \in Activation
    BY <1>4, <1>6, <2>1
  <2>3. /\ Append(base, c) \in Seq(Activation) /\ Len(Append(base, c)) = Len(base) + 1
        /\ \A k \in 1..Len(base) : Append(base, c)[k] = base[k]
        /\ Append(base, c)[Len(base) + 1] = c
    BY ONLY <1>5, <2>2, PushIsAppend
  <2> QED BY ONLY <1>5, <2>1, <2>2, <2>3
<1>8. stack' # <<>>
  BY ONLY <1>1, <1>7
<1>9. /\ \A k \in 1..Len(stack) : stack'[k].module = stack[k].module
      /\ \A k \in 1..Len(stack) - 1 : stack'[k] = stack[k]
      /\ stack'[Len(stack)] = called
  <2>1. \A k \in 1..Len(stack) : stack'[k] = IF k = Len(stack) THEN called ELSE stack[k]
    BY ONLY <1>5, <1>7
  <2>2. /\ \A k \in 1..Len(stack) - 1 : k \in 1..Len(stack) /\ k # Len(stack)
        /\ Len(stack) \in 1..Len(stack)
    <3>1. PICK l \in Nat \ {0} : l = Len(stack)
      BY <1>1
    <3>2. /\ \A k \in 1..l - 1 : k \in 1..l /\ k # l
          /\ l \in 1..l
      BY ONLY <3>1
    <3> QED BY ONLY <3>1, <3>2
  <2> QED BY ONLY <1>3, <2>1, <2>2
<1> QED BY ONLY <1>3, <1>6, <1>7, <1>8, <1>9

\* A dependency is constructed, and load_module called for it.
LEMMA LoadDependencyKeeps ==
  ASSUME IInv, LoadDependency, ~Refuse
  PROVE  IInv'
<1>1. PICK child, n, d, L : /\ child = Len(modules) + 1 /\ n = Top.module /\ d = Dependency
                            /\ L = Len(stack)
  OBVIOUS
<1> DEFINE old == modules[n].imported
           new == Append(old, child)
           owner == [modules[n] EXCEPT !.imported = new]
           base == [modules EXCEPT ![n] = owner]
           M == New(Kind[d], d)
           stage == IF Top.next = Len(Depends[Image]) THEN "data" ELSE "dependencies"
<1>2. /\ stack # <<>> /\ Top.stage = "dependencies" /\ IsModule(d)
      /\ heap' = heap \cup {Block(child, "object")}
      /\ modules' = Append(base, M)
      /\ stack' = Append([stack EXCEPT ![Len(stack)].next = @ + 1,
                                       ![Len(stack)].stage = stage],
                         Call(child))
      /\ executables' = executables /\ libraries' = libraries
      /\ environment' = environment /\ resolver' = resolver /\ result' = result
  BY <1>1 DEF LoadDependency, At, Allocate, host
<1>3. /\ modules \in Seq(Module) /\ InOrder /\ DOMAIN modules = 1..Len(modules)
      /\ Len(modules) \in Nat /\ child \in Nat /\ stack \in Seq(Activation)
  BY <1>1 DEF IInv, Typed
<1>4. /\ L \in Nat \ {0} /\ DOMAIN stack = 1..L /\ L \in DOMAIN stack /\ 1 \in DOMAIN stack
      /\ Top = stack[L] /\ stack[L].module = n /\ Top \in Activation
      /\ n \in Alive /\ n \in DOMAIN modules /\ modules[n] \in Module
      /\ Image \in Images /\ Image = modules[n].image
      /\ modules[n].lot \in [Slots(Image) -> {Null, Environment} \cup Below(n)]
  BY <1>1, <1>2, TopFacts, TopModule
<1>5. /\ Top.next \in DOMAIN Depends[Image] /\ Block(n, "modules") \in heap
      /\ stage \in {"dependencies", "data"}
      /\ stage = "dependencies" => Top.next + 1 \in DOMAIN Depends[Image]
  <2>1. Top.next \in DOMAIN Depends[Image] /\ Block(n, "modules") \in heap
    BY <1>2, <1>4 DEF IInv, Activations, Runs
  <2>2. Depends[Image] \in Seq(Images \cup {NoImage})
    BY <1>4, ImageAssumption
  <2>3. DOMAIN Depends[Image] = 1..Len(Depends[Image]) /\ Len(Depends[Image]) \in Nat
    BY <2>2
  <2> QED BY <2>1, <2>3
<1>6. d \in Images /\ Kind[d] \in {"executable", "library"}
  <2>1. d \in Images \cup {NoImage}
    <3>1. Depends[Image] \in Seq(Images \cup {NoImage})
      BY <1>4, ImageAssumption
    <3> QED BY <1>1, <1>5, <3>1, ElementOfSeq DEF Dependency
  <2> QED BY <1>2, <2>1, ImageAssumption DEF IsModule
<1>7. /\ M \in Module /\ M.image = d /\ M.class = Kind[d] /\ M.lot = <<>>
      /\ M.data = "none" /\ M.imported = <<>> /\ M.main = Null
      /\ ~M.exported /\ ~M.has_entry
  BY <1>6, NewFacts
<1> HIDE DEF M
<1>8. /\ owner \in Module /\ owner.imported = new
      /\ owner.image = modules[n].image /\ owner.class = modules[n].class
      /\ owner.lot = modules[n].lot /\ owner.data = modules[n].data
      /\ owner.exported = modules[n].exported /\ owner.has_entry = modules[n].has_entry
      /\ owner.main = modules[n].main
  <2>1. old \in Seq(Nat) /\ new \in Seq(Nat)
    <3>1. old \in Seq(Nat)
      BY <1>4 DEF Module
    <3> HIDE DEF old
    <3> QED BY <1>3, <3>1, PushIsAppend
  <2> HIDE DEF new
  <2> QED BY <1>4, <2>1 DEF Module
<1> HIDE DEF owner
<1>9. /\ base \in Seq(Module) /\ Len(base) = Len(modules)
      /\ \A x \in DOMAIN modules : base[x] = IF x = n THEN owner ELSE modules[x]
  BY <1>3, <1>4, <1>8
<1> HIDE DEF base
<1>10. /\ modules' \in Seq(Module)
       /\ DOMAIN modules' = DOMAIN modules \cup {child} /\ child \notin DOMAIN modules
       /\ \A x \in DOMAIN modules : modules'[x] = base[x]
       /\ modules'[child] = M
       /\ InOrder'
       /\ \A x \in DOMAIN modules :
            /\ Imports(x) \subseteq DOMAIN modules
            /\ base[x].imported = modules[x].imported => Imports(x)' = Imports(x)
            /\ base[x].imported = Append(modules[x].imported, child) =>
                 Imports(x)' = Imports(x) \cup {child}
       /\ Imports(child)' = {}
       /\ \A x \in DOMAIN modules : Below(x) \subseteq Below(x)'
       /\ \A x \in DOMAIN modules' :
            /\ x \in Below(x)'
            /\ \A y \in Below(x)' : Imports(y)' \subseteq Below(x)'
  <2>1. Adds(base, child)
    BY <1>8, <1>9 DEF Adds
  <2> HIDE DEF new
  <2> QED BY <1>1, <1>2, <1>7, <1>9, <2>1, ConstructFacts
<1>11. \A x \in DOMAIN modules :
         Imports(x)' = IF x = n THEN Imports(x) \cup {child} ELSE Imports(x)
  BY <1>8, <1>9, <1>10
<1> HIDE DEF old, new
<1>12. \A x \in DOMAIN modules :
         /\ modules'[x].image = modules[x].image /\ modules'[x].class = modules[x].class
         /\ modules'[x].lot = modules[x].lot /\ modules'[x].data = modules[x].data
         /\ modules'[x].exported = modules[x].exported /\ modules'[x].main = modules[x].main
         /\ modules'[x].has_entry = modules[x].has_entry
         /\ x # n => modules'[x].imported = modules[x].imported
  BY <1>8, <1>9, <1>10
<1>13. /\ Range(executables) \subseteq DOMAIN modules /\ Range(libraries) \subseteq DOMAIN modules
       /\ Roots \subseteq Alive /\ Alive \subseteq DOMAIN modules
  BY ListsFacts
<1>14. Alive' = Alive \cup {child}
  <2>1. child \in Alive'
    BY <1>6, <1>7, <1>10, ImageAssumption DEF Alive
  <2>2. \A x \in DOMAIN modules : x \in Alive' <=> x \in Alive
    BY <1>10, <1>12 DEF Alive
  <2>3. Alive' \subseteq DOMAIN modules \cup {child}
    BY <1>10 DEF Alive
  <2> QED BY <1>13, <2>1, <2>2, <2>3
<1>15. /\ stack' \in Seq(Activation) /\ stack' # <<>> /\ Len(stack') = L + 1
       /\ \A k \in 1..L : stack'[k].module = stack[k].module
       /\ \A k \in 1..L - 1 : stack'[k] = stack[k]
       /\ stack'[L].stage = stage /\ stack'[L].next = Top.next + 1
       /\ stack'[L + 1].module = child
       /\ stack'[L + 1].stage = "header" /\ stack'[L + 1].next = 1
  <2>1. stage \in Stages
    BY DEF Stages
  <2> HIDE DEF stage
  <2> QED BY <1>1, <1>2, <1>3, <1>4, <2>1, CallFacts
<1> HIDE DEF stage
<1>16. DOMAIN stack' = 1..L + 1 /\ L + 1 \in DOMAIN stack'
  BY <1>4, <1>15
<1>17. Loading' = Loading /\ Roots' = Roots
  <2>1. stack'[1].module = stack[1].module
    BY <1>4, <1>15
  <2> QED BY <1>2, <1>15, <2>1 DEF Loading, Roots
<1>18. /\ \A x \in DOMAIN modules : Imports(x) \subseteq Imports(x)'
       /\ \A x : HasParent(x) => HasParent(x)'
       /\ HasParent(child)'
  <2>1. \A x \in DOMAIN modules : Imports(x) \subseteq Imports(x)'
    BY <1>11
  <2>2. child \in Imports(n)'
    BY <1>4, <1>11
  <2> QED BY <1>4, <1>10, <2>1, <2>2 DEF HasParent
<1>19. Typed'
  <2> DEFINE T == DOMAIN modules
             U == DOMAIN modules'
  <2>1. executables \in Seq(T) /\ libraries \in Seq(T) /\ T \subseteq U
    BY <1>10 DEF IInv, Typed
  <2>2. executables' \in Seq(U) /\ libraries' \in Seq(U)
    <3> HIDE DEF T, U
    <3> QED BY <1>2, <2>1, WiderSeq
  <2>3. heap' \subseteq [owner : Nat, use : {"lot", "init", "data", "modules", "object"}]
    <3>1. heap \subseteq [owner : Nat, use : {"lot", "init", "data", "modules", "object"}]
      BY DEF IInv, Typed
    <3>2. Block(child, "object") \in
            [owner : Nat, use : {"lot", "init", "data", "modules", "object"}]
      BY <1>3 DEF Block
    <3> QED BY <1>2, <3>1, <3>2
  <2> QED BY <1>2, <1>10, <1>15, <2>2, <2>3 DEF IInv, Typed
<1>20. Sound'
  <2>1. SUFFICES ASSUME NEW x \in DOMAIN modules'
                 PROVE  /\ modules'[x].has_entry => modules'[x].class = "executable"
                        /\ takes_entry(modules'[x].image) => modules'[x].class = "executable"
                        /\ modules'[x].main \in {Null, Entry} \cup DOMAIN modules'
    BY DEF Sound
  <2>2. takes_entry(M.image) => M.class = "executable"
    BY <1>7 DEF takes_entry
  <2> QED BY <1>7, <1>10, <1>12, <2>2 DEF IInv, Sound
<1>21. Linked'
  <2>1. SUFFICES ASSUME NEW x \in DOMAIN modules, modules[x].lot # <<>>
                 PROVE  /\ x \in Alive'
                        /\ modules[x].lot \in
                             [Slots(modules[x].image) -> {Null, Environment} \cup Below(x)']
    BY <1>7, <1>10, <1>12 DEF Linked
  <2> QED BY <1>10, <1>14, <2>1 DEF IInv, Linked
<1>22. OneParent' /\ RootsHaveNoParent' /\ AliveClosed'
  <2>1. OneParent'
    BY <1>10, <1>11 DEF IInv, OneParent
  <2>2. RootsHaveNoParent'
    BY <1>10, <1>11, <1>13, <1>17 DEF IInv, RootsHaveNoParent
  <2>3. AliveClosed'
    BY <1>10, <1>11, <1>13, <1>14 DEF IInv, AliveClosed
  <2> QED BY <2>1, <2>2, <2>3
<1>23. RootsAlive'
  BY <1>2, <1>14, <1>17 DEF IInv, RootsAlive
<1>24. Exported'
  <2>1. SUFFICES ASSUME NEW x \in Alive', ~modules'[x].exported
                 PROVE  \E k \in DOMAIN stack' :
                          /\ stack'[k].module = x
                          /\ stack'[k].stage \in {"header", "modules", "dependencies", "data"}
    BY DEF Exported
  <2>2. CASE x = child
    BY <1>15, <1>16, <2>2
  <2>3. CASE x # child
    <3>1. x \in Alive /\ ~modules[x].exported
      BY <1>12, <1>13, <1>14, <2>1, <2>3
    <3>2. PICK k \in DOMAIN stack :
            /\ stack[k].module = x
            /\ stack[k].stage \in {"header", "modules", "dependencies", "data"}
      BY <3>1 DEF IInv, Exported
    <3>3. k \in DOMAIN stack' /\ stack'[k].module = x
      BY <1>4, <1>15, <1>16, <3>2
    <3>4. stack'[k].stage \in {"header", "modules", "dependencies", "data"}
      BY <1>4, <1>5, <1>15, <3>2
    <3> QED BY <3>3, <3>4
  <2> QED BY <2>2, <2>3
<1>25. Activations'
  <2>1. SUFFICES ASSUME NEW k \in DOMAIN stack' PROVE Runs(k)'
    BY DEF Activations
  <2>2. /\ stack'[1].module = stack[1].module /\ stack[1].module \in DOMAIN modules
        /\ \A j \in DOMAIN stack : stack[j].module \in Alive /\ stack[j].module \in DOMAIN modules
    BY <1>4, <1>13, <1>15 DEF IInv, Activations, Runs
  <2>3. CASE k = L + 1
    <3>1. /\ child \in Imports(n)' /\ n \in Below(stack[1].module)
          /\ stack'[L].module = n
      BY <1>4, <1>11, <1>15 DEF IInv, Activations, Runs
    <3>2. child \in Below(stack[1].module)'
      <4>1. PICK r : r = stack[1].module
        OBVIOUS
      <4>2. child \in Below(r)'
        <5>1. r \in DOMAIN modules /\ n \in Below(r)
          BY <2>2, <3>1, <4>1
        <5> QED BY <1>10, <3>1, <5>1
      <4> QED BY <2>2, <4>1, <4>2 DEF Below
    <3>3. \A j \in 1..k - 1 : stack'[j].module < child
      BY <1>1, <1>3, <1>4, <1>15, <2>2, <2>3
    <3>4. child \in Imports(stack[k - 1].module)'
      <4>1. k - 1 = L
        BY <1>4, <2>3
      <4> QED BY <3>1, <4>1 DEF Imports
    <3> QED BY <1>4, <1>14, <1>15, <2>3, <3>2, <3>3, <3>4 DEF Runs, Linking, Below
  <2>4. CASE k # L + 1
    <3> DEFINE x == stack[k].module
    <3>1. PICK y, r : y = stack[k].module /\ r = stack[1].module
      OBVIOUS
    <3>2. /\ k \in DOMAIN stack /\ k \in 1..L /\ stack'[k].module = y /\ Runs(k)
          /\ y \in Alive /\ y \in DOMAIN modules /\ r \in DOMAIN modules
          /\ \A j \in 1..k - 1 : stack'[j].module = stack[j].module
      BY <1>4, <1>15, <1>16, <2>2, <2>4, <3>1 DEF IInv, Activations
    <3>3. y \in Alive' /\ y \in Below(r)'
      BY <1>10, <1>14, <3>1, <3>2 DEF Runs
    <3>4. k > 1 => \E p : p = stack'[k - 1].module /\ y \in Imports(p)'
      <4>1. SUFFICES ASSUME k > 1
                     PROVE  \E p : p = stack'[k - 1].module /\ y \in Imports(p)'
        OBVIOUS
      <4>2. k - 1 \in DOMAIN stack /\ stack'[k - 1].module = stack[k - 1].module
        BY <1>4, <3>2, <4>1
      <4>3. PICK p : p = stack[k - 1].module
        OBVIOUS
      <4>4. y \in Imports(p) /\ p \in DOMAIN modules
        BY <2>2, <3>1, <3>2, <4>1, <4>2, <4>3 DEF Runs
      <4> QED BY <1>18, <4>2, <4>3, <4>4
    <3>5. \A j \in 1..k - 1 : stack'[j].module < y
      BY <3>1, <3>2 DEF Runs
    <3>6. /\ stack'[k].stage \in {"dependencies", "data"}
          /\ stack'[k].stage = "dependencies" =>
               stack'[k].next \in DOMAIN Depends[modules[y].image] /\ Block(y, "modules") \in heap
      <4>1. CASE k = L
        BY <1>4, <1>5, <1>15, <3>1, <4>1
      <4>2. CASE k # L
        BY <1>1, <1>4, <1>15, <3>1, <3>2, <4>2 DEF Runs
      <4> QED BY <4>1, <4>2
    <3>7. modules[y].lot \in [Slots(modules[y].image) -> {Null, Environment} \cup Below(y)]
      <4>1. CASE k = L
        BY <1>4, <3>1, <4>1
      <4>2. CASE k # L
        BY <1>1, <1>4, <3>1, <3>2, <4>2 DEF Runs
      <4> QED BY <4>1, <4>2
    <3>8. modules'[y].lot \in [Slots(modules'[y].image) -> {Null, Environment} \cup Below(y)']
      BY <1>10, <1>12, <3>2, <3>7
    <3>9. /\ Below(r)' = Below(stack[1].module)' /\ Below(y)' = Below(stack[k].module)'
          /\ k > 1 => y \in Imports(stack[k - 1].module)'
      BY <2>2, <3>1, <3>2, <3>4 DEF Below, Imports
    <3>10. /\ stack'[k].stage = "dependencies" =>
                /\ stack'[k].next \in DOMAIN Depends[modules'[y].image]
                /\ Block(y, "modules") \in heap'
           /\ stack'[k].stage \notin {"header", "modules"} \cup Linking
      <4>1. heap \subseteq heap' /\ modules'[y].image = modules[y].image
        BY <1>2, <1>12, <3>2
      <4> QED BY ONLY <3>6, <4>1 DEF Linking
    <3> QED BY <3>2, <3>3, <3>5, <3>6, <3>8, <3>9, <3>10 DEF Runs, Block
  <2> QED BY <2>3, <2>4
<1>26. Used'
  <2>1. SUFFICES ASSUME NEW x \in Alive'
                 PROVE  /\ DOMAIN modules'[x].lot # {} => Block(x, "lot") \in heap'
                        /\ modules'[x].data # "none" /\ modules'[x].image \in HasData =>
                             Block(x, "data") \in heap'
                        /\ modules'[x].imported # <<>> => Block(x, "modules") \in heap'
                        /\ \A c \in Imports(x)' : Block(c, "object") \in heap'
    BY DEF Used, Block
  <2>2. CASE x = child
    <3>1. DOMAIN modules'[x].lot = {} /\ Imports(x)' = {}
      BY <1>7, <1>10, <2>2
    <3> QED BY <1>7, <1>10, <2>2, <3>1
  <2>3. CASE x # child
    <3>1. /\ x \in Alive /\ x \in DOMAIN modules
          /\ DOMAIN modules[x].lot # {} => Block(x, "lot") \in heap
          /\ modules[x].data # "none" /\ modules[x].image \in HasData =>
               Block(x, "data") \in heap
          /\ modules[x].imported # <<>> => Block(x, "modules") \in heap
          /\ \A c \in Imports(x) : Block(c, "object") \in heap
      BY <1>13, <1>14, <2>1, <2>3 DEF IInv, Used
    <3>2. modules'[x].imported # <<>> => Block(x, "modules") \in heap'
      BY <1>2, <1>5, <1>12, <3>1
    <3>3. \A c \in Imports(x)' : Block(c, "object") \in heap'
      BY <1>2, <1>11, <3>1
    <3> QED BY <1>2, <1>12, <3>1, <3>2, <3>3
  <2> QED BY <2>2, <2>3
<1>27. Accounted'
  <2>1. SUFFICES ASSUME NEW b \in heap'
                 PROVE  /\ b.owner \in Roots' \/ HasParent(b.owner)'
                        /\ b.use = "object" => HasParent(b.owner)'
    BY DEF Accounted
  <2>2. CASE b \in heap
    BY <1>17, <1>18, <2>2 DEF IInv, Accounted
  <2>3. CASE b = Block(child, "object")
    <3>1. b.owner = child
      BY <2>3 DEF Block
    <3> QED BY <1>18, <3>1
  <2> QED BY <1>2, <2>2, <2>3
<1> QED BY <1>10, <1>19, <1>20, <1>21, <1>22, <1>23, <1>24, <1>25, <1>26, <1>27 DEF IInv

\* Whatever is in a tree, and is not its root, is imported by another of the tree.
LEMMA BelowHaveParents ==
  ASSUME modules \in Seq(Module), InOrder, NEW n \in DOMAIN modules
  PROVE  \A y \in Below(n) : y = n \/ \E m \in Below(n) : y \in Imports(m)
<1> DEFINE S == {y \in Below(n) : y = n \/ \E m \in Below(n) : y \in Imports(m)}
<1>1. /\ n \in Below(n) /\ Below(n) \subseteq n..Len(modules)
      /\ \A x \in Below(n) : Imports(x) \subseteq Below(n)
  BY BelowFacts
<1>2. S \in SUBSET DOMAIN modules
  <2>1. n \in Nat /\ DOMAIN modules = 1..Len(modules) /\ Len(modules) \in Nat
    OBVIOUS
  <2>2. n..Len(modules) \subseteq DOMAIN modules
    BY <2>1
  <2> QED BY <1>1, <2>2
<1>3. n \in S /\ \A x \in S : Imports(x) \subseteq S
  BY <1>1
<1>4. Below(n) \subseteq S
  <2> HIDE DEF S
  <2> QED BY <1>2, <1>3, BelowFacts
<1> QED BY <1>4

\* A root is destroyed, with its tree.
LEMMA DestroyKeeps ==
  ASSUME IInv, NEW n \in Roots, destroy(n), stack' = <<>>,
         stack # <<>> => n = stack[1].module,
         executables' \in Seq(DOMAIN modules), libraries' \in Seq(DOMAIN modules),
         IsInjective(executables'), IsInjective(libraries'),
         Range(executables') \cap Range(libraries') = {},
         Range(executables') \cup Range(libraries') = Roots \ {n},
         UNCHANGED host, result' \in Results
  PROVE  IInv'
<1> DEFINE gone(x) == [New("library", NoImage) EXCEPT !.imported = modules[x].imported]
<1>1. /\ modules \in Seq(Module) /\ InOrder /\ DOMAIN modules = 1..Len(modules)
      /\ Len(modules) \in Nat
  BY DEF IInv, Typed
<1>2. Roots \subseteq Alive /\ Alive \subseteq DOMAIN modules /\ n \in DOMAIN modules
  BY ListsFacts
<1>3. /\ modules' = [x \in DOMAIN modules |-> IF x \in Below(n) THEN gone(x) ELSE modules[x]]
      /\ heap' = heap \ Owned(n)
  BY DEF destroy, release, Below
<1>4. ASSUME NEW x \in DOMAIN modules
      PROVE  /\ gone(x) \in Module /\ gone(x).image = NoImage /\ gone(x).class = "library"
             /\ gone(x).lot = <<>> /\ gone(x).imported = modules[x].imported
             /\ gone(x).main = Null /\ ~gone(x).has_entry
  <2> DEFINE fresh == New("library", NoImage)
             imported == modules[x].imported
  <2>1. /\ fresh \in Module /\ fresh.image = NoImage /\ fresh.class = "library"
        /\ fresh.lot = <<>> /\ fresh.main = Null /\ ~fresh.has_entry
    BY NewFacts
  <2>2. imported \in Seq(Nat)
    <3>1. modules[x] \in Module
      BY <1>1
    <3> QED BY <3>1 DEF Module
  <2>3. gone(x) = [fresh EXCEPT !.imported = imported]
    OBVIOUS
  <2> HIDE DEF fresh, imported, gone
  <2>4. gone(x) \in Module
    BY <2>1, <2>2, <2>3 DEF Module
  <2>5. /\ gone(x).image = NoImage /\ gone(x).class = "library" /\ gone(x).lot = <<>>
        /\ gone(x).imported = imported /\ gone(x).main = Null /\ ~gone(x).has_entry
    BY <2>1, <2>2, <2>3 DEF Module
  <2> QED BY <2>4, <2>5 DEF imported
<1> HIDE DEF gone
<1>5. /\ DOMAIN modules' = DOMAIN modules /\ Len(modules') = Len(modules)
      /\ modules' \in Seq(Module)
      /\ \A x \in DOMAIN modules :
           modules'[x] = IF x \in Below(n) THEN gone(x) ELSE modules[x]
  <2>1. \A x \in DOMAIN modules : modules[x] \in Module
    BY <1>1, ElementOfSeq
  <2>2. modules' \in [1..Len(modules) -> Module]
    BY <1>1, <1>3, <1>4, <2>1
  <2>3. modules' \in Seq(Module) /\ Len(modules') = Len(modules)
    <3> HIDE DEF Module
    <3> QED BY ONLY <1>1, <2>2, FunctionIsSeq
  <2> QED BY <1>3, <2>3
<1>6. \A x \in DOMAIN modules : modules'[x].imported = modules[x].imported
  BY <1>4, <1>5
<1>7. InOrder'
  BY <1>1, <1>5, <1>6 DEF InOrder
<1>8. /\ \A x \in DOMAIN modules : Below(x)' = Below(x) /\ Imports(x)' = Imports(x)
      /\ \A x : HasParent(x)' <=> HasParent(x)
  <2>1. \A x \in DOMAIN modules : Below(x)' = Below(x)
    BY <1>1, <1>5, <1>6, <1>7, BelowStays
  <2>2. \A x \in DOMAIN modules : Imports(x)' = Imports(x)
    BY <1>6 DEF Imports
  <2> QED BY <1>5, <2>1, <2>2 DEF HasParent
<1>9. Alive' = Alive \ Below(n)
  BY <1>4, <1>5 DEF Alive
<1>10. /\ n \in Below(n) /\ Below(n) \subseteq DOMAIN modules
       /\ \A y \in Below(n) : y = n \/ \E m \in Below(n) : y \in Imports(m)
  <2>1. n \in Below(n) /\ Below(n) \subseteq n..Len(modules)
    BY <1>1, <1>2, BelowFacts
  <2>2. n..Len(modules) \subseteq DOMAIN modules
    BY <1>1, <1>2
  <2> QED BY <1>1, <1>2, <2>1, <2>2, BelowHaveParents
<1>11. Loading' = {} /\ Roots' = Roots \ {n}
  BY DEF Loading, Roots
<1>12. \A r \in Roots, m \in DOMAIN modules : r \notin Imports(m)
  BY DEF IInv, RootsHaveNoParent
<1>13. Typed'
  BY <1>3, <1>5 DEF IInv, Typed, host
<1>14. Sound'
  <2>1. ~takes_entry(NoImage)
    BY ImageAssumption DEF takes_entry
  <2>2. SUFFICES ASSUME NEW x \in DOMAIN modules
                 PROVE  /\ modules'[x].has_entry => modules'[x].class = "executable"
                        /\ takes_entry(modules'[x].image) => modules'[x].class = "executable"
                        /\ modules'[x].main \in {Null, Entry} \cup DOMAIN modules
    BY <1>5 DEF Sound
  <2>3. CASE x \in Below(n)
    BY <1>4, <1>5, <2>1, <2>3
  <2>4. CASE x \notin Below(n)
    BY <1>5, <2>4 DEF IInv, Sound
  <2> QED BY <2>3, <2>4
<1>15. Linked'
  <2>1. SUFFICES ASSUME NEW x \in DOMAIN modules, modules'[x].lot # <<>>
                 PROVE  /\ x \in Alive'
                        /\ modules'[x].lot \in
                             [Slots(modules'[x].image) -> {Null, Environment} \cup Below(x)]
    BY <1>5, <1>8 DEF Linked
  <2>2. x \notin Below(n) /\ modules'[x] = modules[x]
    BY <1>4, <1>5, <2>1
  <2> QED BY <1>9, <2>1, <2>2 DEF IInv, Linked
<1>16. OneParent'
  BY <1>5, <1>8 DEF IInv, OneParent
<1>17. RootsHaveNoParent'
  BY <1>5, <1>8, <1>11, <1>12 DEF RootsHaveNoParent
<1>18. AliveClosed'
  <2>1. SUFFICES ASSUME NEW x \in Alive', NEW c \in Imports(x) PROVE c \in Alive'
    BY <1>2, <1>8, <1>9 DEF AliveClosed
  <2>2. x \in Alive /\ x \notin Below(n) /\ x \in DOMAIN modules /\ c \in Alive
    BY <1>2, <1>9, <2>1 DEF IInv, AliveClosed
  <2>3. c \notin Below(n)
    <3>1. SUFFICES ASSUME c \in Below(n) PROVE FALSE
      OBVIOUS
    <3>2. c # n
      BY <1>12, <2>1, <2>2
    <3>3. PICK m \in Below(n) : c \in Imports(m)
      BY <1>10, <3>1, <3>2
    <3>4. m = x
      BY <1>10, <2>1, <2>2, <3>3 DEF IInv, OneParent
    <3> QED BY <2>2, <3>3, <3>4
  <2> QED BY <1>9, <2>2, <2>3
<1>19. RootsAlive'
  <2>1. \A r \in Roots \ {n} : r \in Alive /\ r \notin Below(n)
    BY <1>2, <1>10, <1>12
  <2> QED BY <1>9, <1>11, <2>1 DEF RootsAlive
<1>20. Exported'
  <2>1. SUFFICES ASSUME NEW x \in Alive' PROVE modules'[x].exported
    BY DEF Exported
  <2>2. x \in Alive /\ x \notin Below(n) /\ modules'[x] = modules[x]
    BY <1>2, <1>5, <1>9
  <2>3. \A k \in DOMAIN stack : stack[k].module \in Below(n)
    <3>1. SUFFICES ASSUME NEW k \in DOMAIN stack PROVE stack[k].module \in Below(n)
      OBVIOUS
    <3>2. stack # <<>> /\ stack[k].module \in Below(stack[1].module)
      BY DEF IInv, Activations, Runs
    <3> QED BY <3>2
  <2> QED BY <2>2, <2>3 DEF IInv, Exported
<1>21. Activations'
  <2>1. DOMAIN stack' = {}
    OBVIOUS
  <2> QED BY <2>1 DEF Activations
<1>22. Used'
  <2>1. SUFFICES ASSUME NEW x \in Alive'
                 PROVE  /\ DOMAIN modules'[x].lot # {} => Block(x, "lot") \in heap'
                        /\ modules'[x].data # "none" /\ modules'[x].image \in HasData =>
                             Block(x, "data") \in heap'
                        /\ modules'[x].imported # <<>> => Block(x, "modules") \in heap'
                        /\ \A c \in Imports(x) : Block(c, "object") \in heap'
    <3>1. \A x \in Alive' : Imports(x)' = Imports(x)
      BY <1>2, <1>8, <1>9
    <3> QED BY <3>1 DEF Used, Block
  <2>2. /\ x \in Alive /\ x \in DOMAIN modules /\ x \notin Below(n) /\ x # n
        /\ modules'[x] = modules[x]
    BY <1>2, <1>5, <1>9, <1>10
  <2>3. \A use \in {"lot", "data", "modules"} : Block(x, use) \notin Owned(n)
    BY <2>2 DEF Owned, Block
  <2>4. \A c \in Imports(x) : Block(c, "object") \notin Owned(n)
    <3>1. \A c \in Imports(x) : c \notin Imports(n)
      BY <1>2, <2>2 DEF IInv, OneParent
    <3> QED BY <3>1 DEF Owned, Block, Imports
  <2>5. /\ DOMAIN modules[x].lot # {} => Block(x, "lot") \in heap
        /\ modules[x].data # "none" /\ modules[x].image \in HasData => Block(x, "data") \in heap
        /\ modules[x].imported # <<>> => Block(x, "modules") \in heap
        /\ \A c \in Imports(x) : Block(c, "object") \in heap
    BY <2>2 DEF IInv, Used
  <2> QED BY <1>3, <2>2, <2>3, <2>4, <2>5
<1>23. Accounted'
  <2>1. SUFFICES ASSUME NEW b \in heap'
                 PROVE  /\ b.owner \in Roots \ {n} \/ HasParent(b.owner)
                        /\ b.use = "object" => HasParent(b.owner)
    BY <1>8, <1>11 DEF Accounted
  <2>2. /\ b \in heap /\ b \notin Owned(n)
        /\ b.owner \in Roots \/ HasParent(b.owner)
        /\ b.use = "object" => HasParent(b.owner)
    BY <1>3, <2>1 DEF IInv, Accounted
  <2>3. ASSUME b.owner = n PROVE HasParent(n)
    <3>1. b \in [owner : Nat, use : {"lot", "init", "data", "modules", "object"}]
      BY <2>2 DEF IInv, Typed
    <3>2. b = Block(n, b.use)
      BY <2>3, <3>1 DEF Block
    <3>3. b.use \notin {"lot", "init", "data", "modules"}
      BY <2>2, <3>2 DEF Owned
    <3>4. b.use = "object"
      BY <3>1, <3>3
    <3> QED BY <2>2, <2>3, <3>4
  <2> QED BY <2>2, <2>3
<1> QED BY <1>7, <1>13, <1>14, <1>15, <1>16, <1>17, <1>18, <1>19, <1>20, <1>21, <1>22, <1>23
        DEF IInv

\* A step fails: the root that the host asked for is destroyed.
LEMMA RefuseKeeps == IInv /\ stack # <<>> /\ Refuse => IInv'
<1> SUFFICES ASSUME IInv, stack # <<>>, Refuse PROVE IInv'
  OBVIOUS
<1>1. PICK n : n = stack[1].module
  OBVIOUS
<1>2. /\ stack' = <<>> /\ destroy(n) /\ executables' = executables /\ libraries' = libraries
      /\ UNCHANGED host /\ result' \in Results
  BY <1>1 DEF Refuse, Results
<1>3. Loading = {n} /\ n \in Roots
  BY <1>1 DEF Loading, Roots
<1>4. /\ executables \in Seq(DOMAIN modules) /\ libraries \in Seq(DOMAIN modules)
      /\ DOMAIN modules' = DOMAIN modules
  BY <1>2 DEF IInv, Typed, destroy
<1>5. /\ IsInjective(executables) /\ IsInjective(libraries)
      /\ Range(executables) \cap Range(libraries) = {}
      /\ Range(executables) \cup Range(libraries) = Roots \ {n}
  BY <1>3 DEF IInv, RootsAlive, Roots
<1>6. executables' \in Seq(DOMAIN modules) /\ libraries' \in Seq(DOMAIN modules)
  BY <1>2, <1>4
<1> QED BY <1>1, <1>2, <1>3, <1>5, <1>6, DestroyKeeps

\* The host gives up an executable or a library.
LEMMA DropKeeps == IInv /\ Drop => IInv'
<1> SUFFICES ASSUME IInv, Drop PROVE IInv'
  OBVIOUS
<1> DEFINE T == DOMAIN modules
<1>1. /\ stack = <<>> /\ stack' = <<>> /\ UNCHANGED host /\ result' \in Results
      /\ Loading = {}
  BY DEF Drop, Idle, Loading, IInv, Typed
<1>2. /\ executables \in Seq(T) /\ libraries \in Seq(T)
      /\ IsInjective(executables) /\ IsInjective(libraries)
      /\ Range(executables) \cap Range(libraries) = {}
      /\ Roots = Range(executables) \cup Range(libraries)
  BY <1>1 DEF IInv, Typed, RootsAlive, Roots
<1>3. CASE /\ \E k \in DOMAIN executables :
                executables' = RemoveAt(executables, k) /\ destroy(executables[k])
           /\ libraries' = libraries
  <2>1. PICK k \in DOMAIN executables :
          executables' = RemoveAt(executables, k) /\ destroy(executables[k])
    BY <1>3
  <2>2. PICK n : n = executables[k]
    OBVIOUS
  <2> HIDE DEF T
  <2>3. /\ executables' \in Seq(T) /\ IsInjective(executables')
        /\ Range(executables') = Range(executables) \ {n}
    BY <1>2, <2>1, <2>2, RemoveDistinct
  <2>4. n \in Range(executables) /\ n \in Roots /\ destroy(n)
    BY <1>2, <2>1, <2>2 DEF Range
  <2>5. /\ Range(executables') \cap Range(libraries') = {}
        /\ Range(executables') \cup Range(libraries') = Roots \ {n}
    BY <1>2, <1>3, <2>3, <2>4
  <2> QED BY <1>1, <1>2, <1>3, <2>3, <2>4, <2>5, DestroyKeeps DEF T
<1>4. CASE /\ \E k \in DOMAIN libraries :
                libraries' = RemoveAt(libraries, k) /\ destroy(libraries[k])
           /\ executables' = executables
  <2>1. PICK k \in DOMAIN libraries :
          libraries' = RemoveAt(libraries, k) /\ destroy(libraries[k])
    BY <1>4
  <2>2. PICK n : n = libraries[k]
    OBVIOUS
  <2> HIDE DEF T
  <2>3. /\ libraries' \in Seq(T) /\ IsInjective(libraries')
        /\ Range(libraries') = Range(libraries) \ {n}
    BY <1>2, <2>1, <2>2, RemoveDistinct
  <2>4. n \in Range(libraries) /\ n \in Roots /\ destroy(n)
    BY <1>2, <2>1, <2>2 DEF Range
  <2>5. /\ Range(executables') \cap Range(libraries') = {}
        /\ Range(executables') \cup Range(libraries') = Roots \ {n}
    BY <1>2, <1>4, <2>3, <2>4
  <2> QED BY <1>1, <1>2, <1>4, <2>3, <2>4, <2>5, DestroyKeeps DEF T
<1> QED BY <1>3, <1>4 DEF Drop

\* A Loader that has loaded nothing satisfies the invariant.
LEMMA InitInv == Init => IInv
<1> SUFFICES ASSUME Init PROVE IInv
  OBVIOUS
<1>1. /\ environment = {} /\ resolver = FALSE /\ modules = <<>> /\ stack = <<>>
      /\ executables = <<>> /\ libraries = <<>> /\ heap = {} /\ result = "none"
  BY DEF Init
<1>2. DOMAIN modules = {} /\ DOMAIN stack = {} /\ Range(executables) = {} /\ Range(libraries) = {}
  BY <1>1 DEF Range
<1>3. Alive = {} /\ Loading = {} /\ Roots = {}
  BY <1>1, <1>2 DEF Alive, Loading, Roots
<1>4. Typed
  <2>1. {} \in Environments
    BY ImageAssumption
  <2>2. \A S : <<>> \in Seq(S)
    OBVIOUS
  <2>3. resolver \in BOOLEAN /\ result \in Results
    BY <1>1 DEF Results
  <2> QED BY <1>1, <2>1, <2>2, <2>3 DEF Typed
<1>5. InOrder /\ Sound /\ Linked /\ OneParent
  BY <1>2 DEF InOrder, Sound, Linked, OneParent
<1>6. RootsHaveNoParent /\ AliveClosed /\ Exported /\ Activations /\ Used /\ Accounted
  BY <1>1, <1>2, <1>3 DEF RootsHaveNoParent, AliveClosed, Exported, Activations, Used, Accounted
<1>7. RootsAlive
  <2>1. IsInjective(executables) /\ IsInjective(libraries)
    BY <1>1 DEF IsInjective
  <2> QED BY <1>2, <1>3, <2>1 DEF RootsAlive
<1> QED BY <1>4, <1>5, <1>6, <1>7 DEF IInv

\* Every step of load_module keeps the invariant, and so does every other.
LEMMA StepKeeps == IInv /\ Step => IInv'
<1> SUFFICES ASSUME IInv, Step PROVE IInv'
  OBVIOUS
<1>1. CASE ProcessHeader
  <2>1. stack # <<>>
    BY <1>1 DEF ProcessHeader, At
  <2> QED BY <1>1, <2>1, RefuseKeeps, ProcessHeaderKeeps
<1>2. CASE LoadDependency
  <2>1. stack # <<>>
    BY <1>2 DEF LoadDependency, At
  <2> QED BY <1>2, <2>1, RefuseKeeps, LoadDependencyKeeps
<1>3. CASE ProcessSymbols
  <2>1. stack # <<>>
    BY <1>3 DEF ProcessSymbols, At
  <2> QED BY <1>3, <2>1, RefuseKeeps, ProcessSymbolsKeeps
<1>4. CASE FinishExecutable
  <2>1. stack # <<>>
    BY <1>4 DEF FinishExecutable, At
  <2> QED BY <1>4, <2>1, RefuseKeeps, FinishExecutableKeeps
<1> QED BY <1>1, <1>2, <1>3, <1>4, AllocateModulesKeeps, ProcessDataKeeps,
           ProcessRelocationsKeeps, ReturnKeeps, FinishLibraryKeeps DEF Step

\* Every step of the system keeps the invariant.
LEMMA NextKeeps == IInv /\ [Next]_vars => IInv'
<1> SUFFICES ASSUME IInv, [Next]_vars PROVE IInv'
  OBVIOUS
<1>1. environment \in Environments /\ resolver \in BOOLEAN /\ result \in Results
  BY DEF IInv, Typed
<1>2. ASSUME NEW kind \in {"executable", "library"}, NEW i \in Images, Begin(kind, i)
      PROVE  IInv'
  BY <1>2, BeginKeeps
<1>3. ASSUME NEW symbols \in Environments, set_environment(symbols) PROVE IInv'
  BY <1>1, <1>3, QuietKeeps DEF set_environment
<1>4. ASSUME NEW set \in BOOLEAN, register_file_resolver(set) PROVE IInv'
  BY <1>1, <1>4, QuietKeeps DEF register_file_resolver
<1>5. ASSUME NEW n \in Range(executables), NEW arguments \in BOOLEAN, Execute(n, arguments)
      PROVE  IInv'
  <2>1. execute(n, arguments) \in Results
    BY DEF execute, Results
  <2> QED BY <1>1, <1>5, <2>1, QuietKeeps DEF Execute, host
<1>6. ASSUME NEW n \in Range(libraries), NEW s \in Sought, get_symbol(n, s) PROVE IInv'
  <2>1. result' \in Results
    BY <1>6 DEF get_symbol, Results
  <2> QED BY <1>1, <1>6, <2>1, QuietKeeps DEF get_symbol, host
<1>7. CASE Step
  BY <1>7, StepKeeps
<1>8. CASE OutOfMemory
  <2>1. result' \in Results
    BY <1>8 DEF OutOfMemory, Results
  <2> QED BY <1>1, <1>8, <2>1, QuietKeeps DEF OutOfMemory, host
<1>9. CASE Drop
  BY <1>9, DropKeeps
<1>10. CASE UNCHANGED vars
  BY <1>1, <1>10, QuietKeeps DEF vars, host
<1> QED BY <1>2, <1>3, <1>4, <1>5, <1>6, <1>7, <1>8, <1>9, <1>10 DEF Next

\* The invariant, of every step that the loader, its host and its memory take.
THEOREM Invariant == Spec => []IInv
<1>1. Init => IInv
  BY InitInv
<1>2. IInv /\ [Next]_vars => IInv'
  BY NextKeeps
<1> QED BY <1>1, <1>2, PTL DEF Spec

\* A live module is in the tree of a root, and what is in one is alive.
LEMMA LiveIsAlive ==
  ASSUME IInv
  PROVE  Roots \subseteq Live /\ Live \subseteq Alive
<1>1. modules \in Seq(Module) /\ InOrder
  BY DEF IInv, Typed
<1>2. Roots \subseteq Alive /\ Alive \subseteq DOMAIN modules
  BY ListsFacts
<1>3. \A r \in Roots : r \in Below(r) /\ Below(r) \subseteq Alive
  <2>1. SUFFICES ASSUME NEW r \in Roots PROVE r \in Below(r) /\ Below(r) \subseteq Alive
    OBVIOUS
  <2>2. r \in DOMAIN modules /\ r \in Alive
    BY <1>2
  <2>3. \A x \in Alive : Imports(x) \subseteq Alive
    BY DEF IInv, AliveClosed
  <2> QED BY <1>1, <1>2, <2>2, <2>3, BelowFacts
<1>4. /\ \A x \in Live : \E r \in Roots : x \in Below(r)
      /\ \A r \in Roots : Below(r) \subseteq Live
  <2> DEFINE T == DOMAIN modules
  <2>1. executables \in Seq(T) /\ libraries \in Seq(T)
    BY DEF IInv, Typed
  <2>2. Range(Loaded) = Range(executables) \cup Range(libraries)
    <3> HIDE DEF T
    <3> QED BY <2>1, RangeOfConcatenation DEF Loaded
  <2>3. UNION {Range(Tree[Loaded[k]]) : k \in DOMAIN Loaded}
        = UNION {Below(r) : r \in Range(Loaded)}
    BY DEF Range, Below
  <2>4. Live = (UNION {Below(r) : r \in Range(Loaded)})
               \cup (UNION {Below(r) : r \in Loading})
    <3>1. CASE stack = <<>>
      BY <2>3, <3>1 DEF Live, Loading
    <3>2. CASE stack # <<>>
      <4>1. Live = (UNION {Below(r) : r \in Range(Loaded)})
                      \cup Below(stack[1].module)
        BY <2>3, <3>2 DEF Live, Below
      <4>2. Loading = {stack[1].module}
        BY <3>2 DEF Loading
      <4> QED BY <4>1, <4>2
    <3> QED BY <3>1, <3>2
  <2>5. Roots = Range(Loaded) \cup Loading
    BY <2>2 DEF Roots
  <2>6. ASSUME NEW x \in Live PROVE \E r \in Roots : x \in Below(r)
    <3>1. \/ x \in UNION {Below(r) : r \in Range(Loaded)}
          \/ x \in UNION {Below(r) : r \in Loading}
      BY <2>4
    <3>2. \/ \E r \in Range(Loaded) : x \in Below(r)
          \/ \E r \in Loading : x \in Below(r)
      BY <3>1
    <3> QED BY <2>5, <3>2
  <2>7. ASSUME NEW r \in Roots, NEW x \in Below(r) PROVE x \in Live
    <3>1. \/ x \in UNION {Below(y) : y \in Range(Loaded)}
          \/ x \in UNION {Below(y) : y \in Loading}
      BY <2>5
    <3> QED BY <2>4, <3>1
  <2> QED BY <2>6, <2>7
<1> QED BY <1>3, <1>4

\* Every variable keeps its type; only an Executable has has_entry set, so the cast in
\* set_entry is to the class that the object has.
THEOREM TypeCorrect == Spec => []TypeOK
<1>1. IInv => TypeOK
  <2> SUFFICES ASSUME IInv PROVE TypeOK
    OBVIOUS
  <2>1. /\ modules \in Seq(Module) /\ stack \in Seq(Activation) /\ InOrder
        /\ environment \in Environments /\ resolver \in BOOLEAN
        /\ executables \in Seq(DOMAIN modules) /\ libraries \in Seq(DOMAIN modules)
        /\ result \in Results
    BY DEF IInv, Typed
  <2>2. ASSUME NEW n \in DOMAIN modules
        PROVE  /\ modules[n].image \in Images \cup {NoImage}
               /\ modules[n].class \in {"executable", "library"}
               /\ modules[n].data \in {"none", "copied", "relocated"}
               /\ modules[n].exported \in BOOLEAN /\ modules[n].has_entry \in BOOLEAN
    <3>1. modules[n] \in Module
      BY <2>1
    <3> QED BY <3>1 DEF Module
  <2>3. ASSUME NEW n \in DOMAIN modules, modules[n].lot # <<>>
        PROVE  modules[n].lot \in
                 [Slots(modules[n].image) -> {Null, Environment} \cup DOMAIN modules]
    <3>1. modules[n].lot \in [Slots(modules[n].image) -> {Null, Environment} \cup Below(n)]
      BY <2>3 DEF IInv, Linked
    <3>2. Below(n) \subseteq DOMAIN modules
      <4>1. Below(n) \subseteq n..Len(modules) /\ n \in Nat /\ DOMAIN modules = 1..Len(modules)
        BY <2>1, BelowFacts
      <4>2. n..Len(modules) \subseteq 1..Len(modules)
        BY <2>1
      <4> QED BY <4>1, <4>2
    <3> QED BY <3>1, <3>2
  <2>4. \A n \in DOMAIN modules :
          /\ modules[n].imported \in Seq(n + 1..Len(modules))
          /\ modules[n].has_entry => modules[n].class = "executable"
          /\ modules[n].main \in {Null, Entry} \cup DOMAIN modules
    BY <2>1 DEF InOrder, IInv, Sound
  <2>5. ASSUME NEW k \in DOMAIN stack
        PROVE  /\ stack[k].module \in DOMAIN modules
               /\ k > 1 => stack[k].module \in Range(modules[stack[k - 1].module].imported)
               /\ k < Len(stack) => stack[k].stage \in {"dependencies", "data"}
    BY DEF IInv, Activations, Runs, Alive, Imports
  <2> QED BY <2>1, <2>2, <2>3, <2>4, <2>5 DEF TypeOK, Results
<1> QED BY <1>1, Invariant, PTL

\* Module::find_symbol dereferences no exported symbol table that is not set, at any
\* depth of recursion of load_module.
THEOREM TablesAreSet == Spec => []TablesSet
<1>1. IInv => TablesSet
  BY TablesBelow DEF TablesSet, At, Linking, Below
<1> QED BY <1>1, Invariant, PTL

\* Whatever was loaded, refused and dropped: a slot of a live module holds an address of
\* the environment or of the module's own tree, which lives as long as it does.
THEOREM SlotsStayInTheTree == Spec => []NoSlotDangles
<1>1. IInv => NoSlotDangles
  <2> SUFFICES ASSUME IInv, NEW n \in Live
               PROVE  Range(modules[n].lot) \subseteq {Null, Environment} \cup Below(n)
    BY DEF NoSlotDangles, Below
  <2>1. n \in DOMAIN modules
    BY LiveIsAlive DEF Alive
  <2> QED BY <2>1 DEF IInv, Linked, Range
<1> QED BY <1>1, Invariant, PTL

\* YasldDeleter and the vectors of a Module release no memory that a live module uses.
THEOREM UsedStaysAllocated == Spec => []UsedIsAllocated
<1>1. IInv => UsedIsAllocated
  BY LiveIsAlive DEF IInv, Used, UsedIsAllocated, Imports
<1> QED BY <1>1, Invariant, PTL

\* What is left in the heap of a module that is gone was allocated by a dependency: of a
\* root, loaded or refused, nothing is left.
THEOREM NothingOfARootIsLeft == Spec => []RootLeavesNothing
<1>1. IInv => RootLeavesNothing
  BY LiveIsAlive DEF IInv, Accounted, RootLeavesNothing, HasParent, Imports
<1> QED BY <1>1, Invariant, PTL
=============================================================================
