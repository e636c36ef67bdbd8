--------------------------- MODULE LoaderRefinement ---------------------------
(***************************************************************************)
(* Loader implements AbstractLoader, for all images, any number of modules *)
(* and every way in which a step may fail.  An image whose dependencies    *)
(* form a cycle is never loaded: one that has been loaded calls for none   *)
(* that has not.                                                           *)
(*                                                                         *)
(* The mapping speaks of places in trees.  A tree is numbered without gaps *)
(* (Consecutive), since every activation constructs before it returns, so  *)
(* a place is a difference of two numbers.  A module that has left         *)
(* load_module has, at each place of its tree, the image that the tree of  *)
(* its image in AbstractLoader has there (Matches): from Dependencies, by  *)
(* induction from the newest module down.  Then a search that finds a      *)
(* module finds the place of the first definer, and with Bound and Starts  *)
(* the tree of a root that is loaded is the one that is promised.          *)
(*                                                                         *)
(* One lemma for each action: inside load_module it is a stutter, as only  *)
(* what is listed shows; at its end it is Answer, whichever step refuses.  *)
(***************************************************************************)
EXTENDS LoaderProofs

-----------------------------------------------------------------------------
(***************************************************************************)
(* Trees of modules.                                                       *)
(***************************************************************************)

\* Only one function is made as trees are.
LEMMA TreesAreUnique ==
  ASSUME NEW N, NEW mods, Ordered(mods, N), NEW S \in SUBSET (1..N), Closed(mods, S),
         NEW tree, \A n \in S : tree[n] = Node(mods, tree, n)
  PROVE  \A n \in S : tree[n] = TreeOf(mods)[n]
<1> DEFINE G == {n \in 1..N : n \in S => tree[n] = TreeOf(mods)[n]}
<1>1. N \in Nat
  BY DEF Ordered
<1>2. ASSUME NEW n \in 1..N, \A m \in n + 1..N : m \in G PROVE n \in G
  <2>1. SUFFICES ASSUME n \in S PROVE tree[n] = TreeOf(mods)[n]
    OBVIOUS
  <2>2. \A k \in DOMAIN mods[n].imported : mods[n].imported[k] \in n + 1..N
    BY ImportedLater
  <2>3. \A k \in DOMAIN mods[n].imported : mods[n].imported[k] \in S
    BY <2>1 DEF Closed
  <2>4. \A k \in DOMAIN mods[n].imported :
          tree[mods[n].imported[k]] = TreeOf(mods)[mods[n].imported[k]]
    BY <1>2, <2>2, <2>3
  <2>5. Node(mods, tree, n) = Node(mods, TreeOf(mods), n)
    BY <2>4 DEF Node
  <2>6. TreeOf(mods)[n] = Node(mods, TreeOf(mods), n)
    BY TreeEquation
  <2> QED BY <2>1, <2>5, <2>6
<1>3. \A n \in 1..N : n \in G
  <2> HIDE DEF G
  <2> QED BY <1>1, <1>2, FromAbove
<1> QED BY <1>3

\* Where modules import the same, trees are the same.
LEMMA TreesAgree ==
  ASSUME NEW N, NEW mods, Ordered(mods, N), NEW M, NEW more, Ordered(more, M),
         NEW S \in SUBSET (1..N), S \subseteq 1..M, Closed(mods, S),
         \A n \in S : more[n].imported = mods[n].imported
  PROVE  \A n \in S : TreeOf(more)[n] = TreeOf(mods)[n]
<1>1. ASSUME NEW n \in S PROVE TreeOf(more)[n] = Node(mods, TreeOf(more), n)
  <2>1. TreeOf(more) = [m \in 1..M |-> Node(more, TreeOf(more), m)]
    BY TreeEquation
  <2>2. TreeOf(more)[n] = Node(more, TreeOf(more), n)
    BY <2>1
  <2> QED BY <2>2 DEF Node
<1> QED BY <1>1, TreesAreUnique

-----------------------------------------------------------------------------
(***************************************************************************)
(* Trees of images.                                                        *)
(***************************************************************************)

\* What is followed of the dependencies of an image is called for.
LEMMA FollowedIsCalled ==
  ASSUME NEW i \in Images
  PROVE  /\ Abstract!Followed(i) \subseteq DOMAIN Depends[i]
         /\ \A k \in Abstract!Followed(i) :
              Depends[i][k] \in Images /\ Depends[i][k] \in Calls(i)
         /\ \A d \in Calls(i) : \E k \in Abstract!Followed(i) : d = Depends[i][k]
<1>1. Depends[i] \in Seq(Images \cup {NoImage})
  BY ImageAssumption
<1>2. DOMAIN Depends[i] = 1..Len(Depends[i]) /\ Len(Depends[i]) \in Nat
  BY <1>1
<1>3. Abstract!Followed(i) = {k \in DOMAIN Depends[i] :
        \A j \in 1..k : Kind[Depends[i][j]] \in {"executable", "library"}}
  BY DEF Abstract!Followed, Abstract!IsModule
<1>4. ASSUME NEW k \in Abstract!Followed(i) PROVE Depends[i][k] \in Images
  <2>1. k \in DOMAIN Depends[i] /\ k \in 1..k
    BY <1>2, <1>3, <1>4
  <2>2. Kind[Depends[i][k]] \in {"executable", "library"}
    BY <1>3, <1>4, <2>1
  <2>3. Depends[i][k] \in Images \cup {NoImage}
    BY <1>1, <2>1, ElementOfSeq
  <2> QED BY <2>2, <2>3, ImageAssumption
<1> QED BY <1>3, <1>4 DEF Calls

\* An image is endless when what it calls for is.
LEMMA EndlessCalls ==
  ASSUME NEW i \in Images
  PROVE  i \in Endless <=> \E k \in Abstract!Followed(i) : Depends[i][k] \in Endless
<1>1. ASSUME i \in Endless PROVE \E k \in Abstract!Followed(i) : Depends[i][k] \in Endless
  <2>1. PICK S \in SUBSET Images : i \in S /\ \A x \in S : Calls(x) \cap S # {}
    BY <1>1, EndlessAssumption
  <2>2. S \subseteq Endless
    BY <2>1, EndlessAssumption
  <2>3. PICK d : d \in Calls(i) /\ d \in S
    BY <2>1
  <2> QED BY <2>2, <2>3, FollowedIsCalled
<1>2. ASSUME NEW k \in Abstract!Followed(i), Depends[i][k] \in Endless PROVE i \in Endless
  <2>1. PICK S \in SUBSET Images : Depends[i][k] \in S /\ \A x \in S : Calls(x) \cap S # {}
    BY <1>2, EndlessAssumption
  <2>2. Depends[i][k] \in Calls(i)
    BY FollowedIsCalled
  <2>3. S \cup {i} \in SUBSET Images /\ \A x \in S \cup {i} : Calls(x) \cap (S \cup {i}) # {}
    BY <2>1, <2>2
  <2> QED BY <2>3, EndlessAssumption
<1> QED BY <1>1, <1>2

\* Induction along dependencies, which comes to an end but for the endless images.
LEMMA AlongDependencies ==
  ASSUME NEW S,
         \A i \in Images : (i \notin Endless =>
            \A k \in Abstract!Followed(i) : Depends[i][k] \in S) => i \in S
  PROVE  \A i \in Images : i \in S
<1> DEFINE U == {i \in Images : i \notin S}
<1>1. ASSUME NEW i \in U PROVE i \notin Endless /\ Calls(i) \cap U # {}
  <2>1. i \in Images /\ i \notin S
    OBVIOUS
  <2>2. i \notin Endless /\ \E k \in Abstract!Followed(i) : Depends[i][k] \notin S
    BY <2>1
  <2>3. PICK k \in Abstract!Followed(i) : Depends[i][k] \notin S
    BY <2>2
  <2>4. Depends[i][k] \in Calls(i) /\ Depends[i][k] \in U
    BY <2>1, <2>3, FollowedIsCalled
  <2> QED BY <2>2, <2>4
<1>2. U \in SUBSET Images
  OBVIOUS
<1>3. U \subseteq Endless
  <2> HIDE DEF U
  <2> QED BY <1>1, <1>2, EndlessAssumption
<1>4. U = {}
  <2> HIDE DEF U
  <2> QED BY <1>1, <1>3
<1> QED BY <1>4

\* How the tree of an image is made of those of what it depends on (AbstractLoader).
Branches(tree, i) ==
  [k \in DOMAIN Depends[i] |-> IF k \in Abstract!Followed(i) THEN tree[Depends[i][k]] ELSE <<>>]

Made(tree, i) == IF i \in Endless THEN <<i>> ELSE <<i>> \o FlattenSeq(Branches(tree, i))

\* A function that is made so on some images, and on what these follow.
IsTree(tree, D) ==
  /\ D \subseteq Images
  /\ \A i \in D : i \notin Endless => \A k \in Abstract!Followed(i) : Depends[i][k] \in D
  /\ \A i \in D : tree[i] = Made(tree, i)

\* It is made of what its dependencies are, and of nothing else.
LEMMA MadeAlike ==
  ASSUME NEW t, NEW u, NEW i,
         i \notin Endless => \A k \in Abstract!Followed(i) : t[Depends[i][k]] = u[Depends[i][k]]
  PROVE  Made(t, i) = Made(u, i)
<1>1. CASE i \in Endless
  BY <1>1 DEF Made
<1>2. CASE i \notin Endless
  <2>1. Branches(t, i) = Branches(u, i)
    BY <1>2 DEF Branches
  <2> QED BY <2>1 DEF Made
<1> QED BY <1>1, <1>2

\* There is one way to make trees.
LEMMA OneTree ==
  ASSUME NEW t, NEW D, IsTree(t, D), NEW u, NEW E, IsTree(u, E)
  PROVE  \A i \in D \cap E : t[i] = u[i]
<1> DEFINE S == {i \in Images : i \in D \cap E => t[i] = u[i]}
<1>1. ASSUME NEW i \in Images,
             i \notin Endless => \A k \in Abstract!Followed(i) : Depends[i][k] \in S
      PROVE  i \in S
  <2> SUFFICES ASSUME i \in D \cap E PROVE t[i] = u[i]
    OBVIOUS
  <2>1. t[i] = Made(t, i) /\ u[i] = Made(u, i)
    BY DEF IsTree
  <2>2. i \notin Endless => \A k \in Abstract!Followed(i) : t[Depends[i][k]] = u[Depends[i][k]]
    BY <1>1 DEF IsTree
  <2> QED BY <2>1, <2>2, MadeAlike
<1>2. \A i \in Images : i \in S
  <2> HIDE DEF S
  <2> QED BY <1>1, AlongDependencies
<1> QED BY <1>2 DEF IsTree

\* The trees of AbstractLoader are what they say.
LEMMA PromisedTree ==
  ASSUME NEW i \in Images
  PROVE  Abstract!Tree[i] = Made(Abstract!Tree, i)
<1> DEFINE S == {x \in Images : \E D, t : x \in D /\ IsTree(t, D)}
           Value(x) == CHOOSE v : \E D, t : x \in D /\ IsTree(t, D) /\ v = t[x]
           whole == [x \in S |-> Value(x)]
<1>1. ASSUME NEW D, NEW t, IsTree(t, D) PROVE \A x \in D : x \in S /\ whole[x] = t[x]
  <2>1. SUFFICES ASSUME NEW x \in D PROVE x \in S /\ whole[x] = t[x]
    OBVIOUS
  <2>2. x \in Images
    BY <1>1, <2>1 DEF IsTree
  <2>3. x \in S
    BY <1>1, <2>1, <2>2
  <2>4. \E v : \E E, u : x \in E /\ IsTree(u, E) /\ v = u[x]
    BY <1>1, <2>1
  <2>5. \E E, u : x \in E /\ IsTree(u, E) /\ Value(x) = u[x]
    BY <2>4
  <2>6. PICK E, u : x \in E /\ IsTree(u, E) /\ Value(x) = u[x]
    BY <2>5
  <2>7. u[x] = t[x]
    BY <1>1, <2>1, <2>6, OneTree
  <2>8. whole[x] = Value(x)
    <3> HIDE DEF S, Value
    <3> QED BY <2>3
  <2> QED BY <2>3, <2>6, <2>7, <2>8
<1>2. IsTree(whole, S)
  <2>1. ASSUME NEW x \in S
        PROVE  /\ x \notin Endless => \A k \in Abstract!Followed(x) : Depends[x][k] \in S
               /\ whole[x] = Made(whole, x)
    <3>1. PICK D, t : x \in D /\ IsTree(t, D)
      OBVIOUS
    <3>2. \A y \in D : y \in S /\ whole[y] = t[y]
      <4> HIDE DEF S, whole
      <4> QED BY <1>1, <3>1
    <3> HIDE DEF S, whole
    <3>3. x \notin Endless => \A k \in Abstract!Followed(x) : Depends[x][k] \in D
      BY <3>1 DEF IsTree
    <3>4. t[x] = Made(t, x)
      BY <3>1 DEF IsTree
    <3>5. Made(t, x) = Made(whole, x)
      BY <3>2, <3>3, MadeAlike
    <3> QED BY <3>1, <3>2, <3>3, <3>4, <3>5
  <2>2. S \subseteq Images
    OBVIOUS
  <2> HIDE DEF S, whole
  <2> QED BY <2>1, <2>2 DEF IsTree
<1>3. ASSUME NEW x \in Images,
             x \notin Endless => \A k \in Abstract!Followed(x) : Depends[x][k] \in S
      PROVE  x \in S
  <2>1. SUFFICES ASSUME x \notin S PROVE FALSE
    OBVIOUS
  <2> HIDE DEF S, whole
  <2> DEFINE D == S \cup {x}
             t == [y \in D |-> Made(whole, y)]
  <2>2. \A y \in S : y \in D /\ t[y] = whole[y]
    BY <1>2 DEF IsTree
  <2>3. ASSUME NEW y \in D
        PROVE  y \notin Endless => \A k \in Abstract!Followed(y) : Depends[y][k] \in S
    BY <1>2, <1>3 DEF IsTree
  <2>4. ASSUME NEW y \in D PROVE t[y] = Made(t, y)
    <3>1. t[y] = Made(whole, y)
      OBVIOUS
    <3> HIDE DEF t, D
    <3> QED BY <2>2, <2>3, <3>1, MadeAlike
  <2>5. D \subseteq Images /\ x \in D /\ S \subseteq D
    BY <1>2 DEF IsTree
  <2>6. IsTree(t, D)
    <3> HIDE DEF t, D
    <3> QED BY <2>3, <2>4, <2>5 DEF IsTree
  <2> HIDE DEF t, D
  <2> QED BY <1>1, <2>1, <2>5, <2>6
<1>4. S = Images
  <2>1. \A x \in Images : x \in S
    <3> HIDE DEF S
    <3> QED BY <1>3, AlongDependencies
  <2> QED BY <2>1
<1>5. whole = [x \in Images |-> Made(whole, x)]
  <2>1. whole = [x \in S |-> whole[x]]
    <3> HIDE DEF S, Value
    <3> QED OBVIOUS
  <2> HIDE DEF S, whole
  <2> QED BY <1>2, <1>4, <2>1 DEF IsTree
<1>6. Abstract!Tree = CHOOSE t : t = [x \in Images |-> Made(t, x)]
  BY DEF Abstract!Tree, Made, Branches, FlattenSeq, Abstract!FlattenSeq
<1>7. Abstract!Tree = [x \in Images |-> Made(Abstract!Tree, x)]
  <2> HIDE DEF S, whole
  <2> QED BY <1>5, <1>6
<1> QED BY <1>7

\* An image is in its own tree, and, unless it is endless, with every image what that
\* depends on.
LEMMA PromisedFacts ==
  ASSUME NEW i \in Images
  PROVE  /\ i \in Range(Abstract!Tree[i])
         /\ i \notin Endless => \A x \in Range(Abstract!Tree[i]) : \A k \in Abstract!Followed(x) :
              Depends[x][k] \in Range(Abstract!Tree[i])
<1> DEFINE tree == Abstract!Tree
           P(x) == /\ tree[x] \in Seq(Images) /\ x \in Range(tree[x])
                   /\ \A y \in Range(tree[x]) : \A k \in Abstract!Followed(y) :
                        Depends[y][k] \in Range(tree[x])
           S == {x \in Images : x \notin Endless => P(x)}
<1>1. ASSUME NEW x \in Images,
             x \notin Endless => \A k \in Abstract!Followed(x) : Depends[x][k] \in S
      PROVE  x \in S
  <2>0. SUFFICES ASSUME x \notin Endless PROVE P(x)
    OBVIOUS
  <2> DEFINE branches == Branches(tree, x)
  <2>1. tree[x] = <<x>> \o FlattenSeq(branches)
    BY <2>0, PromisedTree DEF Made
  <2>2. Depends[x] \in Seq(Images \cup {NoImage})
    BY ImageAssumption
  <2>3. \A k \in DOMAIN Depends[x] :
          /\ k \notin Abstract!Followed(x) => branches[k] = <<>>
          /\ k \in Abstract!Followed(x) => branches[k] = tree[Depends[x][k]] /\ P(Depends[x][k])
    <3>1. \A k \in Abstract!Followed(x) : Depends[x][k] \notin Endless
      BY <2>0, EndlessCalls
    <3> HIDE DEF P, tree
    <3> QED BY <1>1, <2>0, <3>1 DEF Branches
  <2>4. /\ branches \in Seq(Seq(Images)) /\ DOMAIN branches = DOMAIN Depends[x]
        /\ <<x>> \in Seq(Images) /\ Range(<<x>>) = {x}
    <3>1. \A k \in DOMAIN Depends[x] : branches[k] \in Seq(Images)
      <4> SUFFICES ASSUME NEW k \in DOMAIN Depends[x] PROVE branches[k] \in Seq(Images)
        OBVIOUS
      <4>1. CASE k \notin Abstract!Followed(x)
        <5>1. branches[k] = <<>>
          BY <2>3, <4>1
        <5> HIDE DEF branches
        <5> QED BY <5>1
      <4>2. CASE k \in Abstract!Followed(x)
        <5>1. branches[k] = tree[Depends[x][k]] /\ tree[Depends[x][k]] \in Seq(Images)
          BY <2>3, <4>2
        <5> HIDE DEF branches, tree
        <5> QED BY <5>1
      <4> QED BY <4>1, <4>2
    <3>2. DOMAIN branches = 1..Len(Depends[x]) /\ Len(Depends[x]) \in Nat
      BY <2>2 DEF Branches
    <3>3. branches \in [1..Len(Depends[x]) -> Seq(Images)]
      <4>1. DOMAIN Depends[x] = 1..Len(Depends[x])
        BY <2>2
      <4>2. branches = [k \in DOMAIN Depends[x] |-> branches[k]]
        BY DEF Branches
      <4> HIDE DEF branches
      <4> QED BY <3>1, <4>1, <4>2
    <3>4. branches \in Seq(Seq(Images))
      <4> HIDE DEF branches
      <4> QED BY <3>2, <3>3, FunctionIsSeq
    <3>5. <<x>> \in Seq(Images) /\ Range(<<x>>) = {x}
      BY DEF Range
    <3>6. DOMAIN branches = DOMAIN Depends[x]
      BY DEF Branches
    <3> QED BY <3>4, <3>5, <3>6
  <2> HIDE DEF branches, tree
  <2>5. /\ FlattenSeq(branches) \in Seq(Images)
        /\ Range(FlattenSeq(branches)) = UNION {Range(branches[k]) : k \in DOMAIN branches}
    BY <2>4, FlattenIsUnion
  <2>6. /\ tree[x] \in Seq(Images)
        /\ Range(tree[x]) = {x} \cup UNION {Range(branches[k]) : k \in DOMAIN Depends[x]}
    <3>1. /\ <<x>> \o FlattenSeq(branches) \in Seq(Images)
          /\ Range(<<x>> \o FlattenSeq(branches)) = Range(<<x>>) \cup Range(FlattenSeq(branches))
      BY ONLY <2>4, <2>5, RangeOfConcatenation
    <3> QED BY <2>1, <2>4, <2>5, <3>1
  <2>7. ASSUME NEW y \in Range(tree[x]), NEW k \in Abstract!Followed(y)
        PROVE  Depends[y][k] \in Range(tree[x])
    <3>1. CASE y = x
      <4>1. k \in DOMAIN Depends[x] /\ k \in Abstract!Followed(x)
        BY <2>7, <3>1, FollowedIsCalled
      <4>2. Depends[x][k] \in Range(branches[k])
        BY <2>3, <4>1
      <4> QED BY <2>6, <3>1, <4>1, <4>2
    <3>2. CASE y # x
      <4>1. PICK j \in DOMAIN Depends[x] : y \in Range(branches[j])
        BY <2>6, <3>2
      <4>2. j \in Abstract!Followed(x)
        <5>1. Range(<<>>) = {}
          BY DEF Range
        <5> QED BY <2>3, <4>1, <5>1
      <4>3. Depends[y][k] \in Range(branches[j])
        BY <2>3, <2>7, <4>1, <4>2
      <4> QED BY <2>6, <4>1, <4>3
    <3> QED BY <3>1, <3>2
  <2> QED BY <2>6, <2>7
<1>2. i \in S
  <2> HIDE DEF S
  <2> QED BY <1>1, AlongDependencies
<1>3. i \in Endless => tree[i] = <<i>>
  BY PromisedTree DEF Made
<1> QED BY <1>2, <1>3 DEF Range

-----------------------------------------------------------------------------
(***************************************************************************)
(* The invariant.                                                          *)
(***************************************************************************)

OnStack(n) == \E k \in DOMAIN stack : stack[k].module = n

\* Modules of the request under way: those constructed since its root.
Current == {n \in DOMAIN modules : stack # <<>> /\ n >= stack[1].module}

\* Modules of a tree have been constructed one after another, in the order of the tree.
Consecutive ==
  \A n \in DOMAIN modules :
    /\ \A k \in DOMAIN Tree[n] : Tree[n][k] = n + k - 1
    /\ \A j, k \in DOMAIN modules[n].imported :
         j < k => modules[n].imported[j] < modules[n].imported[k]

\* The tree of a module that is being loaded ends with the newest module; its last
\* import is the next on the stack.
Unfinished ==
  \A k \in DOMAIN stack :
    LET n == stack[k].module
    IN  /\ n + Len(Tree[n]) = Len(modules) + 1
        /\ k < Len(stack) =>
             /\ modules[n].imported # <<>>
             /\ Last(modules[n].imported) = stack[k + 1].module

\* How many dependencies load_module number k has constructed.
Constructed(k) ==
  IF stack[k].stage \in {"header", "modules"} THEN 0
  ELSE IF stack[k].stage = "dependencies" THEN stack[k].next - 1
  ELSE Len(Depends[modules[stack[k].module].image])

\* What a module has imported are its dependencies, in order, and each is a module.
Dependencies ==
  /\ \A n \in Alive :
       /\ ~OnStack(n) => Len(modules[n].imported) = Len(Depends[modules[n].image])
       /\ \A k \in DOMAIN modules[n].imported :
            /\ modules[modules[n].imported[k]].image = Depends[modules[n].image][k]
            /\ Kind[Depends[modules[n].image][k]] \in {"executable", "library"}
  /\ \A k \in DOMAIN stack : Len(modules[stack[k].module].imported) = Constructed(k)
  /\ \A n \in Current : modules[n].imported # <<>> => resolver

\* Module n has left load_module or reached one of the stages.
Reached(n, stages) ==
  \A k \in DOMAIN stack : stack[k].module = n => stack[k].stage \in stages

\* Symbols are bound as find_symbol finds them, and locals to the module itself.
Bound ==
  \A n \in Current :
    /\ Reached(n, {"relocations", "loaded"}) =>
         /\ DOMAIN modules[n].lot = Slots(modules[n].image)
         /\ \A s \in Wants[modules[n].image] :
              modules[n].lot[s] = find_symbol(n, s) /\ find_symbol(n, s) # Null
    /\ Reached(n, {"loaded"}) =>
         \A s \in Locals[modules[n].image] : modules[n].lot[s] = n

\* Where executables start, and what the root under way knows of it.
StartsOf(n) ==
  IF modules[n].has_entry THEN modules[n].main \in {Entry, Null}
  ELSE modules[n].main \in Below(n)

Undecided(n) ==
  modules[n].class = "executable" =>
    modules[n].main = Null /\ modules[n].has_entry \in FreshEntry

Decided(n) ==
  modules[n].class = "executable" =>
    /\ modules[n].main = IF takes_entry(modules[n].image) THEN Entry ELSE Null
    /\ \E flag \in FreshEntry :
         modules[n].has_entry = (flag \/ takes_entry(modules[n].image))

Starts ==
  /\ \A n \in Range(executables) : StartsOf(n)
  /\ stack # <<>> =>
       LET root == stack[1]
       IN  /\ root.stage # "header" => Kind[modules[root.module].image] # "none"
           /\ root.stage # "loaded" => Undecided(root.module)
           /\ root.stage = "loaded" => Decided(root.module)

RInv == IInv /\ Consecutive /\ Unfinished /\ Dependencies /\ Bound /\ Starts

-----------------------------------------------------------------------------
\* Trees stay as they are while their members import the same.
LEMMA TreesStay ==
  ASSUME IInv, modules' \in Seq(Module), InOrder', Len(modules) <= Len(modules'),
         NEW S \in SUBSET DOMAIN modules, \A x \in S : Imports(x) \subseteq S,
         \A x \in S : modules'[x].imported = modules[x].imported
  PROVE  \A x \in S : Tree'[x] = Tree[x]
<1>1. /\ Ordered(modules, Len(modules)) /\ DOMAIN modules = 1..Len(modules)
      /\ Ordered(modules', Len(modules')) /\ Len(modules) \in Nat /\ Len(modules') \in Nat
  BY OrderedModules, NextOrderedModules DEF IInv, Typed, Ordered
<1>2. S \in SUBSET (1..Len(modules)) /\ S \subseteq 1..Len(modules') /\ Closed(modules, S)
  <2>1. \A x \in S : Range(modules[x].imported) \subseteq S
    BY DEF Imports
  <2> QED BY <1>1, <2>1, ClosedIsImports
<1>3. \A x \in S : TreeOf(modules')[x] = TreeOf(modules)[x]
  BY <1>1, <1>2, TreesAgree
<1> QED BY <1>3, TreeIs, NextTreeIs

\* What the invariant says of a tree.
LEMMA TreeFacts ==
  ASSUME RInv, NEW n \in DOMAIN modules
  PROVE  /\ DOMAIN modules = 1..Len(modules) /\ Len(modules) \in Nat /\ n \in Nat
         /\ Tree[n] \in Seq(DOMAIN modules) /\ Tree[n] \in Seq(Nat)
         /\ Len(Tree[n]) \in Nat \ {0} /\ DOMAIN Tree[n] = 1..Len(Tree[n])
         /\ \A k \in 1..Len(Tree[n]) : Tree[n][k] = n + k - 1 /\ Tree[n][k] \in Below(n)
         /\ n + Len(Tree[n]) <= Len(modules) + 1
         /\ Below(n) = n..n + Len(Tree[n]) - 1
<1>1. /\ modules \in Seq(Module) /\ InOrder
      /\ DOMAIN modules = 1..Len(modules) /\ Len(modules) \in Nat /\ n \in Nat
  BY DEF RInv, IInv, Typed
<1>2. /\ Tree[n] \in Seq(n..Len(modules)) /\ n \in Below(n)
      /\ Below(n) \subseteq n..Len(modules)
  BY <1>1, BelowFacts
<1>3. /\ Len(Tree[n]) \in Nat /\ DOMAIN Tree[n] = 1..Len(Tree[n])
  BY <1>2
<1>4. \A k \in 1..Len(Tree[n]) : Tree[n][k] = n + k - 1 /\ Tree[n][k] \in Below(n)
  BY <1>3 DEF RInv, Consecutive, Below, Range
<1>5. Len(Tree[n]) # 0
  BY <1>2, <1>3 DEF Below, Range
<1>6. n + Len(Tree[n]) <= Len(modules) + 1
  <2>1. Len(Tree[n]) \in 1..Len(Tree[n])
    BY <1>3, <1>5
  <2>2. n + Len(Tree[n]) - 1 \in n..Len(modules)
    BY <1>2, <1>4, <2>1
  <2> QED BY <1>1, <1>3, <2>2
<1>7. Below(n) = n..n + Len(Tree[n]) - 1
  <2>1. ASSUME NEW x \in Below(n) PROVE x \in n..n + Len(Tree[n]) - 1
    <3>1. PICK k \in 1..Len(Tree[n]) : x = Tree[n][k]
      BY <1>3 DEF Below, Range
    <3> QED BY <1>1, <1>3, <1>4, <3>1
  <2>2. ASSUME NEW x \in n..n + Len(Tree[n]) - 1 PROVE x \in Below(n)
    <3>1. x - n + 1 \in 1..Len(Tree[n]) /\ x = n + (x - n + 1) - 1
      BY <1>1, <1>3
    <3> QED BY <1>4, <3>1
  <2> QED BY <2>1, <2>2
<1>8. Tree[n] \in Seq(DOMAIN modules) /\ Tree[n] \in Seq(Nat)
  <2>1. n..Len(modules) \subseteq DOMAIN modules /\ n..Len(modules) \subseteq Nat
    BY <1>1
  <2> QED BY <1>2, <2>1, WiderSeq
<1> QED BY <1>1, <1>3, <1>4, <1>5, <1>6, <1>7, <1>8

\* What the invariant says of the stack.
LEMMA StackFacts ==
  ASSUME IInv
  PROVE  /\ Len(stack) \in Nat /\ DOMAIN stack = 1..Len(stack)
         /\ stack # <<>> => Len(stack) > 0 /\ 1 \in DOMAIN stack /\ Len(stack) \in DOMAIN stack
         /\ \A j \in DOMAIN stack :
              /\ stack[j] \in Activation /\ stack[j].module \in Nat
              /\ stack[j].module \in DOMAIN modules /\ stack[j].module \in Alive
         /\ \A j, k \in DOMAIN stack : j < k => stack[j].module < stack[k].module
         /\ \A j, k \in DOMAIN stack : stack[j].module = stack[k].module => j = k
<1>1. stack \in Seq(Activation)
  BY DEF IInv, Typed
<1>2. Len(stack) \in Nat /\ DOMAIN stack = 1..Len(stack)
  BY <1>1
<1>3. \A j \in DOMAIN stack : stack[j] \in Activation
  BY <1>1, ElementOfSeq
<1>4. \A j \in DOMAIN stack : stack[j].module \in Nat
  BY <1>3 DEF Activation
<1>5. \A j \in DOMAIN stack : stack[j].module \in DOMAIN modules /\ stack[j].module \in Alive
  BY DEF IInv, Activations, Runs, Alive
<1>6. \A j, k \in DOMAIN stack : j < k => stack[j].module < stack[k].module
  <2>1. \A k \in DOMAIN stack : \A j \in 1..k - 1 : stack[j].module < stack[k].module
    BY DEF IInv, Activations, Runs
  <2>2. \A j, k \in DOMAIN stack : j < k => j \in 1..k - 1
    BY <1>2
  <2> QED BY <2>1, <2>2
<1>7. \A j, k \in DOMAIN stack : stack[j].module = stack[k].module => j = k
  <2>1. \A j, k \in DOMAIN stack : j < k \/ k < j \/ j = k
    BY <1>2
  <2> QED BY <1>4, <1>6, <2>1
<1>8. stack # <<>> => Len(stack) > 0 /\ 1 \in DOMAIN stack /\ Len(stack) \in DOMAIN stack
  BY <1>1, <1>2
<1> QED BY <1>2, <1>3, <1>4, <1>5, <1>6, <1>7, <1>8

\* What has left load_module imports nothing that has not.
LEMMA OffStackClosed ==
  ASSUME IInv, NEW n \in DOMAIN modules, ~OnStack(n), NEW c \in Imports(n)
  PROVE  ~OnStack(c)
<1> SUFFICES ASSUME NEW k \in DOMAIN stack, stack[k].module = c PROVE FALSE
  BY DEF OnStack
<1>1. DOMAIN stack = 1..Len(stack) /\ Len(stack) \in Nat
  BY DEF IInv, Typed
<1>2. CASE k = 1
  <2>1. c \in Roots
    BY <1>1, <1>2 DEF Roots, Loading
  <2> QED BY <2>1 DEF IInv, RootsHaveNoParent
<1>3. CASE k # 1
  <2>1. k > 1 /\ k - 1 \in DOMAIN stack
    BY <1>1, <1>3
  <2>2. c \in Imports(stack[k - 1].module) /\ stack[k - 1].module \in DOMAIN modules
    BY <2>1 DEF IInv, Activations, Runs, Alive
  <2>3. stack[k - 1].module = n
    BY <2>2 DEF IInv, OneParent
  <2> QED BY <2>1, <2>3 DEF OnStack
<1> QED BY <1>2, <1>3

-----------------------------------------------------------------------------
(***************************************************************************)
(* A tree of modules is of the images that it is promised to be of.        *)
(***************************************************************************)

ImageOf == [n \in DOMAIN modules |-> modules[n].image]

Matches(n) ==
  /\ modules[n].image \notin Endless
  /\ Renamed(Tree[n], ImageOf) = Abstract!Tree[modules[n].image]

\* What is alive has an image, and imports what is alive.
LEMMA AliveFacts ==
  ASSUME IInv, NEW n \in Alive
  PROVE  /\ n \in DOMAIN modules /\ n \in Nat /\ modules[n] \in Module
         /\ modules[n].image \in Images
         /\ Depends[modules[n].image] \in Seq(Images \cup {NoImage})
         /\ Len(Depends[modules[n].image]) \in Nat
         /\ DOMAIN Depends[modules[n].image] = 1..Len(Depends[modules[n].image])
         /\ modules[n].imported \in Seq(Nat)
         /\ Len(modules[n].imported) \in Nat
         /\ DOMAIN modules[n].imported = 1..Len(modules[n].imported)
         /\ \A k \in 1..Len(modules[n].imported) :
              /\ modules[n].imported[k] \in Alive /\ modules[n].imported[k] \in DOMAIN modules
              /\ modules[n].imported[k] \in n + 1..Len(modules)
              /\ modules[n].imported[k] \in Imports(n)
<1>1. n \in DOMAIN modules /\ n \in Nat /\ modules[n] \in Module
  BY DEF IInv, Typed, Alive
<1>2. modules[n].image \in Images
  BY <1>1 DEF Module, Alive
<1>3. Depends[modules[n].image] \in Seq(Images \cup {NoImage})
  BY <1>2, ImageAssumption
<1>4. modules[n].imported \in Seq(Nat)
  BY <1>1 DEF Module
<1>5. /\ Len(Depends[modules[n].image]) \in Nat
      /\ DOMAIN Depends[modules[n].image] = 1..Len(Depends[modules[n].image])
  BY <1>3
<1>6. Len(modules[n].imported) \in Nat /\ DOMAIN modules[n].imported = 1..Len(modules[n].imported)
  BY <1>4
<1>7. ASSUME NEW k \in 1..Len(modules[n].imported)
      PROVE  /\ modules[n].imported[k] \in Alive /\ modules[n].imported[k] \in DOMAIN modules
             /\ modules[n].imported[k] \in n + 1..Len(modules)
             /\ modules[n].imported[k] \in Imports(n)
  <2>1. modules[n].imported[k] \in Imports(n)
    BY <1>6 DEF Imports, Range
  <2>2. modules[n].imported[k] \in Alive
    BY <2>1 DEF IInv, AliveClosed
  <2>3. modules[n].imported \in Seq(n + 1..Len(modules))
    BY <1>1 DEF IInv, InOrder
  <2>4. modules[n].imported[k] \in n + 1..Len(modules)
    BY <1>6, <2>3, ElementOfSeq
  <2> QED BY <2>1, <2>2, <2>4 DEF Alive
<1> QED BY <1>1, <1>2, <1>3, <1>4, <1>5, <1>6, <1>7

\* A module matches, if it has all its imports and they match.
LEMMA NodeMatches ==
  ASSUME RInv, NEW n \in Alive,
         Len(modules[n].imported) = Len(Depends[modules[n].image]),
         \A k \in DOMAIN modules[n].imported : Matches(modules[n].imported[k])
  PROVE  Matches(n)
<1> DEFINE T == DOMAIN modules
           U == Images \cup {NoImage}
           i == modules[n].image
           imp == modules[n].imported
           N == Len(imp)
           branches == [k \in 1..N |-> Tree[imp[k]]]
           names == [k \in 1..N |-> Renamed(branches[k], ImageOf)]
<1>1. /\ n \in T /\ i \in Images /\ N \in Nat /\ DOMAIN imp = 1..N
      /\ DOMAIN Depends[i] = 1..N
      /\ \A k \in 1..N : imp[k] \in T /\ imp[k] \in Alive
  BY AliveFacts DEF RInv
<1>2. \A k \in 1..N : modules[imp[k]].image = Depends[i][k]
  BY <1>1 DEF RInv, Dependencies
<1>3. branches \in Seq(Seq(T)) /\ Len(branches) = N /\ DOMAIN branches = 1..N
  <2>1. \A k \in 1..N : Tree[imp[k]] \in Seq(T)
    BY <1>1, TreeFacts
  <2>2. branches \in [1..N -> Seq(T)]
    BY <2>1
  <2>3. DOMAIN branches = 1..N
    OBVIOUS
  <2> HIDE DEF branches, N, T
  <2> QED BY <1>1, <2>2, <2>3, FunctionIsSeq
<1>4. Tree[n] = <<n>> \o FlattenSeq(branches)
  <2>1. TreeOf(modules) = [m \in 1..Len(modules) |-> Node(modules, TreeOf(modules), m)]
    BY OrderedModules, TreeEquation DEF RInv, IInv, Typed
  <2>2. T = 1..Len(modules)
    BY DEF RInv, IInv, Typed
  <2>3. Tree[n] = Node(modules, Tree, n)
    BY <1>1, <2>1, <2>2, TreeIs
  <2> QED BY <1>1, <2>3 DEF Node
<1>5. ImageOf \in [T -> U]
  <2>1. \A m \in T : modules[m] \in Module
    BY DEF RInv, IInv, Typed
  <2> QED BY <2>1 DEF Module, ImageOf
<1>6. <<n>> \in Seq(T) /\ FlattenSeq(branches) \in Seq(T) /\ Renamed(<<n>>, ImageOf) = <<i>>
  <2>1. FlattenSeq(branches) \in Seq(T)
    <3> HIDE DEF branches, T
    <3> QED BY <1>3, FlattenIsUnion
  <2> QED BY <1>1, <2>1 DEF Renamed, ImageOf
<1>7. Renamed(Tree[n], ImageOf) = <<i>> \o FlattenSeq(names)
  <2> HIDE DEF branches, T, U, i
  <2>1. Renamed(<<n>> \o FlattenSeq(branches), ImageOf)
          = Renamed(<<n>>, ImageOf) \o Renamed(FlattenSeq(branches), ImageOf)
    BY <1>5, <1>6, RenameConcat
  <2>2. Renamed(FlattenSeq(branches), ImageOf)
          = FlattenSeq([k \in DOMAIN branches |-> Renamed(branches[k], ImageOf)])
    BY <1>3, <1>5, RenameFlatten
  <2> QED BY <1>3, <1>4, <1>6, <2>1, <2>2
<1>8. Abstract!Followed(i) = DOMAIN Depends[i] /\ i \notin Endless
  <2>1. \A k \in 1..N : Kind[Depends[i][k]] \in {"executable", "library"}
    BY <1>1 DEF RInv, Dependencies
  <2>2. \A k \in 1..N : \A j \in 1..k : j \in 1..N
    BY <1>1
  <2> HIDE DEF i, N
  <2>3. Abstract!Followed(i) = 1..N
    BY <1>1, <2>1, <2>2 DEF Abstract!Followed, Abstract!IsModule
  <2>4. \A k \in 1..N : Depends[i][k] \notin Endless
    BY <1>1, <1>2 DEF Matches
  <2> QED BY <1>1, <2>3, <2>4, EndlessCalls
<1>9. names = Branches(Abstract!Tree, i)
  <2>1. ASSUME NEW k \in 1..N
        PROVE  Renamed(Tree[imp[k]], ImageOf) = Abstract!Tree[Depends[i][k]]
    BY <1>1, <1>2 DEF Matches
  <2> HIDE DEF i, imp, N
  <2> QED BY <1>1, <1>8, <2>1 DEF Branches
<1>10. Abstract!Tree[i] = <<i>> \o FlattenSeq(Branches(Abstract!Tree, i))
  BY <1>1, <1>8, PromisedTree DEF Made
<1> QED BY <1>7, <1>8, <1>9, <1>10 DEF Matches

\* What has left load_module matches.
LEMMA LoadedMatches ==
  ASSUME RInv, NEW n \in Alive, ~OnStack(n)
  PROVE  Matches(n)
<1> DEFINE G == {m \in 1..Len(modules) : m \in Alive /\ ~OnStack(m) => Matches(m)}
<1>1. Len(modules) \in Nat /\ DOMAIN modules = 1..Len(modules) /\ IInv
  BY DEF RInv, IInv, Typed
<1>2. ASSUME NEW m \in 1..Len(modules), \A c \in m + 1..Len(modules) : c \in G PROVE m \in G
  <2>1. SUFFICES ASSUME m \in Alive, ~OnStack(m) PROVE Matches(m)
    OBVIOUS
  <2>2. Len(modules[m].imported) = Len(Depends[modules[m].image])
    BY <2>1 DEF RInv, Dependencies
  <2>3. ASSUME NEW k \in DOMAIN modules[m].imported PROVE Matches(modules[m].imported[k])
    <3>1. /\ modules[m].imported[k] \in Alive /\ modules[m].imported[k] \in m + 1..Len(modules)
          /\ modules[m].imported[k] \in Imports(m)
      BY <1>1, <2>1, AliveFacts
    <3>2. ~OnStack(modules[m].imported[k])
      BY <1>1, <2>1, <3>1, OffStackClosed
    <3> QED BY <1>2, <3>1, <3>2
  <2> QED BY <2>1, <2>2, <2>3, NodeMatches
<1>3. \A m \in 1..Len(modules) : m \in G
  <2> HIDE DEF G
  <2> QED BY <1>1, <1>2, FromAbove
<1> QED BY <1>1, <1>3 DEF Alive

\* So does the module being loaded, once its dependencies are.
LEMMA TopMatches ==
  ASSUME RInv, stack # <<>>, Top.stage \in {"data"} \cup Linking
  PROVE  Matches(Top.module)
<1>1. /\ Len(stack) \in Nat \ {0} /\ DOMAIN stack = 1..Len(stack)
      /\ Top = stack[Len(stack)] /\ Top.module \in Alive
  BY TopFacts DEF RInv
<1>2. Len(modules[Top.module].imported) = Len(Depends[modules[Top.module].image])
  BY <1>1 DEF RInv, Dependencies, Constructed, Linking
<1>3. ASSUME NEW k \in DOMAIN modules[Top.module].imported
      PROVE  Matches(modules[Top.module].imported[k])
  <2>1. PICK c : c = modules[Top.module].imported[k]
    OBVIOUS
  <2>2. c \in Alive /\ c > Top.module /\ Top.module \in Nat /\ c \in Nat
    BY <1>1, <2>1, AliveFacts DEF RInv
  <2>3. ~OnStack(c)
    <3>1. \A j \in DOMAIN stack : j < Len(stack) \/ j = Len(stack)
      BY <1>1
    <3>2. \A j \in DOMAIN stack : stack[j].module \in Nat /\ stack[j].module <= Top.module
      BY <1>1, <3>1, StackFacts DEF RInv
    <3> QED BY <2>2, <3>2 DEF OnStack
  <2> QED BY <2>1, <2>2, <2>3, LoadedMatches
<1> QED BY <1>1, <1>2, <1>3, NodeMatches

\* Everything on the stack is of an image in the tree of the one asked for, which goes as
\* far as the images are not endless.
LEMMA StackInTree ==
  ASSUME RInv, stack # <<>>, NEW k \in DOMAIN stack,
         modules[stack[1].module].image \notin Endless
  PROVE  modules[stack[k].module].image
           \in Range(Abstract!Tree[modules[stack[1].module].image])
<1> DEFINE X == Range(Abstract!Tree[modules[stack[1].module].image])
           S == {j \in 1..Len(stack) : modules[stack[j].module].image \in X}
<1>1. Len(stack) \in Nat \ {0} /\ DOMAIN stack = 1..Len(stack) /\ IInv
  BY DEF RInv, IInv, Typed
<1>2. /\ modules[stack[1].module].image \in X
      /\ \A x \in X : \A j \in Abstract!Followed(x) : Depends[x][j] \in X
  <2>1. modules[stack[1].module].image \in Images
    <3>1. stack[1].module \in Alive
      BY <1>1 DEF IInv, Activations, Runs
    <3> QED BY <1>1, <3>1, AliveFacts
  <2> QED BY <2>1, PromisedFacts
<1> HIDE DEF X
<1>3. 1 \in S
  BY <1>1, <1>2
<1>4. ASSUME NEW j \in 1..Len(stack) - 1, j \in S PROVE j + 1 \in S
  <2>1. j \in DOMAIN stack /\ j + 1 \in DOMAIN stack /\ j + 1 > 1 /\ (j + 1) - 1 = j
    BY <1>1
  <2>2. stack[j + 1].module \in Imports(stack[j].module) /\ stack[j].module \in Alive
    BY <1>1, <2>1 DEF IInv, Activations, Runs
  <2>3. PICK m \in DOMAIN modules[stack[j].module].imported :
          stack[j + 1].module = modules[stack[j].module].imported[m]
    BY <2>2 DEF Imports, Range
  <2>4. stack[j + 1].module \in Alive
    BY <1>1, <2>1 DEF IInv, Activations, Runs
  <2>5. modules[stack[j + 1].module].image = Depends[modules[stack[j].module].image][m]
    BY <2>2, <2>3, <2>4 DEF RInv, Dependencies, Alive
  <2>6. m \in DOMAIN Depends[modules[stack[j].module].image]
    <3>1. /\ m \in 1..Len(modules[stack[j].module].imported)
          /\ DOMAIN Depends[modules[stack[j].module].image]
               = 1..Len(Depends[modules[stack[j].module].image])
          /\ Len(Depends[modules[stack[j].module].image]) \in Nat
          /\ Len(modules[stack[j].module].imported) \in Nat
      BY <1>1, <2>2, <2>3, AliveFacts
    <3>2. Len(modules[stack[j].module].imported) = Constructed(j)
      BY <2>1 DEF RInv, Dependencies
    <3>3. stack[j].stage \in {"dependencies", "data"}
      BY <1>1, <2>1 DEF IInv, Activations, Runs
    <3>4. stack[j].stage = "dependencies" =>
            stack[j].next \in DOMAIN Depends[modules[stack[j].module].image]
      BY <1>1, <2>1 DEF IInv, Activations, Runs
    <3> QED BY <3>1, <3>2, <3>3, <3>4 DEF Constructed
  <2>7. m \in Abstract!Followed(modules[stack[j].module].image)
    <3>1. \A l \in DOMAIN modules[stack[j].module].imported :
            Kind[Depends[modules[stack[j].module].image][l]] \in {"executable", "library"}
      BY <2>2 DEF RInv, Dependencies
    <3>2. \A l \in 1..m : l \in DOMAIN modules[stack[j].module].imported
      BY <1>1, <2>2, <2>3, AliveFacts
    <3> QED BY <2>6, <3>1, <3>2 DEF Abstract!Followed, Abstract!IsModule
  <2> QED BY <1>2, <1>4, <2>1, <2>5, <2>7
<1>5. \A j \in 1..Len(stack) : j \in S
  <2> HIDE DEF S
  <2> QED BY <1>1, <1>3, <1>4, UpFrom
<1>6. k \in S
  <2> HIDE DEF S
  <2> QED BY <1>1, <1>5
<1> QED BY <1>6 DEF X

-----------------------------------------------------------------------------
(***************************************************************************)
(* Searches and bindings, in a tree that matches.                          *)
(***************************************************************************)

\* A tree that matches has the images that are promised, place by place.
LEMMA MatchFacts ==
  ASSUME RInv, NEW n \in DOMAIN modules, Matches(n)
  PROVE  LET promised == Abstract!Tree[modules[n].image]
         IN  /\ DOMAIN promised = 1..Len(Tree[n]) /\ Len(promised) = Len(Tree[n])
             /\ \A k \in 1..Len(Tree[n]) : promised[k] = modules[Tree[n][k]].image
<1>1. Tree[n] \in Seq(DOMAIN modules) /\ \A k \in 1..Len(Tree[n]) : Tree[n][k] \in DOMAIN modules
  BY TreeFacts
<1>2. /\ Len(Renamed(Tree[n], ImageOf)) = Len(Tree[n])
      /\ DOMAIN Renamed(Tree[n], ImageOf) = 1..Len(Tree[n])
      /\ \A k \in 1..Len(Tree[n]) : Renamed(Tree[n], ImageOf)[k] = ImageOf[Tree[n][k]]
  BY <1>1, RenamedFacts
<1> QED BY <1>1, <1>2 DEF Matches, ImageOf

\* A search finds the first in the tree of images that exports the symbol.
LEMMA SearchFinds ==
  ASSUME RInv, NEW n \in DOMAIN modules, Matches(n), NEW s
  PROVE  LET definers == Abstract!Definers(modules[n].image, s)
         IN  /\ definers \subseteq 1..Len(Tree[n])
             /\ definers = {} => FirstDefining(Tree[n], s) = Null
             /\ definers # {} => /\ Min(definers) \in 1..Len(Tree[n])
                                 /\ FirstDefining(Tree[n], s) = Tree[n][Min(definers)]
                                 /\ FirstDefining(Tree[n], s) # Null
<1> DEFINE definers == Abstract!Definers(modules[n].image, s)
           hits == {k \in DOMAIN Tree[n] : s \in Exports[modules[Tree[n][k]].image]}
<1>1. /\ DOMAIN Tree[n] = 1..Len(Tree[n]) /\ Len(Tree[n]) \in Nat /\ n \in Nat /\ n # 0
      /\ \A k \in 1..Len(Tree[n]) : Tree[n][k] = n + k - 1
  BY TreeFacts
<1>2. definers = hits
  BY <1>1, MatchFacts DEF Abstract!Definers
<1>3. FirstDefining(Tree[n], s) = IF hits = {} THEN Null ELSE Tree[n][Min(hits)]
  BY DEF FirstDefining
<1>4. hits \subseteq 1..Len(Tree[n])
  BY <1>1
<1> HIDE DEF hits, definers
<1>5. hits # {} => Min(hits) \in hits
  <2>1. hits \in SUBSET Nat
    BY <1>1, <1>4
  <2> QED BY <2>1, MinIsLeast
<1>6. ASSUME hits # {} PROVE Tree[n][Min(hits)] # Null
  <2>1. Min(hits) \in 1..Len(Tree[n])
    BY <1>4, <1>5, <1>6
  <2> QED BY <1>1, <2>1 DEF Null
<1> QED BY <1>2, <1>3, <1>4, <1>5, <1>6 DEF definers

\* Positions in the tree of a module.
LEMMA PositionFacts ==
  ASSUME RInv, NEW n \in DOMAIN modules
  PROVE  /\ Position(Tree[n], Environment) = 0 /\ Position(Tree[n], Entry) = 0
         /\ Position(Tree[n], Null) = Len(Tree[n]) + 1
         /\ Position(Tree[n], n) = 1
         /\ \A k \in 1..Len(Tree[n]) : Position(Tree[n], Tree[n][k]) = k
         /\ \A x \in Below(n) : Position(Tree[n], x) \in 1..Len(Tree[n])
<1> DEFINE tree == Tree[n]
           places(x) == {k \in DOMAIN tree : tree[k] = x} \cup {Len(tree) + 1}
<1>1. /\ DOMAIN tree = 1..Len(tree) /\ Len(tree) \in Nat \ {0} /\ n \in Nat /\ n # 0
      /\ \A k \in 1..Len(tree) : tree[k] = n + k - 1
      /\ Below(n) = n..n + Len(tree) - 1
  BY TreeFacts
<1> HIDE DEF tree
<1>2. Position(tree, Environment) = 0 /\ Position(tree, Entry) = 0
  BY DEF Position
<1>3. \A x : x \notin {Environment, Entry} => Position(tree, x) = Min(places(x))
  BY DEF Position
<1>4. \A x : places(x) \in SUBSET Nat /\ places(x) # {}
  BY <1>1
<1>5. \A x : Min(places(x)) \in places(x) /\ \A y \in places(x) : Min(places(x)) <= y
  <2> HIDE DEF places
  <2> QED BY <1>4, MinIsLeast
<1>6. Position(tree, Null) = Len(tree) + 1
  <2>1. Null \notin {Environment, Entry}
    BY DEF Null, Environment, Entry
  <2>2. places(Null) = {Len(tree) + 1}
    BY <1>1 DEF Null
  <2> HIDE DEF places
  <2> QED BY <1>3, <1>5, <2>1, <2>2
<1>7. ASSUME NEW k \in 1..Len(tree) PROVE Position(tree, tree[k]) = k
  <2>1. tree[k] \in Nat
    BY <1>1
  <2>2. tree[k] \notin {Environment, Entry}
    BY <2>1 DEF Environment, Entry
  <2>3. \A y \in places(tree[k]) : y = k \/ y = Len(tree) + 1
    BY <1>1
  <2>4. k \in places(tree[k]) /\ k \in Nat /\ k < Len(tree) + 1
    BY <1>1
  <2>5. PICK m : m = Min(places(tree[k]))
    OBVIOUS
  <2>6. m \in places(tree[k]) /\ \A y \in places(tree[k]) : m <= y
    BY <1>5, <2>5
  <2> HIDE DEF places
  <2>7. m = k
    BY <1>1, <2>3, <2>4, <2>6
  <2> QED BY <1>3, <2>2, <2>5, <2>7
<1>8. ASSUME NEW x \in Below(n) PROVE Position(tree, x) \in 1..Len(tree)
  <2>1. x - n + 1 \in 1..Len(tree) /\ n + (x - n + 1) - 1 = x
    BY <1>1
  <2>2. x = tree[x - n + 1]
    BY <1>1, <2>1
  <2>3. Position(tree, x) = x - n + 1
    BY <1>7, <2>1, <2>2
  <2> QED BY <2>1, <2>3
<1>9. Position(tree, n) = 1
  <2>1. 1 \in 1..Len(tree) /\ tree[1] = n
    BY <1>1
  <2> QED BY <1>7, <2>1
<1> QED BY <1>2, <1>6, <1>7, <1>8, <1>9 DEF tree

\* A tree whose slots are bound is the one that is promised.
LEMMA TreeIsLinked ==
  ASSUME RInv, NEW n \in DOMAIN modules, Matches(n),
         \A x \in Below(n) :
           /\ x \in DOMAIN modules /\ modules[x].image \in Images /\ Matches(x)
           /\ DOMAIN modules[x].lot = Slots(modules[x].image)
           /\ \A s \in Wants[modules[x].image] :
                modules[x].lot[s] = find_symbol(x, s) /\ find_symbol(x, s) # Null
           /\ \A s \in Locals[modules[x].image] : modules[x].lot[s] = x
  PROVE  LinkedTree(n) = Abstract!Linked(modules[n].image)
<1> DEFINE i == modules[n].image
           promised == Abstract!Tree[i]
           Entries(x) == [s \in DOMAIN modules[x].lot |-> Position(Tree[x], modules[x].lot[s])]
           Promised(y) == [s \in Wants[y] \cup Locals[y] |->
                             IF s \in Locals[y] THEN 1
                             ELSE IF s \in environment THEN 0
                             ELSE Abstract!Min(Abstract!Definers(y, s))]
<1>1. /\ DOMAIN Tree[n] = 1..Len(Tree[n])
      /\ \A k \in 1..Len(Tree[n]) : Tree[n][k] \in Below(n)
  BY TreeFacts
<1>2. /\ DOMAIN promised = 1..Len(Tree[n])
      /\ \A k \in 1..Len(Tree[n]) : promised[k] = modules[Tree[n][k]].image
  BY MatchFacts
<1>3. ASSUME NEW x \in Below(n) PROVE Entries(x) = Promised(modules[x].image)
  <2> DEFINE y == modules[x].image
  <2>1. /\ x \in DOMAIN modules /\ y \in Images /\ Matches(x)
        /\ DOMAIN modules[x].lot = Wants[y] \cup Locals[y]
    BY DEF Slots
  <2>2. ASSUME NEW s \in Wants[y] \cup Locals[y]
        PROVE  Position(Tree[x], modules[x].lot[s]) =
                 IF s \in Locals[y] THEN 1
                 ELSE IF s \in environment THEN 0
                 ELSE Abstract!Min(Abstract!Definers(y, s))
    <3>1. CASE s \in Locals[y]
      <4>1. modules[x].lot[s] = x
        BY <3>1
      <4> QED BY <2>1, <3>1, <4>1, PositionFacts
    <3>2. CASE s \notin Locals[y] /\ s \in environment
      <4>1. modules[x].lot[s] = Environment
        BY <2>2, <3>2 DEF find_symbol
      <4> QED BY <2>1, <3>2, <4>1, PositionFacts
    <3>3. CASE s \notin Locals[y] /\ s \notin environment
      <4>1. modules[x].lot[s] = FirstDefining(Tree[x], s) /\ FirstDefining(Tree[x], s) # Null
        BY <2>2, <3>3 DEF find_symbol
      <4>2. PICK d : d = Abstract!Definers(y, s)
        OBVIOUS
      <4>3. d # {} /\ Min(d) \in 1..Len(Tree[x]) /\ FirstDefining(Tree[x], s) = Tree[x][Min(d)]
        BY <2>1, <4>1, <4>2, SearchFinds
      <4>4. Position(Tree[x], modules[x].lot[s]) = Min(d)
        BY <2>1, <4>1, <4>3, PositionFacts
      <4>5. Abstract!Min(d) = Min(d)
        BY DEF Min, Abstract!Min
      <4> QED BY <3>3, <4>2, <4>4, <4>5
    <3> QED BY <3>1, <3>2, <3>3
  <2> HIDE DEF y
  <2> QED BY <2>1, <2>2 DEF y
<1> HIDE DEF Entries, Promised
<1>4. LinkedTree(n) = [k \in 1..Len(Tree[n]) |->
                         [image |-> modules[Tree[n][k]].image, lot |-> Entries(Tree[n][k])]]
  BY <1>1 DEF LinkedTree, Entries
<1>5. Abstract!Linked(i) = [k \in 1..Len(Tree[n]) |->
                              [image |-> promised[k], lot |-> Promised(promised[k])]]
  BY <1>2 DEF Abstract!Linked, Promised
<1>6. \A k \in 1..Len(Tree[n]) : /\ promised[k] = modules[Tree[n][k]].image
                                 /\ Entries(Tree[n][k]) = Promised(promised[k])
  BY <1>1, <1>2, <1>3
<1> HIDE DEF promised
<1> QED BY <1>4, <1>5, <1>6

-----------------------------------------------------------------------------
(***************************************************************************)
(* What a step leaves as it is.                                            *)
(***************************************************************************)

Listed == Range(executables) \cup Range(libraries)

\* The trees of what the host holds have nothing of what is being loaded.
LEMMA ListedFacts ==
  ASSUME IInv, NEW r \in Listed
  PROVE  /\ r \in DOMAIN modules /\ r \in Alive /\ r \in Roots
         /\ \A x \in Below(r) : x \in Alive /\ x \in DOMAIN modules /\ ~OnStack(x)
<1> DEFINE S == {x \in Alive : ~OnStack(x)}
<1>1. r \in Roots /\ r \in DOMAIN modules /\ r \in Alive
  BY ListsFacts DEF Listed, Roots
<1>2. ~OnStack(r)
  <2> SUFFICES ASSUME NEW k \in DOMAIN stack, stack[k].module = r PROVE FALSE
    BY DEF OnStack
  <2>1. CASE k = 1
    <3>1. stack # <<>>
      BY StackFacts
    <3>2. r \in Loading
      BY <2>1, <3>1 DEF Loading
    <3> QED BY <3>2 DEF IInv, RootsAlive, Listed
  <2>2. CASE k # 1
    <3>1. k > 1 /\ k - 1 \in DOMAIN stack
      BY <2>2, StackFacts
    <3>2. r \in Imports(stack[k - 1].module) /\ stack[k - 1].module \in DOMAIN modules
      BY <3>1, StackFacts DEF IInv, Activations, Runs
    <3> QED BY <1>1, <3>2 DEF IInv, RootsHaveNoParent
  <2> QED BY <2>1, <2>2
<1>3. \A x \in S : Imports(x) \subseteq S
  <2>1. \A x \in Alive : Imports(x) \subseteq Alive
    BY DEF IInv, AliveClosed
  <2>2. Alive \subseteq DOMAIN modules
    BY DEF Alive
  <2> QED BY <2>1, <2>2, OffStackClosed
<1>4. Below(r) \subseteq S
  <2>1. modules \in Seq(Module) /\ InOrder /\ S \in SUBSET DOMAIN modules /\ r \in S
    BY <1>1, <1>2 DEF IInv, Typed, Alive
  <2> HIDE DEF S
  <2> QED BY <1>1, <1>3, <2>1, BelowFacts
<1> QED BY <1>1, <1>4 DEF Alive

\* A module whose tree is not touched is linked as it was.
LEMMA LinkedStays ==
  ASSUME RInv, IInv', Len(modules) <= Len(modules'), NEW r \in DOMAIN modules,
         \A x \in Below(r) : modules'[x] = modules[x]
  PROVE  /\ LinkedExecutable(r)' = LinkedExecutable(r)
         /\ LinkedLibrary(r)' = LinkedLibrary(r)
<1>1. modules \in Seq(Module) /\ InOrder /\ modules' \in Seq(Module) /\ InOrder' /\ IInv
  BY DEF RInv, IInv, Typed
<1>2. /\ Below(r) \in SUBSET DOMAIN modules /\ r \in Below(r)
      /\ \A x \in Below(r) : Imports(x) \subseteq Below(r)
  <2>1. /\ r \in Below(r) /\ Below(r) \subseteq r..Len(modules)
        /\ \A x \in Below(r) : Imports(x) \subseteq Below(r)
    BY <1>1, BelowFacts
  <2>2. r..Len(modules) \subseteq DOMAIN modules
    BY <1>1
  <2> QED BY <2>1, <2>2
<1>3. \A x \in Below(r) : Tree'[x] = Tree[x]
  BY <1>1, <1>2, TreesStay
<1>4. Tree'[r] = Tree[r] /\ modules'[r] = modules[r]
  BY <1>2, <1>3
<1>5. \A k \in DOMAIN Tree[r] : Tree[r][k] \in Below(r)
  BY DEF Below, Range
<1>6. LinkedTree(r)' = LinkedTree(r)
  <2> DEFINE Item(x) == [image |-> modules[x].image,
                         lot |-> [s \in DOMAIN modules[x].lot |->
                                    Position(Tree[x], modules[x].lot[s])]]
  <2>1. ASSUME NEW x \in Below(r) PROVE Item(x)' = Item(x)
    <3>1. Tree'[x] = Tree[x] /\ modules'[x] = modules[x]
      BY <1>3
    <3> QED BY <3>1 DEF Position
  <2>2. LinkedTree(r) = [k \in DOMAIN Tree[r] |-> Item(Tree[r][k])]
    BY DEF LinkedTree
  <2>3. LinkedTree(r)' = [k \in DOMAIN Tree'[r] |-> Item(Tree[r][k])']
    BY DEF LinkedTree
  <2>4. ASSUME NEW k \in DOMAIN Tree[r] PROVE Item(Tree[r][k])' = Item(Tree[r][k])
    <3>1. PICK x \in Below(r) : x = Tree[r][k]
      BY <1>5
    <3>2. x = Tree'[r][k] /\ Item(x)' = Item(x)
      BY <1>4, <2>1, <3>1
    <3> QED BY <3>1, <3>2
  <2>5. LinkedTree(r)' = [k \in DOMAIN Tree[r] |-> Item(Tree[r][k])']
    BY <1>4, <2>3
  <2> QED BY <2>2, <2>4, <2>5
<1>7. Position(Tree[r], modules[r].main)' = Position(Tree[r], modules[r].main)
  BY <1>4 DEF Position
<1> QED BY <1>4, <1>6, <1>7 DEF LinkedExecutable, LinkedLibrary

\* What the host goes on holding is linked as it was, if nothing in its trees is touched.
LEMMA ListsStay ==
  ASSUME RInv, IInv', Len(modules) <= Len(modules'),
         \A r \in Listed' \cap Listed : \A x \in Below(r) : modules'[x] = modules[x]
  PROVE  /\ executables' = executables => LinkedExecutables' = LinkedExecutables
         /\ libraries' = libraries => LinkedLibraries' = LinkedLibraries
<1>1. \A r \in Listed' \cap Listed :
        /\ LinkedExecutable(r)' = LinkedExecutable(r)
        /\ LinkedLibrary(r)' = LinkedLibrary(r)
  BY ListedFacts, LinkedStays DEF RInv
<1>2. ASSUME executables' = executables PROVE LinkedExecutables' = LinkedExecutables
  <2>1. \A k \in DOMAIN executables : executables[k] \in Listed' \cap Listed
    BY <1>2 DEF Listed, Range
  <2>2. \A k \in DOMAIN executables :
          LinkedExecutable(executables[k])' = LinkedExecutable(executables[k])
    BY <1>1, <1>2, <2>1
  <2> QED BY <1>2, <2>2 DEF LinkedExecutables
<1>3. ASSUME libraries' = libraries PROVE LinkedLibraries' = LinkedLibraries
  <2>1. \A k \in DOMAIN libraries : libraries[k] \in Listed' \cap Listed
    BY <1>3 DEF Listed, Range
  <2>2. \A k \in DOMAIN libraries :
          LinkedLibrary(libraries[k])' = LinkedLibrary(libraries[k])
    BY <1>1, <1>3, <2>1
  <2> QED BY <1>3, <2>2 DEF LinkedLibraries
<1> QED BY <1>2, <1>3

\* A step that constructs nothing leaves the trees as they are.
LEMMA SameTrees ==
  ASSUME RInv, IInv', Len(modules') = Len(modules),
         \A n \in DOMAIN modules : modules'[n].imported = modules[n].imported
  PROVE  /\ DOMAIN modules' = DOMAIN modules
         /\ \A n \in DOMAIN modules : Tree'[n] = Tree[n] /\ Below(n)' = Below(n)
         /\ Consecutive'
<1>1. /\ modules \in Seq(Module) /\ modules' \in Seq(Module) /\ InOrder' /\ IInv /\ InOrder
      /\ Len(modules) \in Nat
  BY DEF RInv, IInv, Typed
<1>2. DOMAIN modules' = DOMAIN modules /\ DOMAIN modules = 1..Len(modules)
  BY <1>1
<1>3. \A n \in DOMAIN modules : Tree'[n] = Tree[n]
  <2>1. \A x \in DOMAIN modules : Imports(x) \subseteq DOMAIN modules
    <3> SUFFICES ASSUME NEW x \in DOMAIN modules PROVE Imports(x) \subseteq DOMAIN modules
      OBVIOUS
    <3>1. modules[x].imported \in Seq(x + 1..Len(modules)) /\ x \in Nat
      BY <1>1, <1>2 DEF InOrder
    <3>2. \A k \in DOMAIN modules[x].imported : modules[x].imported[k] \in x + 1..Len(modules)
      BY <3>1, ElementOfSeq
    <3>3. x + 1..Len(modules) \subseteq DOMAIN modules
      BY <1>1, <1>2, <3>1
    <3> QED BY <3>2, <3>3 DEF Imports, Range
  <2>2. Len(modules) <= Len(modules')
    BY <1>1
  <2> QED BY <1>1, <2>1, <2>2, TreesStay
<1>4. \A n \in DOMAIN modules : Below(n)' = Below(n)
  BY <1>3 DEF Below
<1>5. Consecutive'
  BY <1>2, <1>3 DEF RInv, Consecutive
<1> QED BY <1>2, <1>3, <1>4, <1>5

\* A search gives what it gave, when the tree and the images in it stay.
LEMMA SearchStays ==
  ASSUME RInv, NEW n \in DOMAIN modules, Tree'[n] = Tree[n],
         \A x \in Below(n) : modules'[x].image = modules[x].image,
         NEW s
  PROVE  /\ FirstDefining(Tree[n], s)' = FirstDefining(Tree[n], s)
         /\ environment' = environment => find_symbol(n, s)' = find_symbol(n, s)
<1>1. \A k \in DOMAIN Tree[n] : modules'[Tree[n][k]].image = modules[Tree[n][k]].image
  BY DEF Below, Range
<1>2. FirstDefining(Tree[n], s)' = FirstDefining(Tree[n], s)
  <2>1. {k \in DOMAIN Tree'[n] : s \in Exports[modules'[Tree'[n][k]].image]}
        = {k \in DOMAIN Tree[n] : s \in Exports[modules[Tree[n][k]].image]}
    BY <1>1
  <2> QED BY <2>1 DEF FirstDefining
<1> QED BY <1>2 DEF find_symbol

\* Steps of load_module on the module it is loading: what the tables say of it and of
\* its dependencies stays, and none of it shows yet.
LEMMA ProcessingRefines ==
  ASSUME RInv, IInv', stack # <<>>,
         NEW m \in Module, NEW stage \in Stages \ {"header"},
         modules' = [modules EXCEPT ![Top.module] = m], Goto(stage),
         UNCHANGED <<host, executables, libraries, result>>,
         Top.stage # "loaded",
         m.image = Image, m.imported = modules[Top.module].imported,
         m.class = modules[Top.module].class,
         Kind[Image] # "none",
         Len(m.imported) = IF stage = "modules" THEN 0
                           ELSE IF stage = "dependencies" THEN Top.next - 1
                           ELSE Len(Depends[Image]),
         stage \in {"relocations", "loaded"} =>
           /\ DOMAIN m.lot = Slots(Image)
           /\ \A s \in Wants[Image] : m.lot[s] = find_symbol(Top.module, s)
                                      /\ find_symbol(Top.module, s) # Null,
         stage = "loaded" =>
           /\ \A s \in Locals[Image] : m.lot[s] = Top.module
           /\ m.has_entry = (modules[Top.module].has_entry \/ takes_entry(Image))
           /\ m.main = IF takes_entry(Image) THEN Entry ELSE modules[Top.module].main,
         stage # "loaded" => /\ m.has_entry = modules[Top.module].has_entry
                             /\ m.main = modules[Top.module].main
  PROVE  RInv' /\ UNCHANGED Abstract!vars
<1> DEFINE n == Top.module
           last == Len(stack)
<1>1. /\ last \in Nat \ {0} /\ DOMAIN stack = 1..last /\ Top = stack[last] /\ IInv
      /\ n \in DOMAIN modules /\ n \in Alive /\ Image = modules[n].image
      /\ stack \in Seq(Activation) /\ modules \in Seq(Module)
  BY TopFacts DEF RInv, IInv, Typed, Image
<1>2. /\ Len(modules') = Len(modules) /\ DOMAIN modules' = DOMAIN modules
      /\ \A x \in DOMAIN modules : modules'[x] = IF x = n THEN m ELSE modules[x]
  BY <1>1
<1>3. \A x \in DOMAIN modules :
        /\ modules'[x].imported = modules[x].imported /\ modules'[x].image = modules[x].image
        /\ modules'[x].class = modules[x].class
  BY <1>1, <1>2
<1>4. /\ \A x \in DOMAIN modules : Tree'[x] = Tree[x] /\ Below(x)' = Below(x)
      /\ Consecutive'
  BY <1>2, <1>3, SameTrees
<1>5. /\ stack' # <<>> /\ Len(stack') = last /\ DOMAIN stack' = DOMAIN stack
      /\ \A k \in DOMAIN stack :
           stack'[k].module = stack[k].module /\ stack'[k].next = stack[k].next
      /\ \A k \in DOMAIN stack : k # last => stack'[k] = stack[k]
      /\ stack'[last].stage = stage
  BY <1>1, GotoFacts
<1>6. \A k \in DOMAIN stack : stack[k].module = n <=> k = last
  BY <1>1, StackFacts
<1>7. Alive' = Alive
  BY <1>2, <1>3 DEF Alive
<1>8. \A x : OnStack(x)' <=> OnStack(x)
  BY <1>5 DEF OnStack
<1>9. Current' = Current
  BY <1>1, <1>2, <1>5 DEF Current
<1> HIDE DEF n, last
<1>10. \A k \in DOMAIN stack : stack[k].module \in DOMAIN modules
  BY <1>1, StackFacts
<1>11. Unfinished'
  BY <1>2, <1>3, <1>4, <1>5, <1>10 DEF RInv, Unfinished
<1>12. Dependencies'
  <2>1. ASSUME NEW x \in Alive, ~OnStack(x)
        PROVE  Len(modules'[x].imported) = Len(Depends[modules'[x].image])
    <3>1. x \in DOMAIN modules
      BY DEF Alive
    <3> QED BY <1>3, <2>1, <3>1 DEF RInv, Dependencies
  <2>2. ASSUME NEW x \in Alive, NEW k \in DOMAIN modules'[x].imported
        PROVE  /\ modules'[modules'[x].imported[k]].image = Depends[modules'[x].image][k]
               /\ Kind[Depends[modules'[x].image][k]] \in {"executable", "library"}
    <3>1. x \in DOMAIN modules
      BY DEF Alive
    <3>2. k \in DOMAIN modules[x].imported
      BY <1>3, <3>1
    <3>3. modules[x].imported[k] \in DOMAIN modules
      BY <1>1, <3>2, AliveFacts
    <3> QED BY <1>3, <3>1, <3>2, <3>3 DEF RInv, Dependencies
  <2>3. ASSUME NEW k \in DOMAIN stack
        PROVE  Len(modules'[stack'[k].module].imported) = Constructed(k)'
    <3>1. CASE k = last
      <4>1. modules'[stack'[k].module] = m /\ stack'[k].stage = stage /\ stack'[k].next = Top.next
        BY <1>1, <1>2, <1>5, <3>1 DEF n
      <4> QED BY <1>1, <4>1 DEF Constructed, Stages
    <3>2. CASE k # last
      <4>1. stack'[k] = stack[k] /\ stack[k].module # n /\ stack[k].module \in DOMAIN modules
        BY <1>5, <1>6, <1>10, <3>2
      <4>2. modules'[stack'[k].module] = modules[stack[k].module]
        BY <1>2, <4>1
      <4>3. Len(modules[stack[k].module].imported) = Constructed(k)
        BY DEF RInv, Dependencies
      <4> QED BY <4>1, <4>2, <4>3 DEF Constructed
    <3> QED BY <3>1, <3>2
  <2>4. ASSUME NEW x \in Current, modules'[x].imported # <<>> PROVE resolver'
    <3>1. x \in DOMAIN modules
      BY DEF Current
    <3> QED BY <1>3, <2>4, <3>1 DEF RInv, Dependencies, host
  <2> QED BY <1>5, <1>7, <1>8, <1>9, <2>1, <2>2, <2>3, <2>4 DEF Dependencies
<1>13. \A x \in DOMAIN modules : \A s : find_symbol(x, s)' = find_symbol(x, s)
  <2>1. SUFFICES ASSUME NEW x \in DOMAIN modules, NEW s
                 PROVE  find_symbol(x, s)' = find_symbol(x, s)
    OBVIOUS
  <2>2. Below(x) \subseteq DOMAIN modules
    <3>1. \A k \in 1..Len(Tree[x]) : Tree[x][k] \in DOMAIN modules
      BY TreeFacts, ElementOfSeq
    <3> QED BY <3>1, TreeFacts DEF Below, Range
  <2> QED BY <1>3, <1>4, <2>2, SearchStays DEF host
<1>14. Bound'
  <2>1. SUFFICES ASSUME NEW x \in Current
        PROVE  /\ Reached(x, {"relocations", "loaded"})' =>
                    /\ DOMAIN modules'[x].lot = Slots(modules'[x].image)
                    /\ \A s \in Wants[modules'[x].image] :
                         modules'[x].lot[s] = find_symbol(x, s)' /\ find_symbol(x, s)' # Null
               /\ Reached(x, {"loaded"})' =>
                    \A s \in Locals[modules'[x].image] : modules'[x].lot[s] = x
    BY <1>9 DEF Bound
  <2>2. x \in DOMAIN modules
    BY DEF Current
  <2>3. CASE x = n
    <3>1. modules'[x] = m /\ m.image = Image
      BY <1>2, <2>2, <2>3
    <3>2. \A stages : Reached(x, stages)' => stage \in stages
      BY <1>1, <1>5, <2>3 DEF Reached, n
    <3> QED BY <1>13, <2>2, <2>3, <3>1, <3>2 DEF n
  <2>4. CASE x # n
    <3>1. modules'[x] = modules[x]
      BY <1>2, <2>2, <2>4
    <3>2. \A stages : Reached(x, stages)' <=> Reached(x, stages)
      BY <1>5, <1>6, <2>4 DEF Reached
    <3> QED BY <1>13, <2>2, <3>1, <3>2 DEF RInv, Bound
  <2> QED BY <2>3, <2>4
<1>15. Starts'
  <2>1. \A r \in Listed : \A x \in Below(r) : x \in DOMAIN modules /\ x # n
    BY <1>1, <1>6, ListedFacts DEF OnStack
  <2>2. ASSUME NEW r \in Range(executables) PROVE StartsOf(r)'
    <3>1. r \in DOMAIN modules /\ r \in Below(r)
      <4>1. r \in Listed
        BY DEF Listed
      <4> QED BY <1>1, <4>1, ListedFacts, BelowFacts DEF IInv
    <3>2. modules'[r] = modules[r] /\ Below(r)' = Below(r)
      BY <1>2, <1>4, <2>1, <3>1 DEF Listed
    <3> QED BY <3>2 DEF RInv, Starts, StartsOf
  <2>3. Kind[modules'[stack'[1].module].image] # "none"
    <3>1. stack'[1].module = stack[1].module /\ stack[1].module \in DOMAIN modules
      BY <1>1, <1>5, <1>10
    <3>2. CASE last = 1
      BY <1>1, <1>3, <3>1, <3>2
    <3>3. CASE last # 1
      <4>1. stack[1].stage \in {"dependencies", "data"}
        BY <1>1, <3>3 DEF IInv, Activations, Runs, last
      <4> QED BY <1>3, <3>1, <4>1 DEF RInv, Starts
    <3> QED BY <3>2, <3>3
  <2>4. CASE last = 1
    <3>1. stack[1].module = n /\ stack'[1].module = n /\ stack'[1].stage = stage
          /\ modules'[n] = m /\ stack[1].stage # "loaded"
      BY <1>1, <1>2, <1>5, <2>4 DEF n
    <3>2. Undecided(n)
      BY <3>1 DEF RInv, Starts
    <3>3. stage # "loaded" => Undecided(stack[1].module)'
      BY <3>1, <3>2 DEF Undecided, n
    <3>4. stage = "loaded" => Decided(stack[1].module)'
      BY <1>1, <3>1, <3>2 DEF Undecided, Decided, n
    <3> QED BY <2>2, <2>3, <3>1, <3>3, <3>4 DEF Starts
  <2>5. CASE last # 1
    <3>1. stack'[1] = stack[1] /\ stack[1].module # n /\ stack[1].module \in DOMAIN modules
      BY <1>1, <1>5, <1>6, <1>10, <2>5
    <3>2. modules'[stack[1].module] = modules[stack[1].module]
      BY <1>2, <3>1
    <3>3. stack[1].stage # "loaded" /\ Undecided(stack[1].module)
      <4>1. stack[1].stage \in {"dependencies", "data"}
        BY <1>1, <2>5 DEF IInv, Activations, Runs, last
      <4> QED BY <4>1 DEF RInv, Starts
    <3>4. Undecided(stack[1].module)'
      BY <3>1, <3>2, <3>3 DEF Undecided
    <3> QED BY <2>2, <2>3, <3>1, <3>3, <3>4 DEF Starts
  <2> QED BY <1>5, <2>4, <2>5
<1>16. RInv'
  BY <1>4, <1>11, <1>12, <1>14, <1>15 DEF RInv
<1>17. LinkedExecutables' = LinkedExecutables /\ LinkedLibraries' = LinkedLibraries
  <2>1. \A r \in Listed : \A x \in Below(r) : modules'[x] = modules[x]
    BY <1>1, <1>2, <1>6, ListedFacts DEF OnStack
  <2>2. Len(modules) <= Len(modules')
    BY <1>1, <1>2
  <2> QED BY <2>1, <2>2, ListsStay
<1>18. Request' = Request
  <2>1. /\ stack'[1].module = stack[1].module /\ stack[1].module \in DOMAIN modules
    BY <1>1, <1>5, <1>10
  <2> QED BY <1>3, <1>5, <2>1 DEF Request
<1> QED BY <1>16, <1>17, <1>18 DEF Abstract!vars, host

\* What the invariant says of the module that is being loaded.
LEMMA TopKnown ==
  ASSUME RInv, stack # <<>>
  PROVE  /\ Len(modules[Top.module].imported) =
              IF Top.stage \in {"header", "modules"} THEN 0
              ELSE IF Top.stage = "dependencies" THEN Top.next - 1
              ELSE Len(Depends[Image])
         /\ Top.stage # "header" => Kind[Image] # "none"
         /\ Top.module \in Current
<1>1. /\ Len(stack) \in Nat \ {0} /\ DOMAIN stack = 1..Len(stack)
      /\ Top = stack[Len(stack)] /\ Len(stack) \in DOMAIN stack /\ 1 \in DOMAIN stack
      /\ Top.module \in DOMAIN modules /\ Image = modules[Top.module].image /\ IInv
  BY TopFacts, StackFacts DEF RInv, Image
<1>2. Len(modules[Top.module].imported) = Constructed(Len(stack))
  BY <1>1 DEF RInv, Dependencies
<1>3. Top.stage # "header" => Kind[Image] # "none"
  <2>1. CASE Len(stack) = 1
    BY <1>1, <2>1 DEF RInv, Starts
  <2>2. CASE Len(stack) # 1
    <3>1. PICK j : j = Len(stack) - 1
      OBVIOUS
    <3>2. j \in DOMAIN stack /\ Len(stack) > 1 /\ j = Len(stack) - 1
      BY <1>1, <2>2, <3>1
    <3>3. Top.module \in Imports(stack[j].module) /\ stack[j].module \in Alive
      BY <1>1, <3>2, StackFacts DEF IInv, Activations, Runs
    <3>4. PICK k \in DOMAIN modules[stack[j].module].imported :
            Top.module = modules[stack[j].module].imported[k]
      BY <3>3 DEF Imports, Range
    <3> QED BY <1>1, <3>3, <3>4 DEF RInv, Dependencies
  <2> QED BY <2>1, <2>2
<1>4. Top.module \in Current
  <2>1. stack[1].module \in Nat /\ Top.module \in Nat
    BY <1>1, StackFacts
  <2>2. 1 < Len(stack) => stack[1].module < Top.module
    BY <1>1, StackFacts
  <2>3. Top.module >= stack[1].module
    BY <1>1, <2>1, <2>2
  <2> QED BY <1>1, <2>3 DEF Current
<1> QED BY <1>1, <1>2, <1>3, <1>4 DEF Constructed

\* process_header and what follows up to the imported modules
LEMMA ProcessHeaderRefines ==
  ASSUME RInv, IInv', ProcessHeader, ~Refuse
  PROVE  RInv' /\ UNCHANGED Abstract!vars
<1> DEFINE n == Top.module
           table == [s \in Slots(Image) |-> Null]
           m == [modules[n] EXCEPT !.lot = table]
           stage == IF Depends[Image] = <<>> THEN "data" ELSE "modules"
<1>1. stack # <<>> /\ Top.stage = "header" /\ Kind[Image] # "none" /\ IInv
  BY DEF ProcessHeader, At, RInv
<1>2. n \in Alive /\ modules[n] \in Module /\ Image \in Images /\ Image = modules[n].image
  BY <1>1, TopModule
<1>3. table \in Lots
  <2>1. table \in [Slots(Image) -> {Null, Environment} \cup Below(n)]
    OBVIOUS
  <2> HIDE DEF table
  <2> QED BY <1>1, <1>2, <2>1, LotsHold
<1>4. /\ m \in Module /\ m.image = Image /\ m.imported = modules[n].imported
      /\ m.class = modules[n].class /\ m.has_entry = modules[n].has_entry
      /\ m.main = modules[n].main
  <2> HIDE DEF table
  <2> QED BY <1>2, <1>3 DEF Module
<1>5. /\ modules' = [modules EXCEPT ![n] = m] /\ Goto(stage)
      /\ UNCHANGED <<host, executables, libraries, result>>
  BY DEF ProcessHeader
<1>6. stage \in Stages \ {"header"} /\ stage \in {"data", "modules"}
  BY DEF Stages
<1>7. Len(m.imported) = 0 /\ (stage = "data" => Len(Depends[Image]) = 0)
  <2>1. Len(modules[n].imported) = 0
    BY <1>1, TopKnown
  <2>2. Len(<<>>) = 0
    OBVIOUS
  <2> QED BY <1>4, <2>1, <2>2
<1> HIDE DEF m, stage, table
<1> QED BY <1>1, <1>4, <1>5, <1>6, <1>7, ProcessingRefines DEF n

\* allocate_modules
LEMMA AllocateModulesRefines ==
  ASSUME RInv, IInv', AllocateModules
  PROVE  RInv' /\ UNCHANGED Abstract!vars
<1> DEFINE n == Top.module
           m == modules[n]
<1>1. stack # <<>> /\ Top.stage = "modules" /\ IInv /\ modules \in Seq(Module)
  BY DEF AllocateModules, At, RInv, IInv, Typed
<1>2. n \in DOMAIN modules /\ m \in Module /\ Image = m.image /\ Top.next = 1
  BY <1>1, TopModule
<1>3. modules' = [modules EXCEPT ![n] = m]
  BY <1>1, <1>2 DEF AllocateModules
<1>4. Goto("dependencies") /\ UNCHANGED <<host, executables, libraries, result>>
  BY DEF AllocateModules
<1>5. Kind[Image] # "none" /\ Len(m.imported) = 0
  BY <1>1, TopKnown
<1>6. "dependencies" \in Stages \ {"header"} /\ 0 = Top.next - 1
  BY <1>2 DEF Stages
<1> HIDE DEF m, n
<1> QED BY <1>1, <1>2, <1>3, <1>4, <1>5, <1>6, ProcessingRefines DEF m, n

\* process_data and set_exported_symbol_table
LEMMA ProcessDataRefines ==
  ASSUME RInv, IInv', ProcessData
  PROVE  RInv' /\ UNCHANGED Abstract!vars
<1> DEFINE n == Top.module
           m == export(modules[n])
<1>1. stack # <<>> /\ Top.stage = "data" /\ IInv
  BY DEF ProcessData, At, RInv
<1>2. n \in Alive /\ modules[n] \in Module /\ Image = modules[n].image
  BY <1>1, TopModule
<1>3. /\ m \in Module /\ m.image = Image /\ m.imported = modules[n].imported
      /\ m.class = modules[n].class /\ m.has_entry = modules[n].has_entry
      /\ m.main = modules[n].main
  BY <1>2 DEF Module, export
<1>4. modules' = [modules EXCEPT ![n] = m] /\ Goto("symbols")
      /\ UNCHANGED <<host, executables, libraries, result>>
  BY DEF ProcessData
<1>5. Kind[Image] # "none" /\ Len(m.imported) = Len(Depends[Image])
  BY <1>1, <1>3, TopKnown
<1>6. "symbols" \in Stages \ {"header"}
  BY DEF Stages
<1> HIDE DEF m
<1> QED BY <1>1, <1>3, <1>4, <1>5, <1>6, ProcessingRefines

\* process_symbol_table_relocations
LEMMA ProcessSymbolsRefines ==
  ASSUME RInv, IInv', ProcessSymbols, ~Refuse
  PROVE  RInv' /\ UNCHANGED Abstract!vars
<1> DEFINE n == Top.module
           table == [s \in Slots(Image) |->
                       IF s \in Wants[Image] THEN find_symbol(n, s) ELSE modules[n].lot[s]]
           m == [modules[n] EXCEPT !.lot = table]
<1>1. stack # <<>> /\ Top.stage = "symbols" /\ IInv
  BY DEF ProcessSymbols, At, RInv
<1>2. /\ n \in Alive /\ n \in DOMAIN modules /\ modules[n] \in Module
      /\ Image = modules[n].image
      /\ modules[n].lot \in [Slots(Image) -> {Null, Environment} \cup Below(n)]
  BY <1>1, TopModule
<1>3. table \in Lots
  <2>1. \A s \in Slots(Image) : find_symbol(n, s) \in {Null, Environment} \cup Below(n)
    BY <1>1, <1>2, FoundIsBelow
  <2>2. table \in [Slots(Image) -> {Null, Environment} \cup Below(n)]
    BY <1>2, <2>1
  <2> HIDE DEF table
  <2> QED BY <1>1, <1>2, <2>2, LotsHold
<1>4. /\ m \in Module /\ m.image = Image /\ m.imported = modules[n].imported
      /\ m.class = modules[n].class /\ m.has_entry = modules[n].has_entry
      /\ m.main = modules[n].main /\ m.lot = table
  <2> HIDE DEF table
  <2> QED BY <1>2, <1>3 DEF Module
<1>5. /\ modules' = [modules EXCEPT ![n] = m] /\ Goto("relocations")
      /\ UNCHANGED <<host, executables, libraries, result>>
      /\ \A s \in Wants[Image] : find_symbol(n, s) # Null
  BY DEF ProcessSymbols
<1>6. Kind[Image] # "none" /\ Len(m.imported) = Len(Depends[Image])
  BY <1>1, <1>4, TopKnown
<1>7. "relocations" \in Stages \ {"header"}
  BY DEF Stages
<1>8. /\ DOMAIN m.lot = Slots(Image)
      /\ \A s \in Wants[Image] : m.lot[s] = find_symbol(n, s) /\ find_symbol(n, s) # Null
  BY <1>4, <1>5 DEF Slots
<1> HIDE DEF m, table
<1> QED BY <1>1, <1>4, <1>5, <1>6, <1>7, <1>8, ProcessingRefines

\* process_local_relocations, process_data_relocations and set_entry
LEMMA ProcessRelocationsRefines ==
  ASSUME RInv, IInv', ProcessRelocations
  PROVE  RInv' /\ UNCHANGED Abstract!vars
<1> DEFINE n == Top.module
           table == [s \in Slots(Image) |-> IF s \in Locals[Image] THEN n ELSE modules[n].lot[s]]
           flag == modules[n].has_entry \/ takes_entry(Image)
           main == IF takes_entry(Image) THEN Entry ELSE modules[n].main
           m == [modules[n] EXCEPT !.lot = table, !.data = "relocated",
                                   !.has_entry = flag, !.main = main]
<1>1. stack # <<>> /\ Top.stage = "relocations" /\ IInv
  BY DEF ProcessRelocations, At, RInv
<1>2. /\ n \in Alive /\ n \in DOMAIN modules /\ modules[n] \in Module
      /\ Image \in Images /\ Image = modules[n].image /\ n \in Below(n)
      /\ modules[n].lot \in [Slots(Image) -> {Null, Environment} \cup Below(n)]
  BY <1>1, TopModule
<1>3. table \in Lots
  <2>1. table \in [Slots(Image) -> {Null, Environment} \cup Below(n)]
    BY <1>2
  <2> HIDE DEF table
  <2> QED BY <1>1, <1>2, <2>1, LotsHold
<1>4. flag \in BOOLEAN /\ main \in Int
  <2>1. modules[n].has_entry \in BOOLEAN /\ modules[n].main \in Int
    BY <1>2 DEF Module
  <2>2. flag \in BOOLEAN
    BY <2>1 DEF takes_entry
  <2> QED BY <2>1, <2>2 DEF Entry
<1>5. /\ m \in Module /\ m.image = Image /\ m.imported = modules[n].imported
      /\ m.class = modules[n].class /\ m.has_entry = flag
      /\ m.main = main /\ m.lot = table
  <2> HIDE DEF table, flag, main
  <2> QED BY <1>2, <1>3, <1>4 DEF Module
<1>6. modules' = [modules EXCEPT ![n] = m] /\ Goto("loaded")
      /\ UNCHANGED <<host, executables, libraries, result>>
  BY DEF ProcessRelocations
<1>7. Kind[Image] # "none" /\ Len(m.imported) = Len(Depends[Image]) /\ n \in Current
  BY <1>1, <1>5, TopKnown
<1>8. \A s \in Wants[Image] :
        modules[n].lot[s] = find_symbol(n, s) /\ find_symbol(n, s) # Null
  <2>1. Reached(n, {"relocations", "loaded"})
    <3>1. \A k \in DOMAIN stack : stack[k].module = n => stack[k] = Top
      BY <1>1, TopFacts, StackFacts
    <3> QED BY <1>1, <3>1 DEF Reached
  <2> QED BY <1>2, <1>7, <2>1 DEF RInv, Bound
<1>9. /\ DOMAIN m.lot = Slots(Image)
      /\ \A s \in Wants[Image] : m.lot[s] = find_symbol(n, s) /\ find_symbol(n, s) # Null
      /\ \A s \in Locals[Image] : m.lot[s] = n
  <2>1. Wants[Image] \cap Locals[Image] = {}
    BY <1>2, ImageAssumption
  <2> QED BY <1>5, <1>8, <2>1 DEF Slots
<1>10. "loaded" \in Stages \ {"header"}
  BY DEF Stages
<1> HIDE DEF m, table
<1> QED BY <1>1, <1>5, <1>6, <1>7, <1>9, <1>10, ProcessingRefines

-----------------------------------------------------------------------------
(***************************************************************************)
(* A dependency is constructed.                                            *)
(***************************************************************************)

\* A dependency that is constructed is last in the trees of all that are being loaded, and
\* in no other.
LEMMA TreesExtend ==
  ASSUME RInv, IInv', stack # <<>>, NEW child, child = Len(modules) + 1, Len(modules') = child,
         modules'[child].imported = <<>>,
         modules'[Top.module].imported = Append(modules[Top.module].imported, child),
         \A x \in DOMAIN modules : x # Top.module => modules'[x].imported = modules[x].imported
  PROVE  /\ Tree'[child] = <<child>>
         /\ \A x \in DOMAIN modules :
              Tree'[x] = IF OnStack(x) THEN Append(Tree[x], child) ELSE Tree[x]
<1> DEFINE n == Top.module
           grown == [x \in 1..child |-> IF x = child THEN <<child>>
                                        ELSE IF OnStack(x) THEN Append(Tree[x], child)
                                        ELSE Tree[x]]
           Parts(x) == [k \in 1..Len(modules[x].imported) |-> Tree[modules[x].imported[k]]]
<1>1. /\ IInv /\ DOMAIN modules = 1..Len(modules) /\ Len(modules) \in Nat /\ child \in Nat
      /\ Len(stack) \in Nat \ {0} /\ DOMAIN stack = 1..Len(stack)
      /\ n = stack[Len(stack)].module /\ n \in DOMAIN modules /\ n \in Nat
      /\ modules' \in Seq(Module) /\ InOrder' /\ DOMAIN modules' = 1..child
  BY TopFacts DEF RInv, IInv, Typed
<1>2. /\ \A x \in 1..Len(modules) : x \in 1..child /\ x # child /\ x \in DOMAIN modules
      /\ child \in 1..child
      /\ \A x \in 1..child : x = child \/ x \in 1..Len(modules)
  BY <1>1
<1>3. ASSUME NEW x \in DOMAIN modules
      PROVE  /\ modules[x].imported \in Seq(Nat) /\ Len(modules[x].imported) \in Nat
             /\ DOMAIN modules[x].imported = 1..Len(modules[x].imported)
             /\ \A k \in 1..Len(modules[x].imported) :
                  /\ modules[x].imported[k] \in x + 1..Len(modules)
                  /\ modules[x].imported[k] \in DOMAIN modules
                  /\ modules[x].imported[k] \in Imports(x)
                  /\ Tree[modules[x].imported[k]] \in Seq(Nat)
             /\ x \in Nat
  <2>1. modules[x].imported \in Seq(Nat) /\ modules[x].imported \in Seq(x + 1..Len(modules))
        /\ x \in Nat
    <3>1. modules[x] \in Module
      BY <1>1 DEF IInv, Typed
    <3> QED BY <1>1, <3>1 DEF Module, IInv, InOrder
  <2>2. /\ Len(modules[x].imported) \in Nat
        /\ DOMAIN modules[x].imported = 1..Len(modules[x].imported)
    BY <2>1
  <2>3. ASSUME NEW k \in 1..Len(modules[x].imported)
        PROVE  /\ modules[x].imported[k] \in x + 1..Len(modules)
               /\ modules[x].imported[k] \in DOMAIN modules
               /\ modules[x].imported[k] \in Imports(x)
    <3>1. modules[x].imported[k] \in x + 1..Len(modules)
      BY <2>1, <2>2, ElementOfSeq
    <3> QED BY <1>1, <2>1, <2>2, <3>1 DEF Imports, Range
  <2> QED BY <2>1, <2>2, <2>3, TreeFacts
<1>4. ASSUME NEW x \in DOMAIN modules
      PROVE  /\ Tree[x] = <<x>> \o FlattenSeq(Parts(x))
             /\ Parts(x) \in Seq(Seq(Nat)) /\ Len(Parts(x)) = Len(modules[x].imported)
             /\ \A k \in 1..Len(modules[x].imported) :
                  Parts(x)[k] = Tree[modules[x].imported[k]]
  <2>1. TreeOf(modules) = [m \in 1..Len(modules) |-> Node(modules, TreeOf(modules), m)]
    BY <1>1, OrderedModules, TreeEquation DEF IInv, Typed
  <2>2. Tree[x] = Node(modules, Tree, x)
    BY <1>1, <2>1, TreeIs
  <2>3. Parts(x) \in [1..Len(modules[x].imported) -> Seq(Nat)]
    BY <1>3
  <2>4. \A k \in 1..Len(modules[x].imported) : Parts(x)[k] = Tree[modules[x].imported[k]]
    OBVIOUS
  <2>5. Tree[x] = <<x>> \o FlattenSeq(Parts(x))
    BY <1>3, <2>2 DEF Node
  <2> HIDE DEF Parts
  <2> QED BY <1>3, <2>3, <2>4, <2>5, FunctionIsSeq
<1>5. \A x \in DOMAIN modules :
        grown[x] = IF OnStack(x) THEN Append(Tree[x], child) ELSE Tree[x]
  BY <1>1, <1>2
<1>6. grown[child] = <<child>>
  BY <1>2
<1> HIDE DEF grown
<1>7. ASSUME NEW x \in DOMAIN modules, ~OnStack(x)
      PROVE  grown[x] = Node(modules', grown, x)
  <2>1. modules'[x].imported = modules[x].imported
    BY <1>1, <1>7 DEF OnStack
  <2>2. \A k \in 1..Len(modules[x].imported) :
          grown[modules[x].imported[k]] = Tree[modules[x].imported[k]]
    BY <1>1, <1>3, <1>5, <1>7, OffStackClosed
  <2>3. Node(modules', grown, x) = <<x>> \o FlattenSeq(Parts(x))
    BY <1>3, <2>1, <2>2 DEF Node
  <2> HIDE DEF Parts
  <2> QED BY <1>4, <1>5, <1>7, <2>3
<1>8. ASSUME NEW x \in DOMAIN modules, OnStack(x),
             FlattenSeq([k \in DOMAIN modules'[x].imported |-> grown[modules'[x].imported[k]]])
               = Append(FlattenSeq(Parts(x)), child)
      PROVE  grown[x] = Node(modules', grown, x)
  <2>1. PICK f \in Seq(Nat) : f = FlattenSeq(Parts(x))
    <3> HIDE DEF Parts
    <3> QED BY <1>4, FlattenIsUnion
  <2>2. Tree[x] = <<x>> \o f /\ grown[x] = Append(Tree[x], child)
    <3> HIDE DEF Parts
    <3> QED BY <1>4, <1>5, <1>8, <2>1
  <2>3. Node(modules', grown, x) = <<x>> \o Append(f, child)
    <3> HIDE DEF Parts
    <3> QED BY <1>8, <2>1 DEF Node
  <2>4. Append(<<x>> \o f, child) = <<x>> \o Append(f, child)
    BY <1>1, <1>3
  <2> QED BY <2>2, <2>3, <2>4
<1>9. grown[n] = Node(modules', grown, n)
  <2> DEFINE imp == modules[n].imported
             more == Append(imp, child)
             parts == [k \in DOMAIN more |-> grown[more[k]]]
             L == Len(imp)
  <2>1. OnStack(n)
    BY <1>1 DEF OnStack
  <2>2. \A c \in DOMAIN modules : c > n => ~OnStack(c)
    <3>1. \A j \in DOMAIN stack : j < Len(stack) \/ j = Len(stack)
      BY <1>1
    <3>2. \A j \in DOMAIN stack : stack[j].module \in Nat /\ stack[j].module <= n
      BY <1>1, <3>1, StackFacts
    <3>3. \A c \in DOMAIN modules : c \in Nat
      BY <1>1
    <3> QED BY <1>1, <3>2, <3>3 DEF OnStack
  <2>3. /\ L \in Nat /\ imp \in Seq(Nat) /\ Len(more) = L + 1 /\ DOMAIN more = 1..L + 1
        /\ \A k \in 1..L : more[k] = imp[k]
        /\ more[L + 1] = child
    BY <1>1, <1>3
  <2>4. \A k \in 1..L : grown[imp[k]] = Parts(n)[k]
    <3>1. ASSUME NEW k \in 1..L PROVE ~OnStack(imp[k]) /\ imp[k] \in DOMAIN modules
      <4>1. imp[k] \in DOMAIN modules /\ imp[k] \in n + 1..Len(modules)
        BY <1>1, <1>3
      <4>2. imp[k] > n
        BY <1>1, <4>1
      <4> QED BY <2>2, <4>1, <4>2
    <3> QED BY <1>5, <3>1
  <2>5. PICK p \in Seq(Seq(Nat)) : p = Parts(n) /\ Len(p) = L
    <3> HIDE DEF Parts
    <3> QED BY <1>1, <1>4
  <2> HIDE DEF L
  <2>6. parts = Append(p, <<child>>)
    <3>1. PICK added : added = Append(p, <<child>>)
      OBVIOUS
    <3>2. /\ added \in Seq(Seq(Nat)) /\ Len(added) = L + 1
          /\ \A k \in 1..L : added[k] = p[k]
          /\ added[L + 1] = <<child>>
      <4>1. p \in Seq(Seq(Nat)) /\ <<child>> \in Seq(Nat)
        BY <1>1, <2>5
      <4>2. /\ Append(p, <<child>>) \in Seq(Seq(Nat))
            /\ Len(Append(p, <<child>>)) = Len(p) + 1
            /\ \A k \in 1..Len(p) : Append(p, <<child>>)[k] = p[k]
            /\ Append(p, <<child>>)[Len(p) + 1] = <<child>>
        BY ONLY <4>1, PushIsAppend
      <4> QED BY <2>5, <3>1, <4>2
    <3>3. /\ DOMAIN added = 1..L + 1
          /\ \A k \in 1..L + 1 : k \in 1..L \/ k = L + 1
      BY <2>3, <3>2
    <3>4. /\ \A k \in 1..L : more[k] = imp[k] /\ grown[imp[k]] = p[k]
          /\ more[L + 1] = child
      <4> HIDE DEF more, imp, Parts
      <4> QED BY <2>3, <2>4, <2>5
    <3> HIDE DEF more
    <3>5. \A k \in 1..L + 1 : added[k] = grown[more[k]]
      BY <1>6, <3>2, <3>3, <3>4
    <3>6. added = [k \in 1..L + 1 |-> grown[more[k]]]
      <4>1. added = [k \in DOMAIN added |-> added[k]]
        BY <3>2
      <4> QED BY <3>3, <3>5, <4>1
    <3> QED BY <2>3, <3>1, <3>6
  <2>7. FlattenSeq(Append(p, <<child>>)) = FlattenSeq(p) \o <<child>>
    <3>1. <<child>> \in Seq(Nat)
      BY <1>1
    <3> QED BY <3>1, FlattenAppend
  <2>8. FlattenSeq(p) \o <<child>> = Append(FlattenSeq(p), child)
    <3>1. PICK f \in Seq(Nat) : f = FlattenSeq(p)
      BY FlattenIsUnion
    <3>2. f \o <<child>> = Append(f, child)
      BY <1>1
    <3> QED BY <3>1, <3>2
  <2>9. FlattenSeq([k \in DOMAIN modules'[n].imported |-> grown[modules'[n].imported[k]]])
          = Append(FlattenSeq(Parts(n)), child)
    <3>1. modules'[n].imported = more
      OBVIOUS
    <3> HIDE DEF more, Parts
    <3> QED BY <2>5, <2>6, <2>7, <2>8, <3>1
  <2> HIDE DEF n, Parts
  <2> QED BY <1>1, <1>8, <2>1, <2>9
<1>10. ASSUME NEW j \in DOMAIN stack, j # Len(stack)
       PROVE  grown[stack[j].module] = Node(modules', grown, stack[j].module)
  <2> DEFINE x == stack[j].module
             imp == modules[x].imported
             L == Len(imp)
             parts == [k \in 1..L |-> grown[imp[k]]]
  <2>1. /\ x \in DOMAIN modules /\ x # n /\ x \in Nat /\ OnStack(x)
        /\ j < Len(stack) /\ j + 1 \in DOMAIN stack /\ j \in Nat
    BY <1>1, <1>10, StackFacts DEF OnStack
  <2>2. modules'[x].imported = imp
    BY <2>1
  <2>3. imp # <<>> /\ Last(imp) = stack[j + 1].module
    BY <2>1 DEF RInv, Unfinished
  <2>4. L \in Nat \ {0} /\ imp \in Seq(Nat) /\ imp[L] = stack[j + 1].module
    <3>1. imp \in Seq(Nat)
      BY <1>3, <2>1
    <3> HIDE DEF imp
    <3> QED BY <2>3, <3>1, PopIsFront
  <2>5. ASSUME NEW k \in 1..L - 1 PROVE ~OnStack(imp[k])
    <3>1. SUFFICES ASSUME NEW i \in DOMAIN stack, stack[i].module = imp[k] PROVE FALSE
      BY DEF OnStack
    <3>2. /\ imp[k] > x /\ imp[k] \in Nat /\ k \in 1..L /\ L \in 1..L /\ k < L
      <4>1. k \in 1..L /\ L \in 1..L /\ k < L
        BY <2>4
      <4>2. imp[k] \in x + 1..Len(modules)
        BY <1>3, <2>1, <4>1
      <4> QED BY <1>1, <2>1, <4>1, <4>2
    <3>3. imp[k] < imp[L]
      BY <1>3, <2>1, <3>2 DEF RInv, Consecutive
    <3>4. /\ ~(i < j) /\ i # j
      <4>1. i < j => stack[i].module < x
          BY <1>1, StackFacts
      <4>2. i = j => stack[i].module = x
        OBVIOUS
      <4> HIDE DEF x, imp
      <4> QED BY <2>1, <3>1, <3>2, <4>1, <4>2
    <3>5. /\ ~(i > j + 1) /\ i # j + 1
      <4>1. j + 1 < i => stack[j + 1].module < stack[i].module
        BY <1>1, <2>1, StackFacts
      <4>2. stack[j + 1].module \in Nat
        BY <1>1, <2>1, StackFacts
      <4> HIDE DEF x, imp
      <4> QED BY <1>1, <2>1, <2>4, <3>1, <3>2, <3>3, <4>1, <4>2
    <3>6. i \in Nat /\ j \in Nat
      BY <1>1, <2>1
    <3> QED BY <3>4, <3>5, <3>6
  <2>6. PICK p \in Seq(Seq(Nat)) : p = Parts(x) /\ Len(p) = L
    <3> HIDE DEF Parts
    <3> QED BY <2>1, <1>4
  <2>7. /\ \A k \in 1..L : p[k] = Tree[imp[k]] /\ imp[k] \in DOMAIN modules
    BY <1>3, <2>1, <2>6
  <2>8. \A k \in 1..L - 1 : grown[imp[k]] = p[k]
    <3>1. \A k \in 1..L - 1 : k \in 1..L
      BY <2>4
    <3> HIDE DEF imp, L
    <3> QED BY <1>5, <2>5, <2>7, <3>1
  <2>9. grown[imp[L]] = Append(p[L], child)
    <3>1. OnStack(imp[L]) /\ L \in 1..L
      BY <2>1, <2>4 DEF OnStack
    <3> HIDE DEF imp, L
    <3> QED BY <1>5, <2>7, <3>1
  <2>10. parts \in Seq(Seq(Nat)) /\ Len(parts) = L /\ \A k \in 1..L : parts[k] = grown[imp[k]]
    <3>1. \A k \in 1..L : grown[imp[k]] \in Seq(Nat)
      <4>1. \A k \in 1..L : k \in 1..L - 1 \/ k = L
        BY <2>4
      <4>2. \A k \in 1..L : p[k] \in Seq(Nat)
        BY <2>6
      <4>3. Append(p[L], child) \in Seq(Nat)
        <5>1. L \in 1..L
          BY <2>4
        <5> QED BY <1>1, <4>2, <5>1
      <4> HIDE DEF imp, L
      <4> QED BY <2>8, <2>9, <4>1, <4>2, <4>3
    <3>2. parts \in [1..L -> Seq(Nat)]
      BY <3>1
    <3>3. \A k \in 1..L : parts[k] = grown[imp[k]]
      OBVIOUS
    <3> HIDE DEF parts, imp, L
    <3> QED BY <2>4, <3>2, <3>3, FunctionIsSeq
  <2>11. FlattenSeq(parts) = Append(FlattenSeq(p), child)
    <3>1. /\ p # <<>> /\ Len(parts) = Len(p) /\ \A k \in 1..Len(p) - 1 : parts[k] = p[k]
          /\ parts[Len(p)] = Append(p[Len(p)], child)
      <4>1. L \in 1..L /\ \A k \in 1..L - 1 : k \in 1..L
        BY <2>4
      <4>2. p # <<>>
        <5>1. Len(<<>>) = 0
          OBVIOUS
        <5> HIDE DEF L
        <5> QED BY <2>4, <2>6, <5>1
      <4> HIDE DEF parts, imp, L
      <4> QED BY <2>6, <2>8, <2>9, <2>10, <4>1, <4>2
    <3> HIDE DEF parts
    <3> QED BY <1>1, <2>10, <3>1, FlattenExtend
  <2>12. FlattenSeq([k \in DOMAIN modules'[x].imported |-> grown[modules'[x].imported[k]]])
          = Append(FlattenSeq(Parts(x)), child)
    <3>1. DOMAIN imp = 1..L
      BY <1>3, <2>1
    <3>2. [k \in DOMAIN modules'[x].imported |-> grown[modules'[x].imported[k]]] = parts
      BY <2>2, <3>1
    <3> HIDE DEF parts, Parts
    <3> QED BY <2>6, <2>11, <3>2
  <2> HIDE DEF x, Parts
  <2> QED BY <1>8, <2>1, <2>12 DEF x
<1>11. \A x \in 1..child : grown[x] = Node(modules', grown, x)
  <2>1. ASSUME NEW x \in DOMAIN modules, OnStack(x) PROVE grown[x] = Node(modules', grown, x)
    <3>1. PICK j \in DOMAIN stack : stack[j].module = x
      BY <2>1 DEF OnStack
    <3> HIDE DEF n
    <3> QED BY <1>1, <1>9, <1>10, <3>1
  <2>2. grown[child] = Node(modules', grown, child)
    <3>1. [k \in DOMAIN <<>> |-> grown[<<>>[k]]] = <<>>
      OBVIOUS
    <3>2. FlattenSeq(<<>>) = <<>>
      BY DEF FlattenSeq
    <3>3. <<child>> \o <<>> = <<child>>
      OBVIOUS
    <3> QED BY <1>6, <3>1, <3>2, <3>3 DEF Node
  <2> QED BY <1>1, <1>2, <1>7, <2>1, <2>2
<1>12. \A x \in 1..child : grown[x] = TreeOf(modules')[x]
  <2>1. Ordered(modules', child)
    BY <1>1, NextOrderedModules
  <2>2. Closed(modules', 1..child)
    <3>1. SUFFICES ASSUME NEW x \in 1..child, NEW k \in DOMAIN modules'[x].imported
                   PROVE  modules'[x].imported[k] \in 1..child
      BY DEF Closed
    <3>2. modules'[x].imported[k] \in x + 1..child
      BY <2>1, ImportedLater
    <3> QED BY <1>1, <3>2
  <2>3. 1..child \in SUBSET (1..child)
    OBVIOUS
  <2> QED BY <1>11, <2>1, <2>2, <2>3, TreesAreUnique
<1>13. \A x \in 1..child : Tree'[x] = grown[x]
  BY <1>12, NextTreeIs
<1> QED BY <1>1, <1>2, <1>5, <1>6, <1>13

\* One turn of the loop over the imported libraries, up to the recursive call.
LEMMA LoadDependencyRefines ==
  ASSUME RInv, IInv', LoadDependency, ~Refuse
  PROVE  RInv' /\ UNCHANGED Abstract!vars
<1>1. PICK child, n, d, L, i :
        /\ child = Len(modules) + 1 /\ n = Top.module /\ d = Dependency
        /\ L = Len(stack) /\ i = Image
  OBVIOUS
<1> DEFINE old == modules[n].imported
           new == Append(old, child)
           owner == [modules[n] EXCEPT !.imported = new]
           base == [modules EXCEPT ![n] = owner]
           M == New(Kind[d], d)
           stage == IF Top.next = Len(Depends[i]) THEN "data" ELSE "dependencies"
<1>2. /\ stack # <<>> /\ Top.stage = "dependencies" /\ IsModule(d)
      /\ modules' = Append(base, M)
      /\ stack' = Append([stack EXCEPT ![Len(stack)].next = @ + 1,
                                       ![Len(stack)].stage = stage],
                         Call(child))
      /\ executables' = executables /\ libraries' = libraries
      /\ environment' = environment /\ resolver' = resolver /\ result' = result
  BY <1>1 DEF LoadDependency, At, host
<1>3. /\ modules \in Seq(Module) /\ DOMAIN modules = 1..Len(modules)
      /\ Len(modules) \in Nat /\ child \in Nat /\ stack \in Seq(Activation)
      /\ modules' \in Seq(Module) /\ InOrder' /\ IInv /\ child = Len(modules) + 1
  BY <1>1 DEF RInv, IInv, Typed
<1>4. /\ L \in Nat \ {0} /\ DOMAIN stack = 1..L /\ L \in DOMAIN stack /\ 1 \in DOMAIN stack
      /\ Top = stack[L] /\ stack[L].module = n /\ L = Len(stack)
      /\ n \in Alive /\ n \in DOMAIN modules /\ modules[n] \in Module /\ n \in Nat
      /\ i \in Images /\ i = modules[n].image
  BY <1>1, <1>2, <1>3, TopFacts DEF Image
<1>5. /\ stack[L].next \in DOMAIN Depends[i] /\ stack[L].next \in Nat \ {0}
      /\ Len(Depends[i]) \in Nat /\ DOMAIN Depends[i] = 1..Len(Depends[i])
      /\ stage \in {"dependencies", "data"} /\ stage \in Stages
      /\ stage = "data" => stack[L].next = Len(Depends[i])
      /\ d = Depends[i][stack[L].next] /\ d \in Images
      /\ resolver /\ Kind[d] \in {"executable", "library"}
  <2>1. stack[L].next \in DOMAIN Depends[i]
    BY <1>2, <1>3, <1>4 DEF IInv, Activations, Runs
  <2>2. Depends[i] \in Seq(Images \cup {NoImage})
    BY <1>4, ImageAssumption
  <2>3. d = Depends[i][stack[L].next] /\ Kind[d] \in {"executable", "library"} /\ resolver
    BY <1>1, <1>2, <1>4 DEF Dependency, IsModule
  <2>4. d \in Images \cup {NoImage}
    BY <2>1, <2>2, <2>3, ElementOfSeq
  <2>5. d \in Images
    BY <2>3, <2>4, ImageAssumption
  <2> QED BY <1>4, <2>1, <2>2, <2>3, <2>5 DEF Stages
<1>6. /\ M \in Module /\ M.image = d /\ M.class = Kind[d] /\ M.imported = <<>>
  BY <1>5, NewFacts
<1> HIDE DEF M
<1>7. /\ old \in Seq(Nat) /\ Len(old) = stack[L].next - 1 /\ DOMAIN old = 1..stack[L].next - 1
      /\ new \in Seq(Nat) /\ DOMAIN new = 1..stack[L].next /\ Len(new) = stack[L].next
      /\ \A k \in 1..stack[L].next - 1 : new[k] = old[k]
      /\ new[stack[L].next] = child /\ new # <<>> /\ Last(new) = child
      /\ \A k \in DOMAIN old : old[k] \in DOMAIN modules
  <2>1. old \in Seq(Nat) /\ \A k \in DOMAIN old : old[k] \in DOMAIN modules
    BY <1>3, <1>4, AliveFacts
  <2>2. Len(old) = stack[L].next - 1
    BY <1>1, <1>2, <1>4, TopKnown
  <2> HIDE DEF old
  <2>3. /\ new \in Seq(Nat) /\ Len(new) = Len(old) + 1
        /\ \A k \in 1..Len(old) : new[k] = old[k]
        /\ new[Len(old) + 1] = child
    BY ONLY <1>3, <2>1, PushIsAppend
  <2> HIDE DEF new
  <2>4. Len(old) + 1 = stack[L].next
    BY <1>5, <2>2
  <2>5. DOMAIN old = 1..Len(old) /\ DOMAIN new = 1..Len(new) /\ new # <<>>
    BY <1>5, <2>1, <2>3, <2>4
  <2>6. Last(new) = child
    BY <2>3, <2>5, PopIsFront
  <2> QED BY <2>1, <2>2, <2>3, <2>4, <2>5, <2>6
<1>8. /\ owner \in Module /\ owner.imported = new
      /\ owner.image = modules[n].image /\ owner.class = modules[n].class
      /\ owner.lot = modules[n].lot
      /\ owner.has_entry = modules[n].has_entry /\ owner.main = modules[n].main
  <2> HIDE DEF new
  <2> QED BY <1>4, <1>7 DEF Module
<1> HIDE DEF owner
<1>9. /\ base \in Seq(Module) /\ Len(base) = Len(modules)
      /\ \A x \in DOMAIN modules : base[x] = IF x = n THEN owner ELSE modules[x]
  BY <1>3, <1>4, <1>8
<1> HIDE DEF base
<1>10. /\ Len(modules') = child /\ DOMAIN modules' = 1..child
       /\ \A x \in DOMAIN modules : modules'[x] = IF x = n THEN owner ELSE modules[x]
       /\ modules'[child] = M /\ child \notin DOMAIN modules
       /\ \A x \in DOMAIN modules' : x \in DOMAIN modules \/ x = child
       /\ \A x \in DOMAIN modules : x \in DOMAIN modules'
  <2>1. /\ modules' \in Seq(Module) /\ Len(modules') = Len(base) + 1
        /\ \A x \in 1..Len(base) : modules'[x] = base[x]
        /\ modules'[Len(base) + 1] = M
    BY <1>2, <1>6, <1>9, PushIsAppend
  <2> QED BY <1>3, <1>9, <2>1
<1> HIDE DEF old, new
<1>11. \A x \in DOMAIN modules :
         /\ modules'[x].image = modules[x].image /\ modules'[x].class = modules[x].class
         /\ modules'[x].lot = modules[x].lot /\ modules'[x].main = modules[x].main
         /\ modules'[x].has_entry = modules[x].has_entry
         /\ modules'[x].imported = IF x = n THEN new ELSE modules[x].imported
  BY <1>8, <1>10
<1>12. /\ Tree'[child] = <<child>>
       /\ \A x \in DOMAIN modules :
            Tree'[x] = IF OnStack(x) THEN Append(Tree[x], child) ELSE Tree[x]
  <2>1. modules'[Top.module].imported = Append(modules[Top.module].imported, child)
    BY <1>1, <1>4, <1>11 DEF old, new
  <2> QED BY <1>1, <1>2, <1>3, <1>6, <1>10, <1>11, <2>1, TreesExtend
<1>13. /\ stack' # <<>> /\ Len(stack') = L + 1 /\ DOMAIN stack' = 1..L + 1
       /\ \A k \in 1..L : stack'[k].module = stack[k].module
       /\ \A k \in 1..L - 1 : stack'[k] = stack[k]
       /\ stack'[L].stage = stage /\ stack'[L].next = stack[L].next + 1
       /\ stack'[L + 1].module = child /\ stack'[L + 1].stage = "header"
  <2> HIDE DEF stage
  <2>1. /\ stack' \in Seq(Activation) /\ stack' # <<>> /\ Len(stack') = Len(stack) + 1
        /\ \A k \in 1..Len(stack) : stack'[k].module = stack[k].module
        /\ \A k \in 1..Len(stack) - 1 : stack'[k] = stack[k]
        /\ stack'[Len(stack)].stage = stage
        /\ stack'[Len(stack)].next = stack[Len(stack)].next + 1
        /\ stack'[Len(stack) + 1].module = child
        /\ stack'[Len(stack) + 1].stage = "header"
    BY <1>2, <1>3, <1>5, CallFacts
  <2> QED BY <1>4, <2>1
<1> HIDE DEF stage
<1>14. /\ \A k \in DOMAIN stack : stack[k].module \in DOMAIN modules /\ stack[k].module \in Alive
       /\ \A k \in DOMAIN stack : stack[k].module = n <=> k = L
       /\ \A k \in DOMAIN stack : k \in 1..L - 1 \/ k = L
       /\ \A k \in DOMAIN stack' : k \in 1..L - 1 \/ k = L \/ k = L + 1
       /\ \A k \in 1..L : k \in DOMAIN stack
       /\ \A k \in 1..L - 1 : k \in 1..L /\ k # L /\ k < L /\ k + 1 \in 1..L
       /\ 1 \in 1..L
  <2>1. L \in Nat \ {0}
    BY <1>4
  <2>2. \A k \in DOMAIN stack : stack[k].module \in DOMAIN modules /\ stack[k].module \in Alive
    BY <1>3, StackFacts
  <2>3. \A k \in DOMAIN stack : stack[k].module = n <=> k = L
    BY <1>3, <1>4, StackFacts
  <2>4. \A k \in 1..L : k \in 1..L - 1 \/ k = L
    BY ONLY <2>1
  <2>5. \A k \in 1..L + 1 : k \in 1..L - 1 \/ k = L \/ k = L + 1
    BY ONLY <2>1
  <2>6. \A k \in 1..L - 1 : k \in 1..L /\ k # L /\ k < L /\ k + 1 \in 1..L
    BY ONLY <2>1
  <2> QED BY <1>4, <1>13, <2>2, <2>3, <2>4, <2>5, <2>6
<1>15. /\ \A x \in DOMAIN modules : OnStack(x)' <=> OnStack(x)
       /\ OnStack(child)' /\ OnStack(n)
  <2>1. ASSUME NEW x \in DOMAIN modules PROVE OnStack(x)' <=> OnStack(x)
    <3>1. ASSUME NEW k \in DOMAIN stack', stack'[k].module = x PROVE OnStack(x)
      <4>1. k # L + 1
        BY <1>10, <1>13, <3>1
      <4>2. k \in 1..L
        BY <1>4, <1>14, <4>1
      <4> QED BY <1>13, <1>14, <3>1, <4>2 DEF OnStack
    <3>2. ASSUME NEW k \in DOMAIN stack, stack[k].module = x PROVE OnStack(x)'
      <4>1. k \in DOMAIN stack' /\ stack'[k].module = x
        BY <1>4, <1>13, <3>2
      <4> QED BY <4>1 DEF OnStack
    <3> QED BY <3>1, <3>2 DEF OnStack
  <2>2. OnStack(child)'
    <3>1. L + 1 \in DOMAIN stack'
      BY <1>4, <1>13
    <3> QED BY <1>13, <3>1 DEF OnStack
  <2>3. OnStack(n)
    BY <1>4 DEF OnStack
  <2> QED BY <2>1, <2>2, <2>3
<1>16. Alive' = Alive \cup {child}
  <2>1. child \in DOMAIN modules' /\ modules'[child].image # NoImage
    BY <1>3, <1>5, <1>6, <1>10, ImageAssumption
  <2> QED BY <1>10, <1>11, <2>1 DEF Alive
<1>17. Current' = Current \cup {child} /\ n \in Current
  <2>1. stack'[1].module = stack[1].module /\ stack[1].module \in DOMAIN modules
    BY <1>4, <1>13, <1>14
  <2>2. child >= stack[1].module
    BY <1>3, <2>1
  <2>3. child \in DOMAIN modules'
    BY <1>3, <1>10
  <2>4. n \in Current
    BY <1>1, <1>2, TopKnown
  <2> QED BY <1>2, <1>10, <1>13, <2>1, <2>2, <2>3, <2>4 DEF Current
<1>18. ASSUME NEW x \in DOMAIN modules, ~OnStack(x)
       PROVE  /\ Tree'[x] = Tree[x] /\ Below(x)' = Below(x)
              /\ x # n /\ modules'[x] = modules[x]
  <2>1. x # n
    BY <1>15, <1>18
  <2> QED BY <1>10, <1>12, <1>18, <2>1 DEF Below
<1>19. Consecutive'
  <2>1. ASSUME NEW x \in DOMAIN modules PROVE \A k \in DOMAIN Tree'[x] : Tree'[x][k] = x + k - 1
    <3>1. CASE ~OnStack(x)
      BY <1>18, <3>1 DEF RInv, Consecutive
    <3>2. CASE OnStack(x)
      <4>1. PICK j \in DOMAIN stack : stack[j].module = x
        BY <3>2 DEF OnStack
      <4>2. x + Len(Tree[x]) = child
        BY <1>3, <4>1 DEF RInv, Unfinished
      <4>3. PICK t \in Seq(Nat) : t = Tree[x] /\ \A k \in 1..Len(t) : t[k] = x + k - 1
        BY TreeFacts
      <4>4. /\ Len(Append(t, child)) = Len(t) + 1 /\ Append(t, child) \in Seq(Nat)
            /\ \A k \in 1..Len(t) : Append(t, child)[k] = t[k]
            /\ Append(t, child)[Len(t) + 1] = child
        BY <1>3, PushIsAppend
      <4>5. Tree'[x] = Append(t, child) /\ x \in Nat
        <5>1. Tree'[x] = Append(Tree[x], child)
          BY <1>12, <3>2
        <5> QED BY <1>3, <4>3, <5>1
      <4>6. \A k \in DOMAIN Append(t, child) : k \in 1..Len(t) \/ k = Len(t) + 1
        BY <4>4
      <4>7. Append(t, child)[Len(t) + 1] = x + (Len(t) + 1) - 1
        BY <4>2, <4>3, <4>4, <4>5
      <4> QED BY <4>3, <4>4, <4>5, <4>6, <4>7
    <3> QED BY <3>1, <3>2
  <2>2. \A k \in DOMAIN Tree'[child] : Tree'[child][k] = child + k - 1
    BY <1>3, <1>12
  <2>3. ASSUME NEW x \in DOMAIN modules,
               NEW j \in DOMAIN modules'[x].imported, NEW k \in DOMAIN modules'[x].imported,
               j < k
        PROVE  modules'[x].imported[j] < modules'[x].imported[k]
    <3>1. CASE x # n
      BY <1>11, <2>3, <3>1 DEF RInv, Consecutive
    <3>2. CASE x = n
      <4>1. modules'[x].imported = new /\ j \in 1..stack[L].next /\ k \in 1..stack[L].next
        BY <1>7, <1>11, <2>3, <3>2
      <4>2. j \in DOMAIN old /\ new[j] = old[j]
        BY <1>5, <1>7, <2>3, <4>1
      <4>3. CASE k = stack[L].next
        BY <1>3, <1>7, <4>1, <4>2, <4>3
      <4>4. CASE k # stack[L].next
        <5>1. k \in DOMAIN old /\ new[k] = old[k]
          BY <1>5, <1>7, <4>1, <4>4
        <5> QED BY <1>4, <2>3, <4>1, <4>2, <5>1 DEF RInv, Consecutive, old
      <4> QED BY <4>3, <4>4
    <3> QED BY <3>1, <3>2
  <2>4. \A j, k \in DOMAIN modules'[child].imported :
          j < k => modules'[child].imported[j] < modules'[child].imported[k]
    BY <1>6, <1>10
  <2> QED BY <1>10, <2>1, <2>2, <2>3, <2>4 DEF Consecutive
<1>20. Unfinished'
  <2>1. ASSUME NEW k \in 1..L
        PROVE  stack'[k].module + Len(Tree'[stack'[k].module]) = Len(modules') + 1
    <3>1. k \in DOMAIN stack /\ stack'[k].module = stack[k].module
      BY <1>13, <1>14
    <3>2. PICK x \in DOMAIN modules : x = stack[k].module
      BY <1>14, <3>1
    <3>3. OnStack(x)
      BY <3>1, <3>2 DEF OnStack
    <3>4. x + Len(Tree[x]) = Len(modules) + 1
      BY <3>1, <3>2 DEF RInv, Unfinished
    <3>5. PICK t \in Seq(Nat) : t = Tree[x]
      BY TreeFacts
    <3>6. Len(Append(t, child)) = Len(t) + 1 /\ Len(t) \in Nat /\ x \in Nat
      BY <1>3
    <3>7. Tree'[x] = Append(t, child)
      BY <1>12, <3>3, <3>5
    <3>8. x + Len(Append(t, child)) = Len(modules') + 1
      <4>1. PICK a, b, c : a = x /\ b = Len(t) /\ c = Len(modules)
        OBVIOUS
      <4>2. /\ a \in Nat /\ b \in Nat /\ c \in Nat /\ a + b = c + 1
            /\ Len(Append(t, child)) = b + 1 /\ Len(modules') = c + 1
        BY <1>3, <1>10, <3>4, <3>5, <3>6, <4>1
      <4>3. a + (b + 1) = (c + 1) + 1
        BY ONLY <4>2
      <4> QED BY <4>1, <4>2, <4>3
    <3> QED BY <3>1, <3>2, <3>7, <3>8
  <2>2. stack'[L + 1].module + Len(Tree'[stack'[L + 1].module]) = Len(modules') + 1
    <3>1. Len(<<child>>) = 1
      OBVIOUS
    <3> QED BY <1>3, <1>10, <1>12, <1>13, <3>1
  <2>3. ASSUME NEW k \in 1..L
        PROVE  /\ modules'[stack'[k].module].imported # <<>>
               /\ Last(modules'[stack'[k].module].imported) = stack'[k + 1].module
    <3>1. CASE k = L
      <4>1. modules'[stack'[k].module].imported = new
        BY <1>4, <1>11, <1>13, <1>14, <3>1
      <4> QED BY <1>7, <1>13, <3>1, <4>1
    <3>2. CASE k \in 1..L - 1
      <4>1. /\ stack[k].module \in DOMAIN modules /\ stack[k].module # n
            /\ stack'[k].module = stack[k].module /\ stack'[k + 1].module = stack[k + 1].module
            /\ k \in DOMAIN stack /\ k < L
        BY <1>13, <1>14, <3>2
      <4>2. modules'[stack'[k].module].imported = modules[stack[k].module].imported
        BY <1>11, <4>1
      <4> QED BY <1>4, <4>1, <4>2 DEF RInv, Unfinished
    <3> QED BY <1>14, <3>1, <3>2
  <2>4. \A k \in DOMAIN stack' : /\ k \in 1..L \/ k = L + 1
                                 /\ k < Len(stack') => k \in 1..L
    BY <1>4, <1>13
  <2> QED BY <2>1, <2>2, <2>3, <2>4 DEF Unfinished
<1>21. Dependencies'
  <2>1. ASSUME NEW x \in Alive', ~OnStack(x)'
        PROVE  Len(modules'[x].imported) = Len(Depends[modules'[x].image])
    <3>1. x \in Alive /\ x \in DOMAIN modules /\ ~OnStack(x)
      BY <1>15, <1>16, <2>1 DEF Alive
    <3> QED BY <1>18, <3>1 DEF RInv, Dependencies
  <2>2. ASSUME NEW x \in Alive', NEW k \in DOMAIN modules'[x].imported
        PROVE  /\ modules'[modules'[x].imported[k]].image = Depends[modules'[x].image][k]
               /\ Kind[Depends[modules'[x].image][k]] \in {"executable", "library"}
    <3>1. x # child
      BY <1>6, <1>10, <2>2
    <3>2. x \in Alive /\ x \in DOMAIN modules
      BY <1>16, <3>1 DEF Alive
    <3>3. CASE k \in DOMAIN modules[x].imported /\ modules'[x].imported[k] = modules[x].imported[k]
      <4>1. modules[x].imported[k] \in DOMAIN modules
        BY <1>3, <3>2, <3>3, AliveFacts
      <4> QED BY <1>11, <3>2, <3>3, <4>1 DEF RInv, Dependencies
    <3>4. CASE x = n /\ k = stack[L].next
      BY <1>4, <1>5, <1>6, <1>7, <1>10, <1>11, <3>4
    <3>5. \/ k \in DOMAIN modules[x].imported /\ modules'[x].imported[k] = modules[x].imported[k]
          \/ x = n /\ k = stack[L].next
      <4>1. CASE x # n
        BY <1>11, <2>2, <3>2, <4>1
      <4>2. CASE x = n
        <5>1. modules'[x].imported = new /\ modules[x].imported = old
          BY <1>11, <3>2, <4>2 DEF old
        <5>2. k \in 1..stack[L].next - 1 \/ k = stack[L].next
          BY <1>5, <1>7, <2>2, <5>1
        <5> QED BY <1>7, <4>2, <5>1, <5>2
      <4> QED BY <4>1, <4>2
    <3> QED BY <3>3, <3>4, <3>5
  <2>3. ASSUME NEW k \in DOMAIN stack'
        PROVE  Len(modules'[stack'[k].module].imported) = Constructed(k)'
    <3>1. CASE k \in 1..L - 1
      <4>1. /\ stack'[k] = stack[k] /\ stack[k].module # n /\ stack[k].module \in DOMAIN modules
            /\ k \in DOMAIN stack
        BY <1>13, <1>14, <3>1
      <4>2. Len(modules[stack[k].module].imported) = Constructed(k)
        BY <4>1 DEF RInv, Dependencies
      <4> QED BY <1>11, <4>1, <4>2 DEF Constructed
    <3>2. CASE k = L
      <4>1. stack'[k].module = n /\ modules'[n].imported = new /\ modules'[n].image = i
        BY <1>4, <1>11, <1>13, <1>14, <3>2
      <4>2. Len(new) = (stack[L].next + 1) - 1
        BY <1>5, <1>7
      <4> QED BY <1>5, <1>7, <1>13, <3>2, <4>1, <4>2 DEF Constructed
    <3>3. CASE k = L + 1
      <4>1. Len(modules'[stack'[k].module].imported) = 0
        BY <1>6, <1>10, <1>13, <3>3
      <4> QED BY <1>13, <3>3, <4>1 DEF Constructed
    <3> QED BY <1>14, <3>1, <3>2, <3>3
  <2>4. ASSUME NEW x \in Current', modules'[x].imported # <<>> PROVE resolver'
    BY <1>2, <1>5
  <2> QED BY <2>1, <2>2, <2>3, <2>4 DEF Dependencies
<1>22. Bound'
  <2>1. SUFFICES ASSUME NEW x \in Current'
        PROVE  /\ Reached(x, {"relocations", "loaded"})' =>
                    /\ DOMAIN modules'[x].lot = Slots(modules'[x].image)
                    /\ \A s \in Wants[modules'[x].image] :
                         modules'[x].lot[s] = find_symbol(x, s)' /\ find_symbol(x, s)' # Null
               /\ Reached(x, {"loaded"})' =>
                    \A s \in Locals[modules'[x].image] : modules'[x].lot[s] = x
    BY DEF Bound
  <2>2. CASE OnStack(x)'
    <3>1. PICK k \in DOMAIN stack' : stack'[k].module = x
      BY <2>2 DEF OnStack
    <3>2. stack'[k].stage \in {"header", "dependencies", "data"}
      <4>1. CASE k \in 1..L - 1
        <5>1. stack'[k] = stack[k] /\ k \in DOMAIN stack /\ k < Len(stack)
          BY <1>4, <1>13, <1>14, <4>1
        <5> QED BY <1>3, <5>1 DEF IInv, Activations, Runs
      <4>2. CASE k = L \/ k = L + 1
        BY <1>5, <1>13, <4>2
      <4> QED BY <1>14, <4>1, <4>2
    <3> QED BY <3>1, <3>2 DEF Reached
  <2>3. CASE ~OnStack(x)'
    <3>1. x \in Current /\ x \in DOMAIN modules /\ ~OnStack(x)
      BY <1>15, <1>17, <2>3 DEF Current
    <3>2. \A stages : Reached(x, stages)
      BY <3>1 DEF Reached, OnStack
    <3>3. modules'[x] = modules[x] /\ Tree'[x] = Tree[x]
      BY <1>18, <3>1
    <3>4. \A s : find_symbol(x, s)' = find_symbol(x, s)
      <4>1. \A y \in Below(x) : y \in DOMAIN modules
        <5>1. \A k \in 1..Len(Tree[x]) : Tree[x][k] \in DOMAIN modules
          BY <3>1, TreeFacts, ElementOfSeq
        <5> QED BY <3>1, <5>1, TreeFacts DEF Below, Range
      <4> QED BY <1>2, <1>11, <3>1, <3>3, <4>1, SearchStays
    <3> QED BY <3>1, <3>2, <3>3, <3>4 DEF RInv, Bound
  <2> QED BY <2>2, <2>3
<1>23. \A r \in Listed : \A x \in Below(r) : modules'[x] = modules[x]
  BY <1>3, <1>18, ListedFacts
<1>24. Starts'
  <2>1. ASSUME NEW r \in Range(executables) PROVE StartsOf(r)'
    <3>1. r \in Listed
      BY DEF Listed
    <3>2. r \in DOMAIN modules /\ ~OnStack(r)
      <4>1. r \in DOMAIN modules /\ \A x \in Below(r) : ~OnStack(x)
        BY <1>3, <3>1, ListedFacts
      <4> QED BY <1>3, <4>1, BelowFacts DEF IInv
    <3>3. modules'[r] = modules[r] /\ Below(r)' = Below(r)
      BY <1>18, <3>2
    <3> QED BY <3>3 DEF RInv, Starts, StartsOf
  <2>2. PICK r \in DOMAIN modules : r = stack[1].module
    BY <1>4, <1>14
  <2>3. /\ stack'[1].module = r /\ Kind[modules'[r].image] = Kind[modules[r].image]
        /\ Undecided(r)' <=> Undecided(r)
    <3>1. stack'[1].module = r
      BY <1>13, <1>14, <2>2
    <3>2. modules'[r].image = modules[r].image /\ modules'[r].class = modules[r].class
          /\ modules'[r].main = modules[r].main /\ modules'[r].has_entry = modules[r].has_entry
      BY <1>11
    <3> QED BY <3>1, <3>2 DEF Undecided
  <2>4. stack[1].stage \in {"dependencies", "data"} /\ stack'[1].stage # "loaded"
    <3>1. CASE L = 1
      BY <1>2, <1>4, <1>5, <1>13, <3>1
    <3>2. CASE L # 1
      <4>1. 1 < Len(stack) /\ 1 \in 1..L - 1
        BY <1>4, <3>2
      <4>2. stack[1].stage \in {"dependencies", "data"}
        BY <1>3, <1>4, <4>1 DEF IInv, Activations, Runs
      <4> QED BY <1>13, <4>1, <4>2
    <3> QED BY <3>1, <3>2
  <2>5. Kind[modules[r].image] # "none" /\ Undecided(r)
    BY <1>2, <2>2, <2>4 DEF RInv, Starts
  <2>6. Undecided(stack[1].module)'
    <3>1. modules'[stack'[1].module] = modules'[r]
      BY <2>3
    <3> QED BY <2>3, <2>5, <3>1 DEF Undecided
  <2> QED BY <1>2, <2>1, <2>3, <2>4, <2>5, <2>6 DEF Starts
<1>25. RInv'
  BY <1>19, <1>20, <1>21, <1>22, <1>24 DEF RInv
<1>26. LinkedExecutables' = LinkedExecutables /\ LinkedLibraries' = LinkedLibraries
  <2>1. Len(modules) <= Len(modules')
    BY <1>3, <1>10
  <2> QED BY <1>2, <1>23, <2>1, ListsStay
<1>27. Request' = Request
  <2>1. stack'[1].module = stack[1].module /\ stack[1].module \in DOMAIN modules
    BY <1>4, <1>13, <1>14
  <2> QED BY <1>2, <1>11, <1>13, <2>1 DEF Request
<1> QED BY <1>2, <1>25, <1>26, <1>27 DEF Abstract!vars

-----------------------------------------------------------------------------
(***************************************************************************)
(* Requests and their answers.                                             *)
(***************************************************************************)

\* What the host is told of by itself: its own calls that load and drop nothing.
LEMMA QuietRefines ==
  ASSUME RInv, IInv', UNCHANGED <<modules, stack, executables, libraries>>,
         stack = <<>> \/ UNCHANGED host
  PROVE  RInv' /\ UNCHANGED <<LinkedExecutables, LinkedLibraries, Request>>
<1>1. modules' = modules /\ stack' = stack /\ executables' = executables /\ libraries' = libraries
  OBVIOUS
<1>2. Tree' = Tree
  BY <1>1 DEF Tree
<1>3. Alive' = Alive /\ Current' = Current /\ \A x : OnStack(x)' <=> OnStack(x)
  BY <1>1 DEF Alive, Current, OnStack
<1>4. Consecutive' /\ Unfinished'
  BY <1>1, <1>2 DEF RInv, Consecutive, Unfinished
<1>5. stack = <<>> => Current = {}
  BY DEF Current
<1>6. Dependencies'
  <2>1. \A k \in DOMAIN stack : Constructed(k)' = Constructed(k)
    BY <1>1 DEF Constructed
  <2>2. \A n \in Current : modules[n].imported # <<>> => resolver'
    BY <1>5 DEF RInv, Dependencies, host
  <2> QED BY <1>1, <1>3, <2>1, <2>2 DEF RInv, Dependencies
<1>7. Bound'
  <2>1. SUFFICES ASSUME NEW n \in Current
        PROVE  /\ Reached(n, {"relocations", "loaded"})' =>
                    /\ DOMAIN modules'[n].lot = Slots(modules'[n].image)
                    /\ \A s \in Wants[modules'[n].image] :
                         modules'[n].lot[s] = find_symbol(n, s)' /\ find_symbol(n, s)' # Null
               /\ Reached(n, {"loaded"})' =>
                    \A s \in Locals[modules'[n].image] : modules'[n].lot[s] = n
    BY <1>3 DEF Bound
  <2>2. environment' = environment
    BY <1>5 DEF host
  <2>3. \A s : find_symbol(n, s)' = find_symbol(n, s)
    BY <1>1, <1>2, <2>2 DEF find_symbol, FirstDefining
  <2>4. \A stages : Reached(n, stages)' <=> Reached(n, stages)
    BY <1>1 DEF Reached
  <2> QED BY <1>1, <2>3, <2>4 DEF RInv, Bound
<1>8. Starts'
  <2>1. \A n \in Range(executables) : StartsOf(n)'
    BY <1>1, <1>2 DEF RInv, Starts, StartsOf, Below
  <2>2. stack # <<>> =>
          /\ stack[1].stage # "loaded" => Undecided(stack[1].module)'
          /\ stack[1].stage = "loaded" => Decided(stack[1].module)'
    BY <1>1 DEF RInv, Starts, Undecided, Decided
  <2> QED BY <1>1, <2>1, <2>2 DEF RInv, Starts
<1>9. LinkedExecutables' = LinkedExecutables /\ LinkedLibraries' = LinkedLibraries
  <2>1. \A n : LinkedTree(n)' = LinkedTree(n)
    BY <1>1, <1>2 DEF LinkedTree, Position
  <2>2. \A n : LinkedExecutable(n)' = LinkedExecutable(n)
    BY <1>1, <1>2, <2>1 DEF LinkedExecutable, Position
  <2>3. \A n : LinkedLibrary(n)' = LinkedLibrary(n)
    BY <2>1 DEF LinkedLibrary
  <2> QED BY <1>1, <2>2, <2>3 DEF LinkedExecutables, LinkedLibraries
<1>10. Request' = Request
  BY <1>1 DEF Request
<1> QED BY <1>4, <1>6, <1>7, <1>8, <1>9, <1>10 DEF RInv

\* load_executable and load_library
LEMMA BeginRefines ==
  ASSUME RInv, IInv', NEW kind \in {"executable", "library"}, NEW i \in Images, Begin(kind, i)
  PROVE  RInv' /\ Abstract!Ask(kind, i)
<1>1. PICK child : child = Len(modules) + 1
  OBVIOUS
<1>2. PICK flag \in IF kind = "executable" THEN FreshEntry ELSE {FALSE} :
        modules' = Append(modules, [New(kind, i) EXCEPT !.has_entry = flag])
  BY DEF Begin
<1>3. /\ stack = <<>> /\ result # "undefined" /\ stack' = <<Call(child)>> /\ result' = "none"
      /\ environment' = environment /\ resolver' = resolver
      /\ executables' = executables /\ libraries' = libraries
  BY <1>1 DEF Begin, Idle, host
<1>4. /\ modules \in Seq(Module) /\ InOrder /\ DOMAIN modules = 1..Len(modules)
      /\ Len(modules) \in Nat /\ child \in Nat /\ modules' \in Seq(Module) /\ InOrder' /\ IInv
  BY <1>1 DEF RInv, IInv, Typed
<1> DEFINE M == [New(kind, i) EXCEPT !.has_entry = flag]
<1>5. /\ M \in Module /\ M.image = i /\ M.class = kind /\ M.imported = <<>> /\ M.main = Null
      /\ M.has_entry = flag /\ i # NoImage /\ (kind = "executable" => flag \in FreshEntry)
  <2>1. flag \in BOOLEAN /\ (kind = "executable" => flag \in FreshEntry) /\ i # NoImage
    BY <1>2, ImageAssumption
  <2>2. /\ New(kind, i) \in Module /\ New(kind, i).image = i /\ New(kind, i).class = kind
        /\ New(kind, i).imported = <<>> /\ New(kind, i).main = Null
    BY NewFacts
  <2>3. PICK new \in Module : new = New(kind, i)
    BY <2>2
  <2>4. M = [new EXCEPT !.has_entry = flag]
    BY <2>3
  <2> HIDE DEF M
  <2> QED BY <2>1, <2>2, <2>3, <2>4 DEF Module
<1> HIDE DEF M
<1>6. /\ Len(modules') = child /\ DOMAIN modules' = 1..child
      /\ \A x \in DOMAIN modules : modules'[x] = modules[x]
      /\ modules'[child] = M /\ child \notin DOMAIN modules /\ child \in DOMAIN modules'
      /\ \A x \in DOMAIN modules' : x \in DOMAIN modules \/ x = child
      /\ \A x \in DOMAIN modules : x \in DOMAIN modules'
  <2>1. modules' = Append(modules, M)
    BY <1>2 DEF M
  <2>2. /\ Len(modules') = Len(modules) + 1
        /\ \A x \in 1..Len(modules) : modules'[x] = modules[x]
        /\ modules'[Len(modules) + 1] = M
    BY <1>4, <1>5, <2>1, PushIsAppend
  <2> QED BY <1>1, <1>4, <2>2
<1>7. /\ stack' # <<>> /\ DOMAIN stack' = {1} /\ Len(stack') = 1
      /\ stack'[1].module = child /\ stack'[1].stage = "header"
  <2>1. Call(child).module = child /\ Call(child).stage = "header"
    BY DEF Call
  <2>2. stack' # <<>> /\ DOMAIN stack' = {1} /\ Len(stack') = 1 /\ stack'[1] = Call(child)
    BY <1>3
  <2> QED BY <2>1, <2>2
<1>8. /\ Tree'[child] = <<child>>
      /\ \A x \in DOMAIN modules : Tree'[x] = Tree[x] /\ Below(x)' = Below(x)
  <2>1. Tree'[child] = <<child>>
    <3>1. Ordered(modules', Len(modules'))
      BY <1>4, NextOrderedModules
    <3>2. TreeOf(modules') = [m \in 1..child |-> Node(modules', TreeOf(modules'), m)]
      BY <1>6, <3>1, TreeEquation
    <3>3. Tree'[child] = Node(modules', Tree', child)
      BY <1>4, <1>6, <3>2, NextTreeIs
    <3>4. [k \in DOMAIN <<>> |-> Tree'[<<>>[k]]] = <<>>
      OBVIOUS
    <3>5. FlattenSeq(<<>>) = <<>> /\ <<child>> \o <<>> = <<child>>
      BY DEF FlattenSeq
    <3> QED BY <1>5, <1>6, <3>3, <3>4, <3>5 DEF Node
  <2>2. \A x \in DOMAIN modules : Tree'[x] = Tree[x]
    <3>1. \A x \in DOMAIN modules : Imports(x) \subseteq DOMAIN modules
      <4> SUFFICES ASSUME NEW x \in DOMAIN modules PROVE Imports(x) \subseteq DOMAIN modules
        OBVIOUS
      <4>1. modules[x].imported \in Seq(x + 1..Len(modules)) /\ x \in Nat
        BY <1>4 DEF InOrder
      <4>2. \A k \in DOMAIN modules[x].imported : modules[x].imported[k] \in x + 1..Len(modules)
        BY <4>1, ElementOfSeq
      <4>3. x + 1..Len(modules) \subseteq DOMAIN modules
        BY <1>4, <4>1
      <4> QED BY <4>2, <4>3 DEF Imports, Range
    <3>2. Len(modules) <= Len(modules')
      BY <1>1, <1>4, <1>6
    <3> QED BY <1>4, <1>6, <3>1, <3>2, TreesStay
  <2> QED BY <2>1, <2>2 DEF Below
<1>9. /\ Alive' = Alive \cup {child} /\ Current' = {child}
      /\ \A x : OnStack(x)' <=> x = child
      /\ \A x : ~OnStack(x)
  <2>1. child \in DOMAIN modules' /\ modules'[child].image # NoImage
    BY <1>4, <1>5, <1>6
  <2>2. Alive' = Alive \cup {child}
    BY <1>6, <2>1 DEF Alive
  <2>3. Current' = {child}
    <3>1. \A x \in DOMAIN modules' : x >= child <=> x = child
      BY <1>4, <1>6
    <3> QED BY <1>7, <2>1, <3>1 DEF Current
  <2> QED BY <1>3, <1>7, <2>2, <2>3 DEF OnStack
<1>10. Consecutive'
  <2>1. \A k \in DOMAIN Tree'[child] : Tree'[child][k] = child + k - 1
    BY <1>4, <1>8
  <2>2. \A j, k \in DOMAIN modules'[child].imported :
          j < k => modules'[child].imported[j] < modules'[child].imported[k]
    BY <1>5, <1>6
  <2>3. ASSUME NEW x \in DOMAIN modules
        PROVE  /\ \A k \in DOMAIN Tree'[x] : Tree'[x][k] = x + k - 1
               /\ \A j, k \in DOMAIN modules'[x].imported :
                    j < k => modules'[x].imported[j] < modules'[x].imported[k]
    <3>1. modules'[x] = modules[x] /\ Tree'[x] = Tree[x]
      BY <1>6, <1>8
    <3> QED BY <3>1 DEF RInv, Consecutive
  <2> QED BY <1>6, <2>1, <2>2, <2>3 DEF Consecutive
<1>11. Unfinished'
  <2>1. Len(<<child>>) = 1
    OBVIOUS
  <2>2. child + Len(Tree'[child]) = Len(modules') + 1
    BY <1>6, <1>8, <2>1
  <2>3. \A k \in DOMAIN stack' : stack'[k].module = child /\ ~(k < Len(stack'))
    BY <1>7
  <2> QED BY <2>2, <2>3 DEF Unfinished
<1>12. Dependencies'
  <2>1. ASSUME NEW x \in Alive', ~OnStack(x)'
        PROVE  Len(modules'[x].imported) = Len(Depends[modules'[x].image])
    <3>1. x \in Alive /\ x \in DOMAIN modules
      BY <1>9, <2>1 DEF Alive
    <3> QED BY <1>6, <1>9, <3>1 DEF RInv, Dependencies
  <2>2. ASSUME NEW x \in Alive', NEW k \in DOMAIN modules'[x].imported
        PROVE  /\ modules'[modules'[x].imported[k]].image = Depends[modules'[x].image][k]
               /\ Kind[Depends[modules'[x].image][k]] \in {"executable", "library"}
    <3>1. x # child
      BY <1>5, <1>6, <2>2
    <3>2. x \in Alive /\ x \in DOMAIN modules
      BY <1>9, <3>1 DEF Alive
    <3>3. k \in DOMAIN modules[x].imported /\ modules[x].imported[k] \in DOMAIN modules
      BY <1>4, <1>6, <2>2, <3>2, AliveFacts
    <3> QED BY <1>6, <3>2, <3>3 DEF RInv, Dependencies
  <2>3. ASSUME NEW k \in DOMAIN stack'
        PROVE  Len(modules'[stack'[k].module].imported) = Constructed(k)'
    <3>1. k = 1 /\ Len(modules'[stack'[k].module].imported) = 0
      BY <1>5, <1>6, <1>7
    <3> QED BY <1>7, <3>1 DEF Constructed
  <2>4. \A x \in Current' : modules'[x].imported = <<>>
    BY <1>5, <1>6, <1>9
  <2> QED BY <2>1, <2>2, <2>3, <2>4 DEF Dependencies
<1>13. Bound'
  <2>1. ~Reached(child, {"relocations", "loaded"})' /\ ~Reached(child, {"loaded"})'
    BY <1>7 DEF Reached
  <2> QED BY <1>9, <2>1 DEF Bound
<1>14. \A r \in Listed : \A x \in Below(r) : modules'[x] = modules[x]
  BY <1>4, <1>6, ListedFacts
<1>15. Starts'
  <2>1. ASSUME NEW r \in Range(executables) PROVE StartsOf(r)'
    <3>1. r \in DOMAIN modules
      BY <1>4, ListedFacts DEF Listed
    <3>2. modules'[r] = modules[r] /\ Below(r)' = Below(r)
      BY <1>6, <1>8, <3>1
    <3> QED BY <3>2 DEF RInv, Starts, StartsOf
  <2>2. Undecided(stack[1].module)'
    <3>1. modules'[stack'[1].module] = M
      BY <1>6, <1>7
    <3> QED BY <1>5, <3>1 DEF Undecided
  <2> QED BY <1>3, <1>7, <2>1, <2>2 DEF Starts
<1>16. RInv'
  BY <1>10, <1>11, <1>12, <1>13, <1>15 DEF RInv
<1>17. LinkedExecutables' = LinkedExecutables /\ LinkedLibraries' = LinkedLibraries
  <2>1. Len(modules) <= Len(modules')
    BY <1>1, <1>4, <1>6
  <2> QED BY <1>3, <1>14, <2>1, ListsStay
<1>18. Request = Abstract!NoRequest /\ Request' = [kind |-> kind, image |-> i]
  BY <1>3, <1>5, <1>6, <1>7 DEF Request, Abstract!NoRequest
<1> QED BY <1>3, <1>16, <1>17, <1>18 DEF Abstract!Ask, Abstract!Idle

\* load_module returns true to the load_module that called it.
LEMMA ReturnRefines ==
  ASSUME RInv, IInv', Return
  PROVE  RInv' /\ UNCHANGED Abstract!vars
<1> DEFINE n == Top.module
<1>1. PICK L : L = Len(stack)
  OBVIOUS
<1>2. /\ stack # <<>> /\ Top.stage = "loaded" /\ L > 1 /\ stack' = Front(stack)
      /\ modules' = modules /\ executables' = executables /\ libraries' = libraries
      /\ environment' = environment /\ resolver' = resolver /\ result' = result /\ IInv
  BY <1>1 DEF Return, At, host, RInv
<1>3. /\ L \in Nat \ {0} /\ DOMAIN stack = 1..L /\ Top = stack[L] /\ L = Len(stack)
      /\ n \in DOMAIN modules /\ Image = modules[n].image
  BY <1>1, <1>2, TopFacts DEF Image
<1>4. /\ Len(stack') = L - 1 /\ DOMAIN stack' = 1..L - 1 /\ stack' # <<>>
      /\ \A k \in 1..L - 1 : stack'[k] = stack[k]
  <2>1. stack \in Seq(Activation)
    BY <1>2 DEF IInv, Typed
  <2>2. /\ Front(stack) \in Seq(Activation) /\ Len(Front(stack)) = L - 1
        /\ \A k \in 1..L - 1 : Front(stack)[k] = stack[k]
    BY <1>2, <1>3, <2>1, PopIsFront
  <2>3. stack' \in Seq(Activation) /\ Len(stack') = L - 1
    BY <1>2, <2>2
  <2>4. DOMAIN stack' = 1..L - 1
    BY <2>3
  <2>5. stack' # <<>>
    <3>1. Len(<<>>) = 0 /\ L - 1 # 0
      BY <1>2, <1>3
    <3> QED BY <2>3, <3>1
  <2> QED BY <1>2, <2>2, <2>3, <2>4, <2>5
<1>5. /\ \A k \in 1..L - 1 : k \in 1..L /\ k # L /\ k < L /\ k \in DOMAIN stack
      /\ \A k \in 1..L - 1 : k < L - 1 => k + 1 \in 1..L - 1
      /\ \A k \in 1..L : k \in 1..L - 1 \/ k = L
      /\ 1 \in 1..L - 1
  <2>1. L \in Nat \ {0} /\ L > 1
    BY <1>2, <1>3
  <2>2. \A k \in 1..L - 1 : k \in 1..L /\ k # L /\ k < L
    BY ONLY <2>1
  <2>3. \A k \in 1..L - 1 : k < L - 1 => k + 1 \in 1..L - 1
    BY ONLY <2>1
  <2>4. \A k \in 1..L : k \in 1..L - 1 \/ k = L
    BY ONLY <2>1
  <2>5. 1 \in 1..L - 1
    BY ONLY <2>1
  <2> QED BY <1>3, <2>2, <2>3, <2>4, <2>5
<1>6. \A k \in DOMAIN stack : stack[k].module = n <=> k = L
  BY <1>2, <1>3, StackFacts
<1>7. Tree' = Tree /\ Alive' = Alive
  BY <1>2 DEF Tree, Alive
<1>8. /\ Current' = Current
      /\ \A x : OnStack(x) <=> OnStack(x)' \/ x = n
  <2>1. stack'[1] = stack[1]
    BY <1>4, <1>5
  <2>2. Current' = Current
    BY <1>2, <1>4, <2>1 DEF Current
  <2>3. \A x : OnStack(x)' => OnStack(x)
    BY <1>4, <1>5 DEF OnStack
  <2>4. OnStack(n)
    BY <1>3 DEF OnStack
  <2>5. ASSUME NEW x, OnStack(x), x # n PROVE OnStack(x)'
    <3>1. PICK k \in DOMAIN stack : stack[k].module = x
      BY <2>5 DEF OnStack
    <3>2. k \in 1..L - 1
      BY <1>3, <1>5, <1>6, <2>5, <3>1
    <3> QED BY <1>4, <3>1, <3>2 DEF OnStack
  <2> QED BY <2>2, <2>3, <2>4, <2>5
<1> HIDE DEF n
<1>9. Consecutive' /\ Unfinished'
  <2>1. Consecutive'
    BY <1>2, <1>7 DEF RInv, Consecutive
  <2>2. ASSUME NEW k \in DOMAIN stack'
        PROVE  /\ stack'[k].module + Len(Tree'[stack'[k].module]) = Len(modules') + 1
               /\ k < Len(stack') =>
                    /\ modules'[stack'[k].module].imported # <<>>
                    /\ Last(modules'[stack'[k].module].imported) = stack'[k + 1].module
    <3>1. stack'[k] = stack[k] /\ k \in DOMAIN stack /\ k < Len(stack)
      BY <1>3, <1>4, <1>5
    <3>2. k < Len(stack') => stack'[k + 1] = stack[k + 1]
      BY <1>4, <1>5
    <3> QED BY <1>2, <1>7, <3>1, <3>2 DEF RInv, Unfinished
  <2> QED BY <2>1, <2>2 DEF Unfinished
<1>10. Dependencies'
  <2>1. Len(modules[n].imported) = Len(Depends[modules[n].image])
    BY <1>2, <1>3, TopKnown DEF n
  <2>2. \A k \in DOMAIN stack' : k \in DOMAIN stack /\ stack'[k] = stack[k]
    BY <1>4, <1>5
  <2>3. \A k \in DOMAIN stack' : Constructed(k)' = Constructed(k)
    BY <1>2, <2>2 DEF Constructed
  <2> QED BY <1>2, <1>7, <1>8, <2>1, <2>2, <2>3 DEF RInv, Dependencies
<1>11. Bound'
  <2>1. \A x, s : find_symbol(x, s)' = find_symbol(x, s)
    BY <1>2, <1>7 DEF find_symbol, FirstDefining
  <2>2. ASSUME NEW x, NEW stages, "loaded" \in stages, Reached(x, stages)'
        PROVE  Reached(x, stages)
    <3>1. SUFFICES ASSUME NEW k \in DOMAIN stack, stack[k].module = x
                   PROVE  stack[k].stage \in stages
      BY DEF Reached
    <3>2. CASE k = L
      BY <1>2, <1>3, <2>2, <3>2
    <3>3. CASE k \in 1..L - 1
      BY <1>4, <2>2, <3>1, <3>3 DEF Reached
    <3> QED BY <1>3, <1>5, <3>2, <3>3
  <2> QED BY <1>2, <1>8, <2>1, <2>2 DEF RInv, Bound
<1>12. Starts'
  <2>1. \A r \in Range(executables) : StartsOf(r)'
    BY <1>2, <1>7 DEF RInv, Starts, StartsOf, Below
  <2>2. stack'[1] = stack[1] /\ stack' # <<>>
    BY <1>4, <1>5
  <2>3. /\ stack[1].stage # "loaded" => Undecided(stack[1].module)'
        /\ stack[1].stage = "loaded" => Decided(stack[1].module)'
    BY <1>2, <2>2 DEF RInv, Starts, Undecided, Decided
  <2> QED BY <1>2, <2>1, <2>2, <2>3 DEF RInv, Starts
<1>13. RInv'
  BY <1>9, <1>10, <1>11, <1>12 DEF RInv
<1>14. LinkedExecutables' = LinkedExecutables /\ LinkedLibraries' = LinkedLibraries
  <2>1. Len(modules) <= Len(modules')
    BY <1>2 DEF IInv, Typed
  <2> QED BY <1>2, <2>1, ListsStay
<1>15. Request' = Request
  <2>1. stack'[1] = stack[1]
    BY <1>4, <1>5
  <2> QED BY <1>2, <1>4, <2>1 DEF Request
<1> QED BY <1>2, <1>13, <1>14, <1>15 DEF Abstract!vars

\* When load_module has returned to the host, the tree of the root is linked as promised.
LEMMA RootIsLinked ==
  ASSUME RInv, stack # <<>>, Len(stack) = 1, Top.stage = "loaded"
  PROVE  /\ Matches(Top.module) /\ Kind[Image] # "none"
         /\ \A x \in Range(Abstract!Tree[Image]) : Abstract!Complete(x)
         /\ LinkedTree(Top.module) = Abstract!Linked(Image)
<1> DEFINE n == Top.module
<1>1. /\ DOMAIN stack = {1} /\ Top = stack[1] /\ n = stack[1].module /\ stack[1].stage = "loaded"
      /\ n \in DOMAIN modules /\ n \in Alive /\ Image = modules[n].image /\ IInv /\ n \in Nat
  BY TopFacts DEF RInv, Image
<1>2. Matches(n)
  BY TopMatches DEF Linking
<1>3. ASSUME NEW x \in Below(n)
      PROVE  x \in Current /\ x \in DOMAIN modules /\ x \in Alive
  <2>1. Below(n) \subseteq n..Len(modules) /\ DOMAIN modules = 1..Len(modules)
    BY <1>1, BelowFacts DEF IInv, Typed
  <2>2. x \in Alive
    <3>1. Alive \in SUBSET DOMAIN modules /\ \A y \in Alive : Imports(y) \subseteq Alive
      BY <1>1 DEF Alive, IInv, AliveClosed
    <3> QED BY <1>1, <3>1, BelowFacts DEF IInv, Typed
  <2>3. x >= n /\ x \in DOMAIN modules
    BY <1>1, <2>1
  <2> QED BY <1>1, <2>2, <2>3 DEF Current
<1>4. ASSUME NEW x \in Below(n) PROVE Matches(x)
  <2>1. CASE x = n
    BY <1>2, <2>1
  <2>2. CASE x # n
    <3>1. ~OnStack(x)
      BY <1>1, <2>2 DEF OnStack
    <3> QED BY <1>3, <3>1, LoadedMatches
  <2> QED BY <2>1, <2>2
<1>5. ASSUME NEW x \in Below(n)
      PROVE  /\ DOMAIN modules[x].lot = Slots(modules[x].image)
             /\ \A s \in Wants[modules[x].image] :
                  modules[x].lot[s] = find_symbol(x, s) /\ find_symbol(x, s) # Null
             /\ \A s \in Locals[modules[x].image] : modules[x].lot[s] = x
  <2>1. Reached(x, {"relocations", "loaded"}) /\ Reached(x, {"loaded"})
    BY <1>1 DEF Reached
  <2> QED BY <1>3, <2>1 DEF RInv, Bound
<1>6. ASSUME NEW x \in Below(n)
      PROVE  Len(modules[x].imported) = Len(Depends[modules[x].image])
  <2>1. CASE x = n
    <3>1. Len(modules[n].imported) = Len(Depends[Image])
      BY <1>1, TopKnown
    <3> QED BY <1>1, <2>1, <3>1
  <2>2. CASE x # n
    <3>1. ~OnStack(x)
      BY <1>1, <2>2 DEF OnStack
    <3> QED BY <1>3, <3>1 DEF RInv, Dependencies
  <2> QED BY <2>1, <2>2
<1>7. ASSUME NEW x \in Below(n) PROVE Abstract!Complete(modules[x].image)
  <2> DEFINE i == modules[x].image
  <2>1. /\ i \in Images /\ Depends[i] \in Seq(Images \cup {NoImage})
        /\ DOMAIN modules[x].imported = 1..Len(modules[x].imported)
        /\ DOMAIN Depends[i] = 1..Len(Depends[i]) /\ modules[x].imported \in Seq(Nat)
        /\ Len(Depends[i]) = Len(modules[x].imported)
    BY <1>1, <1>3, <1>6, AliveFacts
  <2>2. Depends[i] # <<>> => resolver
    <3>1. Depends[i] # <<>> => modules[x].imported # <<>>
      <4>1. Depends[i] # <<>> => Len(Depends[i]) # 0
        BY <2>1
      <4>2. Len(<<>>) = 0
        OBVIOUS
      <4> QED BY <2>1, <4>1, <4>2
    <3> QED BY <1>3, <3>1 DEF RInv, Dependencies
  <2>3. \A d \in Abstract!Range(Depends[i]) : Abstract!IsModule(d)
    <3>1. SUFFICES ASSUME NEW k \in DOMAIN Depends[i]
                   PROVE  Kind[Depends[i][k]] \in {"executable", "library"}
      BY DEF Abstract!Range, Abstract!IsModule
    <3>2. k \in DOMAIN modules[x].imported
      BY <2>1
    <3> QED BY <1>3, <3>2 DEF RInv, Dependencies
  <2>4. \A s \in Wants[i] \ environment : Abstract!Definers(i, s) # {}
    <3> SUFFICES ASSUME NEW s \in Wants[i] \ environment PROVE Abstract!Definers(i, s) # {}
      OBVIOUS
    <3>1. FirstDefining(Tree[x], s) # Null
      BY <1>5 DEF find_symbol
    <3>2. x \in DOMAIN modules /\ Matches(x)
      BY <1>3, <1>4
    <3> HIDE DEF i
    <3> QED BY <3>1, <3>2, SearchFinds DEF i
  <2>5. i \notin Endless
    BY <1>4 DEF Matches
  <2> HIDE DEF i
  <2>6. Abstract!Complete(i)
    BY <2>2, <2>3, <2>4, <2>5 DEF Abstract!Complete
  <2> QED BY <2>6 DEF i
<1>8. \A x \in Range(Abstract!Tree[Image]) : Abstract!Complete(x)
  <2>1. PICK promised : promised = Abstract!Tree[Image]
    OBVIOUS
  <2>2. /\ DOMAIN promised = 1..Len(Tree[n])
        /\ \A k \in 1..Len(Tree[n]) : promised[k] = modules[Tree[n][k]].image
    BY <1>1, <1>2, <2>1, MatchFacts
  <2>3. \A k \in 1..Len(Tree[n]) : Tree[n][k] \in Below(n)
    BY <1>1, TreeFacts
  <2> QED BY <1>7, <2>1, <2>2, <2>3 DEF Range
<1>9. LinkedTree(n) = Abstract!Linked(modules[n].image)
  <2>1. \A x \in Below(n) : modules[x].image \in Images
    BY <1>1, <1>3, AliveFacts
  <2> HIDE DEF n
  <2> QED BY <1>1, <1>2, <1>3, <1>4, <1>5, <2>1, TreeIsLinked
<1>10. Kind[Image] # "none"
  BY <1>1, TopKnown
<1> QED BY <1>1, <1>2, <1>8, <1>9, <1>10

\* What is loaded is added to what the host holds, and what it drops taken away.
LEMMA ListsChange ==
  ASSUME RInv, IInv', Len(modules) <= Len(modules'),
         \A r \in Listed' \cap Listed : \A x \in Below(r) : modules'[x] = modules[x]
  PROVE  /\ \A n \in DOMAIN modules : executables' = Append(executables, n) =>
              LinkedExecutables' = Append(LinkedExecutables, LinkedExecutable(n)')
         /\ \A n \in DOMAIN modules : libraries' = Append(libraries, n) =>
              LinkedLibraries' = Append(LinkedLibraries, LinkedLibrary(n)')
         /\ \A k \in DOMAIN executables : executables' = RemoveAt(executables, k) =>
              LinkedExecutables' = RemoveAt(LinkedExecutables, k)
         /\ \A k \in DOMAIN libraries : libraries' = RemoveAt(libraries, k) =>
              LinkedLibraries' = RemoveAt(LinkedLibraries, k)
<1> DEFINE T == DOMAIN modules
           f == [n \in DOMAIN modules |-> LinkedExecutable(n)]
           h == [n \in DOMAIN modules |-> LinkedLibrary(n)]
<1>1. /\ modules \in Seq(Module) /\ modules' \in Seq(Module) /\ IInv
      /\ executables \in Seq(T) /\ libraries \in Seq(T)
  BY DEF RInv, IInv, Typed
<1>2. /\ \A k \in DOMAIN executables : executables[k] \in T
      /\ \A k \in DOMAIN libraries : libraries[k] \in T
  <2> HIDE DEF T
  <2> QED BY <1>1, ElementOfSeq
<1>3. /\ \A k \in DOMAIN executables' : executables'[k] \in DOMAIN modules'
      /\ \A k \in DOMAIN libraries' : libraries'[k] \in DOMAIN modules'
  <2>1. executables' \in Seq(DOMAIN modules') /\ libraries' \in Seq(DOMAIN modules')
    BY DEF IInv, Typed
  <2>2. PICK D : D = DOMAIN modules'
    OBVIOUS
  <2>3. executables' \in Seq(D) /\ libraries' \in Seq(D)
    BY <2>1, <2>2
  <2>4. /\ \A k \in DOMAIN executables' : executables'[k] \in D
        /\ \A k \in DOMAIN libraries' : libraries'[k] \in D
    BY ONLY <2>3, ElementOfSeq
  <2> QED BY <2>2, <2>4
<1>4. LinkedExecutables = Renamed(executables, f) /\ LinkedLibraries = Renamed(libraries, h)
  BY <1>2 DEF LinkedExecutables, LinkedLibraries, Renamed
<1>5. /\ LinkedExecutables' = Renamed(executables', f') /\ LinkedLibraries' = Renamed(libraries', h')
  BY <1>3 DEF LinkedExecutables, LinkedLibraries, Renamed
<1>6. \A n \in DOMAIN modules : f'[n] = LinkedExecutable(n)' /\ h'[n] = LinkedLibrary(n)'
  <2>1. \A n \in DOMAIN modules : n \in DOMAIN modules'
    BY <1>1
  <2> QED BY <2>1
<1>7. ASSUME NEW r \in Listed, r \in Listed' PROVE f'[r] = f[r] /\ h'[r] = h[r]
  <2>1. r \in DOMAIN modules
    BY <1>1, ListedFacts
  <2>2. LinkedExecutable(r)' = LinkedExecutable(r) /\ LinkedLibrary(r)' = LinkedLibrary(r)
    <3>1. \A x \in Below(r) : modules'[x] = modules[x]
      BY <1>7
    <3> QED BY <2>1, <3>1, LinkedStays
  <2>3. f[r] = LinkedExecutable(r) /\ h[r] = LinkedLibrary(r)
    BY <2>1
  <2> HIDE DEF f, h
  <2> QED BY <1>6, <2>1, <2>2, <2>3
<1> HIDE DEF f, h, T
<1>8. /\ \A k \in DOMAIN executables : executables[k] \in Listed
      /\ \A k \in DOMAIN libraries : libraries[k] \in Listed
      /\ \A k \in DOMAIN executables' : executables'[k] \in Listed'
      /\ \A k \in DOMAIN libraries' : libraries'[k] \in Listed'
  BY DEF Listed, Range
<1>9. ASSUME NEW n \in T, NEW s \in Seq(T), NEW more, more = Append(s, n)
      PROVE  \A k \in DOMAIN s : \E j \in DOMAIN more : more[j] = s[k]
  <2>1. /\ more \in Seq(T) /\ Len(more) = Len(s) + 1 /\ Len(s) \in Nat
        /\ \A k \in 1..Len(s) : more[k] = s[k]
    BY <1>9, PushIsAppend
  <2>2. \A k \in DOMAIN s : k \in 1..Len(s) /\ k \in DOMAIN more
    BY <2>1
  <2> QED BY <2>1, <2>2
<1>10. ASSUME NEW n \in T, executables' = Append(executables, n)
       PROVE  LinkedExecutables' = Append(LinkedExecutables, LinkedExecutable(n)')
  <2>1. \A k \in DOMAIN executables : f'[executables[k]] = f[executables[k]]
    <3>1. \A k \in DOMAIN executables : \E j \in DOMAIN executables' : executables'[j] = executables[k]
      BY ONLY <1>1, <1>9, <1>10
    <3>2. \A k \in DOMAIN executables : executables[k] \in Listed'
      BY <1>8, <3>1
    <3> QED BY <1>7, <1>8, <3>2
  <2>2. PICK more, names, last :
          more = executables' /\ names = f' /\ last = f'[n]
    OBVIOUS
  <2>3. /\ more \in Seq(T) /\ Len(more) = Len(executables) + 1
        /\ \A k \in 1..Len(executables) : more[k] = executables[k]
        /\ more[Len(executables) + 1] = n /\ executables \in Seq(T) /\ n \in T
    BY <1>1, <1>10, <2>2, PushIsAppend
  <2>4. \A k \in DOMAIN executables : names[executables[k]] = f[executables[k]]
    BY <2>1, <2>2
  <2>5. Renamed(more, names) = Append(Renamed(executables, f), names[n])
    BY ONLY <2>3, <2>4, RenameAppend
  <2> QED BY <1>4, <1>5, <1>6, <2>2, <2>5 DEF T
<1>11. ASSUME NEW n \in T, libraries' = Append(libraries, n)
       PROVE  LinkedLibraries' = Append(LinkedLibraries, LinkedLibrary(n)')
  <2>1. \A k \in DOMAIN libraries : h'[libraries[k]] = h[libraries[k]]
    <3>1. \A k \in DOMAIN libraries : \E j \in DOMAIN libraries' : libraries'[j] = libraries[k]
      BY ONLY <1>1, <1>9, <1>11
    <3>2. \A k \in DOMAIN libraries : libraries[k] \in Listed'
      BY <1>8, <3>1
    <3> QED BY <1>7, <1>8, <3>2
  <2>2. PICK more, names, last :
          more = libraries' /\ names = h' /\ last = h'[n]
    OBVIOUS
  <2>3. /\ more \in Seq(T) /\ Len(more) = Len(libraries) + 1
        /\ \A k \in 1..Len(libraries) : more[k] = libraries[k]
        /\ more[Len(libraries) + 1] = n /\ libraries \in Seq(T) /\ n \in T
    BY <1>1, <1>11, <2>2, PushIsAppend
  <2>4. \A k \in DOMAIN libraries : names[libraries[k]] = h[libraries[k]]
    BY <2>1, <2>2
  <2>5. Renamed(more, names) = Append(Renamed(libraries, h), names[n])
    BY ONLY <2>3, <2>4, RenameAppend
  <2> QED BY <1>4, <1>5, <1>6, <2>2, <2>5 DEF T
<1>12. ASSUME NEW s \in Seq(T), NEW k \in DOMAIN s, NEW less, less = RemoveAt(s, k)
       PROVE  \A j \in DOMAIN s \ {k} : \E i \in DOMAIN less : less[i] = s[j]
  BY <1>12, ShorterSeq
<1>13. ASSUME NEW k \in DOMAIN executables, executables' = RemoveAt(executables, k)
       PROVE  LinkedExecutables' = RemoveAt(LinkedExecutables, k)
  <2>1. \A j \in DOMAIN executables \ {k} : f'[executables[j]] = f[executables[j]]
    <3>1. \A j \in DOMAIN executables \ {k} : executables[j] \in Listed'
      BY <1>1, <1>8, <1>12, <1>13
    <3> QED BY <1>7, <1>8, <3>1
  <2>2. Renamed(RemoveAt(executables, k), f') = RemoveAt(Renamed(executables, f), k)
    BY <1>1, <2>1, RenameRemove
  <2> QED BY <1>4, <1>5, <1>13, <2>2
<1>14. ASSUME NEW k \in DOMAIN libraries, libraries' = RemoveAt(libraries, k)
       PROVE  LinkedLibraries' = RemoveAt(LinkedLibraries, k)
  <2>1. \A j \in DOMAIN libraries \ {k} : h'[libraries[j]] = h[libraries[j]]
    <3>1. \A j \in DOMAIN libraries \ {k} : libraries[j] \in Listed'
      BY <1>1, <1>8, <1>12, <1>14
    <3> QED BY <1>7, <1>8, <3>1
  <2>2. Renamed(RemoveAt(libraries, k), h') = RemoveAt(Renamed(libraries, h), k)
    BY <1>1, <2>1, RenameRemove
  <2> QED BY <1>4, <1>5, <1>14, <2>2
<1> QED BY <1>10, <1>11, <1>13, <1>14 DEF T

\* The root is handed to the host.
LEMMA FinishRefines ==
  ASSUME RInv, IInv', stack # <<>>, Len(stack) = 1, Top.stage = "loaded",
         NEW n, n = Top.module,
         NEW m \in Module, modules' = [modules EXCEPT ![n] = m],
         m.image = Image, m.imported = modules[n].imported, m.lot = modules[n].lot,
         stack' = <<>>,
         executables' \in {executables, Append(executables, n)},
         executables' # executables => StartsOf(n)'
  PROVE  /\ RInv' /\ Tree' = Tree
         /\ LinkedTree(n)' = Abstract!Linked(Image)
         /\ executables' = executables => LinkedExecutables' = LinkedExecutables
         /\ libraries' = libraries => LinkedLibraries' = LinkedLibraries
         /\ executables' = Append(executables, n) =>
              LinkedExecutables' = Append(LinkedExecutables, LinkedExecutable(n)')
         /\ libraries' = Append(libraries, n) =>
              LinkedLibraries' = Append(LinkedLibraries, LinkedLibrary(n)')
<1>1. /\ DOMAIN stack = {1} /\ Top = stack[1] /\ n = stack[1].module /\ stack[1].stage = "loaded"
      /\ n \in DOMAIN modules /\ n \in Alive /\ Image = modules[n].image /\ IInv /\ n \in Nat
      /\ modules \in Seq(Module)
  BY TopFacts DEF RInv, Image, IInv, Typed
<1>2. /\ Len(modules') = Len(modules) /\ DOMAIN modules' = DOMAIN modules
      /\ \A x \in DOMAIN modules : modules'[x] = IF x = n THEN m ELSE modules[x]
  BY <1>1
<1>3. \A x \in DOMAIN modules : /\ modules'[x].imported = modules[x].imported
                                /\ modules'[x].image = modules[x].image
                                /\ modules'[x].lot = modules[x].lot
  BY <1>1, <1>2
<1>4. /\ \A x \in DOMAIN modules : Tree'[x] = Tree[x] /\ Below(x)' = Below(x)
      /\ Consecutive'
  BY <1>2, <1>3, SameTrees
<1>5. Tree' = Tree
  <2>1. /\ Tree = [x \in DOMAIN modules |-> Tree[x]]
        /\ Tree' = [x \in DOMAIN modules |-> Tree'[x]]
    <3>1. TreeOf(modules) = [x \in 1..Len(modules) |-> Node(modules, TreeOf(modules), x)]
      BY <1>1, OrderedModules, TreeEquation DEF IInv
    <3>2. TreeOf(modules') = [x \in 1..Len(modules') |-> Node(modules', TreeOf(modules'), x)]
      <4>1. Ordered(modules', Len(modules'))
        BY NextOrderedModules DEF IInv, Typed
      <4>2. PICK next, N : next = modules' /\ N = Len(modules')
        OBVIOUS
      <4>3. TreeOf(next) = [x \in 1..N |-> Node(next, TreeOf(next), x)]
        <5>1. Ordered(next, N)
          BY ONLY <4>1, <4>2
        <5> QED BY ONLY <5>1, TreeEquation
      <4> QED BY ONLY <4>2, <4>3
    <3>3. /\ TreeOf(modules) = [x \in 1..Len(modules) |-> TreeOf(modules)[x]]
          /\ TreeOf(modules') = [x \in 1..Len(modules') |-> TreeOf(modules')[x]]
      BY <3>1, <3>2
    <3>4. DOMAIN modules = 1..Len(modules)
      BY <1>1
    <3> QED BY <1>2, <3>3, <3>4, TreeIs, NextTreeIs
  <2> QED BY <1>4, <2>1
<1>6. Alive' = Alive
  BY <1>2, <1>3 DEF Alive
<1>7. /\ \A x : ~OnStack(x)'
      /\ \A x : OnStack(x) <=> x = n
      /\ Current' = {} /\ Unfinished'
  BY <1>1 DEF OnStack, Current, Unfinished
<1>8. Dependencies'
  <2>1. ASSUME NEW x \in Alive
        PROVE  Len(modules'[x].imported) = Len(Depends[modules'[x].image])
    <3>1. x \in DOMAIN modules
      BY DEF Alive
    <3>2. x = n => Len(modules[x].imported) = Len(Depends[modules[x].image])
      BY <1>1, TopKnown
    <3> QED BY <1>3, <1>7, <3>1, <3>2 DEF RInv, Dependencies
  <2>2. ASSUME NEW x \in Alive, NEW k \in DOMAIN modules'[x].imported
        PROVE  /\ modules'[modules'[x].imported[k]].image = Depends[modules'[x].image][k]
               /\ Kind[Depends[modules'[x].image][k]] \in {"executable", "library"}
    <3>1. x \in DOMAIN modules
      BY DEF Alive
    <3>2. k \in DOMAIN modules[x].imported
      BY <1>3, <3>1
    <3>3. modules[x].imported[k] \in DOMAIN modules
      BY <1>1, <3>2, AliveFacts
    <3> QED BY <1>3, <3>1, <3>2, <3>3 DEF RInv, Dependencies
  <2>3. \A k \in DOMAIN stack' : FALSE
    OBVIOUS
  <2> QED BY <1>6, <1>7, <2>1, <2>2, <2>3 DEF Dependencies
<1>9. Bound'
  BY <1>7 DEF Bound
<1>10. \A r \in Listed : \A x \in Below(r) : modules'[x] = modules[x]
  BY <1>1, <1>2, <1>7, ListedFacts
<1>11. Starts'
  <2>1. ASSUME NEW r \in Range(executables) PROVE StartsOf(r)'
    <3>1. r \in DOMAIN modules /\ modules'[r] = modules[r]
      <4>1. r \in Listed
        BY DEF Listed
      <4>2. r \in DOMAIN modules
        BY <1>1, <4>1, ListedFacts
      <4> QED BY <1>1, <1>10, <4>1, <4>2, BelowFacts DEF IInv
    <3>2. Below(r)' = Below(r)
      BY <1>4, <3>1
    <3> QED BY <3>1, <3>2 DEF RInv, Starts, StartsOf
  <2>2. Range(executables)' \subseteq Range(executables) \cup {n}
    <3>1. CASE executables' = executables
      BY <3>1
    <3>2. CASE executables' = Append(executables, n)
      <4>1. PICK T : T = DOMAIN modules
        OBVIOUS
      <4>2. executables \in Seq(T) /\ n \in T
        BY <1>1, <4>1 DEF IInv, Typed
      <4>3. Range(Append(executables, n)) = Range(executables) \cup {n}
        BY ONLY <4>2, AppendFacts
      <4> QED BY <3>2, <4>3
    <3> QED BY <3>1, <3>2
  <2>3. executables' # executables => StartsOf(n)'
    OBVIOUS
  <2>4. ASSUME NEW r \in Range(executables)' PROVE StartsOf(r)'
    <3>1. CASE r \in Range(executables)
      BY <2>1, <3>1
    <3>2. CASE r \notin Range(executables)
      <4>1. r = n /\ executables' # executables
        BY <2>2, <2>4, <3>2
      <4> QED BY <2>3, <4>1 DEF StartsOf
    <3> QED BY <3>1, <3>2
  <2> QED BY <2>4 DEF Starts
<1>12. RInv'
  BY <1>4, <1>7, <1>8, <1>9, <1>11 DEF RInv
<1>13. Len(modules) <= Len(modules')
  BY <1>1, <1>2
<1>14. LinkedTree(n)' = Abstract!Linked(Image)
  <2>1. LinkedTree(n) = Abstract!Linked(Image)
    BY RootIsLinked
  <2>2. \A k \in DOMAIN Tree[n] : Tree[n][k] \in DOMAIN modules
    BY <1>1, TreeFacts, ElementOfSeq
  <2>3. LinkedTree(n)' = LinkedTree(n)
    <3>1. LinkedTree(n) = [k \in DOMAIN Tree[n] |->
            [image |-> modules[Tree[n][k]].image,
             lot |-> [s \in DOMAIN modules[Tree[n][k]].lot |->
                        Position(Tree[Tree[n][k]], modules[Tree[n][k]].lot[s])]]]
      BY DEF LinkedTree
    <3>2. LinkedTree(n)' = [k \in DOMAIN Tree[n] |->
            [image |-> modules'[Tree[n][k]].image,
             lot |-> [s \in DOMAIN modules'[Tree[n][k]].lot |->
                        Position(Tree[Tree[n][k]], modules'[Tree[n][k]].lot[s])]]]
      BY <1>5 DEF LinkedTree, Position
    <3>3. \A k \in DOMAIN Tree[n] :
            /\ modules'[Tree[n][k]].image = modules[Tree[n][k]].image
            /\ modules'[Tree[n][k]].lot = modules[Tree[n][k]].lot
      BY <1>3, <2>2
    <3> QED BY ONLY <3>1, <3>2, <3>3
  <2> QED BY <2>1, <2>3
<1>15. /\ executables' = executables => LinkedExecutables' = LinkedExecutables
       /\ libraries' = libraries => LinkedLibraries' = LinkedLibraries
  BY <1>10, <1>13, ListsStay
<1>16. /\ executables' = Append(executables, n) =>
            LinkedExecutables' = Append(LinkedExecutables, LinkedExecutable(n)')
       /\ libraries' = Append(libraries, n) =>
            LinkedLibraries' = Append(LinkedLibraries, LinkedLibrary(n)')
  BY <1>1, <1>10, <1>13, ListsChange
<1> QED BY <1>5, <1>12, <1>14, <1>15, <1>16

\* While load_module runs, there is a request.
LEMMA RequestFacts ==
  ASSUME IInv, stack # <<>>
  PROVE  LET root == stack[1].module
         IN  /\ Request = [kind |-> modules[root].class, image |-> modules[root].image]
             /\ Request.kind = modules[root].class /\ Request.image = modules[root].image
             /\ Request.image \in Images /\ Request.kind \in {"executable", "library"}
             /\ Request # Abstract!NoRequest
             /\ root \in DOMAIN modules /\ root \in Alive /\ modules[root] \in Module
<1>1. /\ stack[1].module \in DOMAIN modules /\ stack[1].module \in Alive
      /\ modules \in Seq(Module)
  BY StackFacts DEF IInv, Typed
<1>2. PICK m \in Module : m = modules[stack[1].module]
  BY <1>1
<1>3. m.class \in {"executable", "library"} /\ m.image \in Images
  BY <1>1, <1>2 DEF Module, Alive
<1>4. Request = [kind |-> m.class, image |-> m.image]
  BY <1>2 DEF Request
<1>5. Request # Abstract!NoRequest
  <2>1. Request.kind # Abstract!NoRequest.kind
    BY <1>3, <1>4 DEF Abstract!NoRequest
  <2> QED BY <2>1
<1> QED BY <1>1, <1>2, <1>3, <1>4, <1>5

\* the rest of load_library
LEMMA FinishLibraryRefines ==
  ASSUME RInv, IInv', FinishLibrary
  PROVE  RInv' /\ Abstract!Answer
<1>1. PICK n, m, i : n = Top.module /\ m = modules[n] /\ i = Image
  OBVIOUS
<1>2. /\ stack # <<>> /\ result # "undefined" /\ Top.stage = "loaded" /\ Len(stack) = 1
      /\ m.class = "library" /\ libraries' = Append(libraries, n) /\ stack' = <<>>
      /\ result' = "loaded" /\ modules' = modules /\ executables' = executables
      /\ environment' = environment /\ resolver' = resolver
  BY <1>1 DEF FinishLibrary, At, host
<1>3. /\ n = stack[1].module /\ n \in DOMAIN modules /\ m \in Module /\ i = modules[n].image
      /\ modules' = [modules EXCEPT ![n] = m] /\ IInv /\ modules \in Seq(Module)
  BY <1>1, <1>2, TopFacts DEF RInv, IInv, Typed, Image
<1>4. /\ RInv' /\ LinkedTree(n)' = Abstract!Linked(i)
      /\ LinkedExecutables' = LinkedExecutables
      /\ LinkedLibraries' = Append(LinkedLibraries, LinkedLibrary(n)')
  BY <1>1, <1>2, <1>3, FinishRefines
<1>5. LinkedLibrary(n)' = [modules |-> Abstract!Linked(i)]
  BY <1>4 DEF LinkedLibrary
<1>6. /\ Request # Abstract!NoRequest /\ Request.kind = "library" /\ Request.image = i
      /\ Request' = Abstract!NoRequest
  <2>1. Request' = Abstract!NoRequest
    BY <1>2 DEF Request, Abstract!NoRequest
  <2> QED BY <1>2, <1>3, <2>1, RequestFacts
<1>7. PICK flag \in FreshEntry : TRUE
  BY ImageAssumption
<1>8. Abstract!Loadable("library", i, flag)
  <2>1. Kind[i] # "none" /\ \A x \in Range(Abstract!Tree[i]) : Abstract!Complete(x)
    BY <1>1, <1>2, RootIsLinked
  <2> QED BY <2>1 DEF Abstract!Loadable, Abstract!Range, Range
<1> QED BY <1>2, <1>4, <1>5, <1>6, <1>7, <1>8 DEF Abstract!Answer

\* initialize_main and the rest of load_executable
LEMMA FinishExecutableRefines ==
  ASSUME RInv, IInv', FinishExecutable, ~Refuse
  PROVE  RInv' /\ Abstract!Answer
<1>1. PICK n, old, i, own : /\ n = Top.module /\ old = modules[n] /\ i = Image
                            /\ own = FirstDefining(Tree[n], "main")
  OBVIOUS
<1>2. PICK main : main = IF old.has_entry THEN old.main ELSE own
  OBVIOUS
<1>3. PICK m : m = [old EXCEPT !.main = main]
  OBVIOUS
<1>4. /\ stack # <<>> /\ result # "undefined" /\ Top.stage = "loaded" /\ Len(stack) = 1
      /\ old.class = "executable" /\ executables' = Append(executables, n) /\ stack' = <<>>
      /\ result' = "loaded" /\ modules' = [modules EXCEPT ![n].main = main]
      /\ libraries' = libraries /\ environment' = environment /\ resolver' = resolver
      /\ old.has_entry \/ own # Null
  BY <1>1, <1>2 DEF FinishExecutable, At, host
<1>5. /\ n = stack[1].module /\ n \in DOMAIN modules /\ old \in Module /\ i = modules[n].image
      /\ modules' = [modules EXCEPT ![n] = m] /\ IInv /\ modules \in Seq(Module)
      /\ old.image = i /\ n \in Nat /\ stack[1].stage = "loaded"
  BY <1>1, <1>3, <1>4, TopFacts DEF RInv, IInv, Typed, Image
<1>6. own \in {Null} \cup Below(n) /\ Below(n) \subseteq Nat
  <2>1. Below(n) \subseteq n..Len(modules)
    BY <1>5, BelowFacts DEF IInv, Typed
  <2> QED BY <1>1, <1>5, <2>1, FoundIsBelow
<1>7. /\ m \in Module /\ m.image = i /\ m.imported = old.imported /\ m.lot = old.lot
      /\ m.main = main /\ m.has_entry = old.has_entry
  <2>1. main \in Int
    BY <1>2, <1>5, <1>6 DEF Module, Null
  <2> QED BY <1>3, <1>5, <2>1 DEF Module
<1>8. PICK flag \in FreshEntry : old.has_entry = (flag \/ takes_entry(i))
  <2>1. Decided(n) /\ modules[n].class = "executable"
    BY <1>1, <1>4, <1>5 DEF RInv, Starts
  <2> QED BY <1>1, <1>5, <2>1 DEF Decided
<1>9. /\ old.main = IF takes_entry(i) THEN Entry ELSE Null
      /\ flag \in BOOLEAN /\ takes_entry(i) \in BOOLEAN /\ old.has_entry \in BOOLEAN
  <2>1. old.main = IF takes_entry(i) THEN Entry ELSE Null
    <3>1. Decided(n) /\ modules[n].class = "executable"
      BY <1>1, <1>4, <1>5 DEF RInv, Starts
    <3> QED BY <1>1, <1>5, <3>1 DEF Decided
  <2>2. flag \in BOOLEAN /\ takes_entry(i) \in BOOLEAN
    BY ImageAssumption DEF takes_entry
  <2> QED BY <1>5, <2>1, <2>2 DEF Module
<1>10. StartsOf(n)'
  <2>1. Len(modules') = Len(modules)
    BY <1>5
  <2>2. \A x \in DOMAIN modules : modules'[x].imported = modules[x].imported
    BY <1>1, <1>5, <1>7
  <2>3. Below(n)' = Below(n)
    BY <1>5, <2>1, <2>2, SameTrees
  <2>4. modules'[n].main = main /\ modules'[n].has_entry = old.has_entry
    BY <1>5, <1>7
  <2>5. IF old.has_entry THEN main \in {Entry, Null} ELSE main \in Below(n)
    BY <1>2, <1>4, <1>6, <1>9
  <2> QED BY <2>3, <2>4, <2>5 DEF StartsOf
<1>11. /\ RInv' /\ Tree' = Tree /\ LinkedTree(n)' = Abstract!Linked(i)
       /\ LinkedLibraries' = LinkedLibraries
       /\ LinkedExecutables' = Append(LinkedExecutables, LinkedExecutable(n)')
  <2>1. m.image = Image /\ m.imported = modules[n].imported /\ m.lot = modules[n].lot
    BY <1>1, <1>7
  <2>2. executables' \in {executables, Append(executables, n)}
    BY <1>4
  <2> QED BY <1>1, <1>4, <1>5, <1>7, <1>10, <2>1, <2>2, FinishRefines
<1>12. Matches(n) /\ Kind[i] # "none" /\ \A x \in Range(Abstract!Tree[i]) : Abstract!Complete(x)
  BY <1>1, <1>4, RootIsLinked
<1>13. PICK definers, least : definers = Abstract!Definers(i, "main") /\ least = Min(definers)
  OBVIOUS
<1>14. /\ definers = {} => own = Null
       /\ definers # {} => least \in 1..Len(Tree[n]) /\ own = Tree[n][least] /\ own # Null
  BY <1>1, <1>5, <1>12, <1>13, SearchFinds
<1>15. Abstract!TakesEntry(i) = takes_entry(i) /\ Abstract!Min(definers) = least
  BY <1>13 DEF Abstract!TakesEntry, takes_entry, Abstract!Min, Min
<1>16. Abstract!Loadable("executable", i, flag)
  <2>1. flag \/ takes_entry(i) \/ definers # {}
    BY <1>4, <1>8, <1>14
  <2> QED BY <1>12, <1>13, <1>15, <2>1 DEF Abstract!Loadable, Abstract!Range, Range
<1>17. Position(Tree[n], main) = Abstract!Main(i, flag)
  <2>1. Len(Abstract!Tree[i]) = Len(Tree[n])
    BY <1>5, <1>12, MatchFacts
  <2>2. CASE takes_entry(i)
    <3>1. main = Entry
      BY <1>2, <1>8, <1>9, <2>2
    <3> QED BY <1>5, <1>15, <2>2, <3>1, PositionFacts DEF Abstract!Main
  <2>3. CASE ~takes_entry(i) /\ flag
    <3>1. main = Null
      BY <1>2, <1>8, <1>9, <2>3
    <3>2. Position(Tree[n], Null) = Len(Tree[n]) + 1
      BY <1>5, PositionFacts
    <3> QED BY <1>15, <2>1, <2>3, <3>1, <3>2 DEF Abstract!Main
  <2>4. CASE ~takes_entry(i) /\ ~flag
    <3>1. main = own /\ own # Null
      BY <1>2, <1>4, <1>8, <1>9, <2>4
    <3>2. Position(Tree[n], main) = least
      BY <1>5, <1>14, <3>1, PositionFacts
    <3> QED BY <1>13, <1>15, <2>4, <3>2 DEF Abstract!Main
  <2> QED BY <1>9, <2>2, <2>3, <2>4
<1>18. LinkedExecutable(n)' = [modules |-> Abstract!Linked(i), main |-> Abstract!Main(i, flag)]
  <2>1. Position(Tree[n], modules[n].main)' = Position(Tree[n], main)
    <3>1. modules'[n].main = main
      BY <1>5, <1>7
    <3> QED BY <1>11, <3>1 DEF Position
  <2> QED BY <1>11, <1>17, <2>1 DEF LinkedExecutable
<1>19. /\ Request # Abstract!NoRequest /\ Request.kind = "executable" /\ Request.image = i
       /\ Request' = Abstract!NoRequest
  <2>1. Request' = Abstract!NoRequest
    BY <1>4 DEF Request, Abstract!NoRequest
  <2> QED BY <1>1, <1>4, <1>5, <2>1, RequestFacts
<1> QED BY <1>4, <1>8, <1>11, <1>16, <1>18, <1>19 DEF Abstract!Answer

\* A root is destroyed: what the host still holds stays as it is.
LEMMA DestroyRefines ==
  ASSUME RInv, IInv', NEW r \in Roots, destroy(r), stack' = <<>>,
         stack # <<>> => r = stack[1].module,
         Range(executables)' \subseteq Range(executables)
  PROVE  /\ RInv' /\ Len(modules') = Len(modules)
         /\ \A q \in Listed' : \A x \in Below(q) : modules'[x] = modules[x]
<1>1. /\ IInv /\ modules \in Seq(Module) /\ InOrder /\ r \in DOMAIN modules
      /\ DOMAIN modules = 1..Len(modules) /\ Len(modules) \in Nat
      /\ modules' \in Seq(Module) /\ InOrder' /\ AliveClosed' /\ RootsAlive'
  BY ListsFacts DEF RInv, IInv, Typed
<1>2. modules' = [x \in DOMAIN modules |->
                    IF x \in Below(r)
                    THEN [New("library", NoImage) EXCEPT !.imported = modules[x].imported]
                    ELSE modules[x]]
  BY DEF destroy, Below
<1>3. PICK gone \in Module : gone = New("library", NoImage) /\ gone.image = NoImage
  BY NewFacts
<1>4. DOMAIN modules' = DOMAIN modules /\ Len(modules') = Len(modules)
  <2>1. DOMAIN modules' = DOMAIN modules
    BY <1>2
  <2>2. DOMAIN modules' = 1..Len(modules') /\ Len(modules') \in Nat
    BY <1>1
  <2> QED BY <1>1, <2>1, <2>2
<1>5. ASSUME NEW x \in DOMAIN modules
      PROVE  /\ modules'[x].imported = modules[x].imported
             /\ x \in Below(r) => modules'[x].image = NoImage
             /\ x \notin Below(r) => modules'[x] = modules[x]
  <2>1. CASE x \in Below(r)
    <3>1. modules'[x] = [gone EXCEPT !.imported = modules[x].imported]
      BY <1>2, <1>3, <2>1
    <3> QED BY <1>3, <2>1, <3>1 DEF Module
  <2>2. CASE x \notin Below(r)
    BY <1>2, <2>2
  <2> QED BY <2>1, <2>2
<1>6. /\ \A x \in DOMAIN modules : Tree'[x] = Tree[x] /\ Below(x)' = Below(x)
      /\ Consecutive'
  BY <1>4, <1>5, SameTrees
<1>7. ASSUME NEW x \in Alive'
      PROVE  /\ x \in DOMAIN modules /\ x \in Alive /\ modules'[x] = modules[x] /\ x \notin Below(r)
             /\ ~OnStack(x) /\ Imports(x)' = Imports(x)
  <2>1. x \in DOMAIN modules /\ modules'[x].image # NoImage
    BY <1>4 DEF Alive
  <2>2. x \notin Below(r) /\ modules'[x] = modules[x]
    BY <1>5, <2>1
  <2>3. \A k \in DOMAIN stack : stack[k].module \in Below(r)
    <3>1. ASSUME NEW k \in DOMAIN stack PROVE stack[k].module \in Below(stack[1].module)
      BY <1>1 DEF IInv, Activations, Runs
    <3>2. (\E k \in DOMAIN stack : TRUE) => stack # <<>>
      OBVIOUS
    <3> QED BY <3>1, <3>2
  <2> QED BY <2>1, <2>2, <2>3 DEF Alive, OnStack, Imports
<1>8. /\ \A x : ~OnStack(x)' 
      /\ Current' = {} /\ Unfinished' /\ Bound'
  BY DEF OnStack, Current, Unfinished, Bound
<1>9. Dependencies'
  <2>1. ASSUME NEW x \in Alive'
        PROVE  Len(modules'[x].imported) = Len(Depends[modules'[x].image])
    BY <1>7 DEF RInv, Dependencies
  <2>2. ASSUME NEW x \in Alive', NEW k \in DOMAIN modules'[x].imported
        PROVE  /\ modules'[modules'[x].imported[k]].image = Depends[modules'[x].image][k]
               /\ Kind[Depends[modules'[x].image][k]] \in {"executable", "library"}
    <3>1. modules[x].imported[k] \in Imports(x)'
      BY <1>7 DEF Imports, Range
    <3>2. modules[x].imported[k] \in Alive'
      BY <1>1, <3>1 DEF AliveClosed
    <3>3. modules'[modules[x].imported[k]] = modules[modules[x].imported[k]]
      BY <1>7, <3>2
    <3>4. x \in Alive /\ modules'[x] = modules[x] /\ k \in DOMAIN modules[x].imported
      BY <1>7
    <3> QED BY <3>3, <3>4 DEF RInv, Dependencies
  <2>3. \A k \in DOMAIN stack' : FALSE
    OBVIOUS
  <2> QED BY <1>8, <2>1, <2>2, <2>3 DEF Dependencies
<1>10. Listed' \subseteq Alive'
  BY <1>1 DEF Listed, RootsAlive, Roots
<1>11. Starts'
  <2>1. ASSUME NEW q \in Range(executables)' PROVE StartsOf(q)'
    <3>1. q \in Alive' /\ q \in Range(executables)
      BY <1>10 DEF Listed
    <3>2. modules'[q] = modules[q] /\ Below(q)' = Below(q)
      BY <1>6, <1>7, <3>1
    <3> QED BY <3>1, <3>2 DEF RInv, Starts, StartsOf
  <2> QED BY <2>1 DEF Starts
<1>12. ASSUME NEW q \in Listed', NEW x \in Below(q) PROVE modules'[x] = modules[x]
  <2>1. q \in Alive' /\ q \in DOMAIN modules
    BY <1>7, <1>10
  <2>2. Alive' \in SUBSET DOMAIN modules /\ \A y \in Alive' : Imports(y) \subseteq Alive'
    BY <1>1, <1>7 DEF AliveClosed
  <2>3. Below(q) \subseteq Alive'
    BY <1>1, <2>1, <2>2, BelowFacts
  <2> QED BY <1>7, <2>3
<1> QED BY <1>4, <1>6, <1>8, <1>9, <1>11, <1>12 DEF RInv

\* The host gives up what it loaded.
LEMMA DropRefines ==
  ASSUME RInv, IInv', Drop
  PROVE  RInv' /\ Abstract!Drop
<1>1. /\ stack = <<>> /\ stack' = <<>> /\ result # "undefined" /\ result' = result
      /\ environment' = environment /\ resolver' = resolver
      /\ IInv /\ executables \in Seq(DOMAIN modules) /\ libraries \in Seq(DOMAIN modules)
  BY DEF Drop, Idle, host, RInv, IInv, Typed
<1>2. Request = Abstract!NoRequest /\ Request' = Request
  BY <1>1 DEF Request, Abstract!NoRequest
<1>3. \A r \in Roots : destroy(r) /\ Range(executables)' \subseteq Range(executables) =>
        /\ RInv' /\ Len(modules') = Len(modules) /\ Len(modules) <= Len(modules')
        /\ \A q \in Listed' \cap Listed : \A x \in Below(q) : modules'[x] = modules[x]
  <2>1. Len(modules) \in Nat
    BY <1>1 DEF IInv, Typed
  <2> QED BY <1>1, <2>1, DestroyRefines
<1>4. CASE /\ \E k \in DOMAIN executables :
                /\ executables' = RemoveAt(executables, k)
                /\ destroy(executables[k])
           /\ UNCHANGED libraries
  <2>1. PICK k \in DOMAIN executables :
          executables' = RemoveAt(executables, k) /\ destroy(executables[k])
    BY <1>4
  <2>2. PICK r : r = executables[k]
    OBVIOUS
  <2>3. r \in Roots /\ destroy(r)
    BY <2>1, <2>2 DEF Roots, Range
  <2>4. Range(executables)' \subseteq Range(executables)
    <3>1. \A i \in DOMAIN RemoveAt(executables, k) :
            \E j \in DOMAIN executables : RemoveAt(executables, k)[i] = executables[j]
      BY <1>1, ShorterSeq
    <3> QED BY <2>1, <3>1 DEF Range
  <2>5. /\ RInv' /\ Len(modules) <= Len(modules') /\ libraries' = libraries
        /\ \A q \in Listed' \cap Listed : \A x \in Below(q) : modules'[x] = modules[x]
    BY <1>3, <1>4, <2>3, <2>4
  <2>6. LinkedExecutables' = RemoveAt(LinkedExecutables, k)
    BY <2>1, <2>5, ListsChange
  <2>7. LinkedLibraries' = LinkedLibraries
    BY <2>5, ListsStay
  <2>8. k \in DOMAIN LinkedExecutables
    BY DEF LinkedExecutables
  <2>9. \A s, j : Abstract!RemoveAt(s, j) = RemoveAt(s, j)
    BY DEF RemoveAt, Abstract!RemoveAt
  <2>10. Abstract!Drop
    BY <1>1, <1>2, <2>6, <2>7, <2>8, <2>9 DEF Abstract!Drop, Abstract!Idle
  <2> QED BY <2>5, <2>10
<1>5. CASE /\ \E k \in DOMAIN libraries :
                /\ libraries' = RemoveAt(libraries, k)
                /\ destroy(libraries[k])
           /\ UNCHANGED executables
  <2>1. PICK k \in DOMAIN libraries :
          libraries' = RemoveAt(libraries, k) /\ destroy(libraries[k])
    BY <1>5
  <2>2. PICK r : r = libraries[k]
    OBVIOUS
  <2>3. r \in Roots /\ destroy(r)
    BY <2>1, <2>2 DEF Roots, Range
  <2>4. Range(executables)' \subseteq Range(executables)
    BY <1>5
  <2>5. /\ RInv' /\ Len(modules) <= Len(modules') /\ executables' = executables
        /\ \A q \in Listed' \cap Listed : \A x \in Below(q) : modules'[x] = modules[x]
    BY <1>3, <1>5, <2>3, <2>4
  <2>6. LinkedLibraries' = RemoveAt(LinkedLibraries, k)
    BY <2>1, <2>5, ListsChange
  <2>7. LinkedExecutables' = LinkedExecutables
    BY <2>5, ListsStay
  <2>8. k \in DOMAIN LinkedLibraries
    BY DEF LinkedLibraries
  <2>9. \A s, j : Abstract!RemoveAt(s, j) = RemoveAt(s, j)
    BY DEF RemoveAt, Abstract!RemoveAt
  <2>10. Abstract!Drop
    BY <1>1, <1>2, <2>6, <2>7, <2>8, <2>9 DEF Abstract!Drop, Abstract!Idle
  <2> QED BY <2>5, <2>10
<1> QED BY <1>4, <1>5 DEF Drop

\* A refusal is an answer, when the image cannot be loaded.
LEMMA RefuseRefines ==
  ASSUME RInv, IInv', stack # <<>>, result # "undefined", Refuse,
         \E flag \in FreshEntry : ~Abstract!Loadable(Request.kind, Request.image, flag)
  PROVE  RInv' /\ Abstract!Answer
<1>1. PICK r : r = stack[1].module
  OBVIOUS
<1>2. /\ stack' = <<>> /\ result' = "refused" /\ executables' = executables
      /\ libraries' = libraries /\ environment' = environment /\ resolver' = resolver
      /\ destroy(r) /\ r \in Roots /\ IInv
  BY <1>1 DEF Refuse, host, Roots, Loading, RInv
<1>3. /\ RInv' /\ Len(modules') = Len(modules)
      /\ \A q \in Listed' : \A x \in Below(q) : modules'[x] = modules[x]
  BY <1>1, <1>2, DestroyRefines
<1>4. Len(modules) <= Len(modules')
  BY <1>2, <1>3 DEF IInv, Typed
<1>5. LinkedExecutables' = LinkedExecutables /\ LinkedLibraries' = LinkedLibraries
  BY <1>2, <1>3, <1>4, ListsStay
<1>6. Request # Abstract!NoRequest
  BY <1>2, RequestFacts
<1>7. Request' = Abstract!NoRequest
  BY <1>2 DEF Request, Abstract!NoRequest
<1> QED BY <1>2, <1>3, <1>5, <1>6, <1>7 DEF Abstract!Answer

\* One image of the tree that is not complete is enough to refuse.
LEMMA Unloadable ==
  ASSUME RInv, IInv', stack # <<>>, result # "undefined", Refuse,
         ~Abstract!Complete(Image)
  PROVE  RInv' /\ Abstract!Answer
<1>1. \E x \in Range(Abstract!Tree[Request.image]) : ~Abstract!Complete(x)
  <2>1. Len(stack) \in DOMAIN stack /\ Top = stack[Len(stack)] /\ IInv
    BY TopFacts DEF RInv
  <2>2. Request.image = modules[stack[1].module].image /\ Request.image \in Images
    BY <2>1, RequestFacts
  <2>3. CASE Request.image \in Endless
    <3>1. ~Abstract!Complete(Request.image)
      BY <2>3 DEF Abstract!Complete
    <3> QED BY <2>2, <3>1, PromisedFacts
  <2>4. CASE Request.image \notin Endless
    <3>1. modules[stack[Len(stack)].module].image
            \in Range(Abstract!Tree[modules[stack[1].module].image])
      BY <2>1, <2>2, <2>4, StackInTree
    <3> QED BY <2>1, <2>2, <3>1 DEF Image
  <2> QED BY <2>3, <2>4
<1>2. PICK flag \in FreshEntry : TRUE
  BY ImageAssumption
<1>3. ~Abstract!Loadable(Request.kind, Request.image, flag)
  BY <1>1 DEF Abstract!Loadable, Abstract!Range, Range
<1> QED BY <1>2, <1>3, RefuseRefines

\* The image of a dependency has been seen to be a module, so its header is accepted.
LEMMA HeaderRefused ==
  ASSUME RInv, IInv', At("header"), Kind[Image] = "none", Refuse
  PROVE  RInv' /\ Abstract!Answer
<1>1. stack # <<>> /\ result # "undefined" /\ IInv
  BY DEF At, RInv
<1>2. PICK L : L = Len(stack)
  OBVIOUS
<1>3. L \in Nat \ {0} /\ DOMAIN stack = 1..L /\ Top = stack[L] /\ L \in DOMAIN stack
  BY <1>1, <1>2, TopFacts
<1>4. CASE L = 1
  <2>1. Request.image = Image
    BY <1>1, <1>3, <1>4, RequestFacts DEF Image
  <2>2. PICK flag \in FreshEntry : TRUE
    BY ImageAssumption
  <2>3. ~Abstract!Loadable(Request.kind, Request.image, flag)
    BY <2>1 DEF Abstract!Loadable
  <2> QED BY <1>1, <2>2, <2>3, RefuseRefines
<1>5. CASE L > 1
  <2>1. L - 1 \in DOMAIN stack
    BY <1>3, <1>5
  <2>2. PICK m : m = stack[L - 1].module
    OBVIOUS
  <2>3. m \in Alive
    BY <1>1, <2>1, <2>2, StackFacts
  <2>4. stack[L].module \in Imports(m)
    BY <1>1, <1>3, <1>5, <2>2 DEF IInv, Activations, Runs
  <2>5. PICK k \in DOMAIN modules[m].imported : modules[m].imported[k] = stack[L].module
    BY <2>4 DEF Imports, Range
  <2>6. Kind[Image] \in {"executable", "library"}
    BY <1>3, <2>3, <2>5 DEF RInv, Dependencies, Image
  <2> QED BY <2>6
<1> QED BY <1>3, <1>4, <1>5

\* The resolver has no module of the name of a dependency, or there is no resolver.
LEMMA DependencyRefused ==
  ASSUME RInv, IInv', At("dependencies"), ~IsModule(Dependency), Refuse
  PROVE  RInv' /\ Abstract!Answer
<1>1. stack # <<>> /\ result # "undefined" /\ Top.stage = "dependencies" /\ IInv
  BY DEF At, RInv
<1>2. Top.next \in DOMAIN Depends[Image]
  <2>1. Len(stack) \in DOMAIN stack /\ Top = stack[Len(stack)]
    BY <1>1, TopFacts
  <2> QED BY <1>1, <2>1 DEF IInv, Activations, Runs, Image
<1>3. Depends[Image] # <<>>
  BY <1>2
<1>4. Dependency \in Abstract!Range(Depends[Image])
  BY <1>2 DEF Dependency, Abstract!Range
<1>5. ~Abstract!Complete(Image)
  BY <1>3, <1>4 DEF IsModule, Abstract!IsModule, Abstract!Complete
<1> QED BY <1>1, <1>5, Unloadable

\* A symbol is found neither in the environment nor below the module.
LEMMA SymbolRefused ==
  ASSUME RInv, IInv', At("symbols"), Refuse,
         \E s \in Wants[Image] : find_symbol(Top.module, s) = Null
  PROVE  RInv' /\ Abstract!Answer
<1>1. stack # <<>> /\ result # "undefined" /\ Top.stage = "symbols" /\ IInv
  BY DEF At, RInv
<1>2. PICK n : n = Top.module
  OBVIOUS
<1>3. n \in DOMAIN modules /\ Matches(n) /\ Image = modules[n].image
  <2>1. Matches(Top.module)
    BY <1>1, TopMatches DEF Linking
  <2> QED BY <1>1, <1>2, <2>1, TopFacts DEF Image
<1>4. PICK s \in Wants[Image] : find_symbol(n, s) = Null
  BY <1>2
<1>5. s \notin environment /\ FirstDefining(Tree[n], s) = Null
  BY <1>4 DEF find_symbol, Null, Environment
<1>6. Abstract!Definers(Image, s) = {}
  BY <1>3, <1>5, SearchFinds
<1>7. ~Abstract!Complete(Image)
  BY <1>5, <1>6 DEF Abstract!Complete
<1> QED BY <1>1, <1>7, Unloadable

\* The root has neither an entry point that is taken nor a main.
LEMMA MainRefused ==
  ASSUME RInv, IInv', At("loaded"), Len(stack) = 1, Refuse,
         modules[Top.module].class = "executable", ~modules[Top.module].has_entry,
         FirstDefining(Tree[Top.module], "main") = Null
  PROVE  RInv' /\ Abstract!Answer
<1>1. stack # <<>> /\ result # "undefined" /\ Top.stage = "loaded" /\ IInv
  BY DEF At, RInv
<1>2. PICK n : n = Top.module
  OBVIOUS
<1>3. /\ n \in DOMAIN modules /\ Matches(n) /\ Image = modules[n].image
      /\ n = stack[1].module /\ stack[1].stage = "loaded"
  BY <1>1, <1>2, TopFacts, RootIsLinked DEF Image
<1>4. Request.kind = "executable" /\ Request.image = Image
  BY <1>1, <1>2, <1>3, RequestFacts
<1>5. Decided(n)
  BY <1>1, <1>3 DEF RInv, Starts
<1>6. PICK flag \in FreshEntry : modules[n].has_entry = (flag \/ takes_entry(Image))
  BY <1>2, <1>3, <1>5 DEF Decided
<1>7. ~flag /\ ~takes_entry(Image)
  <2>1. flag \in BOOLEAN
    BY ImageAssumption
  <2>2. takes_entry(Image) \in BOOLEAN
    BY DEF takes_entry
  <2> QED BY <1>2, <1>6, <2>1, <2>2
<1>8. Abstract!Definers(Image, "main") = {}
  BY <1>2, <1>3, SearchFinds
<1>9. ~Abstract!Loadable(Request.kind, Request.image, flag)
  BY <1>4, <1>7, <1>8 DEF Abstract!Loadable, Abstract!TakesEntry, takes_entry
<1> QED BY <1>1, <1>9, RefuseRefines

\* The allocator returns nullptr.
LEMMA OutOfMemoryRefines ==
  ASSUME RInv, IInv', OutOfMemory
  PROVE  RInv' /\ Abstract!Exhaust
<1>1. /\ stack # <<>> /\ result # "undefined" /\ result' = "undefined" /\ MemoryEnds /\ IInv
      /\ UNCHANGED <<modules, stack, executables, libraries>> /\ UNCHANGED host
      /\ environment' = environment /\ resolver' = resolver
  BY DEF OutOfMemory, At, host, RInv
<1>2. RInv' /\ UNCHANGED <<LinkedExecutables, LinkedLibraries, Request>>
  BY <1>1, QuietRefines
<1>3. Len(stack) \in DOMAIN stack /\ Top = stack[Len(stack)] /\ Image \in Images
  BY <1>1, TopFacts
<1>4. Image \in Allocating
  <2>1. CASE At("header") /\ HeaderBlocks # {}
    <3>1. Slots(Image) # {} \/ Image \in HasInit
      BY <2>1 DEF HeaderBlocks, lot_size
    <3> QED BY <1>1, <1>3, <3>1 DEF Allocating
  <2>2. CASE At("modules")
    <3>1. Depends[Image] # <<>>
      BY <1>1, <1>3, <2>2 DEF At, IInv, Activations, Runs, Image
    <3> QED BY <1>1, <1>3, <3>1 DEF Allocating
  <2>3. CASE At("dependencies")
    <3>1. Top.next \in DOMAIN Depends[Image]
      BY <1>1, <1>3, <2>3 DEF At, IInv, Activations, Runs, Image
    <3>2. Depends[Image] # <<>>
      BY <3>1
    <3> QED BY <1>1, <1>3, <3>2 DEF Allocating
  <2>4. CASE At("data") /\ Image \in HasData
    BY <1>1, <1>3, <2>4 DEF Allocating
  <2> QED BY <2>1, <2>2, <2>3, <2>4 DEF OutOfMemory
<1>5. /\ Request # Abstract!NoRequest /\ Request.image = modules[stack[1].module].image
      /\ Request.image \in Images
  BY <1>1, RequestFacts
<1>6. \E x \in Range(Abstract!Tree[Request.image]) : x \in Allocating
  <2>1. CASE Request.image \in Endless
    <3>1. PICK k \in Abstract!Followed(Request.image) : TRUE
      BY <1>5, <2>1, EndlessCalls
    <3>2. Depends[Request.image] # <<>>
      BY <1>5, <3>1, FollowedIsCalled
    <3>3. Request.image \in Allocating
      BY <1>1, <1>5, <3>2 DEF Allocating
    <3> QED BY <1>5, <3>3, PromisedFacts
  <2>2. CASE Request.image \notin Endless
    <3>1. modules[stack[Len(stack)].module].image
            \in Range(Abstract!Tree[modules[stack[1].module].image])
      BY <1>1, <1>3, <1>5, <2>2, StackInTree
    <3> QED BY <1>3, <1>4, <1>5, <3>1 DEF Image
  <2> QED BY <2>1, <2>2
<1> QED BY <1>1, <1>2, <1>5, <1>6 DEF Abstract!Exhaust, Range, Abstract!Range

\* The host registers an environment or a file resolver.
LEMMA ProvideRefines ==
  ASSUME RInv, IInv', Idle, UNCHANGED <<modules, stack, executables, libraries, result>>
  PROVE  RInv' /\ Abstract!Provide
<1>1. /\ stack = <<>> /\ result # "undefined" /\ result' = result
      /\ environment' \in Environments /\ resolver' \in BOOLEAN
  BY DEF Idle, IInv, Typed
<1>2. RInv' /\ UNCHANGED <<LinkedExecutables, LinkedLibraries, Request>>
  BY <1>1, QuietRefines
<1>3. Request = Abstract!NoRequest
  BY <1>1 DEF Request, Abstract!NoRequest
<1> QED BY <1>1, <1>2, <1>3 DEF Abstract!Provide, Abstract!Idle

\* Executable::execute
LEMMA ExecuteRefines ==
  ASSUME RInv, IInv', NEW n \in Range(executables), NEW arguments \in BOOLEAN,
         Execute(n, arguments)
  PROVE  RInv' /\ Abstract!Execute(arguments)
<1>1. /\ stack = <<>> /\ result # "undefined" /\ IInv /\ result' = execute(n, arguments)
      /\ UNCHANGED <<modules, stack, executables, libraries>> /\ UNCHANGED host
      /\ environment' = environment /\ resolver' = resolver
  BY DEF Execute, Idle, host, RInv
<1>2. RInv' /\ UNCHANGED <<LinkedExecutables, LinkedLibraries, Request>>
  BY <1>1, QuietRefines
<1>3. Request = Abstract!NoRequest
  BY <1>1 DEF Request, Abstract!NoRequest
<1>4. PICK k \in DOMAIN executables : executables[k] = n
  BY DEF Range
<1>5. PICK m, last : m = modules[n] /\ last = Len(Tree[n])
  OBVIOUS
<1>6. n \in DOMAIN modules /\ last \in Nat /\ DOMAIN Tree[n] = 1..last /\ Below(n) \subseteq Nat \ {0}
  <2>1. n \in DOMAIN modules
    BY <1>1, ListsFacts
  <2>2. Below(n) = n..n + Len(Tree[n]) - 1 /\ n \in Nat /\ n # 0 /\ Len(Tree[n]) \in Nat
    BY <2>1, TreeFacts
  <2>3. Below(n) \subseteq Nat \ {0}
    BY <2>2
  <2> QED BY <1>5, <2>1, <2>3, TreeFacts
<1>7. PICK main, domain : /\ main = LinkedExecutables[k].main
                          /\ domain = DOMAIN LinkedExecutables[k].modules
  OBVIOUS
<1>8. /\ k \in DOMAIN LinkedExecutables /\ domain = 1..last
      /\ main = Position(Tree[n], m.main)
  BY <1>4, <1>5, <1>6, <1>7 DEF LinkedExecutables, LinkedExecutable, LinkedTree
<1>9. IF m.has_entry THEN m.main \in {Entry, Null} ELSE m.main \in Below(n)
  BY <1>5 DEF RInv, Starts, StartsOf
<1>10. /\ m.main = Entry => main = 0
       /\ m.main = Null => main = last + 1
       /\ m.main \in Below(n) => main \in 1..last
  BY <1>5, <1>6, <1>8, PositionFacts
<1>11. m.has_entry \in BOOLEAN
  <2>1. modules \in Seq(Module) /\ n \in DOMAIN modules
    BY <1>1, <1>6 DEF IInv, Typed
  <2>2. m \in Module
    BY <1>5, <2>1, ElementOfSeq
  <2> QED BY <2>2 DEF Module
<1>12. execute(n, arguments) = CASE main \in domain -> "main"
                                 [] main \notin domain /\ arguments -> "error"
                                 [] main = 0 /\ ~arguments -> "entry"
                                 [] OTHER -> "undefined"
  <2>1. CASE ~m.has_entry
    <3>1. m.main # Null /\ main \in domain
      BY <1>6, <1>8, <1>9, <1>10, <2>1 DEF Null
    <3>2. main # 0
      BY <1>8, <3>1
    <3> QED BY <1>5, <2>1, <3>1, <3>2 DEF execute
  <2>2. CASE m.has_entry
    <3>1. main \notin domain
      BY <1>6, <1>8, <1>9, <1>10, <2>2
    <3>2. main = 0 <=> m.main # Null
      BY <1>6, <1>9, <1>10, <2>2 DEF Null, Entry
    <3> QED BY <1>5, <2>2, <3>1, <3>2 DEF execute
  <2> QED BY <1>11, <2>1, <2>2
<1> QED BY <1>1, <1>2, <1>3, <1>7, <1>8, <1>12 DEF Abstract!Execute, Abstract!Idle

\* SymbolGet::get_symbol
LEMMA GetSymbolRefines ==
  ASSUME RInv, IInv', NEW n \in Range(libraries), NEW s, get_symbol(n, s)
  PROVE  RInv' /\ Abstract!GetSymbol(s)
<1>1. /\ stack = <<>> /\ result # "undefined" /\ IInv
      /\ result' = IF FirstDefining(Tree[n], s) = Null THEN "missing" ELSE "found"
      /\ UNCHANGED <<modules, stack, executables, libraries>> /\ UNCHANGED host
      /\ environment' = environment /\ resolver' = resolver
  BY DEF get_symbol, Idle, host, RInv
<1>2. RInv' /\ UNCHANGED <<LinkedExecutables, LinkedLibraries, Request>>
  BY <1>1, QuietRefines
<1>3. Request = Abstract!NoRequest
  BY <1>1 DEF Request, Abstract!NoRequest
<1>4. PICK k \in DOMAIN libraries : libraries[k] = n
  BY DEF Range
<1>5. n \in DOMAIN modules /\ n \in Alive /\ ~OnStack(n)
  BY <1>1, ListsFacts DEF OnStack, Roots
<1>6. Matches(n)
  BY <1>5, LoadedMatches
<1>7. 1 \in DOMAIN Tree[n] /\ Tree[n][1] = n
  <2>1. PICK last : last = Len(Tree[n])
    OBVIOUS
  <2>2. /\ last \in Nat \ {0} /\ DOMAIN Tree[n] = 1..last /\ n \in Nat
        /\ \A j \in 1..last : Tree[n][j] = n + j - 1
    BY <1>5, <2>1, TreeFacts
  <2>3. 1 \in 1..last
    BY <2>2
  <2> QED BY <2>2, <2>3
<1>8. k \in DOMAIN LinkedLibraries /\ LinkedLibraries[k].modules[1].image = modules[n].image
  BY <1>4, <1>7 DEF LinkedLibraries, LinkedLibrary, LinkedTree
<1>9. FirstDefining(Tree[n], s) = Null <=> Abstract!Definers(modules[n].image, s) = {}
  BY <1>5, <1>6, SearchFinds
<1> QED BY <1>1, <1>2, <1>3, <1>8, <1>9 DEF Abstract!GetSymbol, Abstract!Idle

\* Before anything is loaded, nothing is, in the abstract either.
LEMMA InitRefines == Init => RInv /\ Abstract!Init
<1> SUFFICES ASSUME Init PROVE RInv /\ Abstract!Init
  OBVIOUS
<1>1. /\ environment = {} /\ resolver = FALSE /\ modules = <<>> /\ stack = <<>>
      /\ executables = <<>> /\ libraries = <<>> /\ result = "none"
  BY DEF Init
<1>2. DOMAIN modules = {} /\ DOMAIN stack = {} /\ Range(executables) = {}
  BY <1>1 DEF Range
<1>3. Alive = {} /\ Current = {}
  BY <1>2 DEF Alive, Current
<1>4. Consecutive /\ Unfinished /\ Dependencies /\ Bound /\ Starts
  BY <1>1, <1>2, <1>3 DEF Consecutive, Unfinished, Dependencies, Bound, Starts
<1>5. LinkedExecutables = <<>> /\ LinkedLibraries = <<>>
  BY <1>1 DEF LinkedExecutables, LinkedLibraries
<1>6. Request = Abstract!NoRequest
  BY <1>1 DEF Request, Abstract!NoRequest
<1> QED BY <1>1, <1>4, <1>5, <1>6, InitInv DEF RInv, Abstract!Init

\* Every step of load_module is a stutter, or the answer.
LEMMA StepRefines ==
  ASSUME RInv, IInv', Step
  PROVE  RInv' /\ (Abstract!Answer \/ UNCHANGED Abstract!vars)
<1>1. CASE ProcessHeader
  <2>1. CASE Refuse
    <3>1. At("header") /\ Kind[Image] = "none"
      <4>1. ASSUME Kind[Image] # "none" PROVE FALSE
        <5>1. stack' # <<>>
          BY <1>1, <4>1, GotoFacts DEF ProcessHeader, At, RInv, IInv, Typed, Stages
        <5> QED BY <2>1, <5>1 DEF Refuse
      <4> QED BY <1>1, <4>1 DEF ProcessHeader
    <3> QED BY <2>1, <3>1, HeaderRefused
  <2> QED BY <1>1, <2>1, ProcessHeaderRefines
<1>2. CASE LoadDependency
  <2>1. CASE Refuse
    <3>1. At("dependencies") /\ ~IsModule(Dependency)
      <4>1. ASSUME IsModule(Dependency) PROVE FALSE
        <5>1. stack' # <<>>
          BY <1>2, <4>1 DEF LoadDependency
        <5> QED BY <2>1, <5>1 DEF Refuse
      <4> QED BY <1>2, <4>1 DEF LoadDependency
    <3> QED BY <2>1, <3>1, DependencyRefused
  <2> QED BY <1>2, <2>1, LoadDependencyRefines
<1>3. CASE ProcessSymbols
  <2>1. CASE Refuse
    <3>1. At("symbols") /\ \E s \in Wants[Image] : find_symbol(Top.module, s) = Null
      <4>1. ASSUME \A s \in Wants[Image] : find_symbol(Top.module, s) # Null PROVE FALSE
        <5>1. stack' # <<>>
          BY <1>3, <4>1, GotoFacts DEF ProcessSymbols, At, RInv, IInv, Typed, Stages
        <5> QED BY <2>1, <5>1 DEF Refuse
      <4> QED BY <1>3, <4>1 DEF ProcessSymbols
    <3> QED BY <2>1, <3>1, SymbolRefused
  <2> QED BY <1>3, <2>1, ProcessSymbolsRefines
<1>4. CASE FinishExecutable
  <2>1. CASE Refuse
    <3>1. /\ At("loaded") /\ Len(stack) = 1 /\ modules[Top.module].class = "executable"
          /\ ~modules[Top.module].has_entry
          /\ FirstDefining(Tree[Top.module], "main") = Null
      <4>1. result' = "refused"
        BY <2>1 DEF Refuse
      <4> QED BY <1>4, <4>1 DEF FinishExecutable
    <3> QED BY <2>1, <3>1, MainRefused
  <2> QED BY <1>4, <2>1, FinishExecutableRefines
<1> QED BY <1>1, <1>2, <1>3, <1>4, AllocateModulesRefines, ProcessDataRefines,
           ProcessRelocationsRefines, ReturnRefines, FinishLibraryRefines DEF Step

\* Every step of the system is one of the abstract specification, or a stutter.
LEMMA NextRefines ==
  ASSUME RInv, [Next]_vars
  PROVE  RInv' /\ [Abstract!Next]_(Abstract!vars)
<1>1. IInv'
  BY NextKeeps DEF RInv
<1>2. ASSUME NEW kind \in {"executable", "library"}, NEW i \in Images, Begin(kind, i)
      PROVE  RInv' /\ Abstract!Next
  <2>1. RInv' /\ Abstract!Ask(kind, i)
    BY <1>1, <1>2, BeginRefines
  <2> QED BY <2>1 DEF Abstract!Next
<1>3. ASSUME NEW symbols \in Environments, set_environment(symbols)
      PROVE  RInv' /\ Abstract!Next
  <2>1. RInv' /\ Abstract!Provide
    BY <1>1, <1>3, ProvideRefines DEF set_environment
  <2> QED BY <2>1 DEF Abstract!Next
<1>4. ASSUME NEW set \in BOOLEAN, register_file_resolver(set)
      PROVE  RInv' /\ Abstract!Next
  <2>1. RInv' /\ Abstract!Provide
    BY <1>1, <1>4, ProvideRefines DEF register_file_resolver
  <2> QED BY <2>1 DEF Abstract!Next
<1>5. ASSUME NEW n \in Range(executables), NEW arguments \in BOOLEAN, Execute(n, arguments)
      PROVE  RInv' /\ Abstract!Next
  <2>1. RInv' /\ Abstract!Execute(arguments)
    BY <1>1, <1>5, ExecuteRefines
  <2> QED BY <2>1 DEF Abstract!Next
<1>6. ASSUME NEW n \in Range(libraries), NEW s \in Sought, get_symbol(n, s)
      PROVE  RInv' /\ Abstract!Next
  <2>1. RInv' /\ Abstract!GetSymbol(s)
    BY <1>1, <1>6, GetSymbolRefines
  <2> QED BY <2>1 DEF Abstract!Next
<1>7. CASE Step
  <2>1. RInv' /\ (Abstract!Answer \/ UNCHANGED Abstract!vars)
    BY <1>1, <1>7, StepRefines
  <2> QED BY <2>1 DEF Abstract!Next
<1>8. CASE OutOfMemory
  <2>1. RInv' /\ Abstract!Exhaust
    BY <1>1, <1>8, OutOfMemoryRefines
  <2> QED BY <2>1 DEF Abstract!Next
<1>9. CASE Drop
  <2>1. RInv' /\ Abstract!Drop
    BY <1>1, <1>9, DropRefines
  <2> QED BY <2>1 DEF Abstract!Next
<1>10. CASE UNCHANGED vars
  <2>1. /\ UNCHANGED <<modules, stack, executables, libraries>> /\ UNCHANGED host
        /\ result' = result /\ environment' = environment /\ resolver' = resolver
    BY <1>10 DEF vars, host
  <2>2. RInv' /\ UNCHANGED <<LinkedExecutables, LinkedLibraries, Request>>
    BY <1>1, <2>1, QuietRefines
  <2> QED BY <2>1, <2>2 DEF Abstract!vars
<1> QED BY <1>2, <1>3, <1>4, <1>5, <1>6, <1>7, <1>8, <1>9, <1>10 DEF Next

-----------------------------------------------------------------------------
\* Whatever the images are, with cycles of dependencies or without, what the loader does
\* for its host is what AbstractLoader says: the requests it accepts, what it links, what
\* the answers to execute and get_symbol are, and that what is loaded stays as it is
\* (load_executable, load_library, load_module).
THEOREM LoadsAsPromised == Spec => ImplementsLoading
<1>1. Init => RInv /\ Abstract!Init
  BY InitRefines
<1>2. RInv /\ [Next]_vars => RInv' /\ [Abstract!Next]_(Abstract!vars)
  BY NextRefines
<1> QED BY <1>1, <1>2, PTL DEF Spec, Abstract!Spec, ImplementsLoading
===============================================================================
