---------------------------- MODULE CallGateProofs ----------------------------
(***************************************************************************)
(* Theorems about CallGate, for every set of images and instances, every   *)
(* tree of imports and every depth: first what holds whatever clients do,  *)
(* then what holds when they only call what they import (Practices = {}),  *)
(* last that the call gates implement AbstractCalls.                       *)
(***************************************************************************)
EXTENDS CallGate, SequenceLemmas, TLAPS

-----------------------------------------------------------------------------
(***************************************************************************)
(* Searches.                                                               *)
(***************************************************************************)

\* A search returns the first member that matches, or nullptr when none does.
LEMMA FirstInIsFirst ==
  ASSUME NEW T, NEW seq \in Seq(T), NEW S
  PROVE  \/ FirstIn(seq, S) = NoModule /\ \A k \in DOMAIN seq : seq[k] \notin S
         \/ \E k \in DOMAIN seq : /\ FirstIn(seq, S) = seq[k]
                                  /\ seq[k] \in S
                                  /\ \A j \in 1..k - 1 : seq[j] \notin S
<1> DEFINE hits == {k \in DOMAIN seq : seq[k] \in S}
<1>1. CASE hits = {}
  BY <1>1 DEF FirstIn
<1>2. CASE hits # {}
  <2>1. hits \in SUBSET Nat /\ DOMAIN seq = 1..Len(seq) /\ Len(seq) \in Nat
    OBVIOUS
  <2>2. Min(hits) \in hits /\ \A x \in hits : Min(hits) <= x
    BY <1>2, <2>1, MinIsLeast
  <2>3. FirstIn(seq, S) = seq[Min(hits)]
    BY <1>2, Zenon DEF FirstIn
  <2>4. \A j \in 1..Min(hits) - 1 : seq[j] \notin S
    <3>1. SUFFICES ASSUME NEW j \in 1..Min(hits) - 1, seq[j] \in S
                   PROVE  FALSE
      OBVIOUS
    <3>2. Min(hits) \in 1..Len(seq)
      BY <2>1, <2>2
    <3> HIDE DEF hits
    <3>3. j \in 1..Len(seq) /\ j < Min(hits)
      BY <2>1, <3>2
    <3>4. j \in hits
      BY <2>1, <3>1, <3>3 DEF hits
    <3>5. Min(hits) <= j
      BY <2>2, <3>4
    <3> QED BY <3>2, <3>3, <3>5
  <2> QED BY <2>2, <2>3, <2>4
<1> QED BY <1>1, <1>2

\* An instance found in the loaded modules is one of them and matches.
LEMMA FoundIsLoaded ==
  ASSUME TypeOK, NEW S
  PROVE  \/ /\ FirstLoaded(S) = NoModule
            /\ \A x \in S : ~ IsLoaded(x)
         \/ /\ FirstLoaded(S) \in S \cap Instances
            /\ IsLoaded(FirstLoaded(S))
<1> DEFINE holding == {m \in Roots : Range(Tree[m]) \cap S # {}}
           root == FirstIn(Loaded, holding)
<1>1. Loaded \in Seq(Roots) /\ NoModule \notin Roots /\ Roots \subseteq Instances
  BY KindAssumption DEF Loaded, TypeOK, Roots
<1>2. CASE root = NoModule
  <2>1. \A k \in DOMAIN Loaded : Loaded[k] \notin holding
    BY <1>1, <1>2, FirstInIsFirst
  <2>2. \A k \in DOMAIN Loaded : Range(Tree[Loaded[k]]) \cap S = {}
    BY <1>1, <2>1
  <2> QED BY <1>2, <2>2 DEF FirstLoaded, IsLoaded
<1>3. CASE root # NoModule
  <2>1. PICK k \in DOMAIN Loaded : root = Loaded[k] /\ Loaded[k] \in holding
    BY <1>1, <1>3, FirstInIsFirst
  <2>2. Tree[root] \in Seq(Instances) /\ Range(Tree[root]) \cap S # {}
    BY <1>1, <2>1, TreeAssumption
  <2>3. \E j \in DOMAIN Tree[root] : Tree[root][j] \in S
    BY <2>2 DEF Range
  <2>4. PICK j \in DOMAIN Tree[root] : /\ FirstIn(Tree[root], S) = Tree[root][j]
                                       /\ Tree[root][j] \in S
    BY <2>2, <2>3, FirstInIsFirst
  <2>5. FirstLoaded(S) = Tree[root][j]
    BY <1>3, <2>4 DEF FirstLoaded
  <2>6. Tree[root][j] \in Instances
    BY <2>2
  <2>7. IsLoaded(Tree[root][j])
    BY <2>1 DEF IsLoaded, Range
  <2> QED BY <2>4, <2>5, <2>6, <2>7
<1> QED BY <1>2, <1>3

\* What the searches of the two supervisor calls can return.
LEMMA FoundModule ==
  ASSUME TypeOK, NEW image, NEW lot
  PROVE  /\ find_module_for_pc_and_lot(image, lot) \in Instances \cup {NoModule}
         /\ find_active_module(image) # NoModule =>
              /\ find_active_module(image) \in Instances
              /\ active[find_active_module(image)]
<1>1. find_active_module(image) # NoModule =>
        find_active_module(image) \in {m \in InstancesOf(image) : active[m]} \cap Instances
  BY FoundIsLoaded DEF find_active_module
<1>2. find_module_with_lot(lot) \in Instances \cup {NoModule}
  <2>1. AtLot(lot) \subseteq Instances
    BY DEF AtLot
  <2> QED BY <2>1, FoundIsLoaded DEF find_module_with_lot
<1>3. Loaded \in Seq(Instances)
  BY KindAssumption DEF Loaded, TypeOK, Roots
<1>4. ASSUME NEW seq \in Seq(Instances)
      PROVE  FirstIn(seq, InstancesOf(image)) \in Instances \cup {NoModule}
  BY FirstInIsFirst
<1>5. \A m \in Instances : Tree[m] \in Seq(Instances)
  BY TreeAssumption
<1> QED BY <1>1, <1>2, <1>3, <1>4, <1>5 DEF find_module_for_pc_and_lot
-----------------------------------------------------------------------------
(***************************************************************************)
(* The inductive invariant that holds whatever clients do.  ContextIsLive  *)
(* relates a context to the caller's r9 in its activation; CallersOnOwnLot *)
(* says that this r9 is the one the caller has to have back.               *)
(***************************************************************************)
Inv == TypeOK /\ RunsOnOwnLot /\ CallersOnOwnLot /\ ContextIsLive

LEMMA InitInv == Init => Inv
<1> SUFFICES ASSUME Init PROVE Inv
  OBVIOUS
<1>1. TypeOK
  BY KindAssumption DEF Init, TypeOK, Registers, Context, Indeterminate, Depth
<1>2. RunsOnOwnLot
  BY DEF Init, RunsOnOwnLot, Own, Depth
<1>3. CallersOnOwnLot
  BY DEF Init, CallersOnOwnLot
<1>4. ContextIsLive
  BY DEF Init, ContextIsLive
<1> QED BY <1>1, <1>2, <1>3, <1>4 DEF Inv

\* A call adds an activation on top of unchanged ones.
LEMMA PushActivation ==
  ASSUME Inv, control = "running", Depth < MaxDepth,
         NEW kind \in {"gate", "main", "plain"},
         NEW code \in Instances \cup {Host},
         NEW bound \in Instances \cup {Host},
         kind = "plain" <=> code = Host,
         Push(kind, code, bound)
  PROVE  /\ frames' \in Seq(Frame)
         /\ Depth \in Nat
         /\ Depth' = Depth + 1
         /\ DOMAIN frames = 1..Depth /\ DOMAIN frames' = 1..Depth + 1
         /\ \A k \in DOMAIN frames : frames'[k] = frames[k]
         /\ frames'[Depth + 1] =
              [kind |-> kind, code |-> code, bound |-> bound, r9 |-> r9]
         /\ (Own(Depth))' = IF kind = "plain" THEN r9 ELSE code
         /\ CallersOnOwnLot'
<1> DEFINE e == [kind |-> kind, code |-> code, bound |-> bound, r9 |-> r9]
<1>1. frames \in Seq(Frame) /\ r9 = Own(Depth)
  BY DEF Inv, TypeOK, RunsOnOwnLot
<1>2. Depth \in Nat /\ DOMAIN frames = 1..Depth
  BY <1>1 DEF Depth
<1>3. \A k \in DOMAIN frames : frames[k] \in Frame
  BY <1>1
<1>4. r9 \in Instances \cup {Host}
  BY <1>1, <1>2, <1>3 DEF Own, Frame
<1>5. e \in Frame
  BY <1>4 DEF Frame
<1>6. /\ frames' \in Seq(Frame) /\ Depth' = Depth + 1
      /\ DOMAIN frames' = 1..Depth + 1
      /\ \A k \in DOMAIN frames : frames'[k] = frames[k]
      /\ frames'[Depth + 1] = e
  <2> HIDE DEF e
  <2>1. frames' = Append(frames, e)
    BY DEF Push, e
  <2> QED BY <1>1, <1>2, <1>5, <2>1, PushIsAppend DEF Depth
<1>7. (Own(Depth))' = IF kind = "plain" THEN r9 ELSE code
  BY <1>2, <1>6 DEF Own
<1>8. \A k \in 0..Depth : Own(k)' = Own(k)
  BY <1>2, <1>6 DEF Own
<1>9. CallersOnOwnLot'
  <2>1. SUFFICES ASSUME NEW k \in 1..Depth + 1
                 PROVE  /\ frames'[k].r9 = Own(k - 1)'
                        /\ frames'[k].kind = "plain" <=> frames'[k].code = Host
    BY <1>6 DEF CallersOnOwnLot, Own
  <2>2. Own(k - 1)' = Own(k - 1)
    BY <1>2, <1>8
  <2>3. CASE k \in 1..Depth
    BY <1>2, <1>6, <2>2, <2>3 DEF Inv, CallersOnOwnLot
  <2>4. CASE k = Depth + 1
    BY <1>1, <1>2, <1>6, <2>2, <2>4
  <2> QED BY <1>2, <2>3, <2>4
<1> QED BY <1>2, <1>6, <1>7, <1>9

\* A return uncovers the activation of the caller, whose r9 the topmost kept.
LEMMA PopActivation ==
  ASSUME Inv, frames # <<>>, frames' = Front(frames)
  PROVE  /\ frames' \in Seq(Frame)
         /\ Depth \in Nat \ {0}
         /\ Depth' = Depth - 1
         /\ DOMAIN frames = 1..Depth /\ DOMAIN frames' = 1..Depth - 1
         /\ \A k \in DOMAIN frames' : frames'[k] = frames[k]
         /\ Top = frames[Depth] /\ Top \in Frame
         /\ (Own(Depth))' = Top.r9
         /\ CallersOnOwnLot'
<1>1. frames \in Seq(Frame)
  BY DEF Inv, TypeOK
<1>2. /\ frames' \in Seq(Frame) /\ Depth \in Nat \ {0} /\ Depth' = Depth - 1
      /\ \A k \in 1..Depth - 1 : frames'[k] = frames[k]
      /\ Top = frames[Depth] /\ Top \in Frame
  BY <1>1, PopIsFront DEF Depth, Top
<1>3. DOMAIN frames = 1..Depth /\ DOMAIN frames' = 1..Depth - 1
  BY <1>1, <1>2 DEF Depth
<1>4. \A k \in 0..Depth - 1 : Own(k)' = Own(k)
  BY <1>2, <1>3 DEF Own
<1>5. (Own(Depth))' = Top.r9
  <2>1. (Own(Depth))' = Own(Depth - 1)
    BY <1>2, <1>3 DEF Own
  <2>2. Top.r9 = Own(Depth - 1)
    BY <1>2, <1>3 DEF Inv, CallersOnOwnLot
  <2> QED BY <2>1, <2>2
<1>6. CallersOnOwnLot'
  <2>1. SUFFICES ASSUME NEW k \in 1..Depth - 1
                 PROVE  /\ frames'[k].r9 = Own(k - 1)'
                        /\ frames'[k].kind = "plain" <=> frames'[k].code = Host
    BY <1>3 DEF CallersOnOwnLot, Own
  <2>2. Own(k - 1)' = Own(k - 1)
    BY <1>2, <1>4
  <2> QED BY <1>2, <1>3, <2>2 DEF Inv, CallersOnOwnLot
<1> QED BY <1>2, <1>3, <1>5, <1>6

\* Loading and dropping leave every activation alone.
LEMMA SameActivations ==
  ASSUME Inv, UNCHANGED <<frames, r9, control>>
  PROVE  /\ RunsOnOwnLot' /\ CallersOnOwnLot'
         /\ frames' \in Seq(Frame) /\ Depth' <= MaxDepth
         /\ r9' \in Registers /\ control' \in {"running", "lost"}
BY DEF Inv, TypeOK, RunsOnOwnLot, CallersOnOwnLot, Own, Depth

LEMMA LoadInv ==
  ASSUME Inv, NEW m, Construct(m), UNCHANGED <<frames, r9, control>>,
         executables' \in Seq(Executables), libraries' \in Seq(Libraries)
  PROVE  Inv'
<1>1. active' \in [Instances -> BOOLEAN]
  BY DEF Construct, Inv, TypeOK
<1>2. ctx' \in [Instances -> Context]
  BY DEF Construct, Inv, TypeOK, Context
<1>3. ContextIsLive'
  <2>1. \A x \in Instances : active'[x] => active[x] /\ ctx'[x] = ctx[x]
    BY DEF Construct
  <2> QED BY <2>1 DEF Inv, ContextIsLive
<1> QED BY <1>1, <1>2, <1>3, SameActivations DEF Inv, TypeOK

\* Calls that touch neither a context nor an active flag.
LEMMA PlainCallInv ==
  ASSUME Inv, control = "running", Depth < MaxDepth,
         UNCHANGED <<executables, libraries, active, ctx, control>>,
         NEW kind \in {"main", "plain"},
         NEW code \in Instances \cup {Host},
         kind = "plain" <=> code = Host,
         Push(kind, code, code),
         r9' = IF kind = "plain" THEN r9 ELSE code
  PROVE  Inv'
<1>1. /\ frames' \in Seq(Frame) /\ Depth \in Nat /\ Depth' = Depth + 1
      /\ DOMAIN frames = 1..Depth /\ DOMAIN frames' = 1..Depth + 1
      /\ \A k \in DOMAIN frames : frames'[k] = frames[k]
      /\ (Own(Depth))' = r9'
      /\ CallersOnOwnLot'
  BY PushActivation
<1>2. RunsOnOwnLot'
  BY <1>1 DEF RunsOnOwnLot
<1>3. r9' \in Registers
  BY DEF Inv, TypeOK, Registers
<1>4. TypeOK'
  BY <1>1, <1>3, KindAssumption DEF Inv, TypeOK
<1>5. ContextIsLive'
  <2>1. SUFFICES ASSUME NEW y \in Instances, active'[y]
                 PROVE  \E k \in DOMAIN frames' :
                          /\ frames'[k].kind = "gate" /\ frames'[k].code = y
                          /\ ctx'[y] = [r9 |-> frames'[k].r9, lr |-> k - 1]
    BY DEF ContextIsLive
  <2>2. PICK k \in DOMAIN frames :
          /\ frames[k].kind = "gate" /\ frames[k].code = y
          /\ ctx[y] = [r9 |-> frames[k].r9, lr |-> k - 1]
    BY <2>1 DEF Inv, ContextIsLive
  <2>3. k \in DOMAIN frames' /\ frames'[k] = frames[k]
    BY <1>1
  <2> QED BY <2>2, <2>3
<1> QED BY <1>1, <1>2, <1>4, <1>5 DEF Inv

\* The entry supervisor call.
LEMMA EnterInv ==
  ASSUME Inv, control = "running", NEW x \in Instances, Enter(x)
  PROVE  Inv'
<1> DEFINE m == find_module_for_pc_and_lot(ImageOf[x], r9)
<1>1. m \in Instances \cup {NoModule}
  BY FoundModule DEF Inv
<1>2. CASE m = NoModule
  <2>1. /\ UNCHANGED <<executables, libraries, active, ctx, frames>>
        /\ r9' = NoModule /\ control' = "lost"
    BY <1>2 DEF Enter
  <2>2. TypeOK' /\ RunsOnOwnLot'
    BY <2>1 DEF Inv, TypeOK, Registers, RunsOnOwnLot, Depth
  <2>3. CallersOnOwnLot'
    BY <2>1 DEF Inv, CallersOnOwnLot, Own
  <2>4. ContextIsLive'
    BY <2>1 DEF Inv, ContextIsLive
  <2> QED BY <2>2, <2>3, <2>4 DEF Inv
<1>3. CASE m # NoModule
  <2>1. /\ Depth < MaxDepth /\ UNCHANGED <<executables, libraries, control>>
        /\ ctx' = [ctx EXCEPT ![m] = [r9 |-> r9, lr |-> Depth]]
        /\ active' = [active EXCEPT ![m] = TRUE]
        /\ Push("gate", m, x)
        /\ r9' = m
    BY <1>3 DEF Enter, save_caller_state, set_active
  <2>2. m \in Instances
    BY <1>1, <1>3
  <2> HIDE DEF m
  <2>3. m # Host
    BY <2>2, KindAssumption
  <2>4. /\ frames' \in Seq(Frame) /\ Depth \in Nat /\ Depth' = Depth + 1
        /\ DOMAIN frames = 1..Depth /\ DOMAIN frames' = 1..Depth + 1
        /\ \A k \in DOMAIN frames : frames'[k] = frames[k]
        /\ frames'[Depth + 1] = [kind |-> "gate", code |-> m, bound |-> x, r9 |-> r9]
        /\ (Own(Depth))' = m
        /\ CallersOnOwnLot'
    BY <2>1, <2>2, <2>3, PushActivation
  <2>5. RunsOnOwnLot'
    BY <2>1, <2>4 DEF RunsOnOwnLot
  <2>6. r9 \in Instances \cup {Host}
    <3>1. frames'[Depth + 1] \in Frame
      BY <2>4
    <3> QED BY <2>4, <3>1 DEF Frame
  <2>7. [r9 |-> r9, lr |-> Depth] \in Context
    BY <2>1, <2>4, <2>6, KindAssumption DEF Context
  <2>8. TypeOK'
    BY <2>1, <2>2, <2>4, <2>7, KindAssumption DEF Inv, TypeOK, Registers
  <2>9. ContextIsLive'
    <3>1. SUFFICES ASSUME NEW y \in Instances, active'[y]
                   PROVE  \E k \in DOMAIN frames' :
                            /\ frames'[k].kind = "gate" /\ frames'[k].code = y
                            /\ ctx'[y] = [r9 |-> frames'[k].r9, lr |-> k - 1]
      BY DEF ContextIsLive
    <3>2. CASE y = m
      <4>1. ctx'[y] = [r9 |-> r9, lr |-> Depth]
        BY <2>1, <2>2, <3>2 DEF Inv, TypeOK
      <4>2. Depth + 1 \in DOMAIN frames' /\ (Depth + 1) - 1 = Depth
        BY <2>4
      <4> QED BY <2>4, <3>2, <4>1, <4>2
    <3>3. CASE y # m
      <4>1. active[y] /\ ctx'[y] = ctx[y]
        BY <2>1, <2>2, <3>1, <3>3 DEF Inv, TypeOK
      <4>2. PICK k \in DOMAIN frames :
              /\ frames[k].kind = "gate" /\ frames[k].code = y
              /\ ctx[y] = [r9 |-> frames[k].r9, lr |-> k - 1]
        BY <4>1 DEF Inv, ContextIsLive
      <4>3. k \in DOMAIN frames' /\ frames'[k] = frames[k]
        BY <2>4
      <4> QED BY <4>1, <4>2, <4>3
    <3> QED BY <3>2, <3>3
  <2> QED BY <2>4, <2>5, <2>8, <2>9 DEF Inv
<1> QED BY <1>2, <1>3

\* The exit supervisor call.  It looks an active module up by program counter
\* alone; when the return address in its context is the caller's, the module is
\* the one that returns, so what it restores is what that call saved.
LEMMA LeaveFindsTop ==
  ASSUME Inv, frames # <<>>,
         NEW m \in Instances, active[m], ctx[m].lr = Depth - 1
  PROVE  Top.code = m /\ ctx[m].r9 = Top.r9 /\ Top.kind = "gate"
<1>1. PICK k \in DOMAIN frames :
         /\ frames[k].kind = "gate" /\ frames[k].code = m
         /\ ctx[m] = [r9 |-> frames[k].r9, lr |-> k - 1]
  BY DEF Inv, ContextIsLive
<1>2. Depth \in Nat /\ DOMAIN frames = 1..Depth
  BY DEF Inv, TypeOK, Depth
<1>3. k = Depth
  BY <1>1, <1>2
<1> QED BY <1>1, <1>3 DEF Top, Last, Depth

LEMMA LeaveInv ==
  ASSUME Inv, Leave
  PROVE  Inv'
<1> DEFINE m == find_active_module(ImageOf[Top.code])
<1>1. /\ frames # <<>> /\ Top.kind = "gate" /\ control = "running"
      /\ UNCHANGED <<executables, libraries, ctx>>
  BY DEF Leave
<1>2. m # NoModule => m \in Instances /\ active[m]
  BY FoundModule DEF Inv
<1>3. CASE m = NoModule
  <2>1. control' = "lost" /\ UNCHANGED <<active, r9, frames>>
    BY <1>3 DEF Leave
  <2>2. TypeOK' /\ RunsOnOwnLot'
    BY <1>1, <2>1 DEF Inv, TypeOK, RunsOnOwnLot, Depth
  <2>3. CallersOnOwnLot'
    BY <2>1 DEF Inv, CallersOnOwnLot, Own
  <2>4. ContextIsLive'
    BY <1>1, <2>1 DEF Inv, ContextIsLive
  <2> QED BY <2>2, <2>3, <2>4 DEF Inv
<1>4. CASE m # NoModule
  <2>1. /\ active' = [active EXCEPT ![m] = FALSE]
        /\ r9' = ctx[m].r9
        /\ \/ ctx[m].lr = Depth - 1 /\ frames' = Front(frames) /\ UNCHANGED control
           \/ ctx[m].lr # Depth - 1 /\ control' = "lost" /\ UNCHANGED frames
    BY <1>4 DEF Leave, set_active, restore_caller_state
  <2>2. m \in Instances /\ active[m]
    BY <1>2, <1>4
  <2> HIDE DEF m
  <2>3. active' \in [Instances -> BOOLEAN] /\ r9' \in Registers
    <3>1. ctx[m] \in Context
      BY <2>2 DEF Inv, TypeOK
    <3>2. ctx[m].r9 \in Registers
      BY <3>1 DEF Context, Indeterminate, Registers
    <3> QED BY <2>1, <2>2, <3>2 DEF Inv, TypeOK
  <2>4. CASE ctx[m].lr # Depth - 1 /\ control' = "lost" /\ UNCHANGED frames
    <3>1. TypeOK' /\ RunsOnOwnLot'
      BY <1>1, <2>3, <2>4 DEF Inv, TypeOK, RunsOnOwnLot, Depth
    <3>2. CallersOnOwnLot'
      BY <2>4 DEF Inv, CallersOnOwnLot, Own
    <3>3. ContextIsLive'
      <4>1. \A y \in Instances : active'[y] => active[y]
        BY <2>1, <2>2 DEF Inv, TypeOK
      <4> QED BY <1>1, <2>4, <4>1 DEF Inv, ContextIsLive
    <3> QED BY <3>1, <3>2, <3>3 DEF Inv
  <2>5. CASE ctx[m].lr = Depth - 1 /\ frames' = Front(frames) /\ UNCHANGED control
    <3>1. Top.code = m /\ ctx[m].r9 = Top.r9
      BY <1>1, <2>2, <2>5, LeaveFindsTop
    <3>2. /\ frames' \in Seq(Frame) /\ Depth \in Nat \ {0} /\ Depth' = Depth - 1
          /\ DOMAIN frames = 1..Depth /\ DOMAIN frames' = 1..Depth - 1
          /\ \A k \in DOMAIN frames' : frames'[k] = frames[k]
          /\ Top = frames[Depth]
          /\ (Own(Depth))' = Top.r9
          /\ CallersOnOwnLot'
      BY <1>1, <2>5, PopActivation
    <3>3. RunsOnOwnLot'
      BY <2>1, <3>1, <3>2 DEF RunsOnOwnLot
    <3>4. TypeOK'
      BY <1>1, <2>3, <2>5, <3>2, KindAssumption DEF Inv, TypeOK
    <3>5. ContextIsLive'
      <4>1. SUFFICES ASSUME NEW y \in Instances, active'[y]
                     PROVE  \E k \in DOMAIN frames' :
                              /\ frames'[k].kind = "gate" /\ frames'[k].code = y
                              /\ ctx'[y] = [r9 |-> frames'[k].r9, lr |-> k - 1]
        BY DEF ContextIsLive
      <4>2. active[y] /\ y # m /\ ctx'[y] = ctx[y]
        BY <1>1, <2>1, <2>2, <4>1 DEF Inv, TypeOK
      <4>3. PICK k \in DOMAIN frames :
              /\ frames[k].kind = "gate" /\ frames[k].code = y
              /\ ctx[y] = [r9 |-> frames[k].r9, lr |-> k - 1]
        BY <4>2 DEF Inv, ContextIsLive
      <4>4. k # Depth
        BY <3>1, <3>2, <4>2, <4>3
      <4>5. k \in DOMAIN frames'
        BY <3>2, <4>4
      <4> QED BY <3>2, <4>2, <4>3, <4>5
    <3> QED BY <3>2, <3>3, <3>4, <3>5 DEF Inv
  <2> QED BY <2>1, <2>4, <2>5
<1> QED BY <1>3, <1>4

LEMMA ReturnInv ==
  ASSUME Inv, control = "running", frames # <<>>, frames' = Front(frames),
         Top.kind \in {"main", "plain"}, r9' = Top.r9,
         UNCHANGED <<executables, libraries, active, ctx, control>>
  PROVE  Inv'
<1>1. /\ frames' \in Seq(Frame) /\ Depth \in Nat \ {0} /\ Depth' = Depth - 1
      /\ DOMAIN frames = 1..Depth /\ DOMAIN frames' = 1..Depth - 1
      /\ \A k \in DOMAIN frames' : frames'[k] = frames[k]
      /\ Top = frames[Depth] /\ Top \in Frame
      /\ (Own(Depth))' = Top.r9
      /\ CallersOnOwnLot'
  BY PopActivation
<1>2. RunsOnOwnLot'
  BY <1>1 DEF RunsOnOwnLot
<1>3. TypeOK'
  BY <1>1, KindAssumption DEF Inv, TypeOK, Registers, Frame
<1>4. ContextIsLive'
  <2>1. SUFFICES ASSUME NEW y \in Instances, active'[y]
                 PROVE  \E k \in DOMAIN frames' :
                          /\ frames'[k].kind = "gate" /\ frames'[k].code = y
                          /\ ctx'[y] = [r9 |-> frames'[k].r9, lr |-> k - 1]
    BY DEF ContextIsLive
  <2>2. PICK k \in DOMAIN frames :
          /\ frames[k].kind = "gate" /\ frames[k].code = y
          /\ ctx[y] = [r9 |-> frames[k].r9, lr |-> k - 1]
    BY <2>1 DEF Inv, ContextIsLive
  <2>3. k # Depth
    BY <1>1, <2>2
  <2>4. k \in DOMAIN frames' /\ frames'[k] = frames[k]
    BY <1>1, <2>3
  <2> QED BY <2>2, <2>4
<1> QED BY <1>1, <1>2, <1>3, <1>4 DEF Inv

LEMMA NextInv == Inv /\ [Next]_vars => Inv'
<1> SUFFICES ASSUME Inv, [Next]_vars PROVE Inv'
  OBVIOUS
<1>1. ASSUME NEW m \in Executables, load_executable(m) PROVE Inv'
  <2>1. executables' \in Seq(Executables) /\ libraries' \in Seq(Libraries)
    BY <1>1 DEF load_executable, Inv, TypeOK
  <2> QED BY <1>1, <2>1, LoadInv DEF load_executable
<1>2. ASSUME NEW m \in Libraries, load_library(m) PROVE Inv'
  <2>1. executables' \in Seq(Executables) /\ libraries' \in Seq(Libraries)
    BY <1>2 DEF load_library, Inv, TypeOK
  <2> QED BY <1>2, <2>1, LoadInv DEF load_library
<1>3. ASSUME NEW m \in Roots, Drop(m) PROVE Inv'
  <2>1. executables' \in Seq(Executables) /\ libraries' \in Seq(Libraries)
    BY <1>3, ShorterSeq DEF Drop, Inv, TypeOK
  <2>2. UNCHANGED <<active, ctx, frames, r9, control>>
    BY <1>3 DEF Drop
  <2>3. ContextIsLive'
    BY <2>2 DEF Inv, ContextIsLive
  <2> QED BY <2>1, <2>2, <2>3, SameActivations DEF Inv, TypeOK
<1>4. ASSUME NEW m \in Executables, execute(m) PROVE Inv'
  <2>1. m \in Instances /\ m # Host
    BY KindAssumption DEF Roots
  <2> QED BY <1>4, <2>1, PlainCallInv DEF execute, Running
<1>5. ASSUME ReturnFromMain PROVE Inv'
  BY <1>5, ReturnInv DEF ReturnFromMain
<1>6. ASSUME NEW m \in Instances, NEW s \in Symbols, CallEnvironment(m, s) PROVE Inv'
  BY <1>6, PlainCallInv DEF CallEnvironment, Running
<1>7. ASSUME ReturnFromEnvironment PROVE Inv'
  <2>1. Depth \in Nat \ {0} /\ Top = frames[Depth]
    BY <1>7, PopActivation DEF ReturnFromEnvironment
  <2>2. r9 = Top.r9
    BY <1>7, <2>1 DEF ReturnFromEnvironment, Inv, RunsOnOwnLot, Own
  <2> QED BY <1>7, <2>2, ReturnInv DEF ReturnFromEnvironment
<1>8. ASSUME NEW m \in Instances, NEW s \in Symbols, CallImport(m, s) PROVE Inv'
  BY <1>8, EnterInv DEF CallImport, Running
<1>9. ASSUME NEW h \in Libraries, NEW x \in Instances, CallLibrary(h, x) PROVE Inv'
  BY <1>9, EnterInv DEF CallLibrary, Running
<1>10. ASSUME NEW m \in Instances, NEW x \in Instances, CallPointer(m, x) PROVE Inv'
  BY <1>10, EnterInv DEF CallPointer, Running
<1>11. ASSUME Leave PROVE Inv'
  BY <1>11, LeaveInv
<1>12. ASSUME UNCHANGED vars PROVE Inv'
  BY <1>12 DEF vars, Inv, TypeOK, RunsOnOwnLot, CallersOnOwnLot, ContextIsLive, Own, Depth
<1> QED BY <1>1, <1>2, <1>3, <1>4, <1>5, <1>6, <1>7, <1>8, <1>9, <1>10, <1>11,
           <1>12 DEF Next

\* Inv holds whatever clients do.
LEMMA Invariance == Spec => []Inv
BY InitInv, NextInv, PTL DEF Spec

\* Whatever clients do, a module's code never runs on another instance's LOT:
\* control may be lost (callbacks, spawning, unloading), registers never are.
THEOREM OwnLot == Spec => []RunsOnOwnLot
BY Invariance, PTL DEF Inv

\* Whatever clients do, what an exit finds in an active module's context is what
\* an unfinished call of that module saved.
THEOREM LiveContexts == Spec => []ContextIsLive
BY Invariance, PTL DEF Inv

\* Type correctness.
THEOREM TypeCorrect == Spec => []TypeOK
BY Invariance, PTL DEF Inv
-----------------------------------------------------------------------------
(***************************************************************************)
(* Practices = {}: every entry and every exit of a wrapper finds the       *)
(* module it looks for.  An exit looks for an active instance by image     *)
(* alone; it finds the right one because the images of the unfinished      *)
(* wrapper calls are all different, and they are because each activation   *)
(* only calls down its tree of imports, where no image of an earlier       *)
(* activation occurs.                                                      *)
(***************************************************************************)
Gates == {k \in DOMAIN frames : frames[k].kind = "gate"}

\* No module below an activation is of the image of an unfinished call.
ImagesDescend ==
  \A i \in Gates, j \in DOMAIN frames :
    i <= j /\ frames[j].code \in Instances =>
      \A x \in Below(frames[j].code) : ImageOf[x] # ImageOf[frames[i].code]

GatesDiffer ==
  \A i, j \in Gates :
    ImageOf[frames[i].code] = ImageOf[frames[j].code] => i = j

ActivationsLoaded ==
  \A k \in DOMAIN frames : frames[k].code \in Instances => IsLoaded(frames[k].code)

RootImagesDiffer ==
  \A a, b \in Range(Loaded) : ImageOf[a] = ImageOf[b] => a = b

EnvironmentFromModules ==
  \A k \in DOMAIN frames : frames[k].kind = "plain" => frames[k].r9 \in Instances

Reliable ==
  /\ Inv /\ NeverLost /\ DispatchMatchesBinding /\ ActiveIffOnStack
  /\ ImagesDescend /\ GatesDiffer /\ ActivationsLoaded
  /\ RootImagesDiffer /\ EnvironmentFromModules
-----------------------------------------------------------------------------
(***************************************************************************)
(* Trees of imports.                                                       *)
(***************************************************************************)
LEMMA TreeMember ==
  ASSUME NEW m \in Instances, NEW k \in DOMAIN Tree[m]
  PROVE  /\ Tree[m] \in Seq(Instances) /\ Tree[m][k] \in Instances
         /\ Len(Tree[m]) \in Nat /\ DOMAIN Tree[m] = 1..Len(Tree[m])
         /\ Tree[m][k] \in Range(Tree[m])
         /\ k # 1 => Tree[m][k] \in Below(m)
<1>1. Tree[m] \in Seq(Instances)
  BY TreeAssumption
<1> QED BY <1>1 DEF Range, Below

\* Everything below an import of m is below m.
LEMMA BelowIsTransitive ==
  ASSUME NEW m \in Instances, NEW x \in Below(m)
  PROVE  x \in Instances /\ Below(x) \subseteq Below(m)
<1>1. PICK k \in DOMAIN Tree[m] \ {1} : x = Tree[m][k]
  BY DEF Below
<1>2. x \in Instances /\ k \in 2..Len(Tree[m]) /\ Len(Tree[m]) \in Nat
  BY <1>1, TreeMember
<1>3. ASSUME NEW y \in Below(x) PROVE y \in Below(m)
  <2>1. PICK j \in DOMAIN Tree[x] \ {1} : y = Tree[x][j]
    BY DEF Below
  <2>2. j \in 2..Len(Tree[x]) /\ Len(Tree[x]) \in Nat
    BY <1>2, <2>1, TreeMember
  <2>3. k + j - 1 \in DOMAIN Tree[m] /\ Tree[m][k + j - 1] = y
    BY <1>1, <2>1, TreeAssumption
  <2>4. k + j - 1 # 1
    BY <1>2, <2>2
  <2> QED BY <2>3, <2>4 DEF Below
<1> QED BY <1>2, <1>3

\* What a loaded module imports is loaded.
LEMMA BelowIsLoaded ==
  ASSUME TypeOK, NEW m \in Instances, IsLoaded(m), NEW x \in Below(m)
  PROVE  IsLoaded(x)
<1>1. PICK r \in DOMAIN Loaded : m \in Range(Tree[Loaded[r]])
  BY DEF IsLoaded
<1>2. Loaded \in Seq(Instances)
  BY KindAssumption DEF Loaded, TypeOK, Roots
<1>3. Loaded[r] \in Instances
  BY <1>1, <1>2
<1>4. PICK k \in DOMAIN Tree[Loaded[r]] : m = Tree[Loaded[r]][k]
  BY <1>1 DEF Range
<1>5. PICK j \in DOMAIN Tree[m] : x = Tree[m][j]
  BY DEF Below
<1>6. /\ k + j - 1 \in DOMAIN Tree[Loaded[r]]
      /\ Tree[Loaded[r]][k + j - 1] = x
  BY <1>3, <1>4, <1>5, TreeAssumption
<1> QED BY <1>1, <1>6 DEF IsLoaded, Range

\* Name and program counter agree: the first instance of m's tree that exports a
\* symbol m imports is below m, and the first of its image.
LEMMA NameAndPcAgree ==
  ASSUME NEW m \in Instances, NEW s \in Imports[ImageOf[m]],
         find_symbol(m, s) \in Instances
  PROVE  /\ find_symbol(m, s) \in Below(m)
         /\ FirstIn(Tree[m], InstancesOf(ImageOf[find_symbol(m, s)])) = find_symbol(m, s)
<1> DEFINE exporting == {x \in Instances : s \in Exports[ImageOf[x]]}
           x == find_symbol(m, s)
           same == InstancesOf(ImageOf[x])
<1>1. Tree[m] \in Seq(Instances) /\ Tree[m][1] = m
  BY TreeAssumption
<1>2. x = FirstIn(Tree[m], exporting)
  BY KindAssumption DEF find_symbol
<1>3. PICK k \in DOMAIN Tree[m] :
         /\ x = Tree[m][k] /\ Tree[m][k] \in exporting
         /\ \A j \in 1..k - 1 : Tree[m][j] \notin exporting
  BY <1>1, <1>2, FirstInIsFirst, KindAssumption
<1>4. m \notin exporting
  BY ImportAssumption, KindAssumption
<1>5. x \in Below(m)
  BY <1>1, <1>3, <1>4, TreeMember
<1>6. x \in same /\ same \subseteq exporting
  BY <1>3 DEF InstancesOf
<1> HIDE DEF exporting, x, same
<1>7. PICK i \in DOMAIN Tree[m] :
         /\ FirstIn(Tree[m], same) = Tree[m][i] /\ Tree[m][i] \in same
         /\ \A j \in 1..i - 1 : Tree[m][j] \notin same
  BY <1>1, <1>3, <1>6, FirstInIsFirst
<1>8. DOMAIN Tree[m] \subseteq Nat \ {0}
  BY <1>1
<1>9. ~(i < k) /\ ~(k < i)
  BY <1>3, <1>6, <1>7, <1>8
<1>10. i = k
  BY <1>8, <1>9
<1> QED BY <1>3, <1>5, <1>7, <1>10 DEF x, same
\* What lists of modules hold.
LEMMA ListMembers ==
  ASSUME NEW T, NEW a \in Seq(T), NEW b \in Seq(T), NEW m \in T
  PROVE  /\ Range(a \o b) = Range(a) \cup Range(b)
         /\ Range(Append(a, m)) = Range(a) \cup {m}
<1>1. /\ Len(a) \in Nat /\ DOMAIN a = 1..Len(a)
      /\ Len(b) \in Nat /\ DOMAIN b = 1..Len(b)
  OBVIOUS
<1>2. Range(Append(a, m)) = Range(a) \cup {m}
  <2>1. /\ DOMAIN Append(a, m) = 1..Len(a) + 1
        /\ \A k \in 1..Len(a) : Append(a, m)[k] = a[k]
        /\ Append(a, m)[Len(a) + 1] = m
    BY <1>1
  <2> QED BY <1>1, <2>1 DEF Range
<1>3. Range(a \o b) = Range(a) \cup Range(b)
  <2>1. /\ DOMAIN (a \o b) = 1..Len(a) + Len(b)
        /\ \A k \in 1..Len(a) + Len(b) :
             (a \o b)[k] = IF k <= Len(a) THEN a[k] ELSE b[k - Len(a)]
    BY <1>1
  <2>2. ASSUME NEW k \in DOMAIN b PROVE b[k] \in Range(a \o b)
    <3>1. Len(a) + k \in 1..Len(a) + Len(b) /\ ~(Len(a) + k <= Len(a))
          /\ (Len(a) + k) - Len(a) = k
      BY <1>1
    <3> QED BY <2>1, <3>1 DEF Range
  <2>3. ASSUME NEW k \in DOMAIN a PROVE a[k] \in Range(a \o b)
    <3>1. k \in 1..Len(a) + Len(b) /\ k <= Len(a)
      BY <1>1
    <3> QED BY <2>1, <3>1 DEF Range
  <2>4. ASSUME NEW k \in DOMAIN (a \o b)
        PROVE  (a \o b)[k] \in Range(a) \cup Range(b)
    <3>1. k <= Len(a) => k \in DOMAIN a
      BY <1>1, <2>1
    <3>2. ~(k <= Len(a)) => k - Len(a) \in DOMAIN b
      BY <1>1, <2>1
    <3> QED BY <2>1, <3>1, <3>2 DEF Range
  <2> QED BY <2>2, <2>3, <2>4 DEF Range
<1> QED BY <1>2, <1>3

LEMMA LoadedRoots ==
  ASSUME TypeOK
  PROVE  /\ Loaded \in Seq(Roots) /\ Roots \subseteq Instances
         /\ executables \in Seq(Roots) /\ libraries \in Seq(Roots)
         /\ Range(Loaded) = Range(executables) \cup Range(libraries)
         /\ Range(Loaded) \subseteq Roots
         /\ \A x : IsLoaded(x) <=> \E r \in Range(Loaded) : x \in Range(Tree[r])
<1>1. executables \in Seq(Roots) /\ libraries \in Seq(Roots)
  BY DEF TypeOK, Roots
<1>2. Loaded \in Seq(Roots)
  BY <1>1 DEF Loaded
<1>3. Range(Loaded) = Range(executables) \cup Range(libraries)
  <2>1. CASE Roots = {}
    <3>1. executables = <<>> /\ libraries = <<>>
      BY <1>1, <2>1
    <3> QED BY <3>1 DEF Loaded, Range
  <2>2. CASE Roots # {}
    BY <1>1, <2>2, ListMembers DEF Loaded
  <2> QED BY <2>1, <2>2
<1>4. Range(Loaded) \subseteq Roots
  BY <1>2 DEF Range
<1>5. \A x : IsLoaded(x) <=> \E r \in Range(Loaded) : x \in Range(Tree[r])
  BY DEF IsLoaded, Range
<1> QED BY <1>1, <1>2, <1>3, <1>4, <1>5, KindAssumption

LEMMA TopIsLast ==
  ASSUME frames \in Seq(Frame), frames # <<>>
  PROVE  /\ Depth \in DOMAIN frames /\ Depth # 0
         /\ Top = frames[Depth] /\ Top \in Frame
<1>1. Len(frames) \in Nat \ {0} /\ Top = frames[Len(frames)] /\ Top \in Frame
  BY PopIsFront DEF Top
<1>2. DOMAIN frames = 1..Len(frames)
  OBVIOUS
<1> QED BY <1>1, <1>2 DEF Depth
-----------------------------------------------------------------------------
(***************************************************************************)
(* The invariant.                                                          *)
(***************************************************************************)
LEMMA InitReliable == Init => Reliable
<1> SUFFICES ASSUME Init PROVE Reliable
  OBVIOUS
<1>1. Inv
  BY InitInv
<1>2. NeverLost /\ ActiveIffOnStack
  BY DEF Init, NeverLost, ActiveIffOnStack
<1>3. DispatchMatchesBinding /\ ActivationsLoaded /\ EnvironmentFromModules
  BY DEF Init, DispatchMatchesBinding, ActivationsLoaded, EnvironmentFromModules
<1>4. ImagesDescend /\ GatesDiffer
  BY DEF Init, ImagesDescend, GatesDiffer, Gates
<1>5. Range(Loaded) = {}
  BY DEF Init, Loaded, Range
<1>6. RootImagesDiffer
  BY <1>5 DEF RootImagesDiffer
<1> QED BY <1>1, <1>2, <1>3, <1>4, <1>6 DEF Reliable

\* A call keeps the invariant when the callee is loaded and neither it nor, when
\* it is called through a wrapper, anything below it has the image of an
\* unfinished call.
LEMMA PushReliable ==
  ASSUME Reliable, Inv', UNCHANGED <<executables, libraries, control>>,
         Depth < MaxDepth,
         NEW kind \in {"gate", "main", "plain"},
         NEW code \in Instances \cup {Host},
         kind = "plain" <=> code = Host,
         kind = "plain" => r9 \in Instances,
         Push(kind, code, code),
         IF kind = "gate" THEN active' = [active EXCEPT ![code] = TRUE]
                          ELSE UNCHANGED active,
         code \in Instances => IsLoaded(code),
         code \in Instances =>
           \A i \in Gates : \A x \in Below(code) : ImageOf[x] # ImageOf[frames[i].code],
         kind = "gate" =>
           \A i \in Gates : ImageOf[code] # ImageOf[frames[i].code]
  PROVE  Reliable'
<1> DEFINE e == [kind |-> kind, code |-> code, bound |-> code, r9 |-> r9]
<1>1. /\ Depth \in Nat /\ Depth' = Depth + 1
      /\ DOMAIN frames = 1..Depth /\ DOMAIN frames' = 1..Depth + 1
      /\ \A k \in DOMAIN frames : frames'[k] = frames[k]
      /\ frames'[Depth + 1] = e
  BY PushActivation DEF Reliable, NeverLost
<1>2. /\ e.kind = kind /\ e.code = code /\ e.bound = code /\ e.r9 = r9
  OBVIOUS
<1> HIDE DEF e
<1>3. Gates' = Gates \cup IF kind = "gate" THEN {Depth + 1} ELSE {}
  BY <1>1, <1>2 DEF Gates
<1>4. Gates \subseteq DOMAIN frames
  BY DEF Gates
<1>5. NeverLost' /\ DispatchMatchesBinding' /\ EnvironmentFromModules'
  BY <1>1, <1>2 DEF Reliable, NeverLost, DispatchMatchesBinding, EnvironmentFromModules
<1>6. \A x : IsLoaded(x)' <=> IsLoaded(x)
  BY DEF IsLoaded, Loaded
<1>7. ActivationsLoaded'
  BY <1>1, <1>2, <1>6 DEF Reliable, ActivationsLoaded
<1>8. RootImagesDiffer'
  BY DEF Reliable, RootImagesDiffer, Loaded
<1>9. ActiveIffOnStack'
  <2>1. SUFFICES ASSUME NEW m \in Instances
                 PROVE  active'[m] <=> \E k \in Gates' : frames'[k].code = m
    BY DEF ActiveIffOnStack, Gates
  <2>2. active[m] <=> \E k \in Gates : frames[k].code = m
    BY DEF Reliable, ActiveIffOnStack, Gates
  <2>3. (\E k \in Gates : frames'[k].code = m) <=> (\E k \in Gates : frames[k].code = m)
    BY <1>1, <1>4
  <2>4. CASE kind = "gate"
    <3>1. active'[m] <=> active[m] \/ m = code
      BY <2>4 DEF Reliable, Inv, TypeOK
    <3>2. (\E k \in Gates' : frames'[k].code = m)
            <=> (\E k \in Gates : frames'[k].code = m) \/ code = m
      BY <1>1, <1>2, <1>3, <2>4
    <3> QED BY <2>2, <2>3, <3>1, <3>2
  <2>5. CASE kind # "gate"
    BY <1>3, <2>2, <2>3, <2>5
  <2> QED BY <2>4, <2>5
<1>10. ImagesDescend'
  <2>1. SUFFICES ASSUME NEW i \in Gates', NEW j \in DOMAIN frames', i <= j,
                        frames'[j].code \in Instances, NEW x \in Below(frames'[j].code)
                 PROVE  ImageOf[x] # ImageOf[frames'[i].code]
    BY DEF ImagesDescend
  <2>2. CASE j \in 1..Depth
    <3>1. i \in Gates /\ frames'[i] = frames[i] /\ frames'[j] = frames[j] /\ j \in DOMAIN frames
      BY <1>1, <1>3, <1>4, <2>1, <2>2
    <3> QED BY <2>1, <3>1 DEF Reliable, ImagesDescend
  <2>3. CASE j = Depth + 1
    <3>1. code \in Instances /\ x \in Below(code)
      BY <1>1, <1>2, <2>1, <2>3
    <3>2. CASE i \in Gates
      BY <1>1, <1>4, <3>1, <3>2
    <3>3. CASE i = Depth + 1
      BY <1>1, <1>2, <3>1, <3>3, AcyclicAssumption
    <3> QED BY <1>3, <3>2, <3>3
  <2> QED BY <1>1, <2>2, <2>3
<1>11. GatesDiffer'
  <2>1. SUFFICES ASSUME NEW i \in Gates', NEW j \in Gates',
                        ImageOf[frames'[i].code] = ImageOf[frames'[j].code]
                 PROVE  i = j
    BY DEF GatesDiffer
  <2>2. CASE i \in Gates /\ j \in Gates
    BY <1>1, <1>4, <2>1, <2>2 DEF Reliable, GatesDiffer
  <2>3. CASE i \in Gates /\ j = Depth + 1 /\ kind = "gate"
    BY <1>1, <1>2, <1>4, <2>1, <2>3
  <2>4. CASE j \in Gates /\ i = Depth + 1 /\ kind = "gate"
    BY <1>1, <1>2, <1>4, <2>1, <2>4
  <2> QED BY <1>3, <2>2, <2>3, <2>4
<1> QED BY <1>5, <1>7, <1>8, <1>9, <1>10, <1>11 DEF Reliable

\* A return keeps it when the module left is no longer active.
LEMMA PopReliable ==
  ASSUME Reliable, Inv', UNCHANGED <<executables, libraries, control>>,
         frames # <<>>, frames' = Front(frames),
         IF Top.kind = "gate" THEN active' = [active EXCEPT ![Top.code] = FALSE]
                              ELSE UNCHANGED active
  PROVE  Reliable'
<1>1. /\ Depth \in Nat \ {0} /\ Depth' = Depth - 1
      /\ DOMAIN frames = 1..Depth /\ DOMAIN frames' = 1..Depth - 1
      /\ \A k \in DOMAIN frames' : frames'[k] = frames[k]
      /\ Top = frames[Depth]
  BY PopActivation DEF Reliable
<1>2. Gates' = Gates \ {Depth} /\ Gates \subseteq DOMAIN frames
  BY <1>1 DEF Gates
<1>3. DOMAIN frames' \subseteq DOMAIN frames /\ Gates' \subseteq Gates
  BY <1>1, <1>2
<1>4. \A k \in Gates' : frames'[k] = frames[k]
  BY <1>1, <1>2
<1>5. NeverLost' /\ DispatchMatchesBinding' /\ EnvironmentFromModules'
  BY <1>1, <1>3 DEF Reliable, NeverLost, DispatchMatchesBinding, EnvironmentFromModules
<1>6. \A x : IsLoaded(x)' <=> IsLoaded(x)
  BY DEF IsLoaded, Loaded
<1>7. ActivationsLoaded'
  BY <1>1, <1>3, <1>6 DEF Reliable, ActivationsLoaded
<1>8. RootImagesDiffer'
  BY DEF Reliable, RootImagesDiffer, Loaded
<1>9. ActiveIffOnStack'
  <2>1. SUFFICES ASSUME NEW m \in Instances
                 PROVE  active'[m] <=> \E k \in Gates' : frames'[k].code = m
    BY DEF ActiveIffOnStack, Gates
  <2>2. active[m] <=> \E k \in Gates : frames[k].code = m
    BY DEF Reliable, ActiveIffOnStack, Gates
  <2>3. CASE Top.kind = "gate"
    <3>1. Depth \in Gates
      BY <1>1, <2>3 DEF Gates
    <3>2. \A k \in Gates : frames[k].code = Top.code => k = Depth
      BY <1>1, <3>1 DEF Reliable, GatesDiffer
    <3>3. active'[m] <=> active[m] /\ m # Top.code
      BY <2>3 DEF Reliable, Inv, TypeOK
    <3>4. ASSUME active[m], m # Top.code PROVE \E k \in Gates' : frames'[k].code = m
      <4>1. PICK k \in Gates : frames[k].code = m
        BY <2>2, <3>4
      <4>2. k # Depth
        BY <1>1, <3>4, <4>1
      <4>3. k \in Gates'
        BY <1>2, <4>2
      <4> QED BY <1>4, <4>1, <4>3
    <3>5. ASSUME NEW k \in Gates', frames'[k].code = m PROVE active[m] /\ m # Top.code
      <4>1. k \in Gates /\ k # Depth /\ frames[k].code = m
        BY <1>2, <1>4, <3>5
      <4> QED BY <2>2, <3>2, <4>1
    <3> QED BY <3>3, <3>4, <3>5
  <2>4. CASE Top.kind # "gate"
    <3>1. Gates' = Gates
      BY <1>1, <1>2, <2>4 DEF Gates
    <3> QED BY <1>4, <2>2, <2>4, <3>1
  <2> QED BY <2>3, <2>4
<1>10. ImagesDescend'
  BY <1>1, <1>3, <1>4 DEF Reliable, ImagesDescend
<1>11. GatesDiffer'
  BY <1>3, <1>4 DEF Reliable, GatesDiffer
<1> QED BY <1>5, <1>7, <1>8, <1>9, <1>10, <1>11 DEF Reliable

\* An entry that finds the module the caller means, of an image that neither an
\* unfinished call nor anything below it shares, keeps it.
LEMMA EnterReliable ==
  ASSUME Reliable, NEW x \in Instances, Enter(x), IsLoaded(x),
         find_module_for_pc_and_lot(ImageOf[x], r9) = x,
         \A i \in Gates : /\ ImageOf[x] # ImageOf[frames[i].code]
                          /\ \A y \in Below(x) : ImageOf[y] # ImageOf[frames[i].code]
  PROVE  Reliable'
<1>1. x # NoModule /\ x # Host
  BY KindAssumption
<1>2. /\ Depth < MaxDepth /\ UNCHANGED <<executables, libraries, control>>
      /\ active' = [active EXCEPT ![x] = TRUE]
      /\ Push("gate", x, x)
  BY <1>1 DEF Enter, set_active
<1>3. Inv'
  BY EnterInv DEF Reliable, NeverLost
<1> QED BY <1>1, <1>2, <1>3, PushReliable

\* Loaded instances can be found by their LOT when they have one, and only
\* instances can unless the host runs with r9 = nullptr.
LEMMA FindsOwnLot ==
  ASSUME TypeOK
  PROVE  /\ \A m \in Instances :
              IsLoaded(m) /\ ImageOf[m] \notin EmptyLot => find_module_with_lot(m) = m
         /\ Practices = {} => find_module_with_lot(Host) = NoModule
<1>1. ASSUME NEW m \in Instances, IsLoaded(m), ImageOf[m] \notin EmptyLot
      PROVE  find_module_with_lot(m) = m
  <2>1. AtLot(m) = {m}
    BY <1>1, KindAssumption DEF AtLot, IsNull
  <2> QED BY <1>1, <2>1, FoundIsLoaded DEF find_module_with_lot
<1>2. ASSUME Practices = {} PROVE find_module_with_lot(Host) = NoModule
  <2>1. AtLot(Host) = {}
    BY <1>2, KindAssumption DEF AtLot, IsNull
  <2> QED BY <2>1, FoundIsLoaded DEF find_module_with_lot
<1> QED BY <1>1, <1>2

LEMMA CallImportReliable ==
  ASSUME Reliable, NEW m \in Instances, NEW s \in Symbols, CallImport(m, s)
  PROVE  Reliable'
<1> DEFINE x == find_symbol(m, s)
<1>1. /\ Code = m /\ r9 = m /\ s \in Imports[ImageOf[m]] /\ x \in Instances
      /\ Enter(x)
  BY DEF CallImport, Running
<1>2. /\ x \in Below(m)
      /\ FirstIn(Tree[m], InstancesOf(ImageOf[x])) = x
  BY <1>1, NameAndPcAgree
<1> HIDE DEF x
<1>3. TypeOK
  BY DEF Reliable, Inv
<1>4. Depth \in DOMAIN frames /\ frames[Depth].code = m
  <2>1. frames # <<>>
    BY <1>1, KindAssumption DEF Code
  <2>2. frames \in Seq(Frame)
    BY <1>3 DEF TypeOK
  <2>3. Depth \in DOMAIN frames /\ Top = frames[Depth]
    BY <2>1, <2>2, TopIsLast
  <2> QED BY <1>1, <2>1, <2>3 DEF Code
<1>5. IsLoaded(m) /\ IsLoaded(x)
  <2>1. IsLoaded(m)
    BY <1>4 DEF Reliable, ActivationsLoaded
  <2> QED BY <1>2, <1>3, <2>1, BelowIsLoaded
<1>6. find_module_for_pc_and_lot(ImageOf[x], r9) = x
  <2>1. find_module_with_lot(r9) = m /\ m # NoModule
    <3>1. ImageOf[m] \notin EmptyLot
      BY <1>1, KindAssumption
    <3> QED BY <1>1, <1>3, <1>5, <3>1, FindsOwnLot, KindAssumption
  <2> QED BY <1>2, <2>1 DEF find_module_for_pc_and_lot
<1>7. \A i \in Gates : \A y \in Below(m) : ImageOf[y] # ImageOf[frames[i].code]
  <2>1. \A i \in Gates : i <= Depth
    BY <1>3 DEF Gates, TypeOK, Depth
  <2> QED BY <1>4, <2>1 DEF Reliable, ImagesDescend
<1>8. Below(x) \subseteq Below(m)
  BY <1>2, BelowIsTransitive
<1> QED BY <1>1, <1>2, <1>5, <1>6, <1>7, <1>8, EnterReliable

LEMMA CallLibraryReliable ==
  ASSUME Practices = {}, Reliable,
         NEW h \in Libraries, NEW x \in Instances, CallLibrary(h, x)
  PROVE  Reliable'
<1>1. /\ Code = Host /\ r9 = Host /\ x = h /\ h \in Range(libraries) /\ Enter(h)
  BY DEF CallLibrary, Running, MayCallInto
<1>2. TypeOK /\ r9 = Own(Depth)
  BY DEF Reliable, Inv, NeverLost, RunsOnOwnLot
<1>3. Gates = {}
  <2>1. frames \in Seq(Frame)
    BY <1>2 DEF TypeOK
  <2>2. ASSUME frames # <<>> PROVE FALSE
    <3>1. Depth \in DOMAIN frames /\ Depth # 0 /\ Top = frames[Depth]
      BY <2>1, <2>2, TopIsLast
    <3>2. frames[Depth].code = Host
      BY <1>1, <2>2, <3>1 DEF Code
    <3>3. frames[Depth].kind = "plain"
      BY <3>1, <3>2 DEF Reliable, Inv, CallersOnOwnLot
    <3>4. r9 \in Instances
      BY <1>2, <3>1, <3>3 DEF Own, Reliable, EnvironmentFromModules
    <3> QED BY <1>1, <3>4, KindAssumption
  <2> QED BY <2>2 DEF Gates
<1>4. Loaded \in Seq(Instances) /\ h \in Range(Loaded) /\ h \in Instances
  <2>1. Loaded \in Seq(Roots) /\ Roots \subseteq Instances /\ h \in Range(Loaded)
    BY <1>1, <1>2, LoadedRoots
  <2> QED BY <2>1 DEF Roots
<1>5. IsLoaded(h)
  <2>1. h \in Range(Tree[h])
    BY <1>4, TreeAssumption, TreeMember
  <2> QED BY <1>4, <2>1 DEF IsLoaded, Range
<1>6. FirstIn(Loaded, InstancesOf(ImageOf[h])) = h
  <2>1. PICK k \in DOMAIN Loaded : Loaded[k] = h
    BY <1>4 DEF Range
  <2>2. h \in InstancesOf(ImageOf[h])
    BY <1>4 DEF InstancesOf
  <2>3. PICK j \in DOMAIN Loaded :
          /\ FirstIn(Loaded, InstancesOf(ImageOf[h])) = Loaded[j]
          /\ Loaded[j] \in InstancesOf(ImageOf[h])
    BY <1>4, <2>1, <2>2, FirstInIsFirst
  <2>4. ImageOf[Loaded[j]] = ImageOf[h] /\ Loaded[j] \in Range(Loaded)
    BY <2>3 DEF InstancesOf, Range
  <2> QED BY <1>4, <2>3, <2>4 DEF Reliable, RootImagesDiffer
<1>7. find_module_for_pc_and_lot(ImageOf[h], r9) = h
  BY <1>1, <1>2, <1>6, FindsOwnLot DEF find_module_for_pc_and_lot
<1> QED BY <1>1, <1>3, <1>4, <1>5, <1>7, EnterReliable

\* The exit finds the module that returns: its image is that of no other
\* unfinished call, so no other active instance matches the program counter.
LEMMA LeaveFindsCallee ==
  ASSUME Reliable, Leave
  PROVE  /\ find_active_module(ImageOf[Top.code]) = Top.code
         /\ Top.code \in Instances
         /\ ctx[Top.code] = [r9 |-> Top.r9, lr |-> Depth - 1]
<1> DEFINE c == Top.code
           found == find_active_module(ImageOf[c])
<1>1. /\ frames # <<>> /\ Top.kind = "gate"
      /\ TypeOK /\ frames \in Seq(Frame)
  BY DEF Leave, Reliable, Inv, TypeOK
<1>2. Depth \in DOMAIN frames /\ Top = frames[Depth] /\ Top \in Frame
  BY <1>1, TopIsLast
<1>3. Depth \in Gates
  BY <1>1, <1>2 DEF Gates
<1>4. c \in Instances
  BY <1>1, <1>2 DEF Frame, Reliable, Inv, CallersOnOwnLot
<1>5. active[c] /\ IsLoaded(c)
  BY <1>1, <1>2, <1>4 DEF Reliable, ActiveIffOnStack, ActivationsLoaded
<1>6. \A m \in Instances : \A k \in Gates :
         ImageOf[m] = ImageOf[c] /\ frames[k].code = m => k = Depth /\ m = c
  BY <1>2, <1>3 DEF Reliable, GatesDiffer
<1>7. found \in Instances /\ ImageOf[found] = ImageOf[c] /\ active[found]
  <2>1. c \in {m \in InstancesOf(ImageOf[c]) : active[m]}
    BY <1>4, <1>5 DEF InstancesOf
  <2>2. found \in {m \in InstancesOf(ImageOf[c]) : active[m]}
    BY <1>1, <1>5, <2>1, FoundIsLoaded DEF find_active_module
  <2> QED BY <2>2 DEF InstancesOf
<1> HIDE DEF found, c
<1>8. found = c
  BY <1>6, <1>7 DEF Reliable, ActiveIffOnStack, Gates
<1>9. PICK k \in DOMAIN frames :
         /\ frames[k].kind = "gate" /\ frames[k].code = c
         /\ ctx[c] = [r9 |-> frames[k].r9, lr |-> k - 1]
  BY <1>4, <1>5 DEF Reliable, Inv, ContextIsLive
<1>10. k = Depth
  BY <1>4, <1>6, <1>9 DEF Gates
<1> QED BY <1>2, <1>4, <1>8, <1>9, <1>10 DEF found, c

LEMMA LeaveReliable ==
  ASSUME Reliable, Leave
  PROVE  Reliable'
<1>1. /\ find_active_module(ImageOf[Top.code]) = Top.code /\ Top.code \in Instances
      /\ ctx[Top.code].lr = Depth - 1
  BY LeaveFindsCallee
<1>2. Top.code # NoModule
  BY <1>1, KindAssumption
<1>3. /\ frames # <<>> /\ Top.kind = "gate"
      /\ UNCHANGED <<executables, libraries, control>>
      /\ active' = [active EXCEPT ![Top.code] = FALSE]
      /\ frames' = Front(frames)
  BY <1>1, <1>2 DEF Leave, set_active, restore_caller_state
<1>4. Inv'
  BY LeaveInv DEF Reliable
<1> QED BY <1>3, <1>4, PopReliable

LEMMA ExecuteReliable ==
  ASSUME Practices = {}, Reliable, NEW m \in Executables, execute(m)
  PROVE  Reliable'
<1>1. /\ Depth < MaxDepth /\ m \in Range(executables) /\ NoneActive(m)
      /\ Push("main", m, m) /\ r9' = m
      /\ UNCHANGED <<executables, libraries, active, ctx, control>>
  BY DEF execute, MayExecute
<1>2. m \in Instances /\ m # Host
  BY KindAssumption DEF Roots
<1>3. Inv'
  BY <1>1, <1>2, PlainCallInv DEF Reliable, NeverLost
<1>4. IsLoaded(m)
  <2>3. m \in Range(Loaded)
    BY <1>1, LoadedRoots DEF Reliable, Inv
  <2>4. m \in Range(Tree[m])
    BY <1>2, TreeAssumption, TreeMember
  <2> QED BY <2>3, <2>4 DEF IsLoaded, Range
<1>5. \A i \in Gates : \A x \in Below(m) : ImageOf[x] # ImageOf[frames[i].code]
  <2>1. SUFFICES ASSUME NEW i \in Gates, NEW x \in Below(m)
                 PROVE  ImageOf[x] # ImageOf[frames[i].code]
    OBVIOUS
  <2>2. x \in Range(Tree[m])
    BY DEF Below, Range
  <2>3. frames[i] \in Frame /\ frames[i].kind = "gate" /\ i \in DOMAIN frames
    BY DEF Gates, Reliable, Inv, TypeOK
  <2>4. frames[i].code \in Instances
    BY <2>3 DEF Frame, Reliable, Inv, CallersOnOwnLot
  <2>5. active[frames[i].code]
    BY <2>3, <2>4 DEF Reliable, ActiveIffOnStack
  <2> QED BY <1>1, <2>2, <2>4, <2>5 DEF NoneActive
<1> QED BY <1>1, <1>2, <1>3, <1>4, <1>5, PushReliable

\* Loading a root constructs modules that no activation runs.
LEMMA LoadReliable ==
  ASSUME Practices = {}, Reliable, Inv', NEW m \in Roots,
         m \notin Range(Loaded), MayLoad(m), Construct(m),
         UNCHANGED <<r9, frames, control>>,
         Range(Loaded)' = Range(Loaded) \cup {m}
  PROVE  Reliable'
<1>1. TypeOK /\ TypeOK'
  BY DEF Reliable, Inv
<1>2. Range(Loaded) \subseteq Roots
  BY <1>1, LoadedRoots
<1>3. \A x : IsLoaded(x) <=> \E r \in Range(Loaded) : x \in Range(Tree[r])
  BY <1>1, LoadedRoots
<1>4. \A x : IsLoaded(x) => IsLoaded(x)'
  <2>1. \A x : IsLoaded(x)' <=> \E r \in Range(Loaded)' : x \in Range(Tree[r])
    BY DEF IsLoaded, Range
  <2> QED BY <1>3, <2>1
<1>5. \A x : IsLoaded(x) => x \notin Range(Tree[m])
  BY <1>2, <1>3, OwnershipAssumption
<1>6. active' = active
  <2>1. active \in [Instances -> BOOLEAN]
    BY <1>1 DEF TypeOK
  <2>2. \A x \in Instances : active[x] => IsLoaded(x)
    BY DEF Reliable, ActiveIffOnStack, ActivationsLoaded
  <2>3. \A x \in Instances : active'[x] = active[x]
    BY <1>5, <2>1, <2>2 DEF Construct
  <2> QED BY <2>1, <2>3 DEF Construct
<1>7. ActivationsLoaded'
  BY <1>4 DEF Reliable, ActivationsLoaded
<1>8. RootImagesDiffer'
  <2>1. \A r \in Range(Loaded) : ImageOf[r] # ImageOf[m]
    BY DEF MayLoad, Range
  <2>2. \A a, b \in Range(Loaded)' : ImageOf[a] = ImageOf[b] => a = b
    BY <2>1 DEF Reliable, RootImagesDiffer
  <2> QED BY <2>2 DEF RootImagesDiffer
<1>9. /\ NeverLost' /\ DispatchMatchesBinding' /\ EnvironmentFromModules'
      /\ ActiveIffOnStack' /\ ImagesDescend' /\ GatesDiffer'
  BY <1>6 DEF Reliable, NeverLost, DispatchMatchesBinding, EnvironmentFromModules,
              ActiveIffOnStack, ImagesDescend, GatesDiffer, Gates
<1> QED BY <1>7, <1>8, <1>9 DEF Reliable

\* Dropping a handle removes modules that no activation runs.
LEMMA DropReliable ==
  ASSUME Practices = {}, Reliable, Inv', NEW m \in Roots, Drop(m)
  PROVE  Reliable'
<1>1. /\ ~InUse(m) /\ UNCHANGED <<active, ctx, r9, frames, control>>
      /\ TypeOK /\ TypeOK'
  BY DEF Drop, MayDrop, Reliable, Inv
<1>2. /\ executables \in Seq(Roots) /\ libraries \in Seq(Roots)
      /\ Range(Loaded) = Range(executables) \cup Range(libraries)
      /\ Range(Loaded)' = Range(executables') \cup Range(libraries')
  <2>1. (Range(Loaded) = Range(executables) \cup Range(libraries))'
    <3>1. CASE Roots = {}
      <4>1. executables' = <<>> /\ libraries' = <<>>
        BY <1>1, <3>1 DEF TypeOK, Roots
      <4> QED BY <4>1 DEF Loaded, Range
    <3>2. CASE Roots # {}
      <4>1. executables' \in Seq(Roots) /\ libraries' \in Seq(Roots)
        BY <1>1 DEF TypeOK, Roots
      <4> QED BY <3>2, <4>1, ListMembers DEF Loaded
    <3> QED BY <3>1, <3>2
  <2> QED BY <1>1, <2>1, LoadedRoots
<1>3. ASSUME NEW seq \in Seq(Roots), NEW k \in DOMAIN seq, seq[k] = m
      PROVE  /\ Range(RemoveAt(seq, k)) \subseteq Range(seq)
             /\ Range(seq) \ {m} \subseteq Range(RemoveAt(seq, k))
  <2> DEFINE shorter == RemoveAt(seq, k)
  <2>1. /\ \A j \in DOMAIN seq \ {k} : \E i \in DOMAIN shorter : shorter[i] = seq[j]
        /\ \A i \in DOMAIN shorter : \E j \in DOMAIN seq : shorter[i] = seq[j]
    BY ShorterSeq
  <2> HIDE DEF shorter
  <2>2. Range(shorter) \subseteq Range(seq)
    BY <2>1 DEF Range
  <2>3. Range(seq) \ {m} \subseteq Range(shorter)
    BY <1>3, <2>1 DEF Range
  <2> QED BY <2>2, <2>3 DEF shorter
<1>4. /\ Range(Loaded)' \subseteq Range(Loaded)
      /\ Range(Loaded) \ {m} \subseteq Range(Loaded)'
  BY <1>2, <1>3 DEF Drop
<1>5. ActivationsLoaded'
  <2>1. SUFFICES ASSUME NEW k \in DOMAIN frames, frames[k].code \in Instances
                 PROVE  IsLoaded(frames[k].code)'
    BY <1>1 DEF ActivationsLoaded, IsLoaded, Loaded
  <2>2. PICK r \in Range(Loaded) : frames[k].code \in Range(Tree[r])
    BY <1>1, <2>1, LoadedRoots DEF Reliable, ActivationsLoaded
  <2>3. r # m
    BY <1>1, <2>2 DEF InUse
  <2>4. r \in Range(Loaded)'
    BY <1>4, <2>3
  <2> QED BY <1>1, <2>2, <2>4 DEF IsLoaded, Range
<1>6. RootImagesDiffer'
  <2>1. \A a, b \in Range(Loaded)' : ImageOf[a] = ImageOf[b] => a = b
    BY <1>4 DEF Reliable, RootImagesDiffer
  <2> QED BY <2>1 DEF RootImagesDiffer
<1>7. /\ NeverLost' /\ DispatchMatchesBinding' /\ EnvironmentFromModules'
      /\ ActiveIffOnStack' /\ ImagesDescend' /\ GatesDiffer'
  BY <1>1 DEF Reliable, NeverLost, DispatchMatchesBinding, EnvironmentFromModules,
              ActiveIffOnStack, ImagesDescend, GatesDiffer, Gates
<1> QED BY <1>5, <1>6, <1>7 DEF Reliable

\* Loading appends to one of the two lists.
LEMMA LoadedGrows ==
  ASSUME TypeOK, NEW m \in Roots,
         \/ executables' = Append(executables, m) /\ UNCHANGED libraries
         \/ libraries' = Append(libraries, m) /\ UNCHANGED executables
  PROVE  Range(Loaded)' = Range(Loaded) \cup {m}
<1>1. executables \in Seq(Roots) /\ libraries \in Seq(Roots)
  BY LoadedRoots
<1>2. executables' \in Seq(Roots) /\ libraries' \in Seq(Roots)
  BY <1>1
<1>3. Range(Loaded) = Range(executables) \cup Range(libraries)
  BY LoadedRoots
<1>4. Range(Loaded)' = Range(executables') \cup Range(libraries')
  BY <1>2, ListMembers DEF Loaded
<1>5. /\ Range(Append(executables, m)) = Range(executables) \cup {m}
      /\ Range(Append(libraries, m)) = Range(libraries) \cup {m}
  BY <1>1, ListMembers
<1>6. CASE executables' = Append(executables, m) /\ UNCHANGED libraries
  BY <1>3, <1>4, <1>5, <1>6
<1>7. CASE libraries' = Append(libraries, m) /\ UNCHANGED executables
  BY <1>3, <1>4, <1>5, <1>7
<1> QED BY <1>6, <1>7

LEMMA CallEnvironmentReliable ==
  ASSUME Reliable, NEW m \in Instances, NEW s \in Symbols, CallEnvironment(m, s)
  PROVE  Reliable'
<1>1. /\ r9 = m /\ Depth < MaxDepth /\ Push("plain", Host, Host)
      /\ UNCHANGED <<executables, libraries, active, ctx, r9, control>>
  BY DEF CallEnvironment
<1>2. Inv'
  BY <1>1, PlainCallInv DEF Reliable, NeverLost
<1>3. Host \notin Instances
  BY KindAssumption
<1> QED BY <1>1, <1>2, <1>3, PushReliable

LEMMA NextReliable == Practices = {} /\ Reliable /\ [Next]_vars => Reliable'
<1> SUFFICES ASSUME Practices = {}, Reliable, [Next]_vars PROVE Reliable'
  OBVIOUS
<1> USE DEF Reliable
<1>1. Inv' /\ TypeOK
  BY NextInv DEF Inv
<1> HIDE DEF Reliable
<1>2. ASSUME NEW m \in Executables, load_executable(m) PROVE Reliable'
  <2>1. m \in Roots
    BY DEF Roots
  <2>2. Range(Loaded)' = Range(Loaded) \cup {m}
    BY <1>1, <1>2, <2>1, LoadedGrows DEF load_executable
  <2> QED BY <1>1, <1>2, <2>1, <2>2, LoadReliable DEF load_executable
<1>3. ASSUME NEW m \in Libraries, load_library(m) PROVE Reliable'
  <2>1. m \in Roots
    BY DEF Roots
  <2>2. Range(Loaded)' = Range(Loaded) \cup {m}
    BY <1>1, <1>3, <2>1, LoadedGrows DEF load_library
  <2> QED BY <1>1, <1>3, <2>1, <2>2, LoadReliable DEF load_library
<1>4. ASSUME NEW m \in Roots, Drop(m) PROVE Reliable'
  BY <1>1, <1>4, DropReliable
<1>5. ASSUME NEW m \in Executables, execute(m) PROVE Reliable'
  BY <1>5, ExecuteReliable
<1>6. ASSUME NEW m \in Instances, NEW s \in Symbols, CallEnvironment(m, s)
      PROVE  Reliable'
  BY <1>6, CallEnvironmentReliable
<1>7. ASSUME NEW m \in Instances, NEW s \in Symbols, CallImport(m, s)
      PROVE  Reliable'
  BY <1>7, CallImportReliable
<1>8. ASSUME NEW h \in Libraries, NEW x \in Instances, CallLibrary(h, x)
      PROVE  Reliable'
  BY <1>8, CallLibraryReliable
<1>9. ASSUME NEW m \in Instances, NEW x \in Instances, CallPointer(m, x)
      PROVE  Reliable'
  BY <1>9 DEF CallPointer
<1>10. CASE ReturnFromMain
  BY <1>1, <1>10, PopReliable DEF ReturnFromMain
<1>11. CASE ReturnFromEnvironment
  BY <1>1, <1>11, PopReliable DEF ReturnFromEnvironment
<1>12. CASE Leave
  BY <1>12, LeaveReliable
<1>13. CASE UNCHANGED vars
  <2>1. /\ NeverLost' /\ DispatchMatchesBinding' /\ ActiveIffOnStack'
        /\ ImagesDescend' /\ GatesDiffer' /\ EnvironmentFromModules'
    BY <1>13 DEF vars, Reliable, NeverLost, DispatchMatchesBinding, ActiveIffOnStack,
                 ImagesDescend, GatesDiffer, Gates, EnvironmentFromModules
  <2>2. ActivationsLoaded' /\ RootImagesDiffer'
    BY <1>13 DEF vars, Reliable, ActivationsLoaded, RootImagesDiffer, IsLoaded, Loaded
  <2> QED BY <1>1, <2>1, <2>2 DEF Reliable
<1> QED
  BY <1>2, <1>3, <1>4, <1>5, <1>6, <1>7, <1>8, <1>9, <1>10, <1>11, <1>12, <1>13
     DEF Next

LEMMA ReliableImplies ==
  ASSUME Reliable
  PROVE  NeverLost /\ DispatchMatchesBinding /\ ActiveIffOnStack /\ OneInstanceActive
<1>1. OneInstanceActive
  <2>1. SUFFICES ASSUME NEW x \in Instances, NEW y \in Instances,
                        active[x], active[y], ImageOf[x] = ImageOf[y]
                 PROVE  x = y
    BY DEF OneInstanceActive
  <2>2. /\ \E i \in Gates : frames[i].code = x
        /\ \E j \in Gates : frames[j].code = y
    BY <2>1 DEF Reliable, ActiveIffOnStack, Gates
  <2> QED BY <2>1, <2>2 DEF Reliable, GatesDiffer
<1> QED BY <1>1 DEF Reliable
-----------------------------------------------------------------------------
(***************************************************************************)
(* The theorems, for clients that only call what they import.              *)
(***************************************************************************)
THEOREM Reliability == ASSUME Practices = {} PROVE Spec => []Reliable
<1>1. Reliable /\ [Next]_vars => Reliable'
  BY NextReliable
<1> QED BY <1>1, InitReliable, PTL DEF Spec

\* Every entry and every exit of a wrapper finds a module, and control always
\* comes back to the caller (supervisor_call.cpp's "TODO: implement panic").
THEOREM ControlIsKept == ASSUME Practices = {} PROVE Spec => []NeverLost
BY Reliability, ReliableImplies, PTL

\* Dispatch at run time agrees with name resolution at load time.
THEOREM DispatchIsBinding ==
  ASSUME Practices = {} PROVE Spec => []DispatchMatchesBinding
BY Reliability, ReliableImplies, PTL

\* The active flag means: a call through a wrapper of this module is unfinished.
THEOREM ActiveFlag == ASSUME Practices = {} PROVE Spec => []ActiveIffOnStack
BY Reliability, ReliableImplies, PTL

\* The comment at module.hpp:115 holds for such clients.
THEOREM OneActive == ASSUME Practices = {} PROVE Spec => []OneInstanceActive
BY Reliability, ReliableImplies, PTL
-----------------------------------------------------------------------------
(***************************************************************************)
(* The call gates implement AbstractCalls: the initial states are abstract *)
(* initial states, and every step is an abstract call, return or loss of   *)
(* control, or changes nothing the abstract specification speaks of.       *)
(***************************************************************************)
LEMMA Extensional ==
  ASSUME NEW T, NEW a \in Seq(T), NEW b \in Seq(T), Len(a) = Len(b),
         \A k \in 1..Len(a) : a[k] = b[k]
  PROVE  a = b
OBVIOUS

Caller == [code : Instances \cup {Host}, r9 : Instances \cup {Host}]

SuspendedOK ==
  /\ Suspended \in Seq(Caller) /\ Len(Suspended) = Depth /\ Depth \in Nat
  /\ DOMAIN frames = 1..Depth
  /\ \A k \in 1..Depth :
       Suspended[k] = [code |-> IF k = 1 THEN Host ELSE frames[k - 1].code,
                       r9 |-> frames[k].r9]
  /\ Code = IF Depth = 0 THEN Host ELSE frames[Depth].code
  /\ Code \in Instances \cup {Host}

LEMMA SuspendedIsSeq == TypeOK => SuspendedOK
<1> SUFFICES ASSUME TypeOK PROVE SuspendedOK
  OBVIOUS
<1>1. /\ Depth \in Nat /\ DOMAIN frames = 1..Depth
      /\ \A k \in 1..Depth : frames[k] \in Frame
      /\ frames \in Seq(Frame)
  BY DEF TypeOK, Depth
<1>2. \A k \in 1..Depth : /\ frames[k].code \in Instances \cup {Host}
                          /\ frames[k].r9 \in Instances \cup {Host}
  BY <1>1 DEF Frame
<1>3. \A k \in 1..Depth : k # 1 => k - 1 \in 1..Depth
  BY <1>1
<1>4. \A k \in 1..Depth :
        [code |-> IF k = 1 THEN Host ELSE frames[k - 1].code, r9 |-> frames[k].r9] \in Caller
  BY <1>2, <1>3 DEF Caller
<1>5. /\ Suspended \in [1..Depth -> Caller]
      /\ \A k \in 1..Depth :
           Suspended[k] = [code |-> IF k = 1 THEN Host ELSE frames[k - 1].code,
                           r9 |-> frames[k].r9]
  BY <1>1, <1>4 DEF Suspended
<1>6. Suspended \in Seq(Caller) /\ Len(Suspended) = Depth
  BY <1>1, <1>5
<1>7. Code = IF Depth = 0 THEN Host ELSE frames[Depth].code
  <2>1. CASE frames = <<>>
    BY <2>1 DEF Code, Depth
  <2>2. CASE frames # <<>>
    BY <1>1, <2>2, TopIsLast DEF Code
  <2> QED BY <2>1, <2>2
<1>8. Code \in Instances \cup {Host}
  BY <1>1, <1>2, <1>7
<1> QED BY <1>1, <1>5, <1>6, <1>7, <1>8 DEF SuspendedOK

\* A call suspends the code that makes it, with its r9.
LEMMA PushSuspends ==
  ASSUME Inv, TypeOK', control = "running", UNCHANGED control, Depth < MaxDepth,
         NEW kind \in {"gate", "main", "plain"},
         NEW code \in Instances \cup {Host},
         NEW bound \in Instances \cup {Host},
         kind = "plain" <=> code = Host,
         Push(kind, code, bound)
  PROVE  Calls!Suspend /\ Code' = code
<1>1. SuspendedOK
  BY SuspendedIsSeq DEF Inv
<1>2. SuspendedOK'
  <2>1. TypeOK' => SuspendedOK'
    BY SuspendedIsSeq, PTL
  <2> QED BY <2>1
<1>3. /\ Depth \in Nat /\ Depth' = Depth + 1
      /\ \A k \in 1..Depth : frames'[k] = frames[k]
      /\ frames'[Depth + 1].code = code /\ frames'[Depth + 1].r9 = r9
  <2>1. /\ Depth \in Nat /\ Depth' = Depth + 1 /\ DOMAIN frames = 1..Depth
        /\ \A k \in DOMAIN frames : frames'[k] = frames[k]
        /\ frames'[Depth + 1] =
             [kind |-> kind, code |-> code, bound |-> bound, r9 |-> r9]
    BY PushActivation
  <2> QED BY <2>1
<1> DEFINE caller == [code |-> Code, r9 |-> r9]
           longer == Append(Suspended, caller)
<1>4. Suspended \in Seq(Caller) /\ Len(Suspended) = Depth
  BY <1>1 DEF SuspendedOK
<1>5. caller \in Caller
  <2>1. r9 \in Instances \cup {Host}
    <3>1. frames'[Depth + 1] \in Frame
      <4>1. frames' \in Seq(Frame) /\ DOMAIN frames' = 1..Depth + 1
        BY PushActivation
      <4> QED BY <1>3, <4>1
    <3> QED BY <1>3, <3>1 DEF Frame
  <2> QED BY <1>1, <2>1 DEF SuspendedOK, Caller
<1>6. /\ longer \in Seq(Caller) /\ Len(longer) = Depth + 1
      /\ \A k \in 1..Depth : longer[k] = Suspended[k]
      /\ longer[Depth + 1] = caller
  BY <1>4, <1>5, PushIsAppend
<1>7. Suspended' \in Seq(Caller) /\ Len(Suspended') = Depth + 1
  BY <1>2, <1>3 DEF SuspendedOK, Caller
<1>8. \A k \in 1..Depth : Suspended'[k] = Suspended[k]
  BY <1>1, <1>2, <1>3 DEF SuspendedOK
<1>9. Suspended'[Depth + 1] = caller
  <2>1. Suspended'[Depth + 1] =
          [code |-> IF Depth + 1 = 1 THEN Host ELSE frames'[Depth].code, r9 |-> r9]
    BY <1>2, <1>3 DEF SuspendedOK
  <2>2. Code = IF Depth + 1 = 1 THEN Host ELSE frames'[Depth].code
    BY <1>1, <1>3 DEF SuspendedOK
  <2> QED BY <2>1, <2>2
<1> HIDE DEF longer, caller
<1>10. \A k \in 1..Len(longer) : longer[k] = Suspended'[k]
  BY <1>3, <1>6, <1>8, <1>9
<1>11. Suspended' = longer
  BY <1>6, <1>7, <1>10, Extensional
<1>12. Code' = code
  BY <1>2, <1>3 DEF SuspendedOK
<1> QED BY <1>11, <1>12 DEF Calls!Suspend, longer, caller

\* A return resumes the last suspended caller.
LEMMA PopReturns ==
  ASSUME Inv, TypeOK', control = "running", UNCHANGED control,
         frames # <<>>, frames' = Front(frames), r9' = Top.r9
  PROVE  Calls!Return
<1>1. SuspendedOK
  BY SuspendedIsSeq DEF Inv
<1>2. SuspendedOK'
  <2>1. TypeOK' => SuspendedOK'
    BY SuspendedIsSeq, PTL
  <2> QED BY <2>1
<1>3. /\ Depth \in Nat \ {0} /\ Depth' = Depth - 1
      /\ \A k \in 1..Depth - 1 : frames'[k] = frames[k]
      /\ Top = frames[Depth]
  BY PopActivation
<1>4. /\ Suspended \in Seq(Caller) /\ Len(Suspended) = Depth
      /\ Suspended # <<>>
  BY <1>1, <1>3 DEF SuspendedOK
<1>5. /\ Last(Suspended) = Suspended[Depth]
      /\ Front(Suspended) \in Seq(Caller)
      /\ Len(Front(Suspended)) = Depth - 1
      /\ \A k \in 1..Depth - 1 : Front(Suspended)[k] = Suspended[k]
  BY <1>4, PopIsFront
<1>6. Suspended' \in Seq(Caller) /\ Len(Suspended') = Depth - 1
  BY <1>2, <1>3 DEF SuspendedOK, Caller
<1>7. \A k \in 1..Depth - 1 : Suspended'[k] = Suspended[k]
  <2>1. SUFFICES ASSUME NEW k \in 1..Depth - 1 PROVE Suspended'[k] = Suspended[k]
    OBVIOUS
  <2>2. k \in 1..Depth /\ k \in 1..Depth' /\ (k # 1 => k - 1 \in 1..Depth - 1)
    BY <1>3
  <2>3. frames'[k].r9 = frames[k].r9 /\ (k # 1 => frames'[k - 1].code = frames[k - 1].code)
    BY <1>3, <2>2
  <2> QED BY <1>1, <1>2, <2>2, <2>3 DEF SuspendedOK
<1>8. \A k \in 1..Len(Suspended') : Suspended'[k] = Front(Suspended)[k]
  BY <1>5, <1>6, <1>7
<1>9. Suspended' = Front(Suspended)
  BY <1>5, <1>6, <1>8, Extensional
<1>10. Last(Suspended).r9 = Top.r9
  BY <1>1, <1>3, <1>5 DEF SuspendedOK
<1>11. Code' = Last(Suspended).code
  BY <1>1, <1>2, <1>3, <1>5 DEF SuspendedOK
<1> QED BY <1>4, <1>9, <1>10, <1>11 DEF Calls!Return, Calls!Last, Calls!Front, Last, Front

-----------------------------------------------------------------------------
LEMMA InitRefines == Init => Calls!Init
<1> SUFFICES ASSUME Init PROVE Calls!Init
  OBVIOUS
<1>1. frames = <<>> /\ DOMAIN frames = {}
  BY DEF Init
<1>2. Suspended = <<>>
  BY <1>1 DEF Suspended
<1> QED BY <1>1, <1>2 DEF Init, Calls!Init, Code

\* A wrapper's entry is an abstract call when it finds a module, else a loss.
LEMMA EnterRefines ==
  ASSUME Inv, TypeOK', Practices = {} => NeverLost',
         control = "running", NEW x \in Instances, Enter(x)
  PROVE  Calls!Next
<1> DEFINE m == find_module_for_pc_and_lot(ImageOf[x], r9)
<1>1. m \in Instances \cup {NoModule}
  BY FoundModule DEF Inv
<1>2. CASE m # NoModule
  <2>1. Push("gate", m, x) /\ r9' = m /\ UNCHANGED control /\ Depth < MaxDepth
    BY <1>2 DEF Enter
  <2>2. m \in Instances /\ m # Host
    BY <1>1, <1>2, KindAssumption
  <2>3. Calls!Suspend /\ Code' = m
    BY <2>1, <2>2, PushSuspends
  <2> QED BY <2>1, <2>2, <2>3 DEF Calls!Next, Calls!Enter
<1>3. CASE m = NoModule
  <2>1. control' = "lost" /\ UNCHANGED frames
    BY <1>3 DEF Enter
  <2>2. Practices # {}
    BY <2>1 DEF NeverLost
  <2>3. UNCHANGED <<Code, Suspended>>
    BY <2>1 DEF Code, Top, Suspended
  <2> QED BY <2>1, <2>2, <2>3 DEF Calls!Next, Calls!Lose
<1> QED BY <1>2, <1>3

\* A wrapper's exit is an abstract return when it comes back to the activation
\* below, whatever instance it took the context from; else it is a loss.
LEMMA LeaveRefines ==
  ASSUME Inv, TypeOK', Practices = {} => NeverLost', Leave
  PROVE  Calls!Next
<1> DEFINE m == find_active_module(ImageOf[Top.code])
<1>1. control = "running" /\ frames # <<>> /\ Top.kind = "gate" /\ TypeOK
  BY DEF Leave, Inv
<1>2. CASE UNCHANGED frames /\ control' = "lost"
  <2>1. Practices # {}
    BY <1>2 DEF NeverLost
  <2>2. UNCHANGED <<Code, Suspended>>
    BY <1>2 DEF Code, Top, Suspended
  <2> QED BY <1>1, <1>2, <2>1, <2>2 DEF Calls!Next, Calls!Lose
<1>3. CASE m # NoModule /\ ctx[m].lr = Depth - 1
  <2>1. /\ r9' = ctx[m].r9 /\ frames' = Front(frames) /\ UNCHANGED control
    BY <1>3 DEF Leave, restore_caller_state
  <2>2. m \in Instances /\ active[m]
    <3>1. m \in {y \in InstancesOf(ImageOf[Top.code]) : active[y]}
      BY <1>1, <1>3, FoundIsLoaded DEF find_active_module
    <3> QED BY <3>1 DEF InstancesOf
  <2>3. PICK k \in DOMAIN frames : ctx[m] = [r9 |-> frames[k].r9, lr |-> k - 1]
    BY <2>2 DEF Inv, ContextIsLive
  <2>4. Top = frames[Depth] /\ DOMAIN frames = 1..Depth /\ Depth \in Nat \ {0}
    BY <2>1, <1>1, PopActivation
  <2>5. k = Depth
    BY <1>3, <2>3, <2>4
  <2>6. r9' = Top.r9
    BY <2>1, <2>3, <2>4, <2>5
  <2> QED BY <1>1, <2>1, <2>6, PopReturns DEF Calls!Next
<1> QED BY <1>2, <1>3 DEF Leave, restore_caller_state

LEMMA NextRefines ==
  Inv /\ TypeOK' /\ (Practices = {} => NeverLost') /\ [Next]_vars
    => [Calls!Next]_(Calls!vars)
<1> SUFFICES ASSUME Inv, TypeOK', Practices = {} => NeverLost', [Next]_vars
             PROVE  [Calls!Next]_(Calls!vars)
  OBVIOUS
<1>1. ASSUME UNCHANGED <<r9, frames, control>> PROVE UNCHANGED Calls!vars
  BY <1>1 DEF Calls!vars, Code, Top, Suspended
<1>2. ASSUME NEW m \in Executables, load_executable(m) PROVE UNCHANGED Calls!vars
  BY <1>1, <1>2 DEF load_executable
<1>3. ASSUME NEW m \in Libraries, load_library(m) PROVE UNCHANGED Calls!vars
  BY <1>1, <1>3 DEF load_library
<1>4. ASSUME NEW m \in Roots, Drop(m) PROVE UNCHANGED Calls!vars
  BY <1>1, <1>4 DEF Drop
<1>5. ASSUME NEW m \in Executables, execute(m) PROVE Calls!Next
  <2>1. m \in Instances /\ m # Host
    BY KindAssumption DEF Roots
  <2>2. /\ control = "running" /\ UNCHANGED control /\ Depth < MaxDepth
        /\ Push("main", m, m) /\ r9' = m
    BY <1>5 DEF execute, Running
  <2>3. Calls!Suspend /\ Code' = m
    BY <2>1, <2>2, PushSuspends
  <2> QED BY <2>1, <2>2, <2>3 DEF Calls!Next, Calls!Enter
<1>6. ASSUME NEW m \in Instances, NEW s \in Symbols, CallEnvironment(m, s)
      PROVE  Calls!Next
  <2>1. /\ control = "running" /\ UNCHANGED <<r9, control>> /\ Depth < MaxDepth
        /\ Push("plain", Host, Host)
    BY <1>6 DEF CallEnvironment, Running
  <2>2. Calls!Suspend /\ Code' = Host
    BY <2>1, PushSuspends
  <2> QED BY <2>1, <2>2 DEF Calls!Next, Calls!EnterHost
<1>7. ASSUME NEW m \in Instances, NEW s \in Symbols, CallImport(m, s)
      PROVE  Calls!Next
  BY <1>7, EnterRefines DEF CallImport, Running
<1>8. ASSUME NEW h \in Libraries, NEW x \in Instances, CallLibrary(h, x)
      PROVE  Calls!Next
  BY <1>8, EnterRefines DEF CallLibrary, Running
<1>9. ASSUME NEW m \in Instances, NEW x \in Instances, CallPointer(m, x)
      PROVE  Calls!Next
  BY <1>9, EnterRefines DEF CallPointer, Running
<1>10. CASE ReturnFromMain
  BY <1>10, PopReturns DEF ReturnFromMain, Calls!Next
<1>11. CASE ReturnFromEnvironment
  <2>1. control = "running" /\ frames # <<>> /\ Top.kind = "plain" /\ TypeOK
        /\ frames' = Front(frames) /\ UNCHANGED <<r9, control>>
    BY <1>11 DEF ReturnFromEnvironment, Inv
  <2>2. r9 = Top.r9
    <3>1. frames \in Seq(Frame) /\ r9 = Own(Depth)
      BY <2>1 DEF TypeOK, Inv, RunsOnOwnLot
    <3> QED BY <2>1, <3>1, TopIsLast DEF Own
  <2> QED BY <2>1, <2>2, PopReturns DEF Calls!Next
<1>12. CASE Leave
  BY <1>12, LeaveRefines
<1>13. CASE UNCHANGED vars
  BY <1>1, <1>13 DEF vars
<1> QED
  BY <1>2, <1>3, <1>4, <1>5, <1>6, <1>7, <1>8, <1>9, <1>10, <1>11, <1>12, <1>13
     DEF Next

\* The gates implement the abstract calls, whatever clients do; with clients
\* that only call what they import, calls that never lose control.
THEOREM Refinement == Spec => ImplementsCalls
<1>1. Inv => TypeOK
  BY DEF Inv
<1>2. Reliable => NeverLost
  BY DEF Reliable
<1>3. CASE Practices = {}
  <2>1. [](Practices = {})
    BY <1>3, PTL
  <2>2. Spec => []Reliable
    BY <1>3, Reliability
  <2> QED BY <1>1, <1>2, <2>1, <2>2, Invariance, InitRefines, NextRefines, PTL
             DEF Spec, Calls!Spec, ImplementsCalls
<1>4. CASE ~(Practices = {})
  <2>1. []~(Practices = {})
    BY <1>4, PTL
  <2> QED BY <1>1, <2>1, Invariance, InitRefines, NextRefines, PTL
             DEF Spec, Calls!Spec, ImplementsCalls
<1> QED BY <1>3, <1>4
=============================================================================
