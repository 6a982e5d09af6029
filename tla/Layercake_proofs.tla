--------------------------- MODULE Layercake_proofs ---------------------------
(***************************************************************************)
(* Proofs about Layercake.  The layers are a tree of any finite size, so   *)
(* what the recursive functions of the graph compute is proved from the    *)
(* order of the layers: first that each has a value that satisfies its own *)
(* equation, and then what that value is.                                  *)
(***************************************************************************)
EXTENDS Layercake, WellFoundedInduction, FiniteSetTheorems, TLAPS

-----------------------------------------------------------------------------
(* Recursion *)

(* Every set of points has one that needs no other of the set. *)
Grounded(X, Needs) ==
    \A S \in SUBSET X : S # {} => \E x \in S : \A y \in S : <<y, x>> \notin Needs

(* Value makes an element of V of a point and a function, of which it looks *)
(* only at what the point needs.                                            *)
Local(Value, X, V, Needs) ==
    /\ \A x \in X : \A g \in [X -> V] : Value[<<x, g>>] \in V
    /\ \A x \in X : \A g, h \in [X -> V] :
          (\A y \in X : <<y, x>> \in Needs => g[y] = h[y])
             => Value[<<x, g>>] = Value[<<x, h>>]

(* f is what Value makes of it at every point. *)
Solves(f, X, Value) == \A x \in X : f[x] = Value[<<x, f>>]

(* Such an equation has a solution when its points are grounded. *)
LEMMA Recursion ==
    ASSUME NEW X, NEW V, NEW Needs, NEW Value, NEW default \in V,
           Grounded(X, Needs), Local(Value, X, V, Needs)
    PROVE  \E f \in [X -> V] : Solves(f, X, Value)
<1> USE DEF Local
<1> DEFINE On(D, g) == /\ \A x \in D, y \in X : <<y, x>> \in Needs => y \in D
                       /\ Solves(g, D, Value)
           Reached == {x \in X : \E D \in SUBSET X : \E g \in [X -> V] : On(D, g) /\ x \in D}
           Is(x, v) == \E D \in SUBSET X : \E g \in [X -> V] : On(D, g) /\ x \in D /\ g[x] = v
           f == [x \in X |-> IF x \in Reached THEN CHOOSE v \in V : Is(x, v) ELSE default]
<1>1. ASSUME NEW D \in SUBSET X, NEW E \in SUBSET X,
             NEW g \in [X -> V], NEW h \in [X -> V], On(D, g), On(E, h),
             NEW x \in D \cap E
      PROVE  g[x] = h[x]
  <2> DEFINE Differ == {y \in D \cap E : g[y] # h[y]}
  <2> SUFFICES ASSUME Differ # {} PROVE FALSE
      OBVIOUS
  <2>1. PICK y \in Differ : \A z \in Differ : <<z, y>> \notin Needs
      BY DEF Grounded
  <2>2. \A z \in X : <<z, y>> \in Needs => g[z] = h[z]
      BY <1>1, <2>1
  <2>3. Value[<<y, g>>] = Value[<<y, h>>]
      BY <2>2
  <2> QED BY <1>1, <2>1, <2>3 DEF Solves
<1>2. ASSUME NEW D \in SUBSET X, NEW g \in [X -> V], On(D, g), NEW x \in D
      PROVE  f[x] = g[x]
  <2>1. x \in X /\ x \in Reached /\ Is(x, g[x]) /\ g[x] \in V
      BY <1>2
  <2>2. Is(x, f[x])
      BY <2>1
  <2>3. PICK E \in SUBSET X : \E h \in [X -> V] : On(E, h) /\ x \in E /\ h[x] = f[x]
      BY <2>2
  <2>4. PICK h \in [X -> V] : On(E, h) /\ x \in E /\ h[x] = f[x]
      BY <2>3
  <2> HIDE DEF f, On
  <2> QED BY <1>1, <1>2, <2>4
<1>3. f \in [X -> V]
  <2>1. ASSUME NEW x \in Reached PROVE f[x] \in V
    <3>1. PICK D \in SUBSET X : \E g \in [X -> V] : On(D, g) /\ x \in D
        OBVIOUS
    <3>2. PICK g \in [X -> V] : On(D, g) /\ x \in D
        BY <3>1
    <3>3. f[x] = g[x]
        BY <1>2, <3>2
    <3> QED BY <3>2, <3>3
  <2> QED BY <2>1
<1> HIDE DEF f
<1>4. On(Reached, f)
  <2>1. ASSUME NEW x \in Reached
        PROVE  /\ \A y \in X : <<y, x>> \in Needs => y \in Reached
               /\ f[x] = Value[<<x, f>>]
    <3>1. PICK D \in SUBSET X : \E g \in [X -> V] : On(D, g) /\ x \in D
        OBVIOUS
    <3>2. PICK g \in [X -> V] : On(D, g) /\ x \in D
        BY <3>1
    <3>3. \A y \in X : <<y, x>> \in Needs => y \in D /\ f[y] = g[y]
        BY <1>2, <3>2
    <3>4. Value[<<x, f>>] = Value[<<x, g>>]
        BY <1>3, <3>3
    <3>5. f[x] = g[x] /\ g[x] = Value[<<x, g>>]
        BY <1>2, <3>2 DEF Solves
    <3> QED BY <3>2, <3>3, <3>4, <3>5
  <2> HIDE DEF Reached
  <2> QED BY <2>1 DEF Solves
<1>5. X \subseteq Reached
  <2> SUFFICES ASSUME X \ Reached # {} PROVE FALSE
      OBVIOUS
  <2>1. PICK x \in X \ Reached : \A y \in X \ Reached : <<y, x>> \notin Needs
      BY DEF Grounded
  <2> DEFINE D == Reached \cup {x}
             g == [f EXCEPT ![x] = Value[<<x, f>>]]
  <2>2. g \in [X -> V] /\ g[x] = Value[<<x, f>>]
      BY <1>3
  <2>3. \A y \in Reached : g[y] = f[y]
      BY <1>3, <2>1
  <2> HIDE DEF g
  <2>4. \A y \in X : <<y, x>> \in Needs => y \in Reached
      BY <2>1
  <2>5. Value[<<x, g>>] = Value[<<x, f>>]
    <3> HIDE DEF Reached
    <3> QED BY <1>3, <2>2, <2>3, <2>4
  <2>6. ASSUME NEW y \in Reached PROVE g[y] = Value[<<y, g>>]
    <3> y \in X
        OBVIOUS
    <3>1. \A z \in X : <<z, y>> \in Needs => f[z] = g[z]
        BY <1>4, <2>3
    <3>2. Value[<<y, g>>] = Value[<<y, f>>]
        BY <1>3, <2>2, <3>1
    <3>3. f[y] = Value[<<y, f>>]
        BY <1>4 DEF Solves
    <3> QED BY <2>3, <3>2, <3>3
  <2>7. On(D, g)
      BY <1>4, <2>2, <2>4, <2>5, <2>6 DEF Solves
  <2>8. D \in SUBSET X /\ x \in D
      OBVIOUS
  <2>9. x \in Reached
      BY <2>2, <2>7, <2>8
  <2> QED BY <2>1, <2>9
<1>6. Solves(f, X, Value)
    BY <1>4, <1>5 DEF Solves
<1> QED BY <1>3, <1>6

(* What a base layer is, and every layer whose parent is, all layers are. *)
LEMMA ParentInduction ==
    ASSUME NEW S,
           \A l \in Layers : IsBase(l) \/ Parent[l] \in S => l \in S
    PROVE  Layers \subseteq S
<1> SUFFICES ASSUME Layers \ S # {} PROVE FALSE
    OBVIOUS
<1>1. PICK l \in Layers \ S : Parent[l] \notin Layers \ S
    BY CakeAssumption DEF WellFormed
<1>2. Parent[l] \in S \/ IsBase(l)
    BY <1>1, CakeAssumption DEF WellFormed, IsBase
<1> QED BY <1>1, <1>2

(* f gives a base layer what first does, and another what further makes of *)
(* its parent's.                                                            *)
Follows(f, first, further) ==
    \A l \in Layers :
        f[l] = IF IsBase(l) THEN first[l] ELSE further[<<l, f[Parent[l]]>>]

(* A function that goes from each layer to its parent is defined. *)
LEMMA ParentRecursion ==
    ASSUME NEW V, NEW default \in V, NEW first \in [Layers -> V], NEW further \in [Layers \X V -> V]
    PROVE  \E f \in [Layers -> V] : Follows(f, first, further)
<1> DEFINE Needs == {<<Parent[l], l>> : l \in Layers}
           Value == [p \in Layers \X [Layers -> V] |->
              IF IsBase(p[1]) THEN first[p[1]]
              ELSE further[<<p[1], p[2][Parent[p[1]]]>>]]
<1>1. Grounded(Layers, Needs)
    BY CakeAssumption DEF WellFormed, Grounded
<1>2. \A l \in Layers : IsBase(l) \/ Parent[l] \in Layers
    BY CakeAssumption DEF WellFormed, IsBase
<1>3. \A l \in Layers : \A g \in [Layers -> V] :
         Value[<<l, g>>] =
            IF IsBase(l) THEN first[l] ELSE further[<<l, g[Parent[l]]>>]
    OBVIOUS
<1>4. \A l \in Layers : \A g \in [Layers -> V] : Value[<<l, g>>] \in V
    BY <1>2, <1>3
<1>5. \A l \in Layers : \A g, h \in [Layers -> V] :
         (\A m \in Layers : <<m, l>> \in Needs => g[m] = h[m])
            => Value[<<l, g>>] = Value[<<l, h>>]
    BY <1>2, <1>3
<1> HIDE DEF Value, Needs
<1>6. PICK f \in [Layers -> V] : Solves(f, Layers, Value)
  <2>1. Local(Value, Layers, V, Needs)
      BY <1>4, <1>5 DEF Local
  <2> QED BY <1>1, <2>1, Recursion
<1> QED BY <1>3, <1>6 DEF Solves, Follows

(* GetEffectiveRootfsSizeMB: the recursion over the parents has a value, which *)
(* is not below the default.                                                   *)
LEMMA EffectiveDef ==
    ASSUME NEW named \in [Layers -> Nat]
    PROVE  \A l \in Layers :
              /\ Effective(named)[l] =
                    LET inherited == IF IsBase(l) THEN DefaultSize ELSE Effective(named)[Parent[l]]
                    IN IF named[l] < inherited THEN inherited ELSE named[l]
              /\ Effective(named)[l] \in Nat /\ Effective(named)[l] >= DefaultSize
<1> DEFINE Larger(l, n) == IF named[l] < n THEN n ELSE named[l]
           first == [l \in Layers |-> Larger(l, DefaultSize)]
           further == [p \in Layers \X Nat |-> Larger(p[1], p[2])]
           Equation(f) == f = [l \in Layers |->
              LET inherited == IF IsBase(l) THEN DefaultSize ELSE f[Parent[l]]
              IN IF named[l] < inherited THEN inherited ELSE named[l]]
           value == Effective(named)
<1>1. first \in [Layers -> Nat] /\ further \in [Layers \X Nat -> Nat]
    BY CakeAssumption
<1>2. \A l \in Layers : IsBase(l) \/ Parent[l] \in Layers
    BY CakeAssumption DEF WellFormed, IsBase
<1>3. PICK f \in [Layers -> Nat] : Follows(f, first, further)
  <2> HIDE DEF first, further
  <2>1. 0 \in Nat
      OBVIOUS
  <2> QED BY <1>1, <2>1, ParentRecursion
<1>4. Equation(f)
    BY <1>2, <1>3 DEF Follows
<1>5. value = CHOOSE g : Equation(g)
    BY DEF Effective
<1>6. Equation(value)
  <2> HIDE DEF Equation, value
  <2> QED BY <1>4, <1>5
<1> HIDE DEF value
<1>7. \A l \in Layers : value[l] =
          LET inherited == IF IsBase(l) THEN DefaultSize ELSE value[Parent[l]]
          IN IF named[l] < inherited THEN inherited ELSE named[l]
    BY <1>6
<1>8. \A l \in Layers : value[l] \in Nat /\ value[l] >= DefaultSize
  <2> DEFINE S == {l \in Layers : value[l] \in Nat /\ value[l] >= DefaultSize}
  <2>1. \A l \in Layers : IsBase(l) \/ Parent[l] \in S => l \in S
      BY <1>7, CakeAssumption
  <2> HIDE DEF S
  <2>2. Layers \subseteq S
      BY <2>1, ParentInduction
  <2> QED BY <2>2 DEF S
<1> QED BY <1>7, <1>8 DEF value

(* GetBuildOrder: the chain of the parent, and the layer. *)
LEMMA ChainDef ==
    /\ Chain \in [Layers -> Seq(Layers)]
    /\ \A l \in Layers :
          Chain[l] = IF IsBase(l) THEN <<l>> ELSE Append(Chain[Parent[l]], l)
<1> DEFINE first == [l \in Layers |-> <<l>>]
           further == [p \in Layers \X Seq(Layers) |-> Append(p[2], p[1])]
           Equation(f) == f = [l \in Layers |->
              IF IsBase(l) THEN <<l>> ELSE Append(f[Parent[l]], l)]
<1>1. first \in [Layers -> Seq(Layers)] /\ further \in [Layers \X Seq(Layers) -> Seq(Layers)]
    OBVIOUS
<1>2. \A l \in Layers : IsBase(l) \/ Parent[l] \in Layers
    BY CakeAssumption DEF WellFormed, IsBase
<1>3. PICK f \in [Layers -> Seq(Layers)] : Follows(f, first, further)
  <2> HIDE DEF first, further
  <2>1. <<>> \in Seq(Layers)
      OBVIOUS
  <2> QED BY <1>1, <2>1, ParentRecursion
<1>4. Equation(f)
    BY <1>2, <1>3 DEF Follows
<1>5. Chain = CHOOSE g : Equation(g)
    BY DEF Chain
<1>6. Equation(Chain)
  <2> HIDE DEF Equation
  <2> QED BY <1>4, <1>5
<1>7. \A l \in Layers :
          Chain[l] = IF IsBase(l) THEN <<l>> ELSE Append(Chain[Parent[l]], l)
    BY <1>6
<1>8. \A l \in Layers : Chain[l] \in Seq(Layers)
  <2> DEFINE S == {l \in Layers : Chain[l] \in Seq(Layers)}
  <2>1. \A l \in Layers : IsBase(l) \/ Parent[l] \in S => l \in S
    <3>1. ASSUME NEW l \in Layers, IsBase(l) PROVE Chain[l] \in Seq(Layers)
      <4>1. <<l>> \in Seq(Layers)
          OBVIOUS
      <4>2. Chain[l] = <<l>>
          BY <1>7, <3>1, Zenon
      <4> QED BY <4>1, <4>2
    <3>2. ASSUME NEW l \in Layers, ~IsBase(l), Chain[Parent[l]] \in Seq(Layers)
          PROVE  Chain[l] \in Seq(Layers)
      <4>1. Append(Chain[Parent[l]], l) \in Seq(Layers)
          BY <3>2
      <4> QED BY <1>7, <3>2, <4>1
    <3> QED BY <3>1, <3>2
  <2> HIDE DEF S
  <2>2. Layers \subseteq S
      BY <2>1, ParentInduction
  <2> QED BY <2>2 DEF S
<1> QED BY <1>6, <1>7, <1>8

LEMMA ToSetAppend ==
    ASSUME NEW s \in Seq(Layers), NEW l
    PROVE  ToSet(Append(s, l)) = ToSet(s) \cup {l}
<1>1. ASSUME NEW x \in ToSet(Append(s, l)) PROVE x \in ToSet(s) \cup {l}
    BY DEF ToSet
<1>2. ASSUME NEW x \in ToSet(s) PROVE x \in ToSet(Append(s, l))
  <2>1. PICK i \in DOMAIN s : s[i] = x
      BY DEF ToSet
  <2>2. i \in DOMAIN Append(s, l) /\ Append(s, l)[i] = x
      BY <2>1
  <2> QED BY <2>2 DEF ToSet
<1>3. l \in ToSet(Append(s, l))
  <2>1. Len(s) + 1 \in DOMAIN Append(s, l) /\ Append(s, l)[Len(s) + 1] = l
      OBVIOUS
  <2> QED BY <2>1 DEF ToSet
<1> QED BY <1>1, <1>2, <1>3

(* The layer and the ancestry of its parent. *)
LEMMA AncestryDef ==
    ASSUME NEW l \in Layers
    PROVE  /\ IsBase(l) => Ancestry(l) = {l}
           /\ ~IsBase(l) => Ancestry(l) = Ancestry(Parent[l]) \cup {l}
<1>1. CASE IsBase(l)
    BY <1>1, ChainDef DEF Ancestry, ToSet
<1>2. CASE ~IsBase(l)
  <2>1. Parent[l] \in Layers
      BY <1>2, CakeAssumption DEF WellFormed, IsBase
  <2>2. Chain[Parent[l]] \in Seq(Layers)
      BY <2>1, ChainDef
  <2>3. Chain[l] = Append(Chain[Parent[l]], l)
      BY <1>2, ChainDef
  <2> QED BY <1>2, <2>2, <2>3, ToSetAppend DEF Ancestry
<1> QED BY <1>1, <1>2

(* The recursion of getBuildStatusCached. *)
StaleEquation ==
    /\ Stale \in [Layers -> BOOLEAN]
    /\ \A l \in Layers : Stale[l] =
            \/ rootfs[l] = "none"
            \/ saved[l] # files[l]
            \/ ~IsBase(l) /\ (Stale[Parent[l]] \/ l \in newer)

LEMMA StaleDef == StaleEquation
<1> DEFINE Own(l) == rootfs[l] = "none" \/ saved[l] # files[l]
           first == [l \in Layers |-> Own(l)]
           further == [p \in Layers \X BOOLEAN |-> Own(p[1]) \/ p[2] \/ p[1] \in newer]
           Equation(f) == f = [l \in Layers |->
            \/ rootfs[l] = "none"
            \/ saved[l] # files[l]
            \/ ~IsBase(l) /\ (f[Parent[l]] \/ l \in newer)]
<1>1. first \in [Layers -> BOOLEAN] /\ further \in [Layers \X BOOLEAN -> BOOLEAN]
    OBVIOUS
<1>2. \A l \in Layers : IsBase(l) \/ Parent[l] \in Layers
    BY CakeAssumption DEF WellFormed, IsBase
<1>3. PICK f \in [Layers -> BOOLEAN] : Follows(f, first, further)
  <2> HIDE DEF first, further
  <2>1. TRUE \in BOOLEAN
      OBVIOUS
  <2> QED BY <1>1, <2>1, ParentRecursion
<1>4. Equation(f)
    BY <1>2, <1>3 DEF Follows
<1>5. Stale = CHOOSE g : Equation(g)
    BY DEF Stale
<1>6. Equation(Stale)
  <2> HIDE DEF Equation
  <2> QED BY <1>4, <1>5
<1>7. \A l \in Layers : Stale[l] =
            \/ rootfs[l] = "none"
            \/ saved[l] # files[l]
            \/ ~IsBase(l) /\ (Stale[Parent[l]] \/ l \in newer)
    BY <1>6
<1>8. \A l \in Layers : Stale[l] \in BOOLEAN
    BY <1>7
<1> QED BY <1>6, <1>7, <1>8 DEF StaleEquation

LEMMA StaleDefNext == StaleEquation'
BY StaleDef, PTL

LEMMA ParentIn ==
    ASSUME NEW l \in Layers, ~IsBase(l)
    PROVE  Parent[l] \in Layers
BY CakeAssumption DEF WellFormed, IsBase

LEMMA AncestryIn ==
    ASSUME NEW l \in Layers
    PROVE  l \in Ancestry(l) /\ Ancestry(l) \subseteq Layers
<1>1. l \in Ancestry(l)
    BY AncestryDef
<1>2. Chain[l] \in Seq(Layers)
    BY ChainDef
<1> QED BY <1>1, <1>2 DEF Ancestry, ToSet

(* An ancestor's parent is an ancestor. *)
LEMMA AncestryClosed ==
    ASSUME NEW l \in Layers, NEW m \in Ancestry(l), ~IsBase(m)
    PROVE  Parent[m] \in Ancestry(l)
<1> DEFINE S == {x \in Layers : \A y \in Ancestry(x) : IsBase(y) \/ Parent[y] \in Ancestry(x)}
<1>1. ASSUME NEW x \in Layers, IsBase(x) \/ Parent[x] \in S
      PROVE  x \in S
  <2>1. CASE IsBase(x)
      BY <2>1, AncestryDef
  <2>2. CASE ~IsBase(x)
      BY <2>2, <1>1, AncestryDef, AncestryIn
  <2> QED BY <2>1, <2>2
<1> HIDE DEF S
<1>2. Layers \subseteq S
    BY <1>1, ParentInduction
<1> QED BY <1>2 DEF S

(* Ancestors of ancestors are ancestors. *)
LEMMA AncestryTransitive ==
    ASSUME NEW l \in Layers, NEW m \in Ancestry(l)
    PROVE  Ancestry(m) \subseteq Ancestry(l)
<1> DEFINE S == {x \in Layers : \A y \in Ancestry(x) : Ancestry(y) \subseteq Ancestry(x)}
<1>1. ASSUME NEW x \in Layers, IsBase(x) \/ Parent[x] \in S
      PROVE  x \in S
  <2>1. CASE IsBase(x)
      BY <2>1, AncestryDef
  <2>2. CASE ~IsBase(x)
      BY <2>2, <1>1, AncestryDef
  <2> QED BY <2>1, <2>2
<1> HIDE DEF S
<1>2. Layers \subseteq S
    BY <1>1, ParentInduction
<1> QED BY <1>2 DEF S

(* A layer's size by inheritance is made of its ancestors' sizes alone. *)
LEMMA EffectiveLocal ==
    ASSUME NEW n1 \in [Layers -> Nat], NEW n2 \in [Layers -> Nat], NEW l \in Layers,
           \A m \in Ancestry(l) : n1[m] = n2[m]
    PROVE  Effective(n1)[l] = Effective(n2)[l]
<1> DEFINE S == {x \in Layers : (\A m \in Ancestry(x) : n1[m] = n2[m])
                               => Effective(n1)[x] = Effective(n2)[x]}
<1>1. ASSUME NEW x \in Layers, IsBase(x) \/ Parent[x] \in S
      PROVE  x \in S
  <2> SUFFICES ASSUME \A m \in Ancestry(x) : n1[m] = n2[m]
               PROVE  Effective(n1)[x] = Effective(n2)[x]
      OBVIOUS
  <2>1. n1[x] = n2[x]
      BY AncestryIn
  <2>2. CASE IsBase(x)
      BY <2>1, <2>2, EffectiveDef
  <2>3. CASE ~IsBase(x)
    <3>1. Effective(n1)[Parent[x]] = Effective(n2)[Parent[x]]
        BY <1>1, <2>3, AncestryDef
    <3> QED BY <2>1, <2>3, <3>1, EffectiveDef
  <2> QED BY <2>2, <2>3
<1> HIDE DEF S
<1>2. Layers \subseteq S
    BY <1>1, ParentInduction
<1> QED BY <1>2 DEF S

(* The base layer is everybody's ancestor. *)
LEMMA BaseBelow == ASSUME NEW l \in Layers PROVE Base \in Ancestry(l) /\ (IsBase(l) => l = Base)
<1>1. PICK b : {m \in Layers : IsBase(m)} = {b}
    BY CakeAssumption, FS_Subset, FS_Singleton
<1>2. Base = b
    BY <1>1 DEF Base
<1> DEFINE S == {x \in Layers : Base \in Ancestry(x)}
<1>3. ASSUME NEW x \in Layers, IsBase(x) \/ Parent[x] \in S
      PROVE  x \in S
    BY <1>1, <1>2, <1>3, AncestryDef
<1> HIDE DEF S
<1>4. Layers \subseteq S
    BY <1>3, ParentInduction
<1> QED BY <1>1, <1>2, <1>4 DEF S

(* The ancestors of a layer that is not stale are not stale either. *)
LEMMA FreshAncestry ==
    ASSUME NEW l \in Layers, ~Stale[l], NEW m \in Ancestry(l)
    PROVE  /\ rootfs[m] # "none" /\ saved[m] = files[m]
           /\ IsBase(m) \/ m \notin newer
<1> DEFINE S == {x \in Layers : ~Stale[x] => \A y \in Ancestry(x) : ~Stale[y]}
<1>1. ASSUME NEW x \in Layers, IsBase(x) \/ Parent[x] \in S
      PROVE  x \in S
  <2>1. CASE IsBase(x)
      BY <2>1, AncestryDef
  <2>2. CASE ~IsBase(x)
      BY <2>2, <1>1, AncestryDef, StaleDef DEF StaleEquation
  <2> QED BY <2>1, <2>2
<1> HIDE DEF S
<1>2. Layers \subseteq S
    BY <1>1, ParentInduction
<1>3. m \in Layers /\ ~Stale[m]
    BY <1>2, AncestryIn DEF S
<1> QED BY <1>3, StaleDef DEF StaleEquation

(* No layer is its own ancestor. *)
LEMMA Acyclic ==
    ASSUME NEW l \in Layers, ~IsBase(l)
    PROVE  l \notin Ancestry(Parent[l])
<1> DEFINE p == Parent[l]
           S == {m \in Ancestry(p) : l \in Ancestry(m)}
<1> SUFFICES ASSUME l \in Ancestry(p) PROVE FALSE
    OBVIOUS
<1>1. p \in Layers /\ Ancestry(p) \subseteq Layers /\ p \in Ancestry(p)
    BY ParentIn, AncestryIn
<1>2. p \in S /\ l \in S /\ S \in SUBSET Layers
    BY <1>1, AncestryIn
<1>3. PICK m \in S : Parent[m] \notin S
    BY <1>2, CakeAssumption DEF WellFormed
<1>4. m # l
    BY <1>2, <1>3
<1>5. m \in Layers /\ ~IsBase(m)
    BY <1>1, <1>3, <1>4, AncestryDef
<1>6. Parent[m] \in Ancestry(p)
    BY <1>1, <1>3, <1>5, AncestryClosed
<1>7. l \in Ancestry(Parent[m])
    BY <1>3, <1>4, <1>5, AncestryDef
<1> QED BY <1>3, <1>6, <1>7

(* Of two ancestors of a layer one is the other's. *)
LEMMA AncestryLinear ==
    ASSUME NEW l \in Layers, NEW a \in Ancestry(l), NEW b \in Ancestry(l)
    PROVE  a \in Ancestry(b) \/ b \in Ancestry(a)
<1> DEFINE S == {x \in Layers : \A y, z \in Ancestry(x) : y \in Ancestry(z) \/ z \in Ancestry(y)}
<1>1. ASSUME NEW x \in Layers, IsBase(x) \/ Parent[x] \in S
      PROVE  x \in S
  <2>1. CASE IsBase(x)
      BY <2>1, AncestryDef
  <2>2. CASE ~IsBase(x)
      BY <2>2, <1>1, AncestryDef
  <2> QED BY <2>1, <2>2
<1> HIDE DEF S
<1>2. Layers \subseteq S
    BY <1>1, ParentInduction
<1> QED BY <1>2 DEF S

(* A layer descends from one child of another at most. *)
LEMMA OneBranch ==
    ASSUME NEW l \in Layers, NEW a \in Ancestry(l), NEW b \in Ancestry(l),
           ~IsBase(a), ~IsBase(b), Parent[a] = Parent[b]
    PROVE  a = b
<1>1. a \in Layers /\ b \in Layers
    BY AncestryIn
<1>2. a \notin Ancestry(Parent[b]) /\ b \notin Ancestry(Parent[a])
    BY <1>1, Acyclic
<1> QED BY <1>1, <1>2, AncestryLinear, AncestryDef

-----------------------------------------------------------------------------
(* Orders of layers *)

(* Layers, each once, and its parent before it. *)
ParentsFirst(s) ==
    /\ s \in Seq(Layers) /\ IsInjective(s)
    /\ \A i \in 1 .. Len(s) : IsBase(s[i]) \/ \E j \in 1 .. i - 1 : s[j] = Parent[s[i]]

LEMMA EmptyParentsFirst == ParentsFirst(<<>>)
BY DEF ParentsFirst, IsInjective

LEMMA AppendParentsFirst ==
    ASSUME NEW s, ParentsFirst(s), NEW l \in Layers, l \notin ToSet(s),
           IsBase(l) \/ Parent[l] \in ToSet(s)
    PROVE  ParentsFirst(Append(s, l))
<1> DEFINE t == Append(s, l)
<1>1. s \in Seq(Layers) /\ t \in Seq(Layers) /\ Len(t) = Len(s) + 1
    BY DEF ParentsFirst
<1>2. \A i \in 1 .. Len(s) : t[i] = s[i] /\ s[i] \in ToSet(s)
    BY <1>1 DEF ToSet
<1>3. t[Len(s) + 1] = l
    BY <1>1
<1>4. DOMAIN t = 1 .. Len(s) + 1 /\ DOMAIN s = 1 .. Len(s)
    BY <1>1
<1> HIDE DEF t
<1>5. IsInjective(t)
  <2> SUFFICES ASSUME NEW i \in 1 .. Len(s) + 1, NEW j \in 1 .. Len(s) + 1, t[i] = t[j]
               PROVE  i = j
      BY <1>4 DEF IsInjective
  <2>1. CASE i = Len(s) + 1 \/ j = Len(s) + 1
      BY <2>1, <1>1, <1>2, <1>3
  <2>2. CASE i \in 1 .. Len(s) /\ j \in 1 .. Len(s)
      BY <2>2, <1>2, <1>4 DEF ParentsFirst, IsInjective
  <2> QED BY <2>1, <2>2, <1>1
<1>6. ASSUME NEW i \in 1 .. Len(t)
      PROVE  IsBase(t[i]) \/ \E j \in 1 .. i - 1 : t[j] = Parent[t[i]]
  <2>1. CASE i = Len(s) + 1
    <3>1. CASE IsBase(l)
        BY <2>1, <3>1, <1>3
    <3>2. CASE Parent[l] \in ToSet(s)
      <4>1. PICK j \in DOMAIN s : s[j] = Parent[l]
          BY <3>2 DEF ToSet
      <4> QED BY <2>1, <4>1, <1>1, <1>2, <1>3, <1>4
    <3> QED BY <3>1, <3>2
  <2>2. CASE i \in 1 .. Len(s)
    <3>1. CASE IsBase(s[i])
        BY <2>2, <3>1, <1>2
    <3>2. CASE ~IsBase(s[i])
      <4>1. PICK j \in 1 .. i - 1 : s[j] = Parent[s[i]]
          BY <2>2, <3>2 DEF ParentsFirst
      <4>2. j \in 1 .. Len(s)
          BY <2>2, <4>1, <1>1
      <4> QED BY <2>2, <4>1, <4>2, <1>2
    <3> QED BY <3>1, <3>2
  <2> QED BY <2>1, <2>2, <1>1
<1> QED BY <1>1, <1>5, <1>6 DEF ParentsFirst, t

(* GetBuildOrder: every ancestor once, the base first. *)
LEMMA ChainParentsFirst == \A l \in Layers : ParentsFirst(Chain[l])
<1> DEFINE S == {l \in Layers : ParentsFirst(Chain[l])}
<1>1. ASSUME NEW l \in Layers, IsBase(l) \/ Parent[l] \in S
      PROVE  l \in S
  <2>1. CASE IsBase(l)
    <3>1. Chain[l] = <<l>>
        BY <2>1, ChainDef
    <3>2. <<l>> \in Seq(Layers) /\ Len(<<l>>) = 1 /\ DOMAIN <<l>> = 1 .. 1 /\ <<l>>[1] = l
        OBVIOUS
    <3>3. IsInjective(<<l>>)
        BY <3>2 DEF IsInjective
    <3>4. \A i \in 1 .. Len(<<l>>) : IsBase(<<l>>[i])
        BY <2>1, <3>2
    <3> QED BY <3>1, <3>2, <3>3, <3>4 DEF ParentsFirst
  <2>2. CASE ~IsBase(l)
    <3>1. Parent[l] \in Layers /\ ParentsFirst(Chain[Parent[l]])
        BY <2>2, <1>1
    <3>2. Chain[l] = Append(Chain[Parent[l]], l)
        BY <2>2, ChainDef
    <3>3. l \notin ToSet(Chain[Parent[l]]) /\ Parent[l] \in ToSet(Chain[Parent[l]])
        BY <2>2, <3>1, Acyclic, AncestryIn DEF Ancestry
    <3> QED BY <3>1, <3>2, <3>3, AppendParentsFirst
  <2> QED BY <2>1, <2>2
<1> HIDE DEF S
<1>2. Layers \subseteq S
    BY <1>1, ParentInduction
<1> QED BY <1>2 DEF S

(* visit, of a layer that has been visited and of another. *)
LEMMA VisitDef ==
    ASSUME NEW s \in Seq(Layers), NEW l \in Layers
    PROVE  Visit(l, s) =
              IF l \in ToSet(s) THEN s
              ELSE Append(IF IsBase(l) THEN s ELSE Visit(Parent[l], s), l)
<1> DEFINE Base1(m) == IF m \in ToSet(s) THEN s ELSE Append(s, m)
           first == [m \in Layers |-> Base1(m)]
           further == [p \in Layers \X Seq(Layers) |->
                          IF p[1] \in ToSet(s) THEN s ELSE Append(p[2], p[1])]
           Equation(f) == f = [m \in Layers |->
              IF m \in ToSet(s) THEN s
              ELSE Append(IF IsBase(m) THEN s ELSE f[Parent[m]], m)]
           Visited == CHOOSE g : Equation(g)
<1>1. first \in [Layers -> Seq(Layers)] /\ further \in [Layers \X Seq(Layers) -> Seq(Layers)]
    OBVIOUS
<1>2. PICK f \in [Layers -> Seq(Layers)] : Follows(f, first, further)
  <2> HIDE DEF first, further
  <2> QED BY <1>1, ParentRecursion
<1>3. Equation(f)
    BY <1>2, ParentIn DEF Follows
<1>4. \A m : Visit(m, s) = Visited[m]
    BY DEF Visit
<1>5. Equation(Visited)
  <2> HIDE DEF Equation
  <2> QED BY <1>3
<1> HIDE DEF Visited
<1> QED BY <1>4, <1>5

(* A visit keeps what is sorted and adds the layer after its parent. *)
LEMMA VisitParentsFirst ==
    ASSUME NEW s, ParentsFirst(s), NEW l \in Layers
    PROVE  /\ ParentsFirst(Visit(l, s))
           /\ l \in ToSet(Visit(l, s))
           /\ ToSet(s) \subseteq ToSet(Visit(l, s))
<1> DEFINE v(m) == Visit(m, s)
           S == {m \in Layers : /\ ParentsFirst(v(m))
                                /\ m \in ToSet(v(m))
                                /\ ToSet(s) \subseteq ToSet(v(m))
                                /\ ToSet(v(m)) \subseteq ToSet(s) \cup Ancestry(m)}
<1>0. s \in Seq(Layers)
    BY DEF ParentsFirst
<1>1. ASSUME NEW m \in Layers, IsBase(m) \/ Parent[m] \in S
      PROVE  m \in S
  <2>1. CASE m \in ToSet(s)
    <3>1. v(m) = s
        BY <2>1, <1>0, VisitDef
    <3> QED BY <2>1, <3>1
  <2>2. CASE m \notin ToSet(s) /\ IsBase(m)
    <3>1. v(m) = Append(s, m)
        BY <2>2, <1>0, VisitDef
    <3>2. ToSet(v(m)) = ToSet(s) \cup {m}
        BY <3>1, <1>0, ToSetAppend
    <3>3. ParentsFirst(v(m))
        BY <2>2, <3>1, AppendParentsFirst
    <3> QED BY <3>2, <3>3, AncestryIn
  <2>3. CASE m \notin ToSet(s) /\ ~IsBase(m)
    <3> DEFINE p == Parent[m]
    <3>1. p \in Layers /\ p \in S
        BY <2>3, <1>1, ParentIn
    <3>2. v(m) = Append(v(p), m)
        BY <2>3, <1>0, VisitDef
    <3>3. ToSet(v(m)) = ToSet(v(p)) \cup {m}
        BY <3>1, <3>2, ToSetAppend DEF ParentsFirst
    <3>4. m \notin ToSet(v(p))
        BY <2>3, <3>1, Acyclic
    <3>5. ParentsFirst(v(m))
        BY <3>1, <3>2, <3>4, AppendParentsFirst
    <3>6. Ancestry(m) = Ancestry(p) \cup {m}
        BY <2>3, AncestryDef
    <3> HIDE DEF v
    <3> QED BY <3>1, <3>3, <3>5, <3>6
  <2> QED BY <2>1, <2>2, <2>3
<1> HIDE DEF S
<1>2. Layers \subseteq S
    BY <1>1, ParentInduction
<1> QED BY <1>2 DEF S

(* A set of numbers has a least. *)
LEMMA NatMinimal ==
    ASSUME NEW S \in SUBSET Nat, S # {}
    PROVE  \E n \in S : \A m \in S : n <= m
<1> DEFINE Less == {p \in Nat \X Nat : p[1] < p[2]}
<1>1. IsWellFoundedOn(Less, Nat)
    BY NatLessThanWellFounded DEF OpToRel
<1>2. PICK n \in S : \A m \in S : <<m, n>> \notin Less
  <2> HIDE DEF Less
  <2> QED BY <1>1, WFMin, Zenon
<1>3. \A m \in S : ~(m < n)
    BY <1>2, Zenon
<1> QED BY <1>3

LEMMA Up ==
    ASSUME NEW N \in Nat, NEW S, 0 \in S, \A n \in 1 .. N : n - 1 \in S => n \in S
    PROVE  0 .. N \subseteq S
<1> SUFFICES ASSUME (0 .. N) \ S # {} PROVE FALSE
    OBVIOUS
<1>1. PICK n \in (0 .. N) \ S : \A m \in (0 .. N) \ S : n <= m
  <2>1. (0 .. N) \ S \in SUBSET Nat
      OBVIOUS
  <2> QED BY ONLY (0 .. N) \ S # {}, <2>1, NatMinimal
<1>2. n \in 1 .. N /\ n - 1 \in 0 .. N
    BY <1>1
<1> QED BY <1>1, <1>2

LEMMA GroundedUp ==
    ASSUME NEW N \in Nat
    PROVE  Grounded(0 .. N, {<<n - 1, n>> : n \in 1 .. N})
<1> SUFFICES ASSUME NEW S \in SUBSET (0 .. N), S # {}
             PROVE  \E n \in S : \A m \in S : <<m, n>> \notin {<<k - 1, k>> : k \in 1 .. N}
    BY DEF Grounded
<1>1. PICK n \in S : \A m \in S : n <= m
    BY NatMinimal
<1> QED BY <1>1

(* An order of the map holds every layer once. *)
LEMMA OrdersDef ==
    ASSUME NEW rank \in Orders
    PROVE  /\ rank \in Seq(Layers) /\ IsInjective(rank)
           /\ ToSet(rank) = Layers
<1> DEFINE N == Cardinality(Layers)
<1>1. IsFiniteSet(Layers) /\ N \in Nat
    BY CakeAssumption, FS_CardinalityType
<1>2. rank \in [1 .. N -> Layers] /\ IsInjective(rank)
    BY DEF Orders, SetToSeqs, IsInjective
<1>3. rank \in Seq(Layers) /\ DOMAIN rank = 1 .. N
    BY <1>1, <1>2
<1>4. rank \in Injection(1 .. N, Layers)
    BY <1>2 DEF IsInjective, Injection, IsInjective
<1>5. rank \in Surjection(1 .. N, Layers)
  <2>1. IsFiniteSet(1 .. N) /\ Cardinality(1 .. N) = N
      BY <1>1, FS_Interval
  <2> QED BY <1>1, <1>4, <2>1, FS_Injection
<1> QED BY <1>2, <1>3, <1>5 DEF Surjection, ToSet

(* The layers are visited one after the other. *)
LEMMA TopologicalSortDef ==
    ASSUME NEW rank \in Seq(Layers)
    PROVE  \E f : /\ TopologicalSort(rank) = f[Len(rank)]
                  /\ f[0] = <<>>
                  /\ \A n \in 1 .. Len(rank) : f[n] = Visit(rank[n], f[n - 1])
<1> DEFINE N == Len(rank)
           V == {s \in Seq(Layers) : ParentsFirst(s)}
           Needs == {<<n - 1, n>> : n \in 1 .. N}
           Value == [p \in (0 .. N) \X [0 .. N -> V] |->
              IF p[1] = 0 THEN <<>> ELSE Visit(rank[p[1]], p[2][p[1] - 1])]
           Equation(f) == f = [n \in 0 .. N |->
              IF n = 0 THEN <<>> ELSE Visit(rank[n], f[n - 1])]
           Sorted == CHOOSE f : Equation(f)
<1>1. N \in Nat /\ \A n \in 1 .. N : rank[n] \in Layers
    OBVIOUS
<1>2. <<>> \in V
    BY EmptyParentsFirst
<1>3. \A n \in 0 .. N : \A g \in [0 .. N -> V] :
         Value[<<n, g>>] = IF n = 0 THEN <<>> ELSE Visit(rank[n], g[n - 1])
    OBVIOUS
<1>4. ASSUME NEW n \in 1 .. N, NEW g \in [0 .. N -> V]
      PROVE  n - 1 \in 0 .. N /\ Visit(rank[n], g[n - 1]) \in V
  <2>1. n - 1 \in 0 .. N
      BY <1>1
  <2>2. g[n - 1] \in V
      BY <2>1
  <2>3. ParentsFirst(Visit(rank[n], g[n - 1]))
      BY <1>1, <2>2, VisitParentsFirst
  <2> QED BY <2>1, <2>3 DEF ParentsFirst
<1>5. Local(Value, 0 .. N, V, Needs)
  <2>1. \A n \in 0 .. N : \A g \in [0 .. N -> V] : Value[<<n, g>>] \in V
    <3> SUFFICES ASSUME NEW n \in 0 .. N, NEW g \in [0 .. N -> V] PROVE Value[<<n, g>>] \in V
        OBVIOUS
    <3>1. n = 0 \/ n \in 1 .. N
        BY <1>1
    <3> HIDE DEF V, Value
    <3> QED BY <1>1, <1>2, <1>3, <1>4, <3>1
  <2>2. \A n \in 0 .. N : \A g, h \in [0 .. N -> V] :
           (\A m \in 0 .. N : <<m, n>> \in Needs => g[m] = h[m])
              => Value[<<n, g>>] = Value[<<n, h>>]
    <3> SUFFICES ASSUME NEW n \in 0 .. N, NEW g \in [0 .. N -> V], NEW h \in [0 .. N -> V],
                        \A m \in 0 .. N : <<m, n>> \in Needs => g[m] = h[m]
                 PROVE  Value[<<n, g>>] = Value[<<n, h>>]
        OBVIOUS
    <3>1. n = 0 \/ (n - 1 \in 0 .. N /\ <<n - 1, n>> \in Needs)
        BY <1>1
    <3> HIDE DEF V, Value, Needs
    <3> QED BY <1>3, <3>1
  <2> HIDE DEF V, Value, Needs
  <2> QED BY <2>1, <2>2 DEF Local
<1>6. PICK f \in [0 .. N -> V] : Solves(f, 0 .. N, Value)
  <2> HIDE DEF V, Value
  <2> QED BY <1>1, <1>2, <1>5, GroundedUp, Recursion
<1>7. Equation(f)
  <2>1. \A n \in 0 .. N : f[n] = IF n = 0 THEN <<>> ELSE Visit(rank[n], f[n - 1])
    <3> HIDE DEF V, Value
    <3> QED BY <1>3, <1>6 DEF Solves
  <2> HIDE DEF V, Value
  <2> QED BY <2>1, <1>6
<1>8. Equation(Sorted)
  <2> HIDE DEF Equation
  <2> QED BY <1>7
<1>9. TopologicalSort(rank) = Sorted[N]
    BY DEF TopologicalSort
<1> HIDE DEF Sorted
<1>10. Sorted[0] = <<>> /\ \A n \in 1 .. N : Sorted[n] = Visit(rank[n], Sorted[n - 1])
  <2>1. \A n \in 0 .. N : Sorted[n] = IF n = 0 THEN <<>> ELSE Visit(rank[n], Sorted[n - 1])
    BY <1>8
  <2> QED BY <1>1, <2>1
<1> QED BY <1>9, <1>10

(* TopologicalSort (graph.go:96-121) returns every layer once, each after its *)
(* parent, whatever the order of the map of layers: what BuildAll builds from *)
(* is there when it is built.                                                 *)
THEOREM TopologicalSortCorrect ==
    ASSUME NEW rank \in Orders
    PROVE  /\ ParentsFirst(TopologicalSort(rank))
           /\ ToSet(TopologicalSort(rank)) = Layers
<1> DEFINE N == Len(rank)
<1>1. rank \in Seq(Layers) /\ N \in Nat /\ \A n \in 1 .. N : rank[n] \in Layers
    BY OrdersDef
<1>2. PICK f : /\ TopologicalSort(rank) = f[N]
               /\ f[0] = <<>>
               /\ \A n \in 1 .. N : f[n] = Visit(rank[n], f[n - 1])
    BY <1>1, TopologicalSortDef
<1> DEFINE Sorted(n) == ParentsFirst(f[n]) /\ \A i \in 1 .. n : rank[i] \in ToSet(f[n])
           S == {n \in 0 .. N : Sorted(n)}
<1>3. 0 \in S
  <2>1. ParentsFirst(f[0]) /\ 0 \in 0 .. N /\ 1 .. 0 = {}
      BY <1>1, <1>2, EmptyParentsFirst
  <2> QED BY <2>1
<1>4. ASSUME NEW n \in 1 .. N, n - 1 \in S
      PROVE  n \in S
  <2>1. ParentsFirst(f[n - 1]) /\ f[n] = Visit(rank[n], f[n - 1])
      BY <1>2, <1>4
  <2>2. /\ ParentsFirst(f[n])
        /\ rank[n] \in ToSet(f[n])
        /\ ToSet(f[n - 1]) \subseteq ToSet(f[n])
      BY <1>1, <2>1, VisitParentsFirst
  <2>3. \A i \in 1 .. n : i = n \/ i \in 1 .. n - 1
      BY <1>1
  <2>4. n \in 0 .. N
      BY <1>1
  <2> QED BY <1>4, <2>2, <2>3, <2>4
<1> HIDE DEF S
<1>5. Sorted(N)
  <2>1. 0 .. N \subseteq S
      BY <1>1, <1>3, <1>4, Up
  <2> QED BY <1>1, <2>1 DEF S
<1>6. ToSet(rank) = Layers /\ ToSet(rank) = {rank[i] : i \in 1 .. N}
    BY <1>1, OrdersDef DEF ToSet
<1>7. ToSet(f[N]) \subseteq Layers
    BY <1>5 DEF ParentsFirst, ToSet
<1> QED BY <1>2, <1>5, <1>6, <1>7

(* Some layer of a set has no child in it. *)
LEMMA Childless ==
    ASSUME NEW S \in SUBSET Layers, S # {}
    PROVE  \E l \in S : \A m \in S : Parent[m] # l
<1> DEFINE N == Cardinality(Layers)
           Height(l) == N - Len(Chain[l])
           Heights == {Height(l) : l \in S}
<1>1. IsFiniteSet(Layers) /\ N \in Nat
    BY CakeAssumption, FS_CardinalityType
<1>2. ASSUME NEW l \in Layers
      PROVE  Len(Chain[l]) \in Nat /\ Height(l) \in Nat
  <2>1. Chain[l] \in Seq(Layers) /\ IsInjective(Chain[l])
      BY ChainParentsFirst DEF ParentsFirst
  <2>2. Len(Chain[l]) \in Nat /\ Chain[l] \in [1 .. Len(Chain[l]) -> Layers]
      BY <2>1
  <2>3. Chain[l] \in Injection(1 .. Len(Chain[l]), Layers)
      BY <2>1, <2>2 DEF Injection
  <2>4. Cardinality(1 .. Len(Chain[l])) = Len(Chain[l])
      BY <2>2, FS_Interval
  <2>5. Len(Chain[l]) <= N
      BY <1>1, <2>3, <2>4, FS_Injection
  <2> QED BY <1>1, <2>2, <2>5
<1>3. Heights \in SUBSET Nat /\ Heights # {}
    BY <1>2
<1>4. PICK h \in Heights : \A k \in Heights : h <= k
  <2> HIDE DEF Heights
  <2> QED BY <1>3, NatMinimal
<1>5. PICK l \in S : h = Height(l)
    BY <1>4
<1>6. ASSUME NEW m \in S, Parent[m] = l PROVE FALSE
  <2>1. ~IsBase(m)
      BY <1>6, CakeAssumption DEF IsBase
  <2>2. Chain[m] = Append(Chain[l], m) /\ Chain[l] \in Seq(Layers)
      BY <1>6, <2>1, ChainDef
  <2>3. Len(Chain[m]) = Len(Chain[l]) + 1
      BY <2>2
  <2>4. Height(m) \in Heights /\ Height(m) \in Nat /\ h \in Nat
      BY <1>2, <1>5
  <2> HIDE DEF Heights
  <2> QED BY <1>1, <1>2, <1>4, <1>5, <2>3, <2>4
<1> QED BY <1>6

(* f is the walk of Descendants. *)
Walks(f, rank) ==
    /\ \A l \in Layers : Descendants(rank, l) = f[<<l, Len(rank)>>]
    /\ \A l \in Layers : f[<<l, 0>>] = <<>>
    /\ \A l \in Layers : \A n \in 1 .. Len(rank) :
          f[<<l, n>>] = f[<<l, n - 1>>] \o
              IF Parent[rank[n]] = l
              THEN <<rank[n]>> \o f[<<rank[n], Len(rank)>>] ELSE <<>>

(* The walk over the children has a value: it goes down, or on in the order. *)
LEMMA DescendantsDef ==
    ASSUME NEW rank \in Seq(Layers)
    PROVE  \E f : Walks(f, rank)
<1> DEFINE N == Len(rank)
           X == Layers \X (0 .. N)
           V == Seq(Layers)
           Needs == {q \in X \X X : \/ Parent[q[1][1]] = q[2][1]
                                    \/ q[1][1] = q[2][1] /\ q[1][2] < q[2][2]}
           Body(l, n, g) ==
              IF n = 0 THEN <<>>
              ELSE g[<<l, n - 1>>] \o
                   IF Parent[rank[n]] = l
                   THEN <<rank[n]>> \o g[<<rank[n], N>>] ELSE <<>>
           Value == [p \in X \X [X -> V] |-> Body(p[1][1], p[1][2], p[2])]
           Equation(f) == f = [p \in X |-> Body(p[1], p[2], f)]
           Walk == CHOOSE f : Equation(f)
<1>1. N \in Nat /\ \A n \in 1 .. N : rank[n] \in Layers
    OBVIOUS
<1>2. \A l \in Layers, n \in 0 .. N : \A g \in [X -> V] : Value[<<<<l, n>>, g>>] = Body(l, n, g)
  <2> HIDE DEF Body
  <2> QED OBVIOUS
<1>3. ASSUME NEW l \in Layers, NEW n \in 0 .. N, NEW g \in [X -> V]
      PROVE  Body(l, n, g) \in V
  <2>1. CASE n = 0
      BY <2>1
  <2>2. CASE n \in 1 .. N
    <3>1. g[<<l, n - 1>>] \in Seq(Layers) /\ g[<<rank[n], N>>] \in Seq(Layers)
        BY <1>1, <2>2
    <3>2. <<rank[n]>> \o g[<<rank[n], N>>] \in Seq(Layers)
        BY <1>1, <2>2, <3>1
    <3> QED BY <2>2, <3>1, <3>2
  <2> QED BY <1>1, <2>1, <2>2
<1>4. ASSUME NEW l \in Layers, NEW n \in 0 .. N, NEW g \in [X -> V], NEW h \in [X -> V],
             \A y \in X : <<y, <<l, n>>>> \in Needs => g[y] = h[y]
      PROVE  Body(l, n, g) = Body(l, n, h)
  <2>1. CASE n = 0
      BY <2>1
  <2>2. CASE n \in 1 .. N
    <3>1. g[<<l, n - 1>>] = h[<<l, n - 1>>]
      <4>1. <<l, n - 1>> \in X /\ n - 1 < n
          BY <1>1, <2>2
      <4> QED BY <1>4, <4>1
    <3>2. Parent[rank[n]] = l => g[<<rank[n], N>>] = h[<<rank[n], N>>]
      <4>1. <<rank[n], N>> \in X
          BY <1>1, <2>2
      <4> QED BY <1>4, <4>1
    <3> QED BY <2>2, <3>1, <3>2
  <2> QED BY <1>1, <2>1, <2>2
<1>5. Local(Value, X, V, Needs)
  <2>1. \A x \in X : x = <<x[1], x[2]>> /\ x[1] \in Layers /\ x[2] \in 0 .. N
      OBVIOUS
  <2>2. \A x \in X : \A g \in [X -> V] : Value[<<x, g>>] = Body(x[1], x[2], g)
    <3> HIDE DEF Body
    <3> QED OBVIOUS
  <2>3. \A x \in X : \A g \in [X -> V] : Body(x[1], x[2], g) \in V
    <3> HIDE DEF Body, V
    <3> QED BY <1>3, <2>1
  <2>4. ASSUME NEW x \in X, NEW g \in [X -> V], NEW h \in [X -> V],
               \A y \in X : <<y, x>> \in Needs => g[y] = h[y]
        PROVE  Body(x[1], x[2], g) = Body(x[1], x[2], h)
    <3>1. \A y \in X : <<y, <<x[1], x[2]>>>> \in Needs => g[y] = h[y]
        BY <2>1, <2>4, Zenon
    <3> HIDE DEF Body, Needs, V, X
    <3> QED BY <1>4, <2>1, <3>1
  <2> HIDE DEF Value, Body, X, Needs, V
  <2> QED BY <2>2, <2>3, <2>4 DEF Local
<1>6. Grounded(X, Needs)
  <2> SUFFICES ASSUME NEW S \in SUBSET X, S # {}
               PROVE  \E x \in S : \A y \in S : <<y, x>> \notin Needs
      BY DEF Grounded
  <2> DEFINE Ls == {x[1] : x \in S}
  <2>1. Ls \in SUBSET Layers /\ Ls # {}
      OBVIOUS
  <2>2. PICK l \in Ls : \A m \in Ls : Parent[m] # l
    <3> HIDE DEF Ls
    <3> QED BY <2>1, Childless
  <2> DEFINE Ns == {n \in 0 .. N : <<l, n>> \in S}
  <2>3. Ns \in SUBSET Nat /\ Ns # {}
      BY <1>1, <2>2
  <2>4. PICK n \in Ns : \A m \in Ns : n <= m
    <3> HIDE DEF Ns
    <3> QED BY <2>3, NatMinimal
  <2>5. ASSUME NEW y \in S, <<y, <<l, n>>>> \in Needs PROVE FALSE
    <3>1. y[1] \in Ls /\ y[2] \in 0 .. N /\ y = <<y[1], y[2]>>
        OBVIOUS
    <3>2. Parent[y[1]] = l \/ (y[1] = l /\ y[2] < n)
        BY <2>5
    <3>3. y[1] = l /\ y[2] < n
        BY <2>2, <3>1, <3>2
    <3>4. y[2] \in Ns
        BY <3>1, <3>3
    <3> QED BY <2>3, <2>4, <3>3, <3>4
  <2>6. <<l, n>> \in S
      BY <2>4
  <2> HIDE DEF Needs
  <2> QED BY <2>5, <2>6
<1>7. PICK f \in [X -> V] : Solves(f, X, Value)
  <2>1. <<>> \in V
      OBVIOUS
  <2> HIDE DEF X, V, Value, Needs
  <2> QED BY <1>5, <1>6, <2>1, Recursion
<1>8. Equation(f)
  <2>1. \A x \in X : Value[<<x, f>>] = Body(x[1], x[2], f)
    <3> HIDE DEF Body
    <3> QED OBVIOUS
  <2> HIDE DEF Value, Body, X
  <2> QED BY <1>7, <2>1 DEF Solves
<1>9. Equation(Walk)
  <2> HIDE DEF Equation
  <2> QED BY <1>8
<1>10. \A l : Descendants(rank, l) = Walk[<<l, N>>]
    BY DEF Descendants
<1> HIDE DEF Walk
<1>11. \A l \in Layers, n \in 0 .. N : Walk[<<l, n>>] = Body(l, n, Walk)
  <2> HIDE DEF Body
  <2> QED BY <1>9
<1>12. ASSUME NEW l \in Layers PROVE Walk[<<l, 0>>] = <<>>
  <2>1. 0 \in 0 .. N /\ Body(l, 0, Walk) = <<>>
      BY <1>1
  <2> QED BY <1>11, <2>1, Zenon
<1>13. ASSUME NEW l \in Layers, NEW n \in 1 .. N
       PROVE  Walk[<<l, n>>] = Walk[<<l, n - 1>>] \o
              IF Parent[rank[n]] = l THEN <<rank[n]>> \o Walk[<<rank[n], N>>] ELSE <<>>
  <2>1. n \in 0 .. N /\ n # 0
      BY <1>1
  <2>2. Walk[<<l, n>>] = Body(l, n, Walk)
      BY <1>11, <2>1, Zenon
  <2> QED BY <2>1, <2>2, Zenon
<1>14. Walks(Walk, rank)
    BY <1>10, <1>12, <1>13, Zenon DEF Walks
<1> QED BY <1>14

(* What a layer is when its children are, all layers are. *)
LEMMA ChildInduction ==
    ASSUME NEW S,
           \A l \in Layers : (\A m \in Layers : Parent[m] = l => m \in S) => l \in S
    PROVE  Layers \subseteq S
<1> SUFFICES ASSUME Layers \ S # {} PROVE FALSE
    OBVIOUS
<1>1. PICK l \in Layers \ S : \A m \in Layers \ S : Parent[m] # l
    BY Childless
<1> QED BY <1>1

(* What is below a layer is below one of its children, or that child. *)
LEMMA BelowChild ==
    ASSUME NEW c \in Layers, NEW m \in Layers
    PROVE  (\E x \in Layers : Parent[x] = c /\ x \in Ancestry(m))
              <=> (m # c /\ c \in Ancestry(m))
<1>1. ASSUME NEW x \in Layers, Parent[x] = c, x \in Ancestry(m)
      PROVE  m # c /\ c \in Ancestry(m)
  <2>1. ~IsBase(x)
      BY <1>1, CakeAssumption DEF IsBase
  <2> QED BY <1>1, <2>1, Acyclic, AncestryClosed
<1>2. ASSUME m # c, c \in Ancestry(m)
      PROVE  \E x \in Layers : Parent[x] = c /\ x \in Ancestry(m)
  <2> DEFINE Child(d, y) == \E x \in Layers : Parent[x] = d /\ x \in Ancestry(y)
             S == {y \in Layers : \A d \in Ancestry(y) : d # y => Child(d, y)}
  <2>1. ASSUME NEW y \in Layers, IsBase(y) \/ Parent[y] \in S
        PROVE  y \in S
    <3>1. CASE IsBase(y)
        BY <3>1, AncestryDef
    <3>2. CASE ~IsBase(y)
      <4> SUFFICES ASSUME NEW d \in Ancestry(y), d # y PROVE Child(d, y)
          OBVIOUS
      <4>1. d \in Ancestry(Parent[y]) /\ Ancestry(Parent[y]) \subseteq Ancestry(y)
          BY <3>2, AncestryDef
      <4>2. CASE d = Parent[y]
          BY <4>2, AncestryIn
      <4>3. CASE d # Parent[y]
          BY <2>1, <3>2, <4>1, <4>3
      <4> QED BY <4>2, <4>3
    <3> QED BY <3>1, <3>2
  <2> HIDE DEF S
  <2>2. Layers \subseteq S
      BY <2>1, ParentInduction
  <2> QED BY <1>2, <2>2 DEF S
<1> QED BY <1>1, <1>2

(* The parents of the layers of s come before them, or are in P. *)
After(s, P) ==
    \A i \in 1 .. Len(s) : \/ IsBase(s[i]) \/ Parent[s[i]] \in P
                           \/ \E j \in 1 .. i - 1 : s[j] = Parent[s[i]]

(* Two lists with nothing in common, one after the other. *)
LEMMA ConcatOnce ==
    ASSUME NEW s \in Seq(Layers), NEW t \in Seq(Layers),
           IsInjective(s), IsInjective(t), ToSet(s) \cap ToSet(t) = {}
    PROVE  /\ s \o t \in Seq(Layers) /\ IsInjective(s \o t)
           /\ ToSet(s \o t) = ToSet(s) \cup ToSet(t)
<1> DEFINE u == s \o t
           S == Len(s)
           T == Len(t)
<1>1. /\ S \in Nat /\ T \in Nat /\ u \in Seq(Layers) /\ Len(u) = S + T
      /\ DOMAIN s = 1 .. S /\ DOMAIN t = 1 .. T /\ DOMAIN u = 1 .. S + T
    OBVIOUS
<1>2. \A i \in 1 .. S : u[i] = s[i] /\ i \in 1 .. S + T
    BY <1>1
<1>3. \A i \in 1 .. T : u[S + i] = t[i] /\ S + i \in 1 .. S + T
    BY <1>1
<1>4. \A i \in 1 .. S + T : i \in 1 .. S \/ (i - S \in 1 .. T /\ i = S + (i - S))
    BY <1>1
<1> HIDE DEF u, S, T
<1>5. \A i \in 1 .. S + T : \/ i \in 1 .. S /\ u[i] = s[i] /\ u[i] \in ToSet(s)
                            \/ i - S \in 1 .. T /\ u[i] = t[i - S] /\ u[i] \in ToSet(t)
  <2>1. ASSUME NEW i \in 1 .. S PROVE u[i] = s[i] /\ u[i] \in ToSet(s)
      BY <1>1, <1>2 DEF ToSet
  <2>2. ASSUME NEW i \in 1 .. T PROVE u[S + i] = t[i] /\ u[S + i] \in ToSet(t)
      BY <1>1, <1>3 DEF ToSet
  <2> QED BY <1>4, <2>1, <2>2
<1>6. IsInjective(u)
  <2> SUFFICES ASSUME NEW i \in 1 .. S + T, NEW j \in 1 .. S + T, u[i] = u[j] PROVE i = j
      BY <1>1 DEF IsInjective
  <2>1. CASE i \in 1 .. S /\ j \in 1 .. S /\ u[i] = s[i] /\ u[j] = s[j]
      BY <2>1, <1>1 DEF IsInjective
  <2>2. CASE i - S \in 1 .. T /\ j - S \in 1 .. T /\ u[i] = t[i - S] /\ u[j] = t[j - S]
    <3>1. i - S = j - S
        BY <2>2, <1>1 DEF IsInjective
    <3> QED BY <3>1, <1>1
  <2> QED BY <1>5, <2>1, <2>2
<1>7. ToSet(u) = ToSet(s) \cup ToSet(t)
  <2>1. ToSet(u) \subseteq ToSet(s) \cup ToSet(t)
      BY <1>1, <1>5 DEF ToSet
  <2>2. ToSet(s) \subseteq ToSet(u)
      BY <1>1, <1>2 DEF ToSet
  <2>3. ASSUME NEW x \in ToSet(t) PROVE x \in ToSet(u)
    <3>1. PICK i \in 1 .. T : x = t[i]
        BY <1>1 DEF ToSet
    <3> QED BY <1>1, <1>3, <3>1 DEF ToSet
  <2> QED BY <2>1, <2>2, <2>3
<1> QED BY <1>1, <1>6, <1>7 DEF u

(* The second list may look for its parents in the first. *)
LEMMA ConcatAfter ==
    ASSUME NEW s \in Seq(Layers), NEW t \in Seq(Layers), NEW P,
           After(s, P), After(t, P \cup ToSet(s))
    PROVE  After(s \o t, P)
<1> DEFINE u == s \o t
           S == Len(s)
           T == Len(t)
<1>1. /\ S \in Nat /\ T \in Nat /\ Len(u) = S + T
      /\ DOMAIN s = 1 .. S /\ DOMAIN t = 1 .. T
    OBVIOUS
<1>2. \A i \in 1 .. S : u[i] = s[i]
    BY <1>1
<1>3. \A i \in 1 .. T : u[S + i] = t[i]
    BY <1>1
<1> HIDE DEF u
<1> SUFFICES ASSUME NEW i \in 1 .. S + T, ~IsBase(u[i]), Parent[u[i]] \notin P
             PROVE  \E j \in 1 .. i - 1 : u[j] = Parent[u[i]]
    BY <1>1 DEF After, u
<1>4. CASE i \in 1 .. S
  <2>1. PICK j \in 1 .. i - 1 : s[j] = Parent[s[i]]
      BY <1>2, <1>4 DEF After
  <2>2. j \in 1 .. S
      BY <1>1, <1>4
  <2> QED BY <1>2, <1>4, <2>1, <2>2
<1>5. CASE i - S \in 1 .. T
  <2> DEFINE k == i - S
  <2>1. u[i] = t[k]
    <3>1. i = S + k
        BY <1>1
    <3> HIDE DEF k
    <3> QED BY <1>3, <1>5, <3>1 DEF k
  <2>2. Parent[t[k]] \in ToSet(s) \/ \E j \in 1 .. k - 1 : t[j] = Parent[t[k]]
      BY <1>5, <2>1 DEF After
  <2>3. CASE Parent[t[k]] \in ToSet(s)
    <3>1. PICK j \in 1 .. S : s[j] = Parent[t[k]]
        BY <1>1, <2>3 DEF ToSet
    <3>2. j \in 1 .. i - 1
        BY <1>1, <1>5
    <3> QED BY <1>2, <2>1, <3>1, <3>2
  <2>4. CASE \E j \in 1 .. k - 1 : t[j] = Parent[t[k]]
    <3>1. PICK j \in 1 .. k - 1 : t[j] = Parent[t[k]]
        BY <2>4
    <3>2. j \in 1 .. T /\ S + j \in 1 .. i - 1
        BY <1>1, <1>5
    <3> QED BY <1>3, <2>1, <3>1, <3>2
  <2> QED BY <2>2, <2>3, <2>4
<1>6. i \in 1 .. S \/ i - S \in 1 .. T
    BY <1>1
<1> QED BY <1>4, <1>5, <1>6

(* GetDescendants: every layer below another once, after its parent. *)
LEMMA DescendantsOnce ==
    ASSUME NEW rank \in Orders
    PROVE  \A l \in Layers :
              LET below == Descendants(rank, l)
              IN /\ below \in Seq(Layers) /\ IsInjective(below)
                 /\ After(below, {l})
                 /\ ToSet(below) = {m \in Layers : m # l /\ l \in Ancestry(m)}
<1> DEFINE N == Len(rank)
<1>1. /\ rank \in Seq(Layers) /\ N \in Nat /\ \A n \in 1 .. N : rank[n] \in Layers
      /\ IsInjective(rank) /\ DOMAIN rank = 1 .. N
      /\ \A m \in Layers : \E n \in 1 .. N : rank[n] = m
    BY OrdersDef DEF ToSet
<1>2. PICK f : Walks(f, rank)
    BY <1>1, DescendantsDef
<1> DEFINE Reaches(l, n, m) == \E k \in 1 .. n : Parent[rank[k]] = l /\ rank[k] \in Ancestry(m)
           Good(l, n) == /\ f[<<l, n>>] \in Seq(Layers) /\ IsInjective(f[<<l, n>>])
                         /\ After(f[<<l, n>>], {l})
                         /\ \A m \in Layers : m \in ToSet(f[<<l, n>>]) <=> Reaches(l, n, m)
           S == {l \in Layers : Good(l, N)}
<1>3. ASSUME NEW l \in Layers, NEW m \in Layers
      PROVE  Reaches(l, N, m) <=> m # l /\ l \in Ancestry(m)
  <2>1. Reaches(l, N, m) <=> \E x \in Layers : Parent[x] = l /\ x \in Ancestry(m)
      BY <1>1
  <2> HIDE DEF Reaches
  <2> QED BY <2>1, BelowChild
<1>4. ASSUME NEW l \in Layers, \A m \in Layers : Parent[m] = l => m \in S
      PROVE  l \in S
  <2> DEFINE R == {n \in 0 .. N : Good(l, n)}
  <2>1. 0 \in R
    <3>1. f[<<l, 0>>] = <<>>
        BY <1>2 DEF Walks
    <3>2. <<>> \in Seq(Layers) /\ IsInjective(<<>>) /\ After(<<>>, {l}) /\ ToSet(<<>>) = {}
        BY DEF IsInjective, After, ToSet
    <3>3. 0 \in 0 .. N /\ \A m : ~Reaches(l, 0, m)
        BY <1>1
    <3> QED BY <3>1, <3>2, <3>3
  <2>2. ASSUME NEW n \in 1 .. N, n - 1 \in R
        PROVE  n \in R
    <3> DEFINE c == rank[n]
               a == f[<<l, n - 1>>]
               b == f[<<c, N>>]
               w == f[<<l, n>>]
    <3>1. c \in Layers /\ n \in 0 .. N /\ Good(l, n - 1)
      <4>1. c \in Layers /\ n \in 0 .. N
          BY <1>1
      <4>2. Good(l, n - 1)
        <5> HIDE DEF Good
        <5> QED BY <2>2
      <4> QED BY <4>1, <4>2
    <3>2. w = a \o IF Parent[c] = l THEN <<c>> \o b ELSE <<>>
        BY <1>2 DEF Walks
    <3>3. \A m : Reaches(l, n, m) <=>
                    Reaches(l, n - 1, m) \/ (Parent[c] = l /\ c \in Ancestry(m))
      <4>1. \A k : k \in 1 .. n <=> k \in 1 .. n - 1 \/ k = n
          BY <1>1
      <4> QED BY <4>1
    <3>4. CASE Parent[c] # l
      <4>1. w = a
          BY <3>1, <3>2, <3>4
      <4> HIDE DEF Reaches, w, a
      <4> QED BY <3>1, <3>3, <3>4, <4>1 DEF w, a
    <3>5. CASE Parent[c] = l
      <4> DEFINE t == <<c>> \o b
      <4>1. /\ b \in Seq(Layers) /\ IsInjective(b) /\ After(b, {c})
            /\ \A m \in Layers : m \in ToSet(b) <=> m # c /\ c \in Ancestry(m)
        <5>1. Good(c, N)
            BY <1>4, <3>1, <3>5
        <5> HIDE DEF Reaches
        <5> QED BY <1>3, <3>1, <5>1
      <4>2. /\ <<c>> \in Seq(Layers) /\ IsInjective(<<c>>)
            /\ After(<<c>>, {l}) /\ ToSet(<<c>>) = {c}
          BY <3>1, <3>5 DEF IsInjective, After, ToSet
      <4>3. ToSet(b) \subseteq Layers /\ ToSet(a) \subseteq Layers
          BY <3>1, <4>1 DEF ToSet
      <4>4. /\ t \in Seq(Layers) /\ IsInjective(t)
            /\ ToSet(t) = {c} \cup ToSet(b)
          BY <4>1, <4>2, <4>3, ConcatOnce
      <4>5. \A m \in Layers : m \in ToSet(t) <=> c \in Ancestry(m)
          BY <3>1, <4>1, <4>4, AncestryIn
      <4>6. After(t, {l})
        <5>1. After(b, {l} \cup ToSet(<<c>>))
            BY <4>1, <4>2 DEF After
        <5> QED BY <4>1, <4>2, <5>1, ConcatAfter
      <4>7. ~IsBase(c)
          BY <3>5, CakeAssumption DEF IsBase
      <4>8. ToSet(a) \cap ToSet(t) = {}
        <5> SUFFICES ASSUME NEW m \in ToSet(a), m \in ToSet(t) PROVE FALSE
            OBVIOUS
        <5>1. m \in Layers /\ c \in Ancestry(m)
            BY <4>3, <4>5
        <5>2. PICK k \in 1 .. n - 1 : Parent[rank[k]] = l /\ rank[k] \in Ancestry(m)
            BY <3>1, <5>1
        <5>3. k \in 1 .. N /\ rank[k] \in Layers /\ k # n
            BY <1>1
        <5>4. ~IsBase(rank[k])
            BY <5>2, <5>3, CakeAssumption DEF IsBase
        <5>5. rank[k] = c
            BY <3>5, <4>7, <5>1, <5>2, <5>4, OneBranch
        <5> QED BY <1>1, <5>3, <5>5 DEF IsInjective
      <4>9. w = a \o t
          BY <3>2, <3>5
      <4> HIDE DEF t, w, a, Reaches
      <4>10. /\ w \in Seq(Layers) /\ IsInjective(w)
             /\ ToSet(w) = ToSet(a) \cup ToSet(t)
          BY <3>1, <4>4, <4>8, <4>9, ConcatOnce DEF a
      <4>11. After(w, {l})
        <5>1. After(t, {l} \cup ToSet(a))
            BY <4>6 DEF After
        <5> QED BY <3>1, <4>4, <4>9, <5>1, ConcatAfter DEF a
      <4>12. \A m \in Layers : m \in ToSet(w) <=> Reaches(l, n, m)
          BY <3>1, <3>3, <3>5, <4>5, <4>10 DEF a
      <4> QED BY <3>1, <4>10, <4>11, <4>12 DEF w
    <3> QED BY <3>4, <3>5
  <2> HIDE DEF R
  <2>3. 0 .. N \subseteq R
      BY <1>1, <2>1, <2>2, Up
  <2>4. N \in R
      BY <1>1, <2>3
  <2>5. Good(l, N)
    <3> HIDE DEF Good
    <3> QED BY <2>4 DEF R
  <2> HIDE DEF Good
  <2> QED BY <2>5
<1> HIDE DEF S
<1>5. Layers \subseteq S
    BY <1>4, ChildInduction
<1>6. ASSUME NEW l \in Layers
      PROVE  /\ f[<<l, N>>] \in Seq(Layers) /\ IsInjective(f[<<l, N>>])
             /\ After(f[<<l, N>>], {l})
             /\ ToSet(f[<<l, N>>]) = {m \in Layers : m # l /\ l \in Ancestry(m)}
  <2>1. Good(l, N)
      BY <1>5 DEF S
  <2>2. ToSet(f[<<l, N>>]) \subseteq Layers
      BY <2>1 DEF ToSet
  <2> HIDE DEF Reaches
  <2> QED BY <1>3, <2>1, <2>2
<1> QED BY <1>2, <1>6 DEF Walks

(* What BuildCascade builds (build.go:89-110) is the ancestors of a layer, the *)
(* layer and all its descendants (graph.go:123-170), each once and after its   *)
(* parent, whatever the order of the map of layers.                            *)
THEOREM CascadeOrderCorrect ==
    ASSUME NEW rank \in Orders, NEW l \in Layers
    PROVE  LET order == Chain[l] \o Descendants(rank, l)
           IN /\ ParentsFirst(order)
              /\ ToSet(order) = Ancestry(l) \cup {m \in Layers : l \in Ancestry(m)}
<1> DEFINE above == Chain[l]
           below == Descendants(rank, l)
<1>1. above \in Seq(Layers) /\ IsInjective(above) /\ ToSet(above) = Ancestry(l)
    BY ChainParentsFirst DEF ParentsFirst, Ancestry
<1>2. /\ below \in Seq(Layers) /\ IsInjective(below) /\ After(below, {l})
      /\ ToSet(below) = {m \in Layers : m # l /\ l \in Ancestry(m)}
    BY DescendantsOnce
<1>3. After(above, {})
    BY ChainParentsFirst DEF ParentsFirst, After
<1>4. l \in Ancestry(l) /\ Ancestry(l) \subseteq Layers
    BY AncestryIn
<1>5. After(below, {} \cup ToSet(above))
    BY <1>1, <1>2, <1>4 DEF After
<1>6. ASSUME NEW m \in Ancestry(l), m # l, l \in Ancestry(m) PROVE FALSE
  <2>1. m \in Layers /\ Ancestry(m) \subseteq Layers
      BY <1>4, AncestryIn
  <2>2. ~IsBase(l)
      BY <1>6, AncestryDef
  <2>3. m \in Ancestry(Parent[l]) /\ Parent[l] \in Layers
      BY <1>6, <2>2, AncestryDef, ParentIn
  <2>4. l \in Ancestry(Parent[l])
      BY <1>6, <2>3, AncestryTransitive
  <2> QED BY <2>2, <2>4, Acyclic
<1>7. ToSet(above) \cap ToSet(below) = {}
    BY <1>1, <1>2, <1>6
<1> HIDE DEF above, below
<1>8. /\ above \o below \in Seq(Layers) /\ IsInjective(above \o below)
      /\ ToSet(above \o below) = ToSet(above) \cup ToSet(below)
    BY <1>1, <1>2, <1>7, ConcatOnce
<1>9. After(above \o below, {})
    BY <1>1, <1>2, <1>3, <1>5, ConcatAfter
<1>10. ParentsFirst(above \o below)
    BY <1>8, <1>9 DEF ParentsFirst, After
<1>11. ToSet(above \o below) = Ancestry(l) \cup {m \in Layers : l \in Ancestry(m)}
    BY <1>1, <1>2, <1>4, <1>8
<1> QED BY <1>10, <1>11 DEF above, below

(* A list without repetitions is as long as its set is large. *)
LEMMA OnceCounted ==
    ASSUME NEW s \in Seq(Layers)
    PROVE  IsInjective(s) <=> Cardinality(ToSet(s)) = Len(s)
<1> DEFINE N == Len(s)
<1>1. N \in Nat /\ DOMAIN s = 1 .. N /\ s \in [1 .. N -> ToSet(s)]
    BY DEF ToSet
<1>2. s \in Surjection(1 .. N, ToSet(s))
    BY <1>1 DEF Surjection, ToSet
<1>3. IsFiniteSet(1 .. N) /\ Cardinality(1 .. N) = N
    BY <1>1, FS_Interval
<1>4. Cardinality(ToSet(s)) = N <=> s \in Injection(1 .. N, ToSet(s))
    BY <1>2, <1>3, FS_Surjection
<1> QED BY <1>1, <1>4 DEF Injection

LEMMA HeadTail ==
    ASSUME NEW s \in Seq(Layers), IsInjective(s), s # <<>>
    PROVE  /\ Head(s) \in Layers /\ Tail(s) \in Seq(Layers) /\ IsInjective(Tail(s))
           /\ ToSet(Tail(s)) = ToSet(s) \ {Head(s)} /\ Head(s) \in ToSet(s)
<1> DEFINE N == Len(s)
           t == Tail(s)
<1>1. /\ N \in Nat \ {0} /\ DOMAIN s = 1 .. N /\ Head(s) = s[1] /\ s[1] \in Layers
      /\ t \in Seq(Layers) /\ Len(t) = N - 1 /\ DOMAIN t = 1 .. N - 1
    OBVIOUS
<1>2. \A i \in 1 .. N - 1 : t[i] = s[i + 1] /\ i + 1 \in 1 .. N /\ i + 1 # 1
    BY <1>1
<1> HIDE DEF t
<1>3. \A i \in 2 .. N : i - 1 \in 1 .. N - 1 /\ t[i - 1] = s[i]
    BY <1>1, <1>2
<1>4. IsInjective(t)
  <2> SUFFICES ASSUME NEW i \in 1 .. N - 1, NEW j \in 1 .. N - 1, t[i] = t[j] PROVE i = j
      BY <1>1 DEF IsInjective
  <2>1. i + 1 = j + 1
      BY <1>1, <1>2 DEF IsInjective
  <2> QED BY <2>1, <1>1
<1>5. ToSet(t) \subseteq ToSet(s) \ {s[1]}
  <2> SUFFICES ASSUME NEW i \in 1 .. N - 1 PROVE t[i] \in ToSet(s) /\ t[i] # s[1]
      BY <1>1 DEF ToSet
  <2> QED BY <1>1, <1>2 DEF IsInjective, ToSet
<1>6. ToSet(s) \ {s[1]} \subseteq ToSet(t)
  <2> SUFFICES ASSUME NEW i \in 1 .. N, s[i] # s[1] PROVE s[i] \in ToSet(t)
      BY <1>1 DEF ToSet
  <2>1. i \in 2 .. N
      BY <1>1
  <2> QED BY <1>1, <1>3, <2>1 DEF ToSet
<1>7. s[1] \in ToSet(s)
    BY <1>1 DEF ToSet
<1> QED BY <1>1, <1>4, <1>5, <1>6, <1>7 DEF t

-----------------------------------------------------------------------------
(* Types *)

LEMMA ParentsFirstList ==
    ASSUME NEW s, ParentsFirst(s)
    PROVE  /\ s \in Seq(Layers) /\ Cardinality(ToSet(s)) = Len(s)
           /\ ToSet(s) \subseteq Layers
BY OnceCounted DEF ParentsFirst, ToSet

LEMMA NamedType == ASSUME FilesTypeOK PROVE Named \in [Layers -> Nat]
BY CakeAssumption DEF FilesTypeOK, FileChoices, Named

LEMMA RunTypes ==
    ASSUME TypeOK, NEW what \in {"build", "export"}, NEW layers \in Seq(Layers),
           Cardinality(ToSet(layers)) = Len(layers), NEW anyway \in SUBSET Layers,
           Run(what, layers, anyway)
    PROVE  TypeOK'
<1>1. ToSet(layers) \subseteq Layers
    BY DEF ToSet
<1>2. /\ cmd' = what /\ todo' = layers /\ forced' = anyway /\ scope' = ToSet(layers)
      /\ step' \in {"rows", "next"} /\ built' = {} /\ touched' = {} /\ strap' = strap
      /\ conf' \in [Layers -> Nat]
      /\ UNCHANGED <<files, imageVars, hashVars, kernel, exportVars>>
    BY NamedType DEF Run, TypeOK, FilesTypeOK
<1> QED BY <1>1, <1>2 DEF TypeOK, FilesTypeOK, CommandTypeOK, ExportSteps, imageVars,
           hashVars, exportVars

LEMMA ExportLists ==
    ASSUME NEW layers \in SetToSeqs(Exported)
    PROVE  /\ layers \in Seq(Layers) /\ IsInjective(layers)
           /\ Cardinality(ToSet(layers)) = Len(layers)
<1>1. Exported \subseteq Layers /\ IsFiniteSet(Exported) /\ Cardinality(Exported) \in Nat
    BY CakeAssumption, FS_Subset, FS_CardinalityType DEF Exported
<1>2. layers \in [1 .. Cardinality(Exported) -> Exported] /\ IsInjective(layers)
    BY DEF SetToSeqs, IsInjective
<1>3. layers \in Seq(Layers)
    BY <1>1, <1>2
<1> QED BY <1>2, <1>3, OnceCounted

LEMMA TypeInit == Init => TypeOK
<1> SUFFICES ASSUME Init PROVE TypeOK
    OBVIOUS
<1>1. <<>> \in Seq(Layers) /\ ToSet(<<>>) = {} /\ Len(<<>>) = 0
    BY DEF ToSet
<1>2. Cardinality(ToSet(<<>>)) = 0
    BY <1>1, FS_EmptySet
<1> QED BY <1>1, <1>2 DEF Init, TypeOK, FilesTypeOK, CommandTypeOK, NoSizes

LEMMA OverTypes ==
    ASSUME TypeOK, Over
    PROVE  /\ cmd' \in {"none", "build", "export"}
           /\ todo' \in Seq(Layers) /\ Cardinality(ToSet(todo')) = Len(todo')
           /\ forced' \subseteq Layers /\ built' \subseteq Layers /\ scope' \subseteq Layers
           /\ step' \in {"next"} \cup BuildSteps \cup ExportSteps
           /\ conf' \in [Layers -> Nat] /\ touched' \subseteq Layers /\ strap' = "none"
<1>1. <<>> \in Seq(Layers) /\ ToSet(<<>>) = {} /\ Len(<<>>) = 0
    BY DEF ToSet
<1>2. Cardinality(ToSet(<<>>)) = 0
    BY <1>1, FS_EmptySet
<1> QED BY <1>1, <1>2 DEF Over, NoSizes

LEMMA TailTypes ==
    ASSUME TypeOK, todo # <<>>
    PROVE  Tail(todo) \in Seq(Layers) /\ Cardinality(ToSet(Tail(todo))) = Len(Tail(todo))
BY OnceCounted, HeadTail DEF TypeOK, FilesTypeOK, CommandTypeOK

LEMMA OverCommand == ASSUME TypeOK, Over PROVE CommandTypeOK'
BY OverTypes DEF TypeOK, CommandTypeOK

LEMMA GotoCommand ==
    ASSUME TypeOK, NEW there \in {"next"} \cup BuildSteps \cup ExportSteps, Goto(there)
    PROVE  CommandTypeOK'
BY DEF TypeOK, FilesTypeOK, CommandTypeOK, Goto, Loaded

LEMMA DoneCommand ==
    ASSUME TypeOK, todo # <<>>, NEW l \in Layers, Done(l)
    PROVE  CommandTypeOK'
BY TailTypes DEF TypeOK, FilesTypeOK, CommandTypeOK, Done, Loaded, ExportSteps

(* The image of a base layer is formatted, another copied and grown. *)
DerivedInv ==
    /\ step \in {"copy", "grow"} => ~IsBase(Head(todo))
    /\ step \in {"kernel", "strap", "format"} => IsBase(Head(todo))
    /\ step = "format" \/ (step = "fill" /\ IsBase(Head(todo))) => strap \in AnyVersion

LEMMA WorkTypes ==
    ASSUME TypeOK, DerivedInv, NEW l \in Layers, Work(l)
    PROVE  TypeOK'
<1> USE DEF imageVars, hashVars, exportVars
<1>1. CASE Consider(l)
  <2>1. CommandTypeOK'
    <3>1. CASE Goto(Start(l))
      <4>1. Start(l) \in BuildSteps
          BY DEF Start, BuildSteps
      <4> QED BY <3>1, <4>1, GotoCommand
    <3>2. CASE todo' = Tail(todo) /\ UNCHANGED <<Loaded, step, strap, built>>
        BY <1>1, <3>2, TailTypes DEF Consider, At, Loaded, TypeOK, FilesTypeOK, CommandTypeOK
    <3> QED BY <1>1, <3>1, <3>2, OverCommand DEF Consider
  <2>2. FilesTypeOK'
      BY <1>1 DEF Consider, TypeOK, FilesTypeOK
  <2> QED BY <2>1, <2>2 DEF TypeOK
<1>2. CASE DownloadKernel(l)
  <2>1. CommandTypeOK'
      BY <1>2, GotoCommand, OverCommand DEF DownloadKernel, BuildSteps
  <2>2. FilesTypeOK'
      BY <1>2 DEF DownloadKernel, TypeOK, FilesTypeOK
  <2> QED BY <2>1, <2>2 DEF TypeOK
<1>3. CASE Bootstrap(l)
  <2>1. CommandTypeOK'
    <3>1. CASE strap' = files[l] /\ step' = "format" /\ UNCHANGED <<Loaded, todo, built>>
      <4>1. files[l] \in AnyVersion
          BY DEF TypeOK, FilesTypeOK, FileChoices
      <4> QED BY <3>1, <4>1 DEF TypeOK, CommandTypeOK, Loaded, BuildSteps
    <3> QED BY <1>3, <3>1, OverCommand DEF Bootstrap
  <2>2. FilesTypeOK'
      BY <1>3 DEF Bootstrap, TypeOK, FilesTypeOK
  <2> QED BY <2>1, <2>2 DEF TypeOK
<1>5. ASSUME NEW n \in Nat, Begin(l, n), UNCHANGED <<files, kernel, exportVars>>
      PROVE  FilesTypeOK'
    BY <1>5, CakeAssumption DEF Begin, TypeOK, FilesTypeOK, IsBase
<1>6. CASE Format(l)
  <2>1. CommandTypeOK'
      BY <1>6, GotoCommand, OverCommand DEF Format, BuildSteps
  <2>2. FilesTypeOK'
    <3>1. conf[l] \in Nat
        BY DEF TypeOK, CommandTypeOK
    <3> QED BY <1>5, <1>6, <3>1 DEF Format
  <2> QED BY <2>1, <2>2 DEF TypeOK
<1>7. CASE Copy(l)
  <2>1. CommandTypeOK'
      BY <1>7, GotoCommand, OverCommand DEF Copy, BuildSteps
  <2>2. FilesTypeOK'
    <3>1. size[Parent[l]] \in Nat
        BY <1>7, ParentIn DEF Copy, At, TypeOK, FilesTypeOK, CommandTypeOK, DerivedInv
    <3>2. CASE Begin(l, size[Parent[l]])
        BY <1>5, <1>7, <3>1, <3>2 DEF Copy
    <3>3. CASE UNCHANGED <<imageVars, hashVars>>
        BY <1>7, <3>3 DEF Copy, TypeOK, FilesTypeOK
    <3> QED BY <1>7, <3>2, <3>3 DEF Copy
  <2> QED BY <2>1, <2>2 DEF TypeOK
<1>8. CASE Grow(l)
  <2>1. CommandTypeOK'
      BY <1>8, GotoCommand, OverCommand DEF Grow, BuildSteps
  <2>2. FilesTypeOK'
    <3>1. conf[l] \in Nat
        BY DEF TypeOK, CommandTypeOK
    <3> QED BY <1>8, <3>1 DEF Grow, TypeOK, FilesTypeOK
  <2> QED BY <2>1, <2>2 DEF TypeOK
<1>9. CASE Fill(l)
  <2>1. CommandTypeOK'
      BY <1>9, GotoCommand, OverCommand DEF Fill, BuildSteps
  <2>2. FilesTypeOK'
    <3>1. CASE /\ content' = [content EXCEPT ![l] = IF IsBase(l) THEN {<<l, strap>>}
                                             ELSE {<<l, files[l]>>} \cup content[Parent[l]]]
               /\ rootfs' = [rootfs EXCEPT ![l] = IF IsBase(l) THEN "whole"
                                                 ELSE rootfs[Parent[l]]]
               /\ step = "fill"
      <4>1. files[l] \in AnyVersion
          BY DEF TypeOK, FilesTypeOK, FileChoices
      <4>2. IsBase(l) => strap \in AnyVersion
          BY <1>9 DEF Fill, At, DerivedInv
      <4>3. CASE IsBase(l)
          BY <1>9, <3>1, <4>2, <4>3 DEF Fill, TypeOK, FilesTypeOK
      <4>4. CASE ~IsBase(l)
        <5>1. content[Parent[l]] \in SUBSET (Layers \X AnyVersion)
              /\ rootfs[Parent[l]] \in {"none", "partial", "whole"}
            BY <4>4, ParentIn DEF TypeOK, FilesTypeOK
        <5> QED BY <1>9, <3>1, <4>1, <4>4, <5>1 DEF Fill, TypeOK, FilesTypeOK
      <4> QED BY <4>3, <4>4
    <3>2. CASE UNCHANGED <<rootfs, content>>
        BY <1>9, <3>2 DEF Fill, TypeOK, FilesTypeOK
    <3> QED BY <1>9, <3>1, <3>2 DEF Fill, At
  <2> QED BY <2>1, <2>2 DEF TypeOK
<1>10. CASE Unmount(l)
  <2>1. CommandTypeOK'
      BY <1>10, GotoCommand, OverCommand DEF Unmount, BuildSteps
  <2>2. FilesTypeOK'
      BY <1>10 DEF Unmount, TypeOK, FilesTypeOK
  <2> QED BY <2>1, <2>2 DEF TypeOK
<1>11. CASE Hash(l)
  <2>1. CommandTypeOK'
      BY <1>11, DoneCommand, OverCommand DEF Hash, At
  <2>2. FilesTypeOK'
    <3>1. Parent[l] \in built => ~IsBase(l)
        BY CakeAssumption DEF TypeOK, FilesTypeOK, CommandTypeOK, IsBase
    <3>2. files[l] \in AnyVersion
        BY DEF TypeOK, FilesTypeOK, FileChoices
    <3> QED BY <1>11, <3>1, <3>2 DEF Hash, TypeOK, FilesTypeOK
  <2> QED BY <2>1, <2>2 DEF TypeOK
<1>12. CASE Put(l)
  <2>1. CommandTypeOK'
      BY <1>12, GotoCommand, OverCommand DEF Put, ExportSteps
  <2>2. FilesTypeOK'
      BY <1>12 DEF Put, TypeOK, FilesTypeOK
  <2> QED BY <2>1, <2>2 DEF TypeOK
<1>13. CASE Register(l)
  <2>1. CommandTypeOK'
      BY <1>13, DoneCommand, OverCommand DEF Register, At
  <2>2. FilesTypeOK'
      BY <1>13 DEF Register, TypeOK, FilesTypeOK
  <2> QED BY <2>1, <2>2 DEF TypeOK
<1> QED BY <1>1, <1>2, <1>3, <1>6, <1>7, <1>8, <1>9, <1>10, <1>11, <1>12, <1>13 DEF Work

LEMMA DerivedStep == TypeOK /\ DerivedInv /\ [Next]_cakeVars => DerivedInv'
<1> SUFFICES ASSUME TypeOK, DerivedInv, [Next]_cakeVars PROVE DerivedInv'
    OBVIOUS
<1> USE DEF DerivedInv
<1>1. ASSUME NEW l \in Layers, Work(l) PROVE DerivedInv'
  <2>1. CASE Consider(l)
      BY <2>1 DEF Consider, Start, Goto, Over, At
  <2>2. CASE DownloadKernel(l)
      BY <2>2 DEF DownloadKernel, Over, Goto, At
  <2>3. CASE Bootstrap(l)
      BY <2>3 DEF Bootstrap, Over, At, TypeOK, FilesTypeOK, FileChoices
  <2>4. CASE Format(l)
      BY <2>4 DEF Format, Over, Goto, At
  <2>5. CASE Copy(l)
      BY <2>5 DEF Copy, Over, Goto, At
  <2>6. CASE Grow(l) \/ Fill(l) \/ Unmount(l)
      BY <2>6 DEF Grow, Fill, Unmount, Over, Goto, At
  <2>7. CASE Hash(l) \/ Put(l) \/ Register(l)
      BY <2>7 DEF Hash, Put, Register, Over, Goto, Done
  <2> QED BY <1>1, <2>1, <2>2, <2>3, <2>4, <2>5, <2>6, <2>7 DEF Work
<1>2. CASE DropRows \/ DropDirs
    BY <1>2 DEF DropRows, DropDirs, Over, Goto
<1>3. CASE Finish \/ Interrupt
    BY <1>3 DEF Finish, Interrupt, Over
<1>4. ASSUME NEW l \in Layers, NEW v, Edit(l, v) PROVE DerivedInv'
    BY <1>4 DEF Edit
<1>5. ASSUME NEW what, NEW layers, NEW anyway, Run(what, layers, anyway) PROVE DerivedInv'
    BY <1>5 DEF Run
<1>6. CASE UNCHANGED cakeVars
    BY <1>6 DEF cakeVars, commandVars
<1> QED BY <1>1, <1>2, <1>3, <1>4, <1>5, <1>6 DEF Next, Build, BuildAll, BuildCascade, Export

LEMMA TypeStep == TypeOK /\ DerivedInv /\ [Next]_cakeVars => TypeOK'
<1> SUFFICES ASSUME TypeOK, DerivedInv, [Next]_cakeVars PROVE TypeOK'
    OBVIOUS
<1>1. ASSUME NEW l \in Layers, Work(l) PROVE TypeOK'
    BY <1>1, WorkTypes
<1>2. CASE DropRows
  <2>1. CommandTypeOK'
      BY <1>2, GotoCommand, OverCommand DEF DropRows, ExportSteps
  <2>2. FilesTypeOK'
      BY <1>2 DEF DropRows, TypeOK, FilesTypeOK, imageVars, hashVars
  <2> QED BY <2>1, <2>2 DEF TypeOK
<1>3. CASE DropDirs
  <2>1. CommandTypeOK'
      BY <1>3, GotoCommand, OverCommand DEF DropDirs, ExportSteps
  <2>2. FilesTypeOK'
      BY <1>3 DEF DropDirs, TypeOK, FilesTypeOK, imageVars, hashVars
  <2> QED BY <2>1, <2>2 DEF TypeOK
<1>4. CASE Finish \/ Interrupt
  <2>1. CommandTypeOK'
      BY <1>4, OverCommand DEF Finish, Interrupt
  <2>2. FilesTypeOK'
      BY <1>4 DEF Finish, Interrupt, TypeOK, FilesTypeOK, imageVars, hashVars, exportVars
  <2> QED BY <2>1, <2>2 DEF TypeOK
<1>5. ASSUME NEW l \in Layers, NEW v, Edit(l, v) PROVE TypeOK'
  <2>1. CommandTypeOK'
      BY <1>5 DEF Edit, TypeOK, CommandTypeOK
  <2>2. files' \in FileChoices
      BY <1>5 DEF Edit, TypeOK, FilesTypeOK, FileChoices, AnyVersion
  <2>3. FilesTypeOK'
      BY <1>5, <2>2 DEF Edit, TypeOK, FilesTypeOK, imageVars, hashVars, exportVars
  <2> QED BY <2>1, <2>3 DEF TypeOK
<1>6. ASSUME NEW l \in Layers, NEW force \in BOOLEAN, Build(l, force) PROVE TypeOK'
  <2>1. Chain[l] \in Seq(Layers) /\ Cardinality(ToSet(Chain[l])) = Len(Chain[l])
      BY ChainParentsFirst, ParentsFirstList
  <2>2. (IF force THEN {l} ELSE {}) \in SUBSET Layers
      OBVIOUS
  <2> QED BY <1>6, <2>1, <2>2, RunTypes DEF Build
<1>7. ASSUME NEW rank \in Orders, NEW force \in BOOLEAN, BuildAll(rank, force) PROVE TypeOK'
  <2> DEFINE order == TopologicalSort(rank)
  <2>1. order \in Seq(Layers) /\ Cardinality(ToSet(order)) = Len(order)
      BY TopologicalSortCorrect, ParentsFirstList
  <2>2. (IF force THEN Layers ELSE {}) \in SUBSET Layers
      OBVIOUS
  <2> QED BY <1>7, <2>1, <2>2, RunTypes DEF BuildAll
<1>8. ASSUME NEW rank \in Orders, NEW l \in Layers, BuildCascade(rank, l) PROVE TypeOK'
  <2> DEFINE order == Chain[l] \o Descendants(rank, l)
             anyway == {l} \cup ToSet(Descendants(rank, l))
  <2>1. order \in Seq(Layers) /\ Cardinality(ToSet(order)) = Len(order)
      BY CascadeOrderCorrect, ParentsFirstList
  <2>2. anyway \in SUBSET Layers
      BY DescendantsOnce
  <2> HIDE DEF order, anyway
  <2>3. Run("build", order, anyway)
      BY <1>8 DEF BuildCascade, order, anyway
  <2> QED BY <2>1, <2>2, <2>3, RunTypes
<1>9. ASSUME NEW layers \in SetToSeqs(Exported), Export(layers) PROVE TypeOK'
  <2>1. layers \in Seq(Layers) /\ Cardinality(ToSet(layers)) = Len(layers)
      BY ExportLists
  <2>2. Run("export", layers, {}) /\ {} \in SUBSET Layers
      BY <1>9 DEF Export
  <2> QED BY <2>1, <2>2, RunTypes
<1>10. CASE UNCHANGED cakeVars
    BY <1>10 DEF TypeOK, FilesTypeOK, CommandTypeOK, cakeVars, imageVars, hashVars,
       commandVars, exportVars
<1> QED BY <1>1, <1>2, <1>3, <1>4, <1>5, <1>6, <1>7, <1>8, <1>9, <1>10 DEF Next

(* Every variable of the tool has its type in every state, and the list of *)
(* layers a command has to handle never holds one twice, for every tree of *)
(* layers (build.go:32-110, export.go:29-79).                              *)
THEOREM CakeTypeCorrect == Spec => []TypeOK
<1>1. Init => TypeOK /\ DerivedInv
    BY TypeInit DEF Init, DerivedInv
<1>2. TypeOK /\ DerivedInv /\ [Next]_cakeVars => (TypeOK /\ DerivedInv)'
    BY TypeStep, DerivedStep
<1> QED BY <1>1, <1>2, PTL DEF Spec

-----------------------------------------------------------------------------
(* The layer at work *)

(* Its image is being made. *)
Making == step \in {"grow", "fill", "unmount", "hash"}

(* Which steps belong to which command; a build at work has its layer. *)
StepInv ==
    /\ cmd = "none" => step = "next" /\ todo = <<>>
    /\ cmd = "build" => step \in {"next"} \cup BuildSteps
    /\ cmd = "export" => step \in ExportSteps
    /\ step \in BuildSteps => todo # <<>>

(* A layer without an image has no hash. *)
HashInv == \A l \in Layers : rootfs[l] = "none" => saved[l] = "none"

(* The parent of the layer at work has an image ... *)
SourceInv == Making => IsBase(Head(todo)) \/ rootfs[Parent[Head(todo)]] # "none"

(* ... and its children are stale from the moment its image is written. *)
ChildInv ==
    Making => /\ rootfs[Head(todo)] # "none" /\ Head(todo) \in loose
              /\ \A m \in Layers : Parent[m] = Head(todo) => saved[m] = "none" \/ m \in newer

(* The script that ran for a base layer is the one it has, unless edited. *)
StrapInv ==
    step \in {"format", "fill"} /\ IsBase(Head(todo)) /\ Head(todo) \notin touched
        => strap = files[Head(todo)]

(* When it is filled it is what its parent is, and the layer's own script. *)
MadeInv ==
    step \in {"unmount", "hash"} =>
        LET l == Head(todo)
        IN /\ rootfs[l] = IF IsBase(l) THEN "whole" ELSE rootfs[Parent[l]]
           /\ l \notin touched => content[l] = {<<l, files[l]>>} \cup
                 IF IsBase(l) THEN {} ELSE content[Parent[l]]

(* The size of an image that is being made. *)
MadeSize(l) ==
    IF IsBase(l) THEN conf[l]
    ELSE IF conf[l] > Effective(conf)[Parent[l]] THEN conf[l] ELSE size[Parent[l]]

GrownInv ==
    /\ step = "grow" => size[Head(todo)] = size[Parent[Head(todo)]]
    /\ step \in {"fill", "unmount", "hash"} => size[Head(todo)] = MadeSize(Head(todo))

ImageInv == HashInv /\ SourceInv /\ ChildInv /\ StrapInv /\ MadeInv /\ GrownInv

LEMMA StepInvStep == StepInv /\ [Next]_cakeVars => StepInv'
<1> SUFFICES ASSUME StepInv, [Next]_cakeVars PROVE StepInv'
    OBVIOUS
<1> USE DEF StepInv, BuildSteps, ExportSteps, Loaded
<1>1. ASSUME NEW l \in Layers, Work(l) PROVE StepInv'
  <2>1. CASE Consider(l)
      BY <2>1 DEF Consider, Start, Over, Goto, At
  <2>2. CASE DownloadKernel(l) \/ Bootstrap(l)
      BY <2>2 DEF DownloadKernel, Bootstrap, Over, Goto, At
  <2>3. CASE Format(l)
      BY <2>3 DEF Format, Over, Goto, At
  <2>4. CASE Copy(l)
      BY <2>4 DEF Copy, Over, Goto, At
  <2>5. CASE Grow(l)
      BY <2>5 DEF Grow, Over, Goto, At
  <2>6. CASE Fill(l) \/ Unmount(l)
      BY <2>6 DEF Fill, Unmount, Over, Goto, At
  <2>7. CASE Hash(l)
      BY <2>7 DEF Hash, Over, Done, At
  <2>8. CASE Put(l)
      BY <2>8 DEF Put, Over, Goto, At
  <2>9. CASE Register(l)
      BY <2>9 DEF Register, Over, Done, At
  <2> QED BY <1>1, <2>1, <2>2, <2>3, <2>4, <2>5, <2>6, <2>7, <2>8, <2>9 DEF Work
<1>2. CASE DropRows \/ DropDirs
    BY <1>2 DEF DropRows, DropDirs, Over, Goto
<1>3. CASE Finish \/ Interrupt
    BY <1>3 DEF Finish, Interrupt, Over
<1>4. ASSUME NEW l \in Layers, NEW v, Edit(l, v) PROVE StepInv'
    BY <1>4 DEF Edit
<1>5. ASSUME NEW what \in {"build", "export"}, NEW layers, NEW anyway, Run(what, layers, anyway)
      PROVE  StepInv'
    BY <1>5 DEF Run
<1>6. CASE UNCHANGED cakeVars
    BY <1>6 DEF cakeVars, commandVars
<1> QED BY <1>1, <1>2, <1>3, <1>4, <1>5, <1>6 DEF Next, Build, BuildAll, BuildCascade, Export

LEMMA NotOwnParent ==
    ASSUME NEW l \in Layers, ~IsBase(l) PROVE Parent[l] # l
BY Acyclic, AncestryIn

(* Between two layers nothing is said of an image but that it has no hash *)
(* before it exists.                                                      *)
Idle == step \notin {"format", "grow", "fill", "unmount", "hash"}

LEMMA IdleImage == ASSUME HashInv', Idle' PROVE ImageInv'
BY DEF ImageInv, SourceInv, ChildInv, StrapInv, MadeInv, GrownInv, Making, Idle

LEMMA QuietIdle == ASSUME ImageInv, UNCHANGED <<rootfs, saved>>, Idle' PROVE ImageInv'
<1>1. HashInv'
    BY DEF ImageInv, HashInv
<1> QED BY <1>1, IdleImage

(* The first write to an image. *)
LEMMA BeginFacts ==
    ASSUME TypeOK, NEW l \in Layers, NEW n, Begin(l, n)
    PROVE  /\ rootfs'[l] = "partial" /\ size'[l] = n /\ saved' = saved
           /\ \A m \in Layers : m # l => /\ rootfs'[m] = rootfs[m]
                                         /\ content'[m] = content[m] /\ size'[m] = size[m]
           /\ newer' = newer \cup {m \in Layers : Parent[m] = l /\ saved[m] # "none"}
           /\ loose' = loose \cup {l}
BY DEF Begin, TypeOK, FilesTypeOK

LEMMA BeginImage ==
    ASSUME TypeOK, ImageInv, NEW l \in Layers, NEW n, Begin(l, n), files' = files,
           IsBase(l) \/ rootfs[Parent[l]] # "none",
           l = Head(todo), Goto(IF IsBase(l) THEN "fill" ELSE "grow"),
           IsBase(l) => step = "format" /\ n = conf[l],
           ~IsBase(l) => n = size[Parent[l]]
    PROVE  ImageInv'
<1>1. /\ rootfs'[l] = "partial" /\ size'[l] = n /\ saved' = saved
      /\ \A m \in Layers : m # l => rootfs'[m] = rootfs[m] /\ size'[m] = size[m]
      /\ newer' = newer \cup {m \in Layers : Parent[m] = l /\ saved[m] # "none"}
      /\ loose' = loose \cup {l}
    BY BeginFacts
<1>2. /\ todo' = todo /\ strap' = strap /\ touched' = touched /\ conf' = conf
      /\ step' = IF IsBase(l) THEN "fill" ELSE "grow"
    BY DEF Goto, Loaded
<1>3. ~IsBase(l) => Parent[l] \in Layers /\ Parent[l] # l
    BY NotOwnParent, ParentIn
<1>4. HashInv'
    BY <1>1 DEF ImageInv, HashInv
<1>5. SourceInv'
    BY <1>1, <1>2, <1>3 DEF SourceInv
<1>6. ChildInv'
    BY <1>1, <1>2 DEF ChildInv
<1>7. StrapInv'
    BY <1>2 DEF ImageInv, StrapInv
<1>8. MadeInv'
    BY <1>2 DEF MadeInv
<1>9. GrownInv'
    BY <1>1, <1>2, <1>3 DEF GrownInv, MadeSize
<1> QED BY <1>4, <1>5, <1>6, <1>7, <1>8, <1>9 DEF ImageInv

LEMMA GrowImage ==
    ASSUME TypeOK, DerivedInv, ImageInv, NEW l \in Layers, Grow(l) PROVE ImageInv'
<1>1. CASE Over
    BY <1>1, QuietIdle DEF Grow, Over, Idle, hashVars
<1>2. CASE /\ size' = IF conf[l] > Effective(conf)[Parent[l]]
                      THEN [size EXCEPT ![l] = conf[l]] ELSE size
           /\ Goto("fill")
  <2>1. /\ todo' = todo /\ l = Head(todo) /\ step = "grow" /\ step' = "fill" /\ ~IsBase(l)
        /\ conf' = conf /\ UNCHANGED <<rootfs, saved, newer, loose>>
      BY <1>2 DEF Grow, At, Goto, Loaded, DerivedInv, hashVars
  <2>2. Parent[l] \in Layers /\ Parent[l] # l
      BY <2>1, NotOwnParent, ParentIn
  <2>3. /\ size'[Parent[l]] = size[Parent[l]] /\ size[l] = size[Parent[l]]
        /\ size'[l] = IF conf[l] > Effective(conf)[Parent[l]] THEN conf[l] ELSE size[l]
      BY <1>2, <2>1, <2>2 DEF ImageInv, GrownInv, TypeOK, FilesTypeOK
  <2>4. GrownInv'
      BY <2>1, <2>3 DEF GrownInv, MadeSize
  <2>5. HashInv' /\ SourceInv' /\ ChildInv'
      BY <2>1 DEF ImageInv, HashInv, SourceInv, ChildInv, Making
  <2>6. StrapInv' /\ MadeInv'
      BY <2>1 DEF StrapInv, MadeInv
  <2> QED BY <2>4, <2>5, <2>6 DEF ImageInv
<1> QED BY <1>1, <1>2 DEF Grow

LEMMA FillImage ==
    ASSUME TypeOK, ImageInv, NEW l \in Layers, Fill(l) PROVE ImageInv'
<1>1. CASE Over /\ UNCHANGED <<rootfs, content>>
    BY <1>1, QuietIdle DEF Fill, Over, Idle, hashVars
<1>2. CASE /\ content' = [content EXCEPT ![l] = IF IsBase(l) THEN {<<l, strap>>}
                                             ELSE {<<l, files[l]>>} \cup content[Parent[l]]]
           /\ rootfs' = [rootfs EXCEPT ![l] = IF IsBase(l) THEN "whole"
                                              ELSE rootfs[Parent[l]]]
           /\ Goto("unmount")
  <2>1. /\ todo' = todo /\ l = Head(todo) /\ step = "fill" /\ step' = "unmount"
        /\ conf' = conf /\ touched' = touched
        /\ UNCHANGED <<files, size, saved, newer, loose>>
      BY <1>2 DEF Fill, At, Goto, Loaded, hashVars
  <2>2. /\ rootfs'[l] = IF IsBase(l) THEN "whole" ELSE rootfs[Parent[l]]
        /\ content'[l] = IF IsBase(l) THEN {<<l, strap>>}
                         ELSE {<<l, files[l]>>} \cup content[Parent[l]]
        /\ \A m \in Layers : m # l => rootfs'[m] = rootfs[m] /\ content'[m] = content[m]
      BY <1>2 DEF TypeOK, FilesTypeOK
  <2>3. ~IsBase(l) => Parent[l] \in Layers /\ Parent[l] # l
      BY NotOwnParent, ParentIn
  <2>4. rootfs'[l] # "none" /\ rootfs[l] # "none"
      BY <2>1, <2>2 DEF ImageInv, SourceInv, ChildInv, Making
  <2>5. HashInv'
      BY <2>1, <2>2, <2>4 DEF ImageInv, HashInv
  <2>6. SourceInv' /\ ChildInv'
      BY <2>1, <2>2, <2>3, <2>4 DEF ImageInv, SourceInv, ChildInv, Making
  <2>7. IsBase(l) /\ l \notin touched => strap = files[l]
      BY <2>1 DEF ImageInv, StrapInv
  <2>8. MadeInv'
      BY <2>1, <2>2, <2>3, <2>7 DEF MadeInv
  <2>9. StrapInv' /\ GrownInv'
      BY <2>1 DEF StrapInv, ImageInv, GrownInv, MadeSize
  <2> QED BY <2>5, <2>6, <2>8, <2>9 DEF ImageInv
<1> QED BY <1>1, <1>2 DEF Fill

LEMMA UnmountImage ==
    ASSUME TypeOK, ImageInv, NEW l \in Layers, Unmount(l) PROVE ImageInv'
<1>1. CASE Goto("hash") /\ UNCHANGED <<rootfs, content>>
  <2>1. /\ todo' = todo /\ step = "unmount" /\ step' = "hash" /\ conf' = conf
        /\ touched' = touched /\ UNCHANGED <<files, rootfs, content, size, saved, newer, loose>>
      BY <1>1 DEF Unmount, At, Goto, Loaded, hashVars
  <2>2. HashInv' /\ SourceInv' /\ ChildInv'
      BY <2>1 DEF ImageInv, HashInv, SourceInv, ChildInv, Making
  <2>3. StrapInv' /\ MadeInv' /\ GrownInv'
      BY <2>1 DEF ImageInv, StrapInv, MadeInv, GrownInv, MadeSize
  <2> QED BY <2>2, <2>3 DEF ImageInv
<1>2. CASE Over /\ rootfs' = [rootfs EXCEPT ![l] = "partial"]
  <2>1. HashInv'
      BY <1>2 DEF Unmount, hashVars, ImageInv, HashInv, TypeOK, FilesTypeOK
  <2>2. Idle'
      BY <1>2 DEF Over, Idle
  <2> QED BY <2>1, <2>2, IdleImage
<1> QED BY <1>1, <1>2 DEF Unmount

LEMMA HashImage ==
    ASSUME TypeOK, ImageInv, NEW l \in Layers, Hash(l) PROVE ImageInv'
<1>1. rootfs[l] # "none" /\ rootfs' = rootfs
    BY DEF Hash, At, ImageInv, ChildInv, Making, imageVars
<1>2. \A m \in Layers : m # l => saved'[m] = saved[m]
    BY DEF Hash, TypeOK, FilesTypeOK
<1>3. HashInv'
    BY <1>1, <1>2 DEF ImageInv, HashInv
<1>4. Idle'
    BY DEF Hash, Done, Over, Idle
<1> QED BY <1>3, <1>4, IdleImage

LEMMA EditImage ==
    ASSUME TypeOK, StepInv, ImageInv, NEW l \in Layers, NEW v, Edit(l, v) PROVE ImageInv'
<1>1. /\ UNCHANGED <<rootfs, content, size, saved, newer, loose, step, todo, strap, conf>>
      /\ \A m \in Layers : m # l => files'[m] = files[m]
      /\ touched \subseteq touched' /\ (cmd = "build" => l \in touched')
    BY DEF Edit, imageVars, hashVars, TypeOK, FilesTypeOK, FileChoices
<1>2. step \in BuildSteps => cmd = "build" /\ Head(todo) \in Layers
  <2>1. step \in BuildSteps => cmd = "build"
      BY DEF StepInv, BuildSteps, ExportSteps, TypeOK, CommandTypeOK
  <2>2. step \in BuildSteps => Head(todo) \in Layers
      BY DEF StepInv, TypeOK, CommandTypeOK
  <2> QED BY <2>1, <2>2
<1>3. HashInv' /\ SourceInv' /\ ChildInv' /\ GrownInv'
    BY <1>1 DEF ImageInv, HashInv, SourceInv, ChildInv, Making, GrownInv, MadeSize
<1>4. StrapInv'
    BY <1>1, <1>2 DEF ImageInv, StrapInv, BuildSteps
<1>5. MadeInv'
    BY <1>1, <1>2 DEF ImageInv, MadeInv, BuildSteps
<1> QED BY <1>3, <1>4, <1>5 DEF ImageInv

LEMMA ImageStep == TypeOK /\ DerivedInv /\ StepInv /\ ImageInv /\ [Next]_cakeVars => ImageInv'
<1> SUFFICES ASSUME TypeOK, DerivedInv, StepInv, ImageInv, [Next]_cakeVars PROVE ImageInv'
    OBVIOUS
<1> USE DEF imageVars, hashVars, Idle
<1>1. ASSUME NEW l \in Layers, Work(l) PROVE ImageInv'
  <2>1. CASE Consider(l)
      BY <2>1, QuietIdle DEF Consider, Start, Goto, Over, At
  <2>2. CASE DownloadKernel(l)
      BY <2>2, QuietIdle DEF DownloadKernel, Goto, Over
  <2>3. CASE Bootstrap(l)
    <3>1. CASE Over
        BY <2>3, <3>1, QuietIdle DEF Bootstrap, Over
    <3>2. CASE strap' = files[l] /\ step' = "format" /\ UNCHANGED <<Loaded, todo, built>>
      <4>1. UNCHANGED <<files, rootfs, saved>> /\ todo' = todo /\ l = Head(todo)
          BY <2>3, <3>2 DEF Bootstrap, At
      <4>2. HashInv' /\ SourceInv' /\ ChildInv' /\ MadeInv' /\ GrownInv'
          BY <3>2, <4>1 DEF ImageInv, HashInv, SourceInv, ChildInv, MadeInv, GrownInv, Making
      <4>3. StrapInv'
          BY <3>2, <4>1 DEF StrapInv
      <4> QED BY <4>2, <4>3 DEF ImageInv
    <3> QED BY <2>3, <3>1, <3>2 DEF Bootstrap
  <2>4. CASE Format(l)
    <3>1. IsBase(l) /\ l = Head(todo) /\ step = "format" /\ Begin(l, conf[l]) /\ files' = files
        BY <2>4 DEF Format, At, DerivedInv
    <3>2. CASE Goto("fill")
        BY <3>1, <3>2, BeginImage
    <3>3. CASE Over
      <4>1. HashInv'
          BY <3>1, BeginFacts DEF ImageInv, HashInv
      <4> QED BY <3>3, <4>1, IdleImage DEF Over
    <3> QED BY <2>4, <3>2, <3>3 DEF Format
  <2>5. CASE Copy(l)
    <3>1. ~IsBase(l) /\ l = Head(todo) /\ files' = files
        BY <2>5 DEF Copy, At, DerivedInv
    <3>2. CASE rootfs[Parent[l]] # "none" /\ Begin(l, size[Parent[l]]) /\ Goto("grow")
        BY <3>1, <3>2, BeginImage
    <3>3. CASE Begin(l, size[Parent[l]]) /\ Over
      <4>1. HashInv'
          BY <3>3, BeginFacts DEF ImageInv, HashInv
      <4> QED BY <3>3, <4>1, IdleImage DEF Over
    <3>4. CASE Over /\ UNCHANGED <<imageVars, hashVars>>
        BY <3>4, QuietIdle DEF Over
    <3> QED BY <2>5, <3>2, <3>3, <3>4 DEF Copy
  <2>6. CASE Put(l) \/ Register(l)
      BY <2>6, QuietIdle DEF Put, Register, Goto, Done, Over
  <2> QED BY <1>1, <2>1, <2>2, <2>3, <2>4, <2>5, <2>6, GrowImage, FillImage, UnmountImage,
             HashImage DEF Work
<1>2. CASE DropRows \/ DropDirs
    BY <1>2, QuietIdle DEF DropRows, DropDirs, Over, Goto
<1>3. CASE Finish \/ Interrupt
    BY <1>3, QuietIdle DEF Finish, Interrupt, Over
<1>4. ASSUME NEW l \in Layers, NEW v, Edit(l, v) PROVE ImageInv'
    BY <1>4, EditImage
<1>5. ASSUME NEW what \in {"build", "export"}, NEW layers, NEW anyway, Run(what, layers, anyway)
      PROVE  ImageInv'
    BY <1>5, QuietIdle DEF Run
<1>6. CASE UNCHANGED cakeVars
    BY <1>6 DEF cakeVars, commandVars, ImageInv, HashInv, SourceInv, ChildInv, StrapInv,
       MadeInv, GrownInv, MadeSize, Making
<1> QED BY <1>1, <1>2, <1>3, <1>4, <1>5, <1>6 DEF Next, Build, BuildAll, BuildCascade, Export

-----------------------------------------------------------------------------
(* What a build has handled *)

Handled == scope \ ToSet(todo)

(* A build has loaded the sizes that stand in layer.conf, unless edited.  It *)
(* handles parents first, and what it has handled has the hash of its files. *)
ConfInv == cmd = "build" => \A m \in Layers \ touched : conf[m] = Named[m]

HandledInv ==
    cmd = "build" =>
        /\ ToSet(todo) \subseteq scope /\ built \subseteq Handled
        /\ After(todo, Handled)
        /\ \A m \in Handled : IsBase(m) \/ Parent[m] \in Handled
        /\ \A m \in Handled \ touched : saved[m] = files[m]
        /\ \A m \in built : m \notin loose \/ Ancestry(m) \cap touched # {}

(* The rest of a list may look for its parents at the first. *)
LEMMA TailAfter ==
    ASSUME NEW s \in Seq(Layers), s # <<>>, NEW P, After(s, P)
    PROVE  After(Tail(s), P \cup {Head(s)})
<1> DEFINE t == Tail(s)
<1>1. /\ Len(s) \in Nat \ {0} /\ Len(t) = Len(s) - 1 /\ Head(s) = s[1]
      /\ \A i \in 1 .. Len(s) - 1 : t[i] = s[i + 1]
    OBVIOUS
<1> HIDE DEF t
<1>2. ASSUME NEW i \in 1 .. Len(t)
      PROVE  \/ IsBase(t[i]) \/ Parent[t[i]] \in P \cup {Head(s)}
             \/ \E j \in 1 .. i - 1 : t[j] = Parent[t[i]]
  <2>1. i + 1 \in 1 .. Len(s) /\ t[i] = s[i + 1]
      BY <1>1
  <2>2. CASE IsBase(s[i + 1]) \/ Parent[s[i + 1]] \in P
      BY <2>1, <2>2
  <2>3. CASE \E j \in 1 .. (i + 1) - 1 : s[j] = Parent[s[i + 1]]
    <3>1. PICK j \in 1 .. i : s[j] = Parent[s[i + 1]]
        BY <2>3
    <3>2. CASE j = 1
        BY <1>1, <2>1, <3>1, <3>2
    <3>3. CASE j # 1
      <4>1. j - 1 \in 1 .. i - 1 /\ t[j - 1] = s[j]
          BY <1>1, <2>1, <3>1, <3>3
      <4> QED BY <2>1, <3>1, <4>1
    <3> QED BY <3>2, <3>3
  <2> QED BY <2>1, <2>2, <2>3 DEF After
<1> QED BY <1>2 DEF After, t

(* The layer at work is one to handle, and its parent has been handled. *)
LEMMA HeadHandled ==
    ASSUME TypeOK, HandledInv, cmd = "build", todo # <<>>
    PROVE  /\ Head(todo) \in Layers /\ Head(todo) \notin Handled /\ Head(todo) \in scope
           /\ IsBase(Head(todo)) \/ Parent[Head(todo)] \in Handled
<1>1. /\ todo \in Seq(Layers) /\ 1 \in 1 .. Len(todo) /\ Head(todo) = todo[1]
      /\ Head(todo) \in ToSet(todo) /\ Head(todo) \in Layers
    BY OnceCounted, HeadTail DEF TypeOK, CommandTypeOK
<1>2. After(todo, Handled) /\ ToSet(todo) \subseteq scope
    BY DEF HandledInv
<1> QED BY <1>1, <1>2 DEF After, Handled

(* The step is one of the build of the layer at work, or ends the command. *)
LEMMA HandledStay ==
    ASSUME HandledInv,
           \/ cmd' # "build"
           \/ /\ UNCHANGED <<files, saved, cmd, touched, todo, built, scope>>
              /\ built \cap loose' \subseteq loose
    PROVE  HandledInv'
<1>1. CASE cmd' # "build"
    BY <1>1 DEF HandledInv
<1>2. CASE /\ UNCHANGED <<files, saved, cmd, touched, todo, built, scope>>
           /\ built \cap loose' \subseteq loose
           /\ cmd = "build"
  <2>1. Handled' = Handled
      BY <1>2 DEF Handled
  <2>2. After(todo', Handled')
      BY <1>2, <2>1 DEF HandledInv
  <2> QED BY <1>2, <2>1, <2>2 DEF HandledInv
<1> QED BY <1>1, <1>2

(* The next layer is handled. *)
LEMMA HandledNext ==
    ASSUME TypeOK, HandledInv, cmd = "build", todo # <<>>,
           UNCHANGED <<files, scope, touched>>, todo' = Tail(todo),
           saved'[Head(todo)] = files[Head(todo)],
           \A m \in Layers : m # Head(todo) => saved'[m] = saved[m],
           built' \subseteq built \cup {Head(todo)},
           \A m \in built' : m \notin loose' \/ Ancestry(m) \cap touched # {}
    PROVE  HandledInv' /\ Handled' = Handled \cup {Head(todo)}
<1> DEFINE h == Head(todo)
<1>1. /\ todo \in Seq(Layers) /\ h \in ToSet(todo)
      /\ ToSet(Tail(todo)) = ToSet(todo) \ {h}
    BY OnceCounted, HeadTail DEF TypeOK, CommandTypeOK
<1>2. /\ h \in Layers /\ h \notin Handled /\ h \in scope
      /\ IsBase(h) \/ Parent[h] \in Handled
    BY HeadHandled
<1>3. /\ ToSet(todo) \subseteq scope /\ After(todo, Handled) /\ built \subseteq Handled
      /\ \A m \in Handled : IsBase(m) \/ Parent[m] \in Handled
      /\ \A m \in Handled \ touched : saved[m] = files[m]
    BY DEF HandledInv
<1>4. After(Tail(todo), Handled \cup {h})
    BY <1>1, <1>3, TailAfter
<1>5. Handled' = Handled \cup {h}
    BY <1>1, <1>2 DEF Handled
<1> HIDE DEF h
<1>6. After(todo', Handled')
    BY <1>4, <1>5 DEF h
<1>7. Handled \subseteq Layers
    BY DEF Handled, TypeOK, CommandTypeOK
<1>8. \A m \in Handled' \ touched' : saved'[m] = files'[m]
    BY <1>2, <1>3, <1>5, <1>7 DEF h
<1>9. ToSet(todo') \subseteq scope' /\ built' \subseteq Handled'
    BY <1>1, <1>3, <1>5 DEF h
<1>10. \A m \in Handled' : IsBase(m) \/ Parent[m] \in Handled'
    BY <1>2, <1>3, <1>5
<1> QED BY <1>5, <1>6, <1>8, <1>9, <1>10 DEF HandledInv, h

(* A build that starts has handled nothing. *)
LEMMA HandledRun ==
    ASSUME NEW s, ParentsFirst(s), NEW anyway, Run("build", s, anyway)
    PROVE  HandledInv' /\ Handled' = {}
<1>1. todo' = s /\ scope' = ToSet(s) /\ built' = {} /\ After(s, {})
    BY DEF Run, ParentsFirst, After
<1>2. Handled' = {}
    BY <1>1 DEF Handled
<1>3. After(todo', Handled')
    BY <1>1, <1>2
<1> QED BY <1>1, <1>2, <1>3 DEF HandledInv

LEMMA HandledHash ==
    ASSUME TypeOK, StepInv, HandledInv, NEW l \in Layers, Hash(l) PROVE HandledInv'
<1>1. CASE Over
    BY <1>1, HandledStay DEF Over
<1>2. CASE /\ saved' = [saved EXCEPT ![l] = files[l]]
           /\ loose' = IF Ancestry(l) \cap touched = {} THEN loose \ {l} ELSE loose
           /\ Done(l)
  <2>1. /\ cmd = "build" /\ l = Head(todo) /\ todo # <<>> /\ files' = files
        /\ todo' = Tail(todo) /\ built' = built \cup {l} /\ UNCHANGED <<scope, touched>>
      BY <1>2 DEF Hash, At, Done, Loaded, StepInv, ExportSteps, TypeOK, CommandTypeOK
  <2>2. saved'[l] = files[l] /\ \A m \in Layers : m # l => saved'[m] = saved[m]
      BY <1>2 DEF TypeOK, FilesTypeOK
  <2>3. \A m \in built' : m \notin loose' \/ Ancestry(m) \cap touched # {}
      BY <1>2, <2>1 DEF HandledInv
  <2> QED BY <2>1, <2>2, <2>3, HandledNext
<1> QED BY <1>1, <1>2 DEF Hash

LEMMA HandledBegin ==
    ASSUME TypeOK, HandledInv, NEW l, l = Head(todo), todo # <<>>, NEW n, Begin(l, n),
           files' = files, NEW there, Goto(there)
    PROVE  HandledInv'
<1>1. UNCHANGED <<files, saved, cmd, touched, todo, built, scope>> /\ loose' = loose \cup {l}
    BY DEF Begin, Goto, Loaded
<1>2. CASE cmd = "build"
  <2>1. l \notin built
      BY <1>2, HeadHandled DEF HandledInv
  <2> QED BY <1>1, <2>1, HandledStay
<1>3. CASE cmd # "build"
    BY <1>1, <1>3, HandledStay
<1> QED BY <1>2, <1>3

LEMMA HandledStep ==
    TypeOK /\ StepInv /\ HandledInv /\ [Next]_cakeVars => HandledInv'
<1> SUFFICES ASSUME TypeOK, StepInv, HandledInv, [Next]_cakeVars PROVE HandledInv'
    OBVIOUS
<1> USE DEF imageVars, hashVars, Loaded
<1>1. ASSUME NEW l \in Layers, Work(l) PROVE HandledInv'
  <2>1. CASE Consider(l)
    <3>1. l = Head(todo) /\ todo # <<>> /\ UNCHANGED <<files, saved, loose>>
        BY <2>1 DEF Consider, At
    <3>2. CASE Goto(Start(l)) \/ Over
        BY <3>1, <3>2, HandledStay DEF Goto, Over
    <3>3. CASE /\ ~Stale[l] /\ todo' = Tail(todo)
               /\ UNCHANGED <<Loaded, step, strap, built>>
      <4>1. CASE cmd = "build"
        <5>1. saved[l] = files[l]
            BY <3>3, StaleDef DEF StaleEquation
        <5>2. UNCHANGED <<scope, touched>> /\ built' = built
            BY <3>3
        <5>3. \A m \in built' : m \notin loose' \/ Ancestry(m) \cap touched # {}
            BY <3>1, <4>1, <5>2 DEF HandledInv
        <5> QED BY <3>1, <3>3, <4>1, <5>1, <5>2, <5>3, HandledNext
      <4>2. CASE cmd # "build"
          BY <3>3, <4>2, HandledStay
      <4> QED BY <4>1, <4>2
    <3> QED BY <2>1, <3>2, <3>3 DEF Consider
  <2>2. CASE DownloadKernel(l)
      BY <2>2, HandledStay DEF DownloadKernel, Over, Goto
  <2>3. CASE Bootstrap(l)
      BY <2>3, HandledStay DEF Bootstrap, Over
  <2>4. CASE Format(l)
    <3>1. CASE Over
        BY <3>1, HandledStay DEF Over
    <3>2. CASE Goto("fill")
        BY <2>4, <3>2, HandledBegin DEF Format, At
    <3> QED BY <2>4, <3>1, <3>2 DEF Format
  <2>5. CASE Copy(l)
    <3>1. CASE Over
        BY <3>1, HandledStay DEF Over
    <3>2. CASE Begin(l, size[Parent[l]]) /\ Goto("grow")
        BY <2>5, <3>2, HandledBegin DEF Copy, At
    <3> QED BY <2>5, <3>1, <3>2 DEF Copy
  <2>6. CASE Grow(l)
      BY <2>6, HandledStay DEF Grow, Over, Goto
  <2>7. CASE Fill(l)
      BY <2>7, HandledStay DEF Fill, Over, Goto
  <2>8. CASE Unmount(l)
      BY <2>8, HandledStay DEF Unmount, Over, Goto
  <2>9. CASE Put(l)
      BY <2>9, HandledStay DEF Put, Over, Goto
  <2>10. CASE Register(l)
    <3>1. cmd = "export"
        BY <2>10 DEF Register, At, StepInv, BuildSteps, TypeOK, CommandTypeOK
    <3> QED BY <2>10, <3>1, HandledStay DEF Register, Done, Over
  <2> QED BY <1>1, <2>1, <2>2, <2>3, <2>4, <2>5, <2>6, <2>7, <2>8, <2>9, <2>10, HandledHash
          DEF Work
<1>2. CASE DropRows \/ DropDirs
    BY <1>2, HandledStay DEF DropRows, DropDirs, Over, Goto
<1>3. CASE Finish \/ Interrupt
    BY <1>3, HandledStay DEF Finish, Interrupt, Over
<1>4. ASSUME NEW l \in Layers, NEW v, Edit(l, v) PROVE HandledInv'
  <2>1. CASE cmd # "build"
      BY <1>4, <2>1, HandledStay DEF Edit
  <2>2. CASE cmd = "build"
    <3>1. /\ UNCHANGED <<saved, loose, cmd, todo, built, scope>> /\ touched' = touched \cup {l}
          /\ \A m \in Layers : m # l => files'[m] = files[m]
        BY <1>4, <2>2 DEF Edit, TypeOK, FilesTypeOK, FileChoices
    <3>2. Handled' = Handled /\ Handled \subseteq Layers
        BY <3>1 DEF Handled, TypeOK, CommandTypeOK
    <3>3. After(todo', Handled')
        BY <2>2, <3>1, <3>2 DEF HandledInv
    <3> QED BY <2>2, <3>1, <3>2, <3>3 DEF HandledInv
  <2> QED BY <2>1, <2>2
<1>5. ASSUME NEW l \in Layers, NEW force \in BOOLEAN, Build(l, force) PROVE HandledInv'
    BY <1>5, ChainParentsFirst, HandledRun DEF Build
<1>6. ASSUME NEW rank \in Orders, NEW force \in BOOLEAN, BuildAll(rank, force) PROVE HandledInv'
    BY <1>6, TopologicalSortCorrect, HandledRun DEF BuildAll
<1>7. ASSUME NEW rank \in Orders, NEW l \in Layers, BuildCascade(rank, l) PROVE HandledInv'
    BY <1>7, CascadeOrderCorrect, HandledRun DEF BuildCascade
<1>8. ASSUME NEW layers, Export(layers) PROVE HandledInv'
    BY <1>8, HandledStay DEF Export, Run
<1>9. CASE UNCHANGED cakeVars
    BY <1>9, HandledStay DEF cakeVars, commandVars
<1> QED BY <1>1, <1>2, <1>3, <1>4, <1>5, <1>6, <1>7, <1>8, <1>9 DEF Next

LEMMA ConfStep == TypeOK /\ ConfInv /\ [Next]_cakeVars => ConfInv'
<1> SUFFICES ASSUME TypeOK, ConfInv, [Next]_cakeVars PROVE ConfInv'
    OBVIOUS
<1> USE DEF Loaded
<1>0. ASSUME cmd' # "build" \/ UNCHANGED <<files, cmd, conf, touched>> PROVE ConfInv'
    BY <1>0 DEF ConfInv, Named
<1>1. ASSUME NEW l \in Layers, Work(l) PROVE ConfInv'
  <2>1. CASE Consider(l) \/ DownloadKernel(l) \/ Bootstrap(l)
      BY <2>1, <1>0 DEF Consider, DownloadKernel, Bootstrap, Goto, Over
  <2>2. CASE Format(l) \/ Copy(l) \/ Grow(l)
      BY <2>2, <1>0 DEF Format, Copy, Grow, Goto, Over
  <2>3. CASE Fill(l) \/ Unmount(l) \/ Hash(l)
      BY <2>3, <1>0 DEF Fill, Unmount, Hash, Goto, Done, Over
  <2>4. CASE Put(l) \/ Register(l)
      BY <2>4, <1>0 DEF Put, Register, Goto, Done, Over
  <2> QED BY <1>1, <2>1, <2>2, <2>3, <2>4 DEF Work
<1>2. CASE DropRows \/ DropDirs
    BY <1>2, <1>0 DEF DropRows, DropDirs, Over, Goto
<1>3. CASE Finish \/ Interrupt
    BY <1>3, <1>0 DEF Finish, Interrupt, Over
<1>4. ASSUME NEW l \in Layers, NEW v, Edit(l, v) PROVE ConfInv'
  <2>1. /\ cmd' = cmd /\ conf' = conf /\ (cmd = "build" => touched' = touched \cup {l})
        /\ \A m \in Layers : m # l => files'[m] = files[m]
      BY <1>4 DEF Edit, TypeOK, FilesTypeOK, FileChoices
  <2> QED BY <2>1 DEF ConfInv, Named
<1>5. ASSUME NEW what, NEW layers, NEW anyway, Run(what, layers, anyway) PROVE ConfInv'
    BY <1>5 DEF Run, ConfInv, Named
<1>6. CASE UNCHANGED cakeVars
    BY <1>6, <1>0 DEF cakeVars, commandVars
<1> QED BY <1>1, <1>2, <1>3, <1>4, <1>5, <1>6 DEF Next, Build, BuildAll, BuildCascade, Export

-----------------------------------------------------------------------------
(* What a hash is worth *)

(* The layer and its ancestors have the hashes of what they were made of.  *)
(* This looks at the hashes, not at the files, which an edit changes.      *)
Sealed(l) == \A m \in Ancestry(l) : m \notin loose /\ m \notin newer /\ saved[m] # "none"

Recorded(l) == {<<m, saved[m]>> : m \in Ancestry(l)}

(* The sizes that were named when the hashes were written. *)
Kept == [m \in Layers |-> IF saved[m] \in Versions[m] THEN Wants[m][saved[m]] ELSE 0]

(* The size of an image by the sizes that the layers name. *)
Result(named, l) ==
    IF Effective(named)[l] > DefaultSize THEN Effective(named)[l] ELSE named[Base]

Sound(l) ==
    Sealed(l) => rootfs[l] = "whole" /\ content[l] = Recorded(l) /\ size[l] = Result(Kept, l)

SealedInv == \A l \in Layers : Sound(l)

LEMMA KeptType == Kept \in [Layers -> Nat] /\ Kept' \in [Layers -> Nat]
BY CakeAssumption DEF Kept

LEMMA ResultLocal ==
    ASSUME NEW n1 \in [Layers -> Nat], NEW n2 \in [Layers -> Nat], NEW l \in Layers,
           \A m \in Ancestry(l) : n1[m] = n2[m]
    PROVE  Result(n1, l) = Result(n2, l)
<1>1. Effective(n1)[l] = Effective(n2)[l]
    BY EffectiveLocal
<1>2. n1[Base] = n2[Base]
    BY BaseBelow
<1> QED BY <1>1, <1>2 DEF Result

(* A base layer gets what it names, and another what it asks for when that is *)
(* more than its parent's by inheritance, and otherwise what its parent got.  *)
LEMMA ResultDef ==
    ASSUME NEW named \in [Layers -> Nat], NEW l \in Layers
    PROVE  /\ IsBase(l) => Result(named, l) = named[l]
           /\ ~IsBase(l) => Result(named, l) =
                 IF named[l] > Effective(named)[Parent[l]] THEN named[l]
                 ELSE Result(named, Parent[l])
<1>1. CASE IsBase(l)
  <2>1. Effective(named)[l] = IF named[l] < DefaultSize THEN DefaultSize ELSE named[l]
      BY <1>1, EffectiveDef
  <2>2. Base = l
      BY <1>1, BaseBelow
  <2>3. named[l] \in Nat /\ DefaultSize \in Nat
      BY CakeAssumption
  <2> QED BY <1>1, <2>1, <2>2, <2>3 DEF Result
<1>2. CASE ~IsBase(l)
  <2>1. Parent[l] \in Layers
      BY <1>2, ParentIn
  <2> DEFINE below == Effective(named)[Parent[l]]
  <2>2. /\ Effective(named)[l] = IF named[l] < below THEN below ELSE named[l]
        /\ below \in Nat /\ below >= DefaultSize /\ named[l] \in Nat /\ DefaultSize \in Nat
      BY <1>2, <2>1, EffectiveDef, CakeAssumption
  <2> QED BY <1>2, <2>2 DEF Result
<1> QED BY <1>1, <1>2

(* A step that changes nothing of a layer, and no hash of its ancestors. *)
LEMMA SoundKept ==
    ASSUME NEW l \in Layers, Sound(l),
           \A m \in Ancestry(l) : /\ saved'[m] = saved[m]
                                  /\ m \in loose => m \in loose'
                                  /\ m \in newer => m \in newer',
           rootfs'[l] = rootfs[l], content'[l] = content[l], size'[l] = size[l]
    PROVE  Sound(l)'
<1>1. SUFFICES ASSUME Sealed(l)'
               PROVE  rootfs'[l] = "whole" /\ content'[l] = Recorded(l)' /\ size'[l] = Result(Kept, l)'
    BY DEF Sound
<1>2. Sealed(l)
    BY <1>1 DEF Sealed
<1>3. Recorded(l)' = Recorded(l)
    BY DEF Recorded
<1>4. \A m \in Ancestry(l) : Kept'[m] = Kept[m]
    BY AncestryIn DEF Kept
<1>5. Result(Kept', l) = Result(Kept, l)
    BY <1>4, KeptType, ResultLocal
<1>6. Result(Kept, l)' = Result(Kept', l)
    BY DEF Result
<1> QED BY <1>2, <1>3, <1>5, <1>6 DEF Sound

(* A step that works on one layer, whose image has no hash it deserves. *)
LEMMA LooseSealed ==
    ASSUME SealedInv, NEW l \in Layers, l \in loose',
           \A m \in Layers : m # l =>
              /\ rootfs'[m] = rootfs[m] /\ content'[m] = content[m] /\ size'[m] = size[m]
              /\ saved'[m] = saved[m]
              /\ m \in loose => m \in loose'
              /\ m \in newer => m \in newer'
    PROVE  SealedInv'
<1> SUFFICES ASSUME NEW k \in Layers PROVE Sound(k)'
    BY DEF SealedInv
<1>1. CASE l \in Ancestry(k)
    BY <1>1 DEF Sound, Sealed
<1>2. CASE l \notin Ancestry(k)
    BY <1>2, AncestryIn, SoundKept DEF SealedInv
<1> QED BY <1>1, <1>2

LEMMA QuietSealed == ASSUME SealedInv, UNCHANGED <<imageVars, hashVars>> PROVE SealedInv'
<1> SUFFICES ASSUME NEW k \in Layers PROVE Sound(k)'
    BY DEF SealedInv
<1> QED BY SoundKept DEF SealedInv, imageVars, hashVars

LEMMA BeginSealed ==
    ASSUME TypeOK, SealedInv, NEW l \in Layers, NEW n, Begin(l, n) PROVE SealedInv'
<1>1. /\ l \in loose' /\ loose \subseteq loose' /\ newer \subseteq newer' /\ saved' = saved
      /\ \A m \in Layers : m # l => /\ rootfs'[m] = rootfs[m]
                                    /\ content'[m] = content[m] /\ size'[m] = size[m]
    BY BeginFacts
<1> QED BY <1>1, LooseSealed

(* What a build has handled it has handled with its ancestors. *)
LEMMA HandledClosed ==
    ASSUME HandledInv, cmd = "build", NEW l \in Layers, l \in Handled
    PROVE  Ancestry(l) \subseteq Handled
<1> DEFINE S == {x \in Layers : x \in Handled => Ancestry(x) \subseteq Handled}
<1>1. ASSUME NEW x \in Layers, IsBase(x) \/ Parent[x] \in S
      PROVE  x \in S
  <2> SUFFICES ASSUME x \in Handled PROVE Ancestry(x) \subseteq Handled
      OBVIOUS
  <2>1. IsBase(x) \/ Parent[x] \in Handled
      BY DEF HandledInv
  <2> QED BY <1>1, <2>1, AncestryDef
<1> HIDE DEF S
<1>2. Layers \subseteq S
    BY <1>1, ParentInduction
<1> QED BY <1>2 DEF S

(* The ancestors of a layer that gets its hash have the hashes of their files, *)
(* and the sizes that the command has loaded, unless edited.                   *)
LEMMA HashedAncestry ==
    ASSUME TypeOK, StepInv, ConfInv, HandledInv, NEW l \in Layers, At(l, "hash"),
           saved' = [saved EXCEPT ![l] = files[l]], Ancestry(l) \cap touched = {}
    PROVE  \A m \in Ancestry(l) : /\ saved'[m] = files[m] /\ saved'[m] # "none"
                                  /\ Kept'[m] = conf[m]
<1>1. cmd = "build" /\ l = Head(todo) /\ todo # <<>>
    BY DEF At, StepInv, ExportSteps, TypeOK, CommandTypeOK
<1>2. saved'[l] = files[l] /\ \A m \in Layers : m # l => saved'[m] = saved[m]
    BY DEF TypeOK, FilesTypeOK
<1>3. ~IsBase(l) => Ancestry(Parent[l]) \subseteq Handled
    BY <1>1, HeadHandled, ParentIn, HandledClosed
<1>4. \A m \in Handled \ touched : saved[m] = files[m]
    BY <1>1 DEF HandledInv
<1>5. ASSUME NEW m \in Ancestry(l) PROVE saved'[m] = files[m]
  <2>1. CASE m = l
      BY <1>2, <2>1
  <2>2. CASE m # l
    <3>1. m \in Handled \ touched /\ m \in Layers
        BY <1>3, <1>5, <2>2, AncestryDef, AncestryIn
    <3> QED BY <1>2, <1>4, <2>2, <3>1
  <2> QED BY <2>1, <2>2
<1>6. ASSUME NEW m \in Ancestry(l)
      PROVE  files[m] \in Versions[m] /\ files[m] # "none" /\ conf[m] = Wants[m][files[m]]
  <2>1. m \in Layers \ touched
      BY <1>6, AncestryIn
  <2>2. files[m] \in Versions[m] /\ files[m] # "none"
      BY <2>1, CakeAssumption DEF TypeOK, FilesTypeOK, FileChoices
  <2> QED BY <1>1, <2>1, <2>2 DEF ConfInv, Named
<1>7. \A m \in Ancestry(l) : Kept'[m] = conf[m]
    BY <1>5, <1>6, AncestryIn DEF Kept
<1> QED BY <1>5, <1>6, <1>7

(* A layer that gets a hash it deserves is made of its files and its parent, *)
(* in the size that they name.                                               *)
LEMMA HashSound ==
    ASSUME TypeOK, StepInv, ImageInv, ConfInv, HandledInv, NEW l \in Layers, At(l, "hash"),
           saved' = [saved EXCEPT ![l] = files[l]], Ancestry(l) \cap touched = {},
           UNCHANGED <<rootfs, content, size>>,
           ~IsBase(l) => Sealed(Parent[l])' /\ Sound(Parent[l])'
    PROVE  rootfs'[l] = "whole" /\ content'[l] = Recorded(l)' /\ size'[l] = Result(Kept, l)'
<1>1. /\ l = Head(todo) /\ step = "hash" /\ l \notin touched
      /\ conf \in [Layers -> Nat] /\ Kept' \in [Layers -> Nat]
    BY AncestryIn, KeptType DEF At, TypeOK, CommandTypeOK
<1>2. \A m \in Ancestry(l) : saved'[m] = files[m] /\ Kept'[m] = conf[m]
    BY HashedAncestry
<1>3. l \in Ancestry(l) /\ Kept'[l] = conf[l] /\ saved'[l] = files[l]
    BY <1>2, AncestryIn
<1>4. /\ rootfs[l] = IF IsBase(l) THEN "whole" ELSE rootfs[Parent[l]]
      /\ content[l] = {<<l, files[l]>>} \cup IF IsBase(l) THEN {} ELSE content[Parent[l]]
      /\ size[l] = MadeSize(l)
    BY <1>1 DEF ImageInv, MadeInv, GrownInv
<1>5. Result(Kept, l)' = Result(Kept', l)
    BY DEF Result
<1>6. CASE IsBase(l)
  <2>1. Recorded(l)' = {<<l, files[l]>>}
      BY <1>3, <1>6, AncestryDef DEF Recorded
  <2>2. Result(Kept', l) = conf[l]
      BY <1>1, <1>3, <1>6, ResultDef
  <2> QED BY <1>4, <1>5, <1>6, <2>1, <2>2 DEF MadeSize
<1>7. CASE ~IsBase(l)
  <2> DEFINE p == Parent[l]
  <2>1. p \in Layers /\ Ancestry(l) = Ancestry(p) \cup {l}
      BY <1>7, ParentIn, AncestryDef
  <2>2. rootfs[p] = "whole" /\ content[p] = Recorded(p)' /\ size[p] = Result(Kept, p)'
      BY <1>7 DEF Sound
  <2>3. Recorded(l)' = Recorded(p)' \cup {<<l, files[l]>>}
      BY <1>3, <2>1 DEF Recorded
  <2>4. Effective(conf)[p] = Effective(Kept')[p]
      BY <1>1, <1>2, <2>1, EffectiveLocal
  <2>5. Result(Kept, p)' = Result(Kept', p)
      BY DEF Result
  <2>6. Result(Kept', l) =
           IF Kept'[l] > Effective(Kept')[p] THEN Kept'[l] ELSE Result(Kept', p)
      BY <1>1, <1>7, ResultDef
  <2>7. size[l] = IF conf[l] > Effective(conf)[p] THEN conf[l] ELSE size[p]
      BY <1>4, <1>7 DEF MadeSize
  <2> HIDE DEF p
  <2>8. size[l] = Result(Kept', l)
      BY <1>3, <2>2, <2>4, <2>5, <2>6, <2>7
  <2>9. content[l] = Recorded(l)' /\ rootfs[l] = "whole"
      BY <1>4, <1>7, <2>2, <2>3 DEF p
  <2> QED BY <1>5, <2>8, <2>9
<1> QED BY <1>6, <1>7

(* The children of the layer that gets its hash are stale. *)
LEMMA HashBelow ==
    ASSUME TypeOK, ImageInv, NEW l \in Layers, At(l, "hash"),
           saved' = [saved EXCEPT ![l] = files[l]],
           newer' \in {newer \ {l}, newer \cup {l}},
           NEW k \in Layers, l \in Ancestry(k), k # l
    PROVE  ~Sealed(k)'
<1>1. PICK c \in Ancestry(k) : ~IsBase(c) /\ Parent[c] = l
    BY BelowChild, CakeAssumption DEF IsBase
<1>2. c \in Layers /\ c # l
    BY <1>1, AncestryIn, NotOwnParent
<1>3. saved[c] = "none" \/ c \in newer
    BY <1>1, <1>2 DEF At, ImageInv, ChildInv, Making
<1>4. saved'[c] = saved[c]
    BY <1>2 DEF TypeOK, FilesTypeOK
<1> QED BY <1>1, <1>2, <1>3, <1>4 DEF Sealed

LEMMA HashSealed ==
    ASSUME TypeOK, StepInv, ImageInv, ConfInv, HandledInv, SealedInv, NEW l \in Layers, Hash(l)
    PROVE  SealedInv'
<1>1. At(l, "hash") /\ l \in loose /\ UNCHANGED <<rootfs, content, size>>
    BY DEF Hash, At, imageVars, ImageInv, ChildInv, Making
<1>2. \A m \in Layers : m # l => saved'[m] = saved[m] /\ (m \in newer <=> m \in newer')
                                 /\ (m \in loose <=> m \in loose')
    BY DEF Hash, TypeOK, FilesTypeOK
<1>3. CASE loose' = loose
    BY <1>1, <1>2, <1>3, LooseSealed
<1>4. CASE /\ saved' = [saved EXCEPT ![l] = files[l]]
           /\ newer' \in {newer \ {l}, newer \cup {l}}
           /\ Ancestry(l) \cap touched = {}
  <2>1. ASSUME NEW k \in Layers, l \notin Ancestry(k) PROVE Sound(k)'
      BY <1>1, <1>2, <2>1, AncestryIn, SoundKept DEF SealedInv
  <2>2. ASSUME NEW k \in Layers, l \in Ancestry(k), k # l PROVE Sound(k)'
      BY <1>1, <1>4, <2>2, HashBelow DEF Sound
  <2>3. Sound(l)'
    <3> SUFFICES ASSUME Sealed(l)'
                 PROVE  rootfs'[l] = "whole" /\ content'[l] = Recorded(l)'
                        /\ size'[l] = Result(Kept, l)'
        BY DEF Sound
    <3>1. ASSUME ~IsBase(l) PROVE Sealed(Parent[l])' /\ Sound(Parent[l])'
      <4>1. Parent[l] \in Layers /\ l \notin Ancestry(Parent[l])
            /\ Ancestry(Parent[l]) \subseteq Ancestry(l)
          BY <3>1, ParentIn, Acyclic, AncestryDef
      <4> QED BY <2>1, <4>1 DEF Sealed
    <3> QED BY <1>1, <1>4, <3>1, HashSound
  <2> QED BY <2>1, <2>2, <2>3 DEF SealedInv
<1> QED BY <1>3, <1>4 DEF Hash

LEMMA SealedStep ==
    TypeOK /\ StepInv /\ ImageInv /\ ConfInv /\ HandledInv /\ SealedInv /\ [Next]_cakeVars
       => SealedInv'
<1> SUFFICES ASSUME TypeOK, StepInv, ImageInv, ConfInv, HandledInv, SealedInv, [Next]_cakeVars
             PROVE  SealedInv'
    OBVIOUS
<1>1. ASSUME NEW l \in Layers, Work(l) PROVE SealedInv'
  <2>1. CASE Consider(l) \/ DownloadKernel(l) \/ Bootstrap(l)
      BY <2>1, QuietSealed DEF Consider, DownloadKernel, Bootstrap
  <2>2. CASE Format(l)
      BY <2>2, BeginSealed DEF Format
  <2>3. CASE Copy(l)
      BY <2>3, BeginSealed, QuietSealed DEF Copy
  <2>4. CASE Grow(l) \/ Fill(l) \/ Unmount(l)
    <3>1. l \in loose /\ UNCHANGED <<saved, newer, loose>>
        BY <2>4 DEF Grow, Fill, Unmount, At, ImageInv, ChildInv, Making, hashVars
    <3>2. \A m \in Layers : m # l => /\ rootfs'[m] = rootfs[m]
                                     /\ content'[m] = content[m] /\ size'[m] = size[m]
      <4>1. CASE Grow(l)
          BY <4>1 DEF Grow, TypeOK, FilesTypeOK
      <4>2. CASE Fill(l)
          BY <4>2 DEF Fill, TypeOK, FilesTypeOK
      <4>3. CASE Unmount(l)
          BY <4>3 DEF Unmount, TypeOK, FilesTypeOK
      <4> QED BY <2>4, <4>1, <4>2, <4>3
    <3> QED BY <3>1, <3>2, LooseSealed
  <2>5. CASE Put(l) \/ Register(l)
      BY <2>5, QuietSealed DEF Put, Register
  <2> QED BY <1>1, <2>1, <2>2, <2>3, <2>4, <2>5, HashSealed DEF Work
<1>2. CASE DropRows \/ DropDirs
    BY <1>2, QuietSealed DEF DropRows, DropDirs
<1>3. CASE Finish \/ Interrupt
    BY <1>3, QuietSealed DEF Finish, Interrupt
<1>4. ASSUME NEW l \in Layers, NEW v, Edit(l, v) PROVE SealedInv'
    BY <1>4, QuietSealed DEF Edit
<1>5. ASSUME NEW what, NEW layers, NEW anyway, Run(what, layers, anyway) PROVE SealedInv'
    BY <1>5, QuietSealed DEF Run
<1>6. CASE UNCHANGED cakeVars
    BY <1>6, QuietSealed DEF cakeVars
<1> QED BY <1>1, <1>2, <1>3, <1>4, <1>5, <1>6 DEF Next, Build, BuildAll, BuildCascade, Export

-----------------------------------------------------------------------------
(* The theorems *)

(* The invariant that the theorems share. *)
CakeInv ==
    TypeOK /\ DerivedInv /\ StepInv /\ ImageInv /\ ConfInv /\ HandledInv /\ SealedInv

LEMMA CakeInit == Init => CakeInv
<1> SUFFICES ASSUME Init PROVE CakeInv
    OBVIOUS
<1>1. TypeOK /\ DerivedInv
    BY TypeInit DEF Init, DerivedInv
<1>2. StepInv
    BY DEF Init, StepInv, BuildSteps
<1>3. ImageInv
    BY DEF Init, ImageInv, HashInv, SourceInv, ChildInv, StrapInv, MadeInv, GrownInv, Making
<1>4. ConfInv /\ HandledInv
    BY DEF Init, ConfInv, HandledInv
<1>5. SealedInv
    BY AncestryIn DEF Init, SealedInv, Sound, Sealed
<1> QED BY <1>1, <1>2, <1>3, <1>4, <1>5 DEF CakeInv

LEMMA CakeStep == CakeInv /\ [Next]_cakeVars => CakeInv'
BY TypeStep, DerivedStep, StepInvStep, ImageStep, ConfStep, HandledStep, SealedStep DEF CakeInv

(* A layer that is not stale has the hash of its files, and so have its *)
(* ancestors.                                                           *)
LEMMA FreshSealed ==
    ASSUME TypeOK, SealedInv, NEW l \in Layers, ~Stale[l], Settled(l)
    PROVE  /\ rootfs[l] = "whole" /\ content[l] = Current(l)
           /\ size[l] = Result(Named, l)
<1>1. \A m \in Ancestry(l) : /\ saved[m] = files[m] /\ files[m] \in Versions[m]
                             /\ files[m] # "none" /\ m \notin newer /\ m \notin loose
    BY FreshAncestry, AncestryIn, CakeAssumption DEF Settled, TypeOK, FilesTypeOK, FileChoices
<1>2. Sealed(l)
    BY <1>1 DEF Sealed
<1>3. Recorded(l) = Current(l)
    BY <1>1 DEF Recorded, Current
<1>4. \A m \in Ancestry(l) : Kept[m] = Named[m]
    BY <1>1, AncestryIn DEF Kept, Named
<1>5. Result(Kept, l) = Result(Named, l)
    BY <1>4, KeptType, NamedType, ResultLocal DEF TypeOK
<1> QED BY <1>2, <1>3, <1>5 DEF SealedInv, Sound

(* A layer shown as up to date (status.go:28-143) is whole and made by the    *)
(* scripts of its ancestors and its own as they now are, for every tree of    *)
(* layers and through edits at any time, undone ones too, if the last builds  *)
(* of the layer and of its ancestors were not cut short or edited under.      *)
THEOREM UpToDateCorrect == Spec => []UpToDateMeansCurrent
<1>1. CakeInv => UpToDateMeansCurrent
    BY FreshSealed DEF CakeInv, UpToDateMeansCurrent
<1> QED BY <1>1, CakeInit, CakeStep, PTL DEF Spec

(* An image that is up to date has the size its layer has by inheritance      *)
(* (graph.go:182-213, build.go:239-246), as layer.conf names it now, or, when *)
(* that is only the default, the size the base layer names, whatever that is  *)
(* (build.go:547), for every tree and through edits of layer.conf.            *)
THEOREM SizeEffectiveCorrect == Spec => []SizeEffective
<1>1. CakeInv => SizeEffective
    BY FreshSealed DEF CakeInv, SizeEffective, Result
<1> QED BY <1>1, CakeInit, CakeStep, PTL DEF Spec

-----------------------------------------------------------------------------
(* Exports *)

(* No layer that is still to be handled has a row, and the directory of the *)
(* one that gets its row holds an image and a kernel.                       *)
RowInv ==
    /\ step = "dirs" => rows = {}
    /\ step \in {"put", "register"} => rows \cap ToSet(todo) = {}
    /\ step = "register" => todo # <<>> /\ dirs[Head(todo)] = "filled"
    /\ RowHasImage

(* A step that touches neither directories nor rows. *)
LEMMA RowQuiet ==
    ASSUME RowInv, UNCHANGED <<dirs, rows>>, step' \notin {"dirs", "put", "register"}
    PROVE  RowInv'
BY DEF RowInv, RowHasImage

LEMMA RowStep ==
    ASSUME TypeOK, StepInv, RowInv, [Next]_cakeVars
    PROVE  RowInv'
<1> USE DEF exportVars
<1>0. /\ IsInjective(todo) /\ todo \in Seq(Layers)
      /\ todo # <<>> => /\ ToSet(Tail(todo)) = ToSet(todo) \ {Head(todo)}
                        /\ Head(todo) \in ToSet(todo)
    BY OnceCounted, HeadTail DEF TypeOK, CommandTypeOK
<1>1. ASSUME NEW l \in Layers, Work(l) PROVE RowInv'
  <2>1. CASE Consider(l)
      BY <2>1, RowQuiet DEF Consider, Start, Goto, Over, At
  <2>2. CASE DownloadKernel(l)
      BY <2>2, RowQuiet DEF DownloadKernel, Over, Goto
  <2>3. CASE Bootstrap(l)
      BY <2>3, RowQuiet DEF Bootstrap, Over
  <2>4. CASE Format(l) \/ Copy(l)
      BY <2>4, RowQuiet DEF Format, Copy, Over, Goto
  <2>5. CASE Grow(l) \/ Fill(l)
      BY <2>5, RowQuiet DEF Grow, Fill, Over, Goto
  <2>6. CASE Unmount(l)
      BY <2>6, RowQuiet DEF Unmount, Over, Goto
  <2>7. CASE Hash(l)
    <3>1. cmd # "export"
        BY <2>7 DEF Hash, At, StepInv, ExportSteps
    <3> QED BY <2>7, <3>1, RowQuiet DEF Hash, Done, Loaded, Over
  <2>8. CASE Put(l)
    <3>1. /\ l = Head(todo) /\ todo # <<>> /\ step = "put" /\ rows' = rows /\ l \notin rows
          /\ \A m \in Layers : m # l => dirs'[m] = dirs[m]
        BY <2>8, <1>0 DEF Put, At, RowInv, TypeOK, FilesTypeOK
    <3>2. RowHasImage'
        BY <3>1 DEF RowInv, RowHasImage, TypeOK, FilesTypeOK
    <3>3. CASE Over
        BY <3>2, <3>3 DEF Over, RowInv
    <3>4. CASE dirs' = [dirs EXCEPT ![l] = "filled"] /\ Goto("register")
        BY <3>1, <3>2, <3>4 DEF RowInv, Goto, TypeOK, FilesTypeOK
    <3> QED BY <2>8, <3>3, <3>4 DEF Put
  <2>9. CASE Register(l)
    <3>1. l = Head(todo) /\ todo # <<>> /\ step = "register" /\ dirs' = dirs /\ cmd = "export"
        BY <2>9 DEF Register, At, StepInv, BuildSteps, TypeOK, CommandTypeOK
    <3>2. CASE rows' = rows \cup {l} /\ Done(l)
        BY <1>0, <3>1, <3>2 DEF RowInv, RowHasImage, Done, Loaded
    <3>3. CASE Over /\ UNCHANGED rows
        BY <3>1, <3>3, RowQuiet DEF Over
    <3> QED BY <2>9, <3>2, <3>3 DEF Register
  <2> QED BY <1>1, <2>1, <2>2, <2>3, <2>4, <2>5, <2>6, <2>7, <2>8, <2>9 DEF Work
<1>2. CASE DropRows
    BY <1>2 DEF DropRows, Over, Goto, RowInv, RowHasImage
<1>3. CASE DropDirs
  <2>1. rows = {} /\ rows' = rows /\ step' \in {"dirs", "put", "next"}
      BY <1>3 DEF DropDirs, Over, Goto, RowInv
  <2> QED BY <2>1 DEF RowInv, RowHasImage
<1>4. CASE Finish \/ Interrupt
    BY <1>4, RowQuiet DEF Finish, Interrupt, Over
<1>5. ASSUME NEW l \in Layers, NEW v, Edit(l, v) PROVE RowInv'
    BY <1>5 DEF Edit, RowInv, RowHasImage
<1>6. ASSUME NEW what \in {"build", "export"}, NEW layers, NEW anyway, Run(what, layers, anyway)
      PROVE  RowInv'
    BY <1>6, RowQuiet DEF Run
<1>7. CASE UNCHANGED cakeVars
    BY <1>7 DEF cakeVars, commandVars, RowInv, RowHasImage
<1> QED BY <1>1, <1>2, <1>3, <1>4, <1>5, <1>6, <1>7 DEF Next, Build, BuildAll,
           BuildCascade, Export

(* sandfire never finds a row of an exported image without its directory's   *)
(* image and kernel (export.go:29-176), for every tree of layers and any set *)
(* of exports, wherever an export fails or is interrupted.                   *)
THEOREM RowHasImageCorrect == Spec => []RowHasImage
<1>1. Init => CakeInv /\ RowInv
    BY CakeInit DEF Init, RowInv, RowHasImage
<1>2. CakeInv /\ RowInv /\ [Next]_cakeVars => (CakeInv /\ RowInv)'
    BY CakeStep, RowStep DEF CakeInv
<1>3. RowInv => RowHasImage
    BY DEF RowInv
<1> QED BY <1>1, <1>2, <1>3, PTL DEF Spec

-----------------------------------------------------------------------------
(* What a build delivers *)

(* The build and its ancestors have been left alone while the command ran, and *)
(* what it skipped was not cut short before.                                   *)
Untouched(l) == \A m \in Ancestry(l) : m \notin touched /\ (m \in built \/ m \notin loose)

(* The image is whole, and made by the scripts as they now are. *)
Delivered(l) == rootfs[l] = "whole" /\ content[l] = Current(l)

(* What a build has handled is current. *)
DeliverInv == cmd = "build" => \A l \in Handled : Untouched(l) => Delivered(l)

(* The step works on no image that has been handled, or ends the command. *)
LEMMA DeliverStay ==
    ASSUME TypeOK, DeliverInv,
           \/ cmd' # "build"
           \/ /\ UNCHANGED <<files, cmd, touched, todo, built, scope>> /\ loose \subseteq loose'
              /\ \A m \in Handled : rootfs'[m] = rootfs[m] /\ content'[m] = content[m]
    PROVE  DeliverInv'
<1>1. CASE cmd' # "build"
    BY <1>1 DEF DeliverInv
<1>2. CASE /\ UNCHANGED <<files, cmd, touched, todo, built, scope>> /\ loose \subseteq loose'
           /\ \A m \in Handled : rootfs'[m] = rootfs[m] /\ content'[m] = content[m]
           /\ cmd = "build"
  <2>1. Handled' = Handled
      BY <1>2 DEF Handled
  <2>2. SUFFICES ASSUME NEW k \in Handled, Untouched(k)' PROVE Delivered(k)'
      BY <2>1 DEF DeliverInv
  <2>3. Untouched(k)
      BY <1>2, <2>2 DEF Untouched
  <2>4. Current(k)' = Current(k)
      BY <1>2 DEF Current
  <2> QED BY <1>2, <2>3, <2>4 DEF DeliverInv, Delivered
<1> QED BY <1>1, <1>2

LEMMA DeliverQuiet ==
    ASSUME TypeOK, DeliverInv,
           \/ cmd' # "build"
           \/ UNCHANGED <<files, rootfs, content, loose, cmd, touched, todo, built, scope>>
    PROVE  DeliverInv'
BY DeliverStay

(* The step works on the image of the layer at work. *)
LEMMA DeliverWork ==
    ASSUME TypeOK, HandledInv, DeliverInv, NEW l \in Layers, l = Head(todo), todo # <<>>,
           NEW there, Goto(there), files' = files, loose \subseteq loose',
           \A m \in Layers : m # l => rootfs'[m] = rootfs[m] /\ content'[m] = content[m]
    PROVE  DeliverInv'
<1>1. UNCHANGED <<files, cmd, touched, todo, built, scope>>
    BY DEF Goto, Loaded
<1>2. CASE cmd = "build"
  <2>1. l \notin Handled /\ Handled \subseteq Layers
      BY <1>2, HeadHandled DEF Handled, TypeOK, CommandTypeOK
  <2> QED BY <1>1, <2>1, DeliverStay
<1>3. CASE cmd # "build"
    BY <1>1, <1>3, DeliverStay
<1> QED BY <1>2, <1>3

(* A layer that is up to date is skipped. *)
LEMMA DeliverSkip ==
    ASSUME TypeOK, HandledInv, HandledInv', SealedInv, DeliverInv, cmd = "build", todo # <<>>,
           ~Stale[Head(todo)], Handled' = Handled \cup {Head(todo)},
           UNCHANGED <<files, rootfs, content, loose, touched, built>>
    PROVE  DeliverInv'
<1> DEFINE h == Head(todo)
<1> SUFFICES ASSUME NEW k \in Handled \cup {h}, Untouched(k)' PROVE Delivered(k)'
    BY DEF DeliverInv
<1>1. Untouched(k) /\ Current(k)' = Current(k)
    BY DEF Untouched, Current
<1>2. CASE k \in Handled
    BY <1>1, <1>2 DEF DeliverInv, Delivered
<1>3. CASE k = h
  <2>1. h \in Layers
      BY HeadHandled
  <2>2. ASSUME NEW m \in Ancestry(h) PROVE m \notin loose
    <3>1. Ancestry(m) \subseteq Ancestry(h)
        BY <2>1, AncestryTransitive
    <3>2. Ancestry(m) \cap touched = {}
        BY <1>1, <1>3, <3>1 DEF Untouched
    <3>3. m \in built => m \notin loose
        BY <3>2 DEF HandledInv
    <3> QED BY <1>1, <1>3, <3>3 DEF Untouched
  <2>3. Settled(h)
      BY <2>2 DEF Settled
  <2>4. rootfs[h] = "whole" /\ content[h] = Current(h)
      BY <2>1, <2>3, FreshSealed
  <2> QED BY <1>1, <1>3, <2>4 DEF Delivered
<1> QED BY <1>2, <1>3

(* A layer that is built is made of its parent, which has been handled. *)
LEMMA DeliverBuilt ==
    ASSUME TypeOK, ImageInv, HandledInv, DeliverInv, cmd = "build", todo # <<>>,
           step = "hash", Handled' = Handled \cup {Head(todo)},
           UNCHANGED <<files, rootfs, content, touched>>, built' = built \cup {Head(todo)},
           \A m \in Layers : m # Head(todo) => (m \in loose' <=> m \in loose)
    PROVE  DeliverInv'
<1> DEFINE h == Head(todo)
<1>1. h \in Layers /\ h \notin Handled /\ (IsBase(h) \/ Parent[h] \in Handled)
    BY HeadHandled
<1>2. Handled \subseteq Layers
    BY DEF Handled, TypeOK, CommandTypeOK
<1>3. ASSUME NEW k \in Handled, \A m \in Ancestry(k) : m \notin touched /\ (m \in built' \/ m \notin loose')
      PROVE  Delivered(k)
  <2>1. Ancestry(k) \subseteq Handled
      BY <1>2, HandledClosed
  <2>2. Untouched(k)
      BY <1>1, <1>2, <1>3, <2>1 DEF Untouched
  <2> QED BY <2>2 DEF DeliverInv
<1> SUFFICES ASSUME NEW k \in Handled \cup {h}, Untouched(k)' PROVE Delivered(k)'
    BY DEF DeliverInv
<1>4. \A m \in Ancestry(k) : m \notin touched /\ (m \in built' \/ m \notin loose')
    BY DEF Untouched
<1>5. Delivered(k)' <=> Delivered(k)
    BY DEF Delivered, Current
<1>6. CASE k \in Handled
    BY <1>3, <1>4, <1>5, <1>6
<1>7. CASE k = h
  <2>1. h \notin touched
      BY <1>1, <1>4, <1>7, AncestryIn
  <2>2. /\ rootfs[h] = IF IsBase(h) THEN "whole" ELSE rootfs[Parent[h]]
        /\ content[h] = {<<h, files[h]>>} \cup IF IsBase(h) THEN {} ELSE content[Parent[h]]
      BY <2>1 DEF ImageInv, MadeInv
  <2>3. CASE IsBase(h)
      BY <1>1, <1>5, <1>7, <2>2, <2>3, AncestryDef DEF Delivered, Current
  <2>4. CASE ~IsBase(h)
    <3>1. Ancestry(h) = Ancestry(Parent[h]) \cup {h} /\ Parent[h] \in Handled
        BY <1>1, <2>4, AncestryDef
    <3>2. Delivered(Parent[h])
        BY <1>3, <1>4, <1>7, <3>1
    <3>3. Current(h) = Current(Parent[h]) \cup {<<h, files[h]>>}
        BY <3>1 DEF Current
    <3>4. content[h] = Current(h) /\ rootfs[h] = "whole"
        BY <2>2, <2>4, <3>2, <3>3 DEF Delivered
    <3> QED BY <1>5, <1>7, <3>4 DEF Delivered
  <2> QED BY <2>3, <2>4
<1> QED BY <1>6, <1>7

LEMMA DeliverStep ==
    CakeInv /\ CakeInv' /\ DeliverInv /\ [Next]_cakeVars => DeliverInv'
<1> SUFFICES ASSUME CakeInv, CakeInv', DeliverInv, [Next]_cakeVars PROVE DeliverInv'
    OBVIOUS
<1>0. TypeOK /\ StepInv /\ ImageInv /\ HandledInv /\ HandledInv' /\ SealedInv
    BY DEF CakeInv
<1> USE DEF imageVars, hashVars, Loaded
<1>1. ASSUME NEW l \in Layers, Work(l) PROVE DeliverInv'
  <2>1. CASE Consider(l)
    <3>1. l = Head(todo) /\ todo # <<>> /\ UNCHANGED <<files, rootfs, content, loose>>
        BY <2>1 DEF Consider, At
    <3>2. CASE Goto(Start(l)) \/ Over
        BY <1>0, <3>1, <3>2, DeliverQuiet DEF Goto, Over
    <3>3. CASE /\ ~Stale[l] /\ todo' = Tail(todo)
               /\ UNCHANGED <<Loaded, step, strap, built>>
      <4>1. CASE cmd = "build"
        <5>1. /\ todo \in Seq(Layers) /\ ToSet(Tail(todo)) = ToSet(todo) \ {l}
              /\ l \in ToSet(todo) /\ l \in scope
            BY <1>0, <3>1, <4>1, OnceCounted, HeadTail, HeadHandled DEF TypeOK, CommandTypeOK
        <5>2. Handled' = Handled \cup {l}
            BY <3>3, <5>1 DEF Handled
        <5> QED BY <1>0, <3>1, <3>3, <4>1, <5>2, DeliverSkip
      <4>2. CASE cmd # "build"
          BY <1>0, <3>3, <4>2, DeliverQuiet
      <4> QED BY <4>1, <4>2
    <3> QED BY <2>1, <3>2, <3>3 DEF Consider
  <2>2. CASE DownloadKernel(l)
      BY <1>0, <2>2, DeliverQuiet DEF DownloadKernel, Over, Goto
  <2>3. CASE Bootstrap(l)
      BY <1>0, <2>3, DeliverQuiet DEF Bootstrap, Over
  <2>4. CASE Format(l)
    <3>1. CASE Over
        BY <1>0, <3>1, DeliverQuiet DEF Over
    <3>2. CASE Goto("fill")
        BY <1>0, <2>4, <3>2, BeginFacts, DeliverWork DEF Format, At
    <3> QED BY <2>4, <3>1, <3>2 DEF Format
  <2>5. CASE Copy(l)
    <3>1. CASE Over
        BY <1>0, <3>1, DeliverQuiet DEF Over
    <3>2. CASE Begin(l, size[Parent[l]]) /\ Goto("grow")
        BY <1>0, <2>5, <3>2, BeginFacts, DeliverWork DEF Copy, At
    <3> QED BY <2>5, <3>1, <3>2 DEF Copy
  <2>6. CASE Grow(l)
      BY <1>0, <2>6, DeliverQuiet DEF Grow, Over, Goto
  <2>7. CASE Fill(l)
    <3>1. CASE Over
        BY <1>0, <3>1, DeliverQuiet DEF Over
    <3>2. CASE Goto("unmount")
      <4>1. \A m \in Layers : m # l => rootfs'[m] = rootfs[m] /\ content'[m] = content[m]
          BY <1>0, <2>7 DEF Fill, TypeOK, FilesTypeOK
      <4> QED BY <1>0, <2>7, <3>2, <4>1, DeliverWork DEF Fill, At
    <3> QED BY <2>7, <3>1, <3>2 DEF Fill
  <2>8. CASE Unmount(l)
      BY <1>0, <2>8, DeliverQuiet DEF Unmount, Over, Goto
  <2>9. CASE Hash(l)
    <3>1. CASE Over
        BY <1>0, <3>1, DeliverQuiet DEF Over
    <3>2. CASE /\ loose' = IF Ancestry(l) \cap touched = {} THEN loose \ {l} ELSE loose
               /\ Done(l)
      <4>1. /\ cmd = "build" /\ l = Head(todo) /\ todo # <<>> /\ step = "hash"
            /\ UNCHANGED <<files, rootfs, content, touched, scope>>
            /\ todo' = Tail(todo) /\ built' = built \cup {l}
          BY <1>0, <2>9, <3>2 DEF Hash, At, Done, StepInv, ExportSteps, TypeOK, CommandTypeOK
      <4>2. /\ todo \in Seq(Layers) /\ ToSet(Tail(todo)) = ToSet(todo) \ {l}
            /\ l \in ToSet(todo) /\ l \in scope
          BY <1>0, <4>1, OnceCounted, HeadTail, HeadHandled DEF TypeOK, CommandTypeOK
      <4>3. Handled' = Handled \cup {l}
          BY <4>1, <4>2 DEF Handled
      <4> QED BY <1>0, <3>2, <4>1, <4>3, DeliverBuilt
    <3> QED BY <2>9, <3>1, <3>2 DEF Hash
  <2>10. CASE Put(l)
      BY <1>0, <2>10, DeliverQuiet DEF Put, Over, Goto
  <2>11. CASE Register(l)
    <3>1. cmd = "export"
        BY <1>0, <2>11 DEF Register, At, StepInv, BuildSteps, TypeOK, CommandTypeOK
    <3> QED BY <1>0, <2>11, <3>1, DeliverQuiet DEF Register, Done, Over
  <2> QED BY <1>1, <2>1, <2>2, <2>3, <2>4, <2>5, <2>6, <2>7, <2>8, <2>9, <2>10, <2>11 DEF Work
<1>2. CASE DropRows \/ DropDirs
    BY <1>0, <1>2, DeliverQuiet DEF DropRows, DropDirs, Over, Goto
<1>3. CASE Finish \/ Interrupt
    BY <1>0, <1>3, DeliverQuiet DEF Finish, Interrupt, Over
<1>4. ASSUME NEW l \in Layers, NEW v, Edit(l, v) PROVE DeliverInv'
  <2>1. CASE cmd # "build"
      BY <1>0, <1>4, <2>1, DeliverQuiet DEF Edit
  <2>2. CASE cmd = "build"
    <3>1. /\ UNCHANGED <<rootfs, content, loose, cmd, todo, built, scope>>
          /\ touched' = touched \cup {l}
          /\ \A m \in Layers : m # l => files'[m] = files[m]
        BY <1>0, <1>4, <2>2 DEF Edit, TypeOK, FilesTypeOK, FileChoices
    <3>2. Handled' = Handled /\ Handled \subseteq Layers
        BY <1>0, <3>1 DEF Handled, TypeOK, CommandTypeOK
    <3>3. SUFFICES ASSUME NEW k \in Handled, Untouched(k)' PROVE Delivered(k)'
        BY <3>2 DEF DeliverInv
    <3>4. Untouched(k) /\ l \notin Ancestry(k)
        BY <3>1, <3>3 DEF Untouched
    <3>5. Current(k)' = Current(k)
        BY <3>1, <3>2, <3>4, AncestryIn DEF Current
    <3> QED BY <2>2, <3>1, <3>4, <3>5 DEF DeliverInv, Delivered
  <2> QED BY <2>1, <2>2
<1>5. ASSUME NEW s, ParentsFirst(s), NEW anyway, Run("build", s, anyway) PROVE DeliverInv'
  <2>1. Handled' = {}
      BY <1>5, HandledRun
  <2> QED BY <2>1 DEF DeliverInv
<1>6. ASSUME NEW l \in Layers, NEW force \in BOOLEAN, Build(l, force) PROVE DeliverInv'
    BY <1>5, <1>6, ChainParentsFirst DEF Build
<1>7. ASSUME NEW rank \in Orders, NEW force \in BOOLEAN, BuildAll(rank, force) PROVE DeliverInv'
    BY <1>5, <1>7, TopologicalSortCorrect DEF BuildAll
<1>8. ASSUME NEW rank \in Orders, NEW l \in Layers, BuildCascade(rank, l) PROVE DeliverInv'
    BY <1>5, <1>8, CascadeOrderCorrect DEF BuildCascade
<1>9. ASSUME NEW layers, Export(layers) PROVE DeliverInv'
    BY <1>0, <1>9, DeliverQuiet DEF Export, Run
<1>10. CASE UNCHANGED cakeVars
    BY <1>0, <1>10, DeliverQuiet DEF cakeVars, commandVars
<1> QED BY <1>1, <1>2, <1>3, <1>4, <1>6, <1>7, <1>8, <1>9, <1>10 DEF Next

(* A build that succeeds leaves every layer it is about current (build.go:32- *)
(* 110), with and without --force and --cascade, for every tree of layers and *)
(* order of the map, and whatever edits and failures came before, if nobody   *)
(* edits the layer or an ancestor meanwhile and the builds of those it skips  *)
(* were not cut short.                                                        *)
THEOREM BuildDeliversCorrect == Spec => BuildDelivers
<1>1. Init => CakeInv /\ DeliverInv
    BY CakeInit DEF Init, DeliverInv
<1>2. CakeInv /\ DeliverInv /\ [Next]_cakeVars => (CakeInv /\ DeliverInv)'
    BY CakeStep, DeliverStep
<1>3. ASSUME DeliverInv, cmd = "build", todo = <<>>, NEW l \in scope,
             \A m \in Ancestry(l) : m \notin touched /\ (m \in built \/ m \notin loose)
      PROVE  rootfs[l] = "whole" /\ content[l] = Current(l)
  <2>1. l \in Handled
      BY <1>3 DEF ToSet, Handled
  <2> QED BY <1>3, <2>1 DEF DeliverInv, Untouched, Delivered
<1>4. CakeInv /\ DeliverInv /\ [Next]_cakeVars
        => [cmd = "build" /\ todo = <<>> /\ cmd' = "none" =>
              \A l \in scope :
                 (\A m \in Ancestry(l) : m \notin touched /\ (m \in built \/ m \notin loose))
                 => rootfs[l] = "whole" /\ content[l] = Current(l)]_cakeVars
    BY <1>3
<1> QED BY <1>1, <1>2, <1>4, PTL DEF Spec, BuildDelivers
===============================================================================
