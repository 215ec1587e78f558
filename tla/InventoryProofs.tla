-------------------------- MODULE InventoryProofs --------------------------
(***************************************************************************)
(* Machine-checked proofs about Inventory, for every stock, every finite   *)
(* set of concurrent calls, every list of items and every number of        *)
(* faults.                                                                 *)
(*                                                                         *)
(* IInv gives the properties that hold whatever the interleaving.  Serial  *)
(* adds what holds while no call has overlapped another: every row that is *)
(* still to be written was computed from what the row holds now, so a      *)
(* write adds exactly its quantity.  That the rows then hold the sum of    *)
(* all that was written rests on lemmas about sums over finite sets.       *)
(***************************************************************************)
EXTENDS Inventory, FiniteSetTheorems, TLAPS

----------------------------------------------------------------------------
\* Sums.  The community modules add up a function by a recursive function over
\* the subsets of its domain; that it exists, and that its result depends neither
\* on the choices it makes nor on the set it started from, is proved by induction.

\* The order on Nat as a set of pairs, the form in which the library states that
\* it is well-founded.
Below == {p \in Nat \X Nat : p[1] < p[2]}
LEMMA BelowWellFounded == IsWellFoundedOn(Below, Nat)
BY NatLessThanWellFounded DEF OpToRel, Below
LEMMA Least == ASSUME NEW T, T \subseteq Nat, T # {}
               PROVE  \E m \in T : \A k \in T : ~(k < m)
<1>1. PICK m \in T : \A y \in T : ~(<<y, m>> \in Below)
  BY BelowWellFounded, WFMin
<1> QED BY <1>1 DEF Below
\* Induction over Nat, for a set instead of a predicate.
LEMMA Induction ==
    ASSUME NEW T, T \subseteq Nat, 0 \in T, \A n \in T : n + 1 \in T
    PROVE  T = Nat
<1> SUFFICES ASSUME T # Nat PROVE FALSE
  OBVIOUS
<1>1. PICK m \in Nat \ T : \A k \in Nat \ T : ~(k < m)
  BY Least
<1>2. m - 1 \in T
  BY <1>1
<1> QED BY <1>1, <1>2

\* The sum of f over t, from the sums g of smaller sets.
NextSum(g, f, t) ==
    IF t = {} THEN 0
    ELSE LET x == CHOOSE x \in t : TRUE IN f[x] + g[t \ {x}]

\* g[t] is the sum of f over t, for each set t of a collection.
Sums(g, f, collection) == g = [t \in collection |-> NextSum(g, f, t)]

\* Induction over the subsets of a finite set.
LEMMA SetInduction ==
    ASSUME NEW S, IsFiniteSet(S), NEW T \in SUBSET SUBSET S,
           \A t \in SUBSET S : (\A x \in t : t \ {x} \in T) => t \in T
    PROVE  T = SUBSET S
<1> SUFFICES ASSUME T # SUBSET S PROVE FALSE
  OBVIOUS
<1> DEFINE Missing == (SUBSET S) \ T
<1>1. Missing # {} /\ Missing \subseteq FiniteSubsetsOf(S)
  BY FS_FiniteSubsetsOfFinite
<1>2. IsWellFoundedOn(StrictSubsetOrdering(S), FiniteSubsetsOf(S))
  BY FS_StrictSubsetOrderingWellFounded
<1>3. PICK t \in Missing :
         \A u \in Missing : ~(<<u, t>> \in StrictSubsetOrdering(S))
  <2> HIDE DEF Missing
  <2> QED BY <1>1, <1>2, WFMin
<1>4. ASSUME NEW x \in t PROVE t \ {x} \in T
  <2>1. t \ {x} \in SUBSET S /\ t \in SUBSET S /\ t \ {x} # t
    OBVIOUS
  <2>2. <<t \ {x}, t>> \in StrictSubsetOrdering(S)
    BY <2>1 DEF StrictSubsetOrdering
  <2> QED BY <1>3, <2>1, <2>2
<1> QED BY <1>3, <1>4

LEMMA SumsStep ==
    ASSUME NEW g, NEW f, NEW C, Sums(g, f, C)
    PROVE  /\ {} \in C => g[{}] = 0
           /\ \A t \in C : t # {} =>
                  \E x \in t : /\ x = (CHOOSE y \in t : TRUE)
                               /\ g[t] = f[x] + g[t \ {x}]
BY DEF Sums, NextSum

\* The sum over a set does not depend on the collection it is computed in.
LEMMA SumsAgree ==
    ASSUME NEW S, IsFiniteSet(S), NEW f, NEW C, NEW D,
           SUBSET S \subseteq C, SUBSET S \subseteq D,
           NEW g, Sums(g, f, C), NEW h, Sums(h, f, D)
    PROVE  \A t \in SUBSET S : g[t] = h[t]
<1> DEFINE T == {t \in SUBSET S : g[t] = h[t]}
<1>1. ASSUME NEW t \in SUBSET S, \A x \in t : t \ {x} \in T
      PROVE  t \in T
  <2>1. CASE t = {}
    BY <2>1, SumsStep
  <2>2. CASE t # {}
    <3>1. PICK x \in t : x = (CHOOSE y \in t : TRUE) /\ g[t] = f[x] + g[t \ {x}]
      BY <2>2, SumsStep
    <3>2. PICK z \in t : z = (CHOOSE y \in t : TRUE) /\ h[t] = f[z] + h[t \ {z}]
      BY <2>2, SumsStep
    <3>3. x = z
      BY <3>1, <3>2
    <3>4. g[t \ {x}] = h[t \ {x}]
      BY <1>1
    <3> QED BY <3>1, <3>2, <3>3, <3>4
  <2> QED BY <2>1, <2>2
<1>2. T = SUBSET S
  <2> HIDE DEF T
  <2>1. T \in SUBSET SUBSET S
    BY DEF T
  <2> QED BY <1>1, <2>1, SetInduction
<1> QED BY <1>2

\* The subsets of S with at most n elements.
Small(S, n) == {t \in SUBSET S : Cardinality(t) <= n}

LEMMA SumsExist ==
    ASSUME NEW S, IsFiniteSet(S), NEW f
    PROVE  \E g : Sums(g, f, SUBSET S)
<1> DEFINE T == {n \in Nat : \E g : Sums(g, f, Small(S, n))}
<1>0. \A t \in SUBSET S : Cardinality(t) \in Nat /\ IsFiniteSet(t)
                         /\ Cardinality(t) <= Cardinality(S)
  BY FS_Subset, FS_CardinalityType
<1>1. 0 \in T
  <2>1. \A t \in Small(S, 0) : t = {}
    BY <1>0, FS_EmptySet DEF Small
  <2> DEFINE g == [t \in Small(S, 0) |-> 0]
  <2>2. \A t \in Small(S, 0) : NextSum(g, f, t) = 0
    BY <2>1 DEF NextSum
  <2>3. Sums(g, f, Small(S, 0))
    BY <2>2 DEF Sums
  <2> QED BY <2>3
<1>2. ASSUME NEW n \in T PROVE n + 1 \in T
  <2>1. n \in Nat
    OBVIOUS
  <2>2. PICK g : Sums(g, f, Small(S, n))
    OBVIOUS
  <2> DEFINE h == [t \in Small(S, n + 1) |-> NextSum(g, f, t)]
  <2>3. ASSUME NEW t \in Small(S, n + 1)
        PROVE  NextSum(g, f, t) = NextSum(h, f, t)
    <3>1. CASE t = {}
      BY <3>1 DEF NextSum
    <3>2. CASE t # {}
      <4>1. PICK x \in t : x = (CHOOSE y \in t : TRUE)
        BY <3>2
      <4>2. /\ Cardinality(t) <= n + 1 /\ Cardinality(t) \in Nat
            /\ Cardinality(t \ {x}) = Cardinality(t) - 1 /\ t \ {x} \in SUBSET S
        BY <1>0, FS_RemoveElement DEF Small
      <4>3. t \ {x} \in Small(S, n) /\ t \ {x} \in Small(S, n + 1)
        BY <2>1, <4>2 DEF Small
      <4>4. h[t \ {x}] = NextSum(g, f, t \ {x})
        BY <4>3
      <4>5. g[t \ {x}] = NextSum(g, f, t \ {x})
        BY <2>2, <4>3 DEF Sums
      <4> HIDE DEF h
      <4> QED BY <3>2, <4>1, <4>4, <4>5 DEF NextSum
    <3> QED BY <3>1, <3>2
  <2>4. Sums(h, f, Small(S, n + 1))
    BY <2>3 DEF Sums
  <2> QED BY <2>1, <2>4
<1>3. T = Nat
  <2> HIDE DEF T
  <2>1. T \subseteq Nat
    BY DEF T
  <2> QED BY <1>1, <1>2, <2>1, Induction
<1>4. Small(S, Cardinality(S)) = SUBSET S /\ Cardinality(S) \in Nat
  BY <1>0 DEF Small
<1>5. Cardinality(S) \in T
  BY <1>3, <1>4
<1> QED BY <1>4, <1>5

LEMMA SumIs ==
    ASSUME NEW S, IsFiniteSet(S), NEW f
    PROVE  \E g : Sums(g, f, SUBSET S) /\ SumFunctionOnSet(f, S) = g[S]
<1> DEFINE g == CHOOSE g : Sums(g, f, SUBSET S)
<1>1. Sums(g, f, SUBSET S)
  BY SumsExist
<1>2. SumFunctionOnSet(f, S) = g[S]
  BY DEF SumFunctionOnSet, FoldFunctionOnSet, MapThenFoldSet, Sums, NextSum
<1> QED BY <1>1, <1>2

\* SumFunctionOnSet computes its recursive equation.
LEMMA SumChosen ==
    ASSUME NEW S, IsFiniteSet(S), NEW f
    PROVE  /\ S = {} => SumFunctionOnSet(f, S) = 0
           /\ S # {} => \E x \in S :
                  SumFunctionOnSet(f, S) = f[x] + SumFunctionOnSet(f, S \ {x})
<1>1. PICK g : Sums(g, f, SUBSET S) /\ SumFunctionOnSet(f, S) = g[S]
  BY SumIs
<1>2. CASE S = {}
  BY <1>1, <1>2, SumsStep
<1>3. CASE S # {}
  <2>1. PICK x \in S : x = (CHOOSE y \in S : TRUE) /\ g[S] = f[x] + g[S \ {x}]
    BY <1>1, <1>3, SumsStep
  <2>2. IsFiniteSet(S \ {x})
    BY FS_RemoveElement
  <2>3. PICK h : /\ Sums(h, f, SUBSET (S \ {x}))
                 /\ SumFunctionOnSet(f, S \ {x}) = h[S \ {x}]
    BY <2>2, SumIs
  <2>4. g[S \ {x}] = h[S \ {x}]
    BY <1>1, <2>2, <2>3, SumsAgree
  <2> QED BY <1>1, <2>1, <2>3, <2>4
<1> QED BY <1>2, <1>3

LEMMA SumType ==
    ASSUME NEW S, IsFiniteSet(S), NEW f, \A x \in S : f[x] \in Int
    PROVE  SumFunctionOnSet(f, S) \in Int
<1> DEFINE T == {t \in SUBSET S : SumFunctionOnSet(f, t) \in Int}
<1>1. ASSUME NEW t \in SUBSET S, \A x \in t : t \ {x} \in T
      PROVE  t \in T
  <2>1. IsFiniteSet(t)
    BY FS_Subset
  <2>2. CASE t = {}
    BY <2>1, <2>2, SumChosen
  <2>3. CASE t # {}
    <3>1. PICK x \in t :
             SumFunctionOnSet(f, t) = f[x] + SumFunctionOnSet(f, t \ {x})
      BY <2>1, <2>3, SumChosen
    <3>2. f[x] \in Int /\ SumFunctionOnSet(f, t \ {x}) \in Int
      BY <1>1
    <3> QED BY <3>1, <3>2
  <2> QED BY <2>2, <2>3
<1>2. T = SUBSET S
  <2> HIDE DEF T
  <2>1. T \in SUBSET SUBSET S
    BY DEF T
  <2> QED BY <1>1, <2>1, SetInduction
<1> QED BY <1>2

\* A sum may be taken apart at any element.
LEMMA SumSplit ==
    ASSUME NEW S, IsFiniteSet(S), NEW f, \A x \in S : f[x] \in Int
    PROVE  \A x \in S :
               SumFunctionOnSet(f, S) = f[x] + SumFunctionOnSet(f, S \ {x})
<1> DEFINE Sum(t) == SumFunctionOnSet(f, t)
           T == {t \in SUBSET S : \A x \in t : Sum(t) = f[x] + Sum(t \ {x})}
<1>1. ASSUME NEW t \in SUBSET S, \A x \in t : t \ {x} \in T
      PROVE  t \in T
  <2> SUFFICES ASSUME NEW x \in t PROVE Sum(t) = f[x] + Sum(t \ {x})
    OBVIOUS
  <2>1. IsFiniteSet(t)
    BY FS_Subset
  <2>2. PICK c \in t : Sum(t) = f[c] + Sum(t \ {c})
    BY <2>1, SumChosen
  <2>3. CASE x = c
    BY <2>2, <2>3
  <2>4. CASE x # c
    <3>1. Sum(t \ {c}) = f[x] + Sum((t \ {c}) \ {x})
      BY <1>1, <2>4
    <3>2. Sum(t \ {x}) = f[c] + Sum((t \ {x}) \ {c})
      BY <1>1, <2>4
    <3>3. (t \ {c}) \ {x} = (t \ {x}) \ {c}
      OBVIOUS
    <3>4. IsFiniteSet((t \ {x}) \ {c})
      BY <2>1, FS_RemoveElement
    <3>5. Sum((t \ {x}) \ {c}) \in Int /\ f[x] \in Int /\ f[c] \in Int
      BY <3>4, SumType
    <3>6. \A a, b, v \in Int : a + (b + v) = b + (a + v)
      OBVIOUS
    <3>7. f[c] + (f[x] + Sum((t \ {x}) \ {c})) =
              f[x] + (f[c] + Sum((t \ {x}) \ {c}))
      BY <3>5, <3>6, Zenon
    <3> HIDE DEF Sum
    <3>8. Sum(t) = f[c] + (f[x] + Sum((t \ {x}) \ {c}))
      BY <2>2, <3>1, <3>3, Zenon
    <3> QED BY <3>2, <3>7, <3>8, Zenon
  <2> QED BY <2>3, <2>4
<1>2. T = SUBSET S
  <2> HIDE DEF T
  <2>1. T \in SUBSET SUBSET S
    BY DEF T
  <2> QED BY <1>1, <2>1, SetInduction
<1> QED BY <1>2

\* Equal terms have equal sums.
LEMMA SumSame ==
    ASSUME NEW S, IsFiniteSet(S), NEW f, NEW g,
           \A x \in S : f[x] \in Int /\ f[x] = g[x]
    PROVE  SumFunctionOnSet(f, S) = SumFunctionOnSet(g, S)
<1> DEFINE T == {t \in SUBSET S :
                    SumFunctionOnSet(f, t) = SumFunctionOnSet(g, t)}
<1>1. ASSUME NEW t \in SUBSET S, \A x \in t : t \ {x} \in T
      PROVE  t \in T
  <2>1. IsFiniteSet(t)
    BY FS_Subset
  <2>2. CASE t = {}
    BY <2>1, <2>2, SumChosen
  <2>3. CASE t # {}
    <3>1. PICK x \in t :
             SumFunctionOnSet(f, t) = f[x] + SumFunctionOnSet(f, t \ {x})
      BY <2>1, <2>3, SumChosen
    <3>2. SumFunctionOnSet(g, t) = g[x] + SumFunctionOnSet(g, t \ {x})
      BY <2>1, SumSplit
    <3>3. /\ f[x] = g[x]
          /\ SumFunctionOnSet(f, t \ {x}) = SumFunctionOnSet(g, t \ {x})
      BY <1>1
    <3> QED BY <3>1, <3>2, <3>3
  <2> QED BY <2>2, <2>3
<1>2. T = SUBSET S
  <2> HIDE DEF T
  <2>1. T \in SUBSET SUBSET S
    BY DEF T
  <2> QED BY <1>1, <2>1, SetInduction
<1> QED BY <1>2

----------------------------------------------------------------------------
USE TotalAssumption, KindAssumption, ItemsAssumption, NoEmptyOrder,
    MaxFaultsAssumption

\* The part of TypeOK the argument needs, per call.
Progress(c) ==
    /\ wrote[c] \in Nat
    /\ outbox[c] \in Nat
    /\ outbox[c] <= wrote[c]
    /\ wrote[c] <= Len(Items[c])
    /\ pc[c] \in {"idle", "load", "check", "write"} => wrote[c] < Len(Items[c])

\* A loaded quantity was in range when it was loaded, and the range never
\* changes.
LoadedInRange(c) ==
    \A i \in ItemNumbers(c) :
        seen[c][i] # None => seen[c][i] \in 0..Total[Sku(c, i)]

\* What a call has loaded, and checked, by the time it gets somewhere.
LoadedBeforeUse(c) ==
    /\ Kind[c] = "reserve" /\ pc[c] \in {"check", "write", "publish"} =>
           \A i \in ItemNumbers(c) : seen[c][i] # None
    /\ Kind[c] = "release" /\ pc[c] \in {"check", "write"} =>
           seen[c][Current(c)] # None

CheckedBeforeWrite(c) ==
    /\ Kind[c] = "reserve" /\ pc[c] \in {"write", "publish"} =>
           \A i \in ItemNumbers(c) : Served(c, i)
    /\ Kind[c] = "release" /\ pc[c] = "write" => Served(c, Current(c))

NothingWrittenYet(c) ==
    Kind[c] = "reserve" /\ pc[c] \in {"idle", "load", "check", "refused"} =>
        wrote[c] = 0

CallOK(c) ==
    /\ pc[c] \in {"idle"} \cup Busy \cup Ended
    /\ seen[c] \in [ItemNumbers(c) -> Nat \cup {None}]
    /\ Progress(c)
    /\ LoadedInRange(c)
    /\ LoadedBeforeUse(c)
    /\ CheckedBeforeWrite(c)
    /\ NothingWrittenYet(c)

Shape ==
    /\ reserved \in [Skus -> Int]
    /\ pc \in [Calls -> {"idle"} \cup Busy \cup Ended]
    /\ DOMAIN seen = Calls
    /\ wrote \in [Calls -> Nat]
    /\ outbox \in [Calls -> Nat]
    /\ overlapped \in BOOLEAN
    /\ faults \in 0..MaxFaults

IInv == Shape /\ WithinStock /\ \A c \in Calls : CallOK(c)

----------------------------------------------------------------------------
\* An item of a call names a row and asks for at least one unit of it.
LEMMA ItemType ==
    ASSUME NEW c \in Calls, NEW i \in ItemNumbers(c)
    PROVE  /\ Sku(c, i) \in Skus
           /\ Qty(c, i) \in Nat \ {0}
           /\ Total[Sku(c, i)] \in Nat
<1>1. Items[c][i] \in Item
  BY DEF ItemNumbers
<1> QED BY <1>1 DEF Item, Sku, Qty

LEMMA LenType == ASSUME NEW c \in Calls
                 PROVE  Len(Items[c]) \in Nat /\ Len(Items[c]) > 0
<1>1. Items[c] \in Seq(Item) /\ Items[c] # <<>>
  OBVIOUS
<1> QED BY <1>1

LEMMA CurrentItem ==
    ASSUME NEW c \in Calls, Progress(c), pc[c] \in {"load", "check", "write"}
    PROVE  Current(c) \in ItemNumbers(c)
BY LenType DEF Progress, Current, ItemNumbers

LEMMA InitInv == Init => IInv
<1> SUFFICES ASSUME Init PROVE IInv
  OBVIOUS
<1>1. Shape /\ WithinStock
  <2>1. faults \in 0..MaxFaults /\ \A s \in Skus : 0 \in 0..Total[s]
    BY DEF Init
  <2>2. /\ reserved \in [Skus -> Int] /\ DOMAIN seen = Calls
        /\ wrote \in [Calls -> Nat] /\ outbox \in [Calls -> Nat]
        /\ pc \in [Calls -> {"idle"} \cup Busy \cup Ended]
    BY DEF Init
  <2>3. WithinStock
    BY <2>1 DEF Init, WithinStock
  <2> QED BY <2>1, <2>2, <2>3 DEF Init, Shape
<1>2. ASSUME NEW c \in Calls PROVE CallOK(c)
  <2>1. /\ pc[c] = "idle" /\ wrote[c] = 0 /\ outbox[c] = 0
        /\ seen[c] = [i \in ItemNumbers(c) |-> None]
    BY DEF Init
  <2> QED BY <2>1, LenType
          DEF CallOK, Progress, LoadedInRange, LoadedBeforeUse,
              CheckedBeforeWrite, NothingWrittenYet
<1> QED BY <1>1, <1>2 DEF IInv

\* The calls that do not move keep what is known of them.
LEMMA OthersKeep ==
    ASSUME IInv, NEW c \in Calls, NEW d \in Calls,
           pc'[d] = pc[d], seen'[d] = seen[d], wrote'[d] = wrote[d],
           outbox'[d] = outbox[d]
    PROVE  CallOK(d)'
<1>1. CallOK(d)
  BY DEF IInv
<1> QED BY <1>1
        DEF CallOK, Progress, LoadedInRange, LoadedBeforeUse,
            CheckedBeforeWrite, NothingWrittenYet, Served, Current

LEMMA PcType ==
    ASSUME Shape, NEW c \in Calls, NEW x \in {"idle"} \cup Busy \cup Ended,
           pc' = [pc EXCEPT ![c] = x]
    PROVE  pc' \in [Calls -> {"idle"} \cup Busy \cup Ended]
BY DEF Shape

LEMMA StartInv == ASSUME IInv, NEW c \in Calls, Start(c) PROVE IInv'
<1>1. Shape' /\ WithinStock'
  <2>1. pc' \in [Calls -> {"idle"} \cup Busy \cup Ended]
    BY PcType DEF Start, IInv, Busy, Ended
  <2> QED BY <2>1 DEF Start, IInv, Shape, WithinStock
<1>2. CallOK(c)'
  <2>1. pc[c] = "idle" /\ pc'[c] = "load" /\ UNCHANGED <<seen, wrote, outbox>>
    BY DEF Start, IInv, Shape
  <2> QED BY <2>1
          DEF IInv, CallOK, Progress, LoadedInRange, LoadedBeforeUse,
              CheckedBeforeWrite, NothingWrittenYet, Busy
<1>3. ASSUME NEW d \in Calls, d # c PROVE CallOK(d)'
  BY <1>3, OthersKeep DEF Start, IInv, Shape
<1> QED BY <1>1, <1>2, <1>3 DEF IInv

LEMMA LoadInv ==
    ASSUME IInv, NEW c \in Calls, NEW i \in ItemNumbers(c), Load(c, i)
    PROVE  IInv'
<1>1. Shape' /\ WithinStock'
  <2>1. pc' \in [Calls -> {"idle"} \cup Busy \cup Ended]
    BY PcType DEF Load, IInv, Busy, Ended
  <2>2. DOMAIN seen' = Calls
    BY DEF Load, IInv, Shape
  <2> QED BY <2>1, <2>2 DEF Load, IInv, Shape, WithinStock
<1>2. CallOK(c)'
  <2>0. CallOK(c) /\ Kind[c] \in {"reserve", "release"}
    BY DEF IInv
  <2>1. /\ pc[c] = "load" /\ pc'[c] \in {"load", "check"}
        /\ wrote' = wrote /\ outbox' = outbox
        /\ seen'[c] = [seen[c] EXCEPT ![i] = reserved[Sku(c, i)]]
        /\ Kind[c] = "release" => i = Current(c)
        /\ Kind[c] = "reserve" /\ pc'[c] = "check" =>
               \A j \in ItemNumbers(c) \ {i} : seen[c][j] # None
    BY <2>0 DEF Load, IInv, Shape
  <2>2. reserved[Sku(c, i)] \in 0..Total[Sku(c, i)] /\ Total[Sku(c, i)] \in Nat
    BY ItemType DEF IInv, WithinStock
  <2>3. /\ seen'[c][i] = reserved[Sku(c, i)] /\ seen'[c][i] # None
        /\ \A j \in ItemNumbers(c) \ {i} : seen'[c][j] = seen[c][j]
        /\ seen'[c] \in [ItemNumbers(c) -> Nat \cup {None}]
    BY <2>0, <2>1, <2>2 DEF CallOK, None
  <2>4. LoadedInRange(c)'
    BY <2>0, <2>2, <2>3 DEF CallOK, LoadedInRange
  <2>5. LoadedBeforeUse(c)'
    BY <2>1, <2>3 DEF LoadedBeforeUse, Current
  <2> QED BY <2>0, <2>1, <2>3, <2>4, <2>5
          DEF CallOK, Progress, CheckedBeforeWrite, NothingWrittenYet, Busy
<1>3. ASSUME NEW d \in Calls, d # c PROVE CallOK(d)'
  BY <1>3, OthersKeep DEF Load, IInv, Shape
<1> QED BY <1>1, <1>2, <1>3 DEF IInv

LEMMA CheckInv == ASSUME IInv, NEW c \in Calls, Check(c) PROVE IInv'
<1>1. Shape' /\ WithinStock'
  <2>1. pc' \in [Calls -> {"idle"} \cup Busy \cup Ended]
    BY PcType DEF Check, IInv, Busy, Ended
  <2> QED BY <2>1 DEF Check, IInv, Shape, WithinStock
<1>2. CallOK(c)'
  <2>0. CallOK(c) /\ Kind[c] \in {"reserve", "release"}
    BY DEF IInv
  <2>1. /\ pc[c] = "check" /\ pc'[c] \in {"write", "refused"}
        /\ UNCHANGED <<seen, wrote, outbox>>
        /\ Kind[c] = "reserve" /\ pc'[c] = "write" =>
               \A i \in ItemNumbers(c) : Served(c, i)
        /\ Kind[c] = "release" /\ pc'[c] = "write" => Served(c, Current(c))
    BY <2>0 DEF Check, IInv, Shape
  <2>2. CheckedBeforeWrite(c)'
    BY <2>1 DEF CheckedBeforeWrite, Served, Current
  <2> QED BY <2>0, <2>1, <2>2
          DEF CallOK, Progress, LoadedInRange, LoadedBeforeUse, Current,
              NothingWrittenYet, Busy, Ended
<1>3. ASSUME NEW d \in Calls, d # c PROVE CallOK(d)'
  BY <1>3, OthersKeep DEF Check, IInv, Shape
<1> QED BY <1>1, <1>2, <1>3 DEF IInv

LEMMA WriteInv == ASSUME IInv, NEW c \in Calls, Write(c) PROVE IInv'
<1>0. CallOK(c) /\ Kind[c] \in {"reserve", "release"}
  BY DEF IInv
<1> DEFINE i == Current(c)
<1>1. /\ pc[c] = "write" /\ pc'[c] = "publish" /\ wrote'[c] = i
      /\ UNCHANGED <<seen, outbox>>
      /\ reserved' = [reserved EXCEPT ![Sku(c, i)] = NewQuantity(c, i)]
  BY DEF Write, IInv, Shape
<1>2. i \in ItemNumbers(c)
  BY <1>0, <1>1, CurrentItem DEF CallOK
<1>3. /\ seen[c][i] \in 0..Total[Sku(c, i)] /\ Served(c, i)
      /\ Qty(c, i) \in Nat /\ Total[Sku(c, i)] \in Nat /\ Sku(c, i) \in Skus
  BY <1>0, <1>1, <1>2, ItemType
     DEF CallOK, LoadedBeforeUse, CheckedBeforeWrite, LoadedInRange
<1>4. NewQuantity(c, i) \in 0..Total[Sku(c, i)]
  BY <1>0, <1>3 DEF NewQuantity, Served
<1>5. WithinStock' /\ reserved' \in [Skus -> Int]
  BY <1>1, <1>3, <1>4 DEF IInv, Shape, WithinStock
<1>6. Shape'
  <2>1. pc' \in [Calls -> {"idle"} \cup Busy \cup Ended]
    BY PcType DEF Write, IInv, Busy
  <2>2. wrote' \in [Calls -> Nat]
    BY DEF Write, IInv, Shape, Current
  <2> QED BY <1>5, <2>1, <2>2 DEF Write, IInv, Shape
<1>7. CallOK(c)'
  <2>1. Progress(c)'
    BY <1>0, <1>1, <1>2, LenType DEF CallOK, Progress, Current, ItemNumbers
  <2>2. CheckedBeforeWrite(c)' /\ LoadedBeforeUse(c)' /\ LoadedInRange(c)'
    BY <1>0, <1>1
       DEF CallOK, CheckedBeforeWrite, LoadedBeforeUse, LoadedInRange, Served
  <2>3. NothingWrittenYet(c)' /\ pc'[c] \in Busy
    BY <1>1 DEF NothingWrittenYet, Busy
  <2> QED BY <1>0, <1>1, <2>1, <2>2, <2>3 DEF CallOK
<1>8. ASSUME NEW d \in Calls, d # c PROVE CallOK(d)'
  BY <1>8, OthersKeep DEF Write, IInv, Shape
<1> QED BY <1>5, <1>6, <1>7, <1>8 DEF IInv

LEMMA PublishInv == ASSUME IInv, NEW c \in Calls, Publish(c) PROVE IInv'
<1>1. Shape' /\ WithinStock'
  <2>1. pc' \in [Calls -> {"idle"} \cup Busy \cup Ended]
    BY PcType DEF Publish, IInv, Busy, Ended, AfterPublish
  <2> QED BY <2>1 DEF Publish, IInv, Shape, WithinStock
<1>2. CallOK(c)'
  <2>0. CallOK(c) /\ Kind[c] \in {"reserve", "release"}
    BY DEF IInv
  <2>1. /\ pc[c] = "publish" /\ pc'[c] = AfterPublish(c)
        /\ outbox'[c] = wrote[c] /\ UNCHANGED <<seen, wrote>>
    BY DEF Publish, IInv, Shape
  <2>2. Progress(c)'
    BY <2>0, <2>1, LenType DEF CallOK, Progress, AfterPublish
  <2>3. LoadedBeforeUse(c)' /\ CheckedBeforeWrite(c)' /\ LoadedInRange(c)'
    BY <2>0, <2>1
       DEF CallOK, LoadedBeforeUse, CheckedBeforeWrite, LoadedInRange, Served,
           AfterPublish
  <2>4. NothingWrittenYet(c)' /\ pc'[c] \in {"idle"} \cup Busy \cup Ended
    BY <2>0, <2>1 DEF NothingWrittenYet, AfterPublish, Busy, Ended
  <2> QED BY <2>0, <2>1, <2>2, <2>3, <2>4 DEF CallOK
<1>3. ASSUME NEW d \in Calls, d # c PROVE CallOK(d)'
  BY <1>3, OthersKeep DEF Publish, IInv, Shape
<1> QED BY <1>1, <1>2, <1>3 DEF IInv

LEMMA FailInv == ASSUME IInv, NEW c \in Calls, Fail(c) PROVE IInv'
<1>1. Shape' /\ WithinStock'
  <2>1. faults' \in 0..MaxFaults
    BY DEF Fail, IInv, Shape
  <2>2. pc' \in [Calls -> {"idle"} \cup Busy \cup Ended]
    BY DEF Fail, IInv, Shape, Ended
  <2> QED BY <2>1, <2>2 DEF Fail, IInv, Shape, WithinStock
<1>2. CallOK(c)'
  <2>1. pc'[c] = "failed" /\ UNCHANGED <<seen, wrote, outbox>> /\ CallOK(c)
    BY DEF Fail, IInv, Shape
  <2> QED BY <2>1
          DEF CallOK, Progress, LoadedInRange, LoadedBeforeUse,
              CheckedBeforeWrite, NothingWrittenYet, Ended
<1>3. ASSUME NEW d \in Calls, d # c PROVE CallOK(d)'
  BY <1>3, OthersKeep DEF Fail, IInv, Shape
<1> QED BY <1>1, <1>2, <1>3 DEF IInv

LEMMA NextInv == ASSUME IInv, [Next]_vars PROVE IInv'
<1>1. CASE UNCHANGED vars
  <2>1. Shape' /\ WithinStock'
    BY <1>1 DEF vars, IInv, Shape, WithinStock
  <2>2. ASSUME NEW d \in Calls PROVE CallOK(d)'
    BY <1>1, OthersKeep DEF vars
  <2> QED BY <2>1, <2>2 DEF IInv
<1> QED BY <1>1, StartInv, LoadInv, CheckInv, WriteInv, PublishInv, FailInv
        DEF Next

\* IInv is an inductive invariant.
THEOREM Invariant == Spec => []IInv
<1>1. Init => IInv
  BY InitInv
<1>2. IInv /\ [Next]_vars => IInv'
  BY NextInv
<1> QED BY <1>1, <1>2, PTL DEF Spec

----------------------------------------------------------------------------
\* TypeOK holds of every instance.
THEOREM TypeCorrect == Spec => []TypeOK
<1>1. IInv => TypeOK
  BY DEF IInv, Shape, CallOK, Progress, TypeOK
<1> QED BY <1>1, Invariant, PTL

\* No interleaving, retry, lost update or partial failure takes a row out of
\* its range.
THEOREM StockNeverExceeded == Spec => []WithinStock
<1>1. IInv => WithinStock
  BY DEF IInv
<1> QED BY <1>1, Invariant, PTL

\* A reserve that is refused for lack of stock has written nothing.
THEOREM RefusalWritesNothing == Spec => []RefusedReserveWritesNothing
<1>1. IInv => RefusedReserveWritesNothing
  BY DEF IInv, CallOK, NothingWrittenYet, RefusedReserveWritesNothing
<1> QED BY <1>1, Invariant, PTL

\* The dashboard's judgements of a row agree for every total and every
\* reservation the calls can bring about.
THEOREM StockViews == Spec => []StockViewsAgree
<1>1. ASSUME IInv PROVE StockViewsAgree
  <2>1. ASSUME NEW s \in Skus
        PROVE  /\ IsLowStock(s) <=> StockState(s) # "HEALTHY"
               /\ Available(s) < 1 => StockState(s) = "CRITICAL"
    <3>1. Available(s) \in Int /\ Total[s] \in Nat
      BY <1>1 DEF IInv, Shape, Available
    <3>2. LowStockThreshold(s) \in Nat /\ LowStockThreshold(s) >= 5
      BY <3>1 DEF LowStockThreshold, Larger
    <3>3. /\ Larger(5, LowStockThreshold(s) \div 2) \in 5..LowStockThreshold(s)
      BY <3>2 DEF Larger
    <3> QED BY <3>1, <3>2, <3>3 DEF IsLowStock, StockState
  <2> QED BY <2>1 DEF StockViewsAgree, Listed
<1> QED BY <1>1, Invariant, PTL

----------------------------------------------------------------------------
\* Calls that do not overlap
OneAtATime ==
    \A c, d \in Calls : pc[c] \in Busy /\ pc[d] \in Busy => c = d

\* A call loads nothing before it starts, and a release no item before its turn.
LoadedInTurn(c) ==
    /\ pc[c] = "idle" => \A i \in ItemNumbers(c) : seen[c][i] = None
    /\ Kind[c] = "release" =>
           \A i \in ItemNumbers(c) : i > Current(c) => seen[c][i] = None

\* What a call still has to write was computed from what its row holds now.
Fresh(c) ==
    pc[c] \in Busy =>
        \A i \in ItemNumbers(c) :
            i > wrote[c] /\ seen[c][i] # None => seen[c][i] = reserved[Sku(c, i)]

NoRowTwice ==
    \A c \in Calls : Kind[c] = "reserve" /\ NamesARowTwice(c) => wrote[c] = 0

Exact ==
    \A s \in Skus : reserved[s] = SumFunction([c \in Calls |-> Written(c, s)])

Serial ==
    /\ \A c \in Calls : LoadedInTurn(c)
    /\ ~overlapped => OneAtATime
    /\ ~overlapped /\ NoRowTwice => Exact /\ \A c \in Calls : Fresh(c)

\* The quantities of a call's items, and those of the first k that name row s.
Quantities(c) == [i \in ItemNumbers(c) |-> Qty(c, i)]
Naming(c, s, k) == {i \in 1..k : Sku(c, i) = s}

LEMMA WrittenIs ==
    ASSUME NEW c \in Calls, NEW s
    PROVE  Written(c, s) =
               IF Kind[c] = "reserve"
                 THEN SumFunctionOnSet(Quantities(c), Naming(c, s, wrote[c]))
                 ELSE -SumFunctionOnSet(Quantities(c), Naming(c, s, wrote[c]))
BY DEF Written, Quantities, Naming

LEMMA NamingFinite ==
    ASSUME NEW c \in Calls, NEW s, NEW k \in Nat, k <= Len(Items[c])
    PROVE  /\ IsFiniteSet(Naming(c, s, k))
           /\ \A i \in Naming(c, s, k) : Quantities(c)[i] \in Int
           /\ SumFunctionOnSet(Quantities(c), Naming(c, s, k)) \in Int
<1>1. IsFiniteSet(Naming(c, s, k))
  <2>1. IsFiniteSet(1..k) /\ Naming(c, s, k) \in SUBSET (1..k)
    BY FS_Interval DEF Naming
  <2> QED BY <2>1, FS_Subset
<1>2. \A i \in Naming(c, s, k) : i \in ItemNumbers(c)
  BY LenType DEF Naming, ItemNumbers
<1>3. \A i \in Naming(c, s, k) : Quantities(c)[i] \in Int
  BY <1>2, ItemType DEF Quantities
<1> QED BY <1>1, <1>3, SumType

LEMMA WrittenType ==
    ASSUME IInv, NEW c \in Calls, NEW s
    PROVE  Written(c, s) \in Int
<1>1. wrote[c] \in Nat /\ wrote[c] <= Len(Items[c])
  BY DEF IInv, CallOK, Progress
<1>2. SumFunctionOnSet(Quantities(c), Naming(c, s, wrote[c])) \in Int
  BY <1>1, NamingFinite
<1> QED BY <1>2, WrittenIs

\* One more item of a call is written.
LEMMA NamingStep ==
    ASSUME NEW c \in Calls, NEW s, NEW k \in Nat, k + 1 \in ItemNumbers(c)
    PROVE  SumFunctionOnSet(Quantities(c), Naming(c, s, k + 1)) =
               SumFunctionOnSet(Quantities(c), Naming(c, s, k))
                   + (IF Sku(c, k + 1) = s THEN Qty(c, k + 1) ELSE 0)
<1>1. k + 1 <= Len(Items[c]) /\ k <= Len(Items[c])
  BY LenType DEF ItemNumbers
<1>2. SumFunctionOnSet(Quantities(c), Naming(c, s, k)) \in Int
  BY <1>1, NamingFinite
<1>3. CASE Sku(c, k + 1) = s
  <2>1. k + 1 \in Naming(c, s, k + 1)
    BY <1>3 DEF Naming
  <2>2. Naming(c, s, k + 1) \ {k + 1} = Naming(c, s, k)
    BY DEF Naming
  <2>3. /\ IsFiniteSet(Naming(c, s, k + 1))
        /\ \A i \in Naming(c, s, k + 1) : Quantities(c)[i] \in Int
    BY <1>1, NamingFinite
  <2>4. \A i \in Naming(c, s, k + 1) :
            SumFunctionOnSet(Quantities(c), Naming(c, s, k + 1)) =
                Quantities(c)[i]
                    + SumFunctionOnSet(Quantities(c), Naming(c, s, k + 1) \ {i})
    BY <2>3, SumSplit
  <2>5. Quantities(c)[k + 1] = Qty(c, k + 1) /\ Qty(c, k + 1) \in Int
    BY ItemType DEF Quantities
  <2>6. SumFunctionOnSet(Quantities(c), Naming(c, s, k + 1)) =
            Qty(c, k + 1) + SumFunctionOnSet(Quantities(c), Naming(c, s, k))
    BY <2>1, <2>2, <2>4, <2>5, Zenon
  <2> QED BY <1>2, <1>3, <2>5, <2>6
<1>4. CASE Sku(c, k + 1) # s
  <2>1. Naming(c, s, k + 1) = Naming(c, s, k)
    BY <1>4 DEF Naming
  <2> QED BY <1>2, <1>4, <2>1
<1> QED BY <1>3, <1>4

\* What the calls wrote, all together, changes by what one of them writes.
LEMMA TotalStep ==
    ASSUME NEW f, NEW g, f \in [Calls -> Int], g \in [Calls -> Int],
           NEW c \in Calls, NEW n \in Int, g[c] = f[c] + n,
           \A d \in Calls : d # c => g[d] = f[d]
    PROVE  SumFunction(g) = SumFunction(f) + n
<1>0. IsFiniteSet(Calls) /\ IsFiniteSet(Calls \ {c})
  BY CallsAssumption, FS_RemoveElement
<1>1. /\ SumFunction(f) = SumFunctionOnSet(f, Calls)
      /\ SumFunction(g) = SumFunctionOnSet(g, Calls)
  BY DEF SumFunction
<1>2. /\ SumFunctionOnSet(f, Calls) = f[c] + SumFunctionOnSet(f, Calls \ {c})
      /\ SumFunctionOnSet(g, Calls) = g[c] + SumFunctionOnSet(g, Calls \ {c})
  <2>1. /\ \A x \in Calls : f[x] \in Int
        /\ \A x \in Calls : g[x] \in Int
    OBVIOUS
  <2>2. /\ \A x \in Calls :
               SumFunctionOnSet(f, Calls) =
                   f[x] + SumFunctionOnSet(f, Calls \ {x})
        /\ \A x \in Calls :
               SumFunctionOnSet(g, Calls) =
                   g[x] + SumFunctionOnSet(g, Calls \ {x})
    BY <1>0, <2>1, SumSplit, Zenon
  <2> QED BY <2>2
<1>3. SumFunctionOnSet(f, Calls \ {c}) = SumFunctionOnSet(g, Calls \ {c})
  BY <1>0, SumSame
<1>4. SumFunctionOnSet(f, Calls \ {c}) \in Int /\ f[c] \in Int
  BY <1>0, SumType
<1> QED BY <1>1, <1>2, <1>3, <1>4

LEMMA NothingSummed ==
    ASSUME NEW f, \A c \in Calls : f[c] = 0, DOMAIN f = Calls
    PROVE  SumFunction(f) = 0
<1> DEFINE T == {t \in SUBSET Calls : SumFunctionOnSet(f, t) = 0}
<1>1. ASSUME NEW t \in SUBSET Calls, \A x \in t : t \ {x} \in T
      PROVE  t \in T
  <2>1. IsFiniteSet(t)
    BY CallsAssumption, FS_Subset
  <2>2. CASE t = {}
    BY <2>1, <2>2, SumChosen
  <2>3. CASE t # {}
    <3>1. PICK x \in t :
             SumFunctionOnSet(f, t) = f[x] + SumFunctionOnSet(f, t \ {x})
      BY <2>1, <2>3, SumChosen
    <3>2. f[x] = 0 /\ SumFunctionOnSet(f, t \ {x}) = 0
      BY <1>1
    <3> QED BY <3>1, <3>2
  <2> QED BY <2>2, <2>3
<1>2. T = SUBSET Calls
  <2> HIDE DEF T
  <2>1. T \in SUBSET SUBSET Calls
    BY DEF T
  <2> QED BY <1>1, <2>1, CallsAssumption, SetInduction
<1>3. SumFunctionOnSet(f, Calls) = 0
  BY <1>2
<1> QED BY <1>3 DEF SumFunction

LEMMA ItemNumber == ASSUME NEW c \in Calls, NEW i \in ItemNumbers(c)
                    PROVE  i \in Nat \ {0}
BY LenType DEF ItemNumbers

LEMMA InitSerial == ASSUME Init PROVE Serial
<1>1. \A c \in Calls : /\ pc[c] = "idle" /\ wrote[c] = 0
                     /\ \A i \in ItemNumbers(c) : seen[c][i] = None
  BY DEF Init
<1>2. Exact
  <2> SUFFICES ASSUME NEW s \in Skus
               PROVE  SumFunction([c \in Calls |-> Written(c, s)]) = 0
    BY DEF Init, Exact
  <2>1. ASSUME NEW c \in Calls PROVE Written(c, s) = 0
    <3>1. Naming(c, s, wrote[c]) = {} /\ IsFiniteSet({})
      BY <1>1, FS_EmptySet DEF Naming
    <3>2. SumFunctionOnSet(Quantities(c), Naming(c, s, wrote[c])) = 0
      BY <3>1, SumChosen
    <3> QED BY <3>2, WrittenIs
  <2> QED BY <2>1, NothingSummed
<1>3. OneAtATime /\ \A c \in Calls : LoadedInTurn(c) /\ Fresh(c)
  BY <1>1 DEF OneAtATime, LoadedInTurn, Fresh, Busy
<1> QED BY <1>2, <1>3 DEF Serial

\* No row and no write: what was exact stays so.
LEMMA ExactStays ==
    ASSUME UNCHANGED <<reserved, wrote>>
    PROVE  Exact' <=> Exact
BY DEF Exact, Written

LEMMA NoRowTwiceStays ==
    ASSUME UNCHANGED wrote
    PROVE  NoRowTwice' <=> NoRowTwice
BY DEF NoRowTwice, NamesARowTwice

LEMMA StartSerial ==
    ASSUME IInv, Serial, NEW c \in Calls, Start(c)
    PROVE  Serial'
<1>1. /\ pc \in [Calls -> {"idle"} \cup Busy \cup Ended] /\ pc[c] = "idle"
      /\ pc' = [pc EXCEPT ![c] = "load"]
      /\ overlapped' = (overlapped \/ \E d \in Calls : pc[d] \in Busy)
      /\ UNCHANGED <<reserved, seen, wrote>>
  BY DEF Start, IInv, Shape
<1>2. \A d \in Calls : LoadedInTurn(d)'
  BY <1>1 DEF Serial, LoadedInTurn, Current
<1>3. ASSUME ~overlapped' PROVE ~overlapped /\ \A d \in Calls : pc[d] \notin Busy
  BY <1>1, <1>3, Zenon
<1>4. ~overlapped' => OneAtATime'
  BY <1>1, <1>3 DEF OneAtATime
<1>5. ASSUME ~overlapped', NoRowTwice'
      PROVE  Exact' /\ \A d \in Calls : Fresh(d)'
  <2>1. Exact
    BY <1>1, <1>3, <1>5, NoRowTwiceStays DEF Serial
  <2>2. ASSUME NEW d \in Calls PROVE Fresh(d)'
    <3>1. CASE d = c
      <4>1. \A i \in ItemNumbers(c) : seen'[c][i] = None
        BY <1>1 DEF Serial, LoadedInTurn
      <4> QED BY <3>1, <4>1 DEF Fresh
    <3>2. CASE d # c
      BY <1>1, <1>3, <1>5, <3>2 DEF Fresh
    <3> QED BY <3>1, <3>2
  <2> QED BY <1>1, <2>1, <2>2, ExactStays
<1> QED BY <1>2, <1>4, <1>5 DEF Serial

LEMMA LoadSerial ==
    ASSUME IInv, Serial, NEW c \in Calls, NEW i \in ItemNumbers(c), Load(c, i)
    PROVE  Serial'
<1>1. /\ pc \in [Calls -> {"idle"} \cup Busy \cup Ended] /\ pc[c] = "load"
      /\ pc'[c] \in Busy /\ \A d \in Calls : d # c => pc'[d] = pc[d]
      /\ seen[c] \in [ItemNumbers(c) -> Nat \cup {None}]
      /\ seen'[c] = [seen[c] EXCEPT ![i] = reserved[Sku(c, i)]]
      /\ \A d \in Calls : d # c => seen'[d] = seen[d]
      /\ Kind[c] = "release" => i = Current(c)
      /\ UNCHANGED <<reserved, wrote, overlapped>>
  BY DEF Load, IInv, Shape, CallOK, Busy
<1>2. \A d \in Calls : pc'[d] \in Busy <=> pc[d] \in Busy
  BY <1>1 DEF Busy
<1>3. ASSUME NEW d \in Calls PROVE LoadedInTurn(d)'
  <2>1. CASE d = c
    <3>1. pc'[c] # "idle"
      BY <1>1 DEF Busy
    <3>2. Current(c)' = Current(c) /\ LoadedInTurn(c)
      BY <1>1 DEF Current, Serial
    <3>3. ASSUME NEW j \in ItemNumbers(c), Kind[c] = "release", j > Current(c)
          PROVE  seen'[c][j] = None
      <4>1. seen[c][j] = None /\ i = Current(c)
        BY <1>1, <3>2, <3>3 DEF LoadedInTurn
      <4>2. i # j
        BY <3>3, <4>1, ItemNumber
      <4> QED BY <1>1, <4>1, <4>2
    <3> QED BY <2>1, <3>1, <3>2, <3>3 DEF LoadedInTurn
  <2>2. CASE d # c
    BY <1>1, <2>2 DEF Serial, LoadedInTurn, Current
  <2> QED BY <2>1, <2>2
<1>4. ~overlapped' => OneAtATime'
  BY <1>1, <1>2 DEF Serial, OneAtATime
<1>5. ASSUME ~overlapped', NoRowTwice'
      PROVE  Exact' /\ \A d \in Calls : Fresh(d)'
  <2>1. Exact /\ \A d \in Calls : Fresh(d)
    BY <1>1, <1>5, NoRowTwiceStays DEF Serial
  <2>2. ASSUME NEW d \in Calls PROVE Fresh(d)'
    <3>1. CASE d = c
      <4>1. pc[c] \in Busy /\ Fresh(c)
        BY <1>1, <2>1 DEF Busy
      <4>2. ASSUME NEW j \in ItemNumbers(c), j > wrote[c], seen'[c][j] # None
            PROVE  seen'[c][j] = reserved[Sku(c, j)]
        <5>1. CASE j = i
          BY <1>1, <5>1
        <5>2. CASE j # i
          BY <1>1, <4>1, <4>2, <5>2 DEF Fresh
        <5> QED BY <5>1, <5>2
      <4> QED BY <1>1, <3>1, <4>2 DEF Fresh
    <3>2. CASE d # c
      <4>1. Fresh(d) /\ pc'[d] = pc[d] /\ seen'[d] = seen[d]
        BY <1>1, <2>1, <3>2
      <4>2. wrote' = wrote /\ reserved' = reserved
        BY <1>1
      <4> QED BY <4>1, <4>2 DEF Fresh
    <3> QED BY <3>1, <3>2
  <2> QED BY <1>1, <2>1, <2>2, ExactStays
<1> QED BY <1>3, <1>4, <1>5 DEF Serial

\* A step that loads and writes nothing, and starts no call.
LEMMA QuietSerial ==
    ASSUME Serial, UNCHANGED <<reserved, seen, wrote, overlapped>>,
           \A d \in Calls : /\ pc'[d] \in Busy => pc[d] \in Busy
                            /\ pc'[d] = "idle" => pc[d] = "idle"
    PROVE  Serial'
<1>1. \A d \in Calls : LoadedInTurn(d)'
  BY DEF Serial, LoadedInTurn, Current
<1>2. ~overlapped' => OneAtATime'
  BY DEF Serial, OneAtATime
<1>3. ASSUME ~overlapped', NoRowTwice'
      PROVE  Exact' /\ \A d \in Calls : Fresh(d)'
  <2>1. Exact /\ \A d \in Calls : Fresh(d)
    BY <1>3, NoRowTwiceStays DEF Serial
  <2>2. \A d \in Calls : Fresh(d)'
    BY <2>1 DEF Fresh
  <2> QED BY <2>1, <2>2, ExactStays
<1> QED BY <1>1, <1>2, <1>3 DEF Serial

\* Every row still to be written was computed from what it holds, so the write
\* adds exactly its quantity.
LEMMA WriteSerial ==
    ASSUME IInv, Serial, NEW c \in Calls, Write(c)
    PROVE  Serial'
<1> DEFINE i == Current(c)
<1>0. CallOK(c) /\ Kind[c] \in {"reserve", "release"}
  BY DEF IInv
<1>1. /\ pc[c] = "write" /\ pc'[c] = "publish" /\ wrote'[c] = i
      /\ \A d \in Calls : d # c => pc'[d] = pc[d] /\ wrote'[d] = wrote[d]
      /\ UNCHANGED <<seen, overlapped>> /\ reserved \in [Skus -> Int]
      /\ reserved' = [reserved EXCEPT ![Sku(c, i)] = NewQuantity(c, i)]
      /\ wrote[c] \in Nat /\ i = wrote[c] + 1
  BY DEF Write, IInv, Shape, Current
<1>2. /\ i \in ItemNumbers(c) /\ seen[c][i] # None
      /\ Sku(c, i) \in Skus /\ Qty(c, i) \in Nat \ {0}
  BY <1>0, <1>1, CurrentItem, ItemType DEF CallOK, LoadedBeforeUse
<1>3. \A d \in Calls : pc'[d] \in Busy <=> pc[d] \in Busy
  BY <1>1 DEF Busy
<1>4. ASSUME NEW d \in Calls PROVE LoadedInTurn(d)'
  <2>0. LoadedInTurn(d)
    BY DEF Serial
  <2>1. CASE d = c
    <3>1. Current(c)' = i + 1 /\ i \in Nat
      BY <1>1 DEF Current
    <3>2. ASSUME NEW j \in ItemNumbers(c), Kind[c] = "release", j > i + 1
          PROVE  seen[c][j] = None
      <4>1. j > i
        BY <3>1, <3>2, ItemNumber
      <4> QED BY <2>0, <2>1, <3>2, <4>1 DEF LoadedInTurn
    <3> QED BY <1>1, <2>1, <3>1, <3>2 DEF LoadedInTurn
  <2>2. CASE d # c
    <3>1. /\ pc'[d] = pc[d] /\ seen' = seen /\ Current(d)' = Current(d)
      BY <1>1, <2>2 DEF Current
    <3> QED BY <2>0, <3>1 DEF LoadedInTurn
  <2> QED BY <2>1, <2>2
<1>5. ~overlapped' => OneAtATime'
  BY <1>1, <1>3 DEF Serial, OneAtATime
<1>6. ASSUME ~overlapped', NoRowTwice'
      PROVE  Exact' /\ \A d \in Calls : Fresh(d)'
  <2>1. NoRowTwice
    <3>1. ASSUME NEW d \in Calls, Kind[d] = "reserve", NamesARowTwice(d)
          PROVE  wrote[d] = 0
      <4>1. wrote'[d] = 0
        BY <1>6, <3>1 DEF NoRowTwice, NamesARowTwice
      <4>2. CASE d = c
        BY <1>1, <4>1, <4>2
      <4>3. CASE d # c
        BY <1>1, <4>1, <4>3
      <4> QED BY <4>2, <4>3
    <3> QED BY <3>1 DEF NoRowTwice
  <2>2. Exact /\ (\A d \in Calls : Fresh(d)) /\ OneAtATime
    BY <1>1, <1>6, <2>1 DEF Serial
  <2>3. seen[c][i] = reserved[Sku(c, i)]
    <3>1. Fresh(c) /\ pc[c] \in Busy /\ i > wrote[c]
      BY <1>1, <2>2 DEF Busy
    <3> HIDE DEF i
    <3> QED BY <1>2, <3>1 DEF Fresh
  <2> DEFINE n == IF Kind[c] = "reserve" THEN Qty(c, i) ELSE -Qty(c, i)
  <2>4. reserved' = [reserved EXCEPT ![Sku(c, i)] = reserved[Sku(c, i)] + n]
    BY <1>0, <1>1, <1>2, <2>3 DEF NewQuantity
  <2>5. ASSUME NEW s \in Skus
        PROVE  reserved'[s] = SumFunction([d \in Calls |-> Written(d, s)])'
    <3> DEFINE f == [d \in Calls |-> Written(d, s)]
               m == IF Sku(c, i) = s THEN n ELSE 0
    <3>1. f \in [Calls -> Int] /\ m \in Int
      BY <1>2, WrittenType
    <3>2. ASSUME NEW d \in Calls, d # c PROVE Written(d, s)' = Written(d, s)
      BY <1>1, <3>2 DEF Written
    <3>3. Written(c, s)' = Written(c, s) + m
      <4>1. SumFunctionOnSet(Quantities(c), Naming(c, s, wrote[c] + 1)) =
                SumFunctionOnSet(Quantities(c), Naming(c, s, wrote[c]))
                    + (IF Sku(c, i) = s THEN Qty(c, i) ELSE 0)
        BY <1>1, <1>2, NamingStep
      <4>2. SumFunctionOnSet(Quantities(c), Naming(c, s, wrote[c])) \in Int
        BY <1>0, NamingFinite DEF CallOK, Progress
      <4>3. Written(c, s)' =
                LET sum == SumFunctionOnSet(Quantities(c),
                                            Naming(c, s, wrote[c] + 1))
                IN  IF Kind[c] = "reserve" THEN sum ELSE -sum
        BY <1>1 DEF Written, Quantities, Naming
      <4> QED BY <1>2, <4>1, <4>2, <4>3, WrittenIs
    <3>4. f' \in [Calls -> Int] /\ f'[c] = f[c] + m
          /\ \A d \in Calls : d # c => f'[d] = f[d]
      BY <3>1, <3>2, <3>3
    <3>5. SumFunction(f') = SumFunction(f) + m
      <4> HIDE DEF f, m
      <4> QED BY <3>1, <3>4, TotalStep
    <3>6. reserved[s] = SumFunction(f) /\ reserved[s] \in Int
      BY <1>1, <2>2 DEF Exact
    <3>7. reserved'[s] = reserved[s] + m
      BY <1>1, <1>2, <2>4, <3>6
    <3> QED BY <3>5, <3>6, <3>7
  <2>6. ASSUME NEW d \in Calls PROVE Fresh(d)'
    <3>1. CASE d = c
      <4> SUFFICES ASSUME NEW j \in ItemNumbers(c), j > i, seen[c][j] # None
                   PROVE  seen[c][j] = reserved'[Sku(c, j)]
        BY <1>1, <3>1 DEF Fresh
      <4>1. seen[c][j] = reserved[Sku(c, j)]
        <5>1. j > wrote[c] /\ pc[c] \in Busy /\ Fresh(c)
          BY <1>1, <2>2, ItemNumber DEF Busy
        <5> QED BY <5>1 DEF Fresh
      <4>2. Kind[c] = "reserve"
        <5>1. LoadedInTurn(c)
          BY DEF Serial
        <5> QED BY <1>0, <5>1 DEF LoadedInTurn
      <4>3. Sku(c, j) # Sku(c, i)
        <5>1. ~NamesARowTwice(c)
          <6>1. wrote'[c] # 0
            BY <1>1
          <6> QED BY <1>6, <4>2, <6>1 DEF NoRowTwice, NamesARowTwice
        <5>2. i # j /\ i \in ItemNumbers(c)
          BY <1>1, <1>2, ItemNumber
        <5> HIDE DEF i
        <5> QED BY <5>1, <5>2 DEF NamesARowTwice
      <4> QED BY <1>1, <4>1, <4>3, ItemType
    <3>2. CASE d # c
      <4>1. pc'[d] \notin Busy
        BY <1>1, <2>2, <3>2 DEF OneAtATime, Busy
      <4> QED BY <4>1 DEF Fresh
    <3> QED BY <3>1, <3>2
  <2> QED BY <2>5, <2>6 DEF Exact
<1> QED BY <1>4, <1>5, <1>6 DEF Serial

LEMMA NextSerial == ASSUME IInv, Serial, [Next]_vars PROVE Serial'
<1>1. CASE UNCHANGED vars
  BY <1>1, QuietSerial DEF vars
<1>2. ASSUME NEW c \in Calls, Check(c) \/ Publish(c) \/ Fail(c) PROVE Serial'
  <2>1. /\ pc[c] \in Busy /\ pc'[c] # "idle"
        /\ \A d \in Calls : d # c => pc'[d] = pc[d]
        /\ UNCHANGED <<reserved, seen, wrote, overlapped>>
    BY <1>2 DEF Check, Publish, Fail, AfterPublish, IInv, Shape, Busy
  <2> QED BY <2>1, QuietSerial
<1> QED BY <1>1, <1>2, StartSerial, LoadSerial, WriteSerial DEF Next

\* As long as the calls came one after the other, no reserve naming a row twice,
\* the rows hold exactly what was written to them, whatever failed half way.
THEOREM SerialIsExact == Spec => []ExactWhenSerial
<1>1. Init => IInv /\ Serial
  BY InitInv, InitSerial
<1>2. IInv /\ Serial /\ [Next]_vars => IInv' /\ Serial'
  BY NextInv, NextSerial
<1>3. Serial => ExactWhenSerial
  BY DEF Serial, Exact, NoRowTwice, ExactWhenSerial
<1> QED BY <1>1, <1>2, <1>3, PTL DEF Spec

=============================================================================
