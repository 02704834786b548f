--------------------------- MODULE Structures_proofs ---------------------------
(***************************************************************************)
(* What several components rest on: the ownership shape of a descriptor    *)
(* chain of any length and the order of its descriptors; sums over the     *)
(* holders of a pool, what holders gain and lose one by one, and the       *)
(* messages of a kind in a mailbox.                                        *)
(***************************************************************************)
EXTENDS DescRing, Pools, Sequences, FiniteSetTheorems, WellFoundedInduction, TLAPS

\* A set of natural numbers has a least one: induction without an operator.
LEMMA LeastExists ==
  ASSUME NEW S \in SUBSET Nat, S # {}
  PROVE  \E x \in S : \A y \in S : x <= y
<1>1. IsWellFoundedOn(OpToRel(<, Nat), Nat)
  BY NatLessThanWellFounded
<1>2. PICK x \in S : \A y \in S : ~(<<y, x>> \in OpToRel(<, Nat))
  BY <1>1, WFMin
<1>3. \A y \in S : ~(y < x)
  BY <1>2 DEF OpToRel
<1> QED
  BY <1>3

\* Induction for a claim that is given by the set of numbers it holds for.
LEMMA SetInduction ==
  ASSUME NEW T, 0 \in T, \A n \in Nat : n \in T => n + 1 \in T
  PROVE  \A n \in Nat : n \in T
<1> DEFINE Bad == {n \in Nat : n \notin T}
<1>1. Bad = {}
  <2> SUFFICES ASSUME Bad # {} PROVE FALSE
    OBVIOUS
  <2>1. Bad \in SUBSET Nat
    OBVIOUS
  <2>2. PICK x \in Bad : \A y \in Bad : x <= y
    <3> HIDE DEF Bad
    <3> QED BY <2>1, LeastExists
  <2>3. x \in Nat /\ x \notin T /\ x # 0
    OBVIOUS
  <2>4. x - 1 \in Nat /\ x - 1 \notin T
    BY <2>3
  <2>5. x - 1 \in Bad
    BY <2>4
  <2> QED
    BY <2>2, <2>3, <2>5
<1> QED
  BY <1>1

-----------------------------------------------------------------------------
(* Chains. *)

\* NextDesc stays on the chain and moves.
LEMMA NextDescOnChain ==
  ASSUME NEW i \in Desc
  PROVE  NextDesc(i) \in Desc /\ NextDesc(i) # i
BY NAssumption, SMT DEF Desc, NextDesc

\* Filling the producer's descriptor and moving on keeps the shape: what the
\* DMA does to an RX chain and ETH_SendFrame to a TX chain.
LEMMA ShapeFill ==
  ASSUME NEW S \in SUBSET Desc, NEW a \in Desc, NEW b \in Desc,
         Shape(S, a, b), b \notin S
  PROVE  Shape(S \cup {b}, a, NextDesc(b))
<1>1. CASE a = b
  <2>1. S = {}
    BY <1>1 DEF Shape
  <2>2. Segment(a, NextDesc(b)) = {b}
    BY <1>1, NAssumption, SMT DEF Segment, NextDesc, Desc
  <2> QED
    BY <1>1, <2>1, <2>2, NextDescOnChain DEF Shape
<1>2. CASE a # b /\ a = NextDesc(b)
  <2>1. Segment(a, b) \cup {b} = Desc
    BY <1>2, NAssumption, SMT DEF Segment, NextDesc, Desc
  <2> QED
    BY <1>2, <2>1 DEF Shape
<1>3. CASE a # b /\ a # NextDesc(b)
  <2>1. Segment(a, b) \cup {b} = Segment(a, NextDesc(b))
    BY <1>3, NAssumption, SMT DEF Segment, NextDesc, Desc
  <2> QED
    BY <1>3, <2>1 DEF Shape
<1> QED
  BY <1>1, <1>2, <1>3

\* Emptying the consumer's descriptor and moving on keeps the shape: what
\* ETH_RecPeek and ETH_RecFree do to an RX chain and the DMA to a TX chain.
LEMMA ShapeEmpty ==
  ASSUME NEW S \in SUBSET Desc, NEW a \in Desc, NEW b \in Desc,
         Shape(S, a, b), a \in S
  PROVE  Shape(S \ {a}, NextDesc(a), b)
<1>1. CASE a = b
  <2>1. S = Desc
    BY <1>1 DEF Shape
  <2>2. Segment(NextDesc(a), b) = Desc \ {a}
    BY <1>1, NAssumption, SMT DEF Segment, NextDesc, Desc
  <2> QED
    BY <1>1, <2>1, <2>2, NextDescOnChain DEF Shape
<1>2. CASE a # b /\ NextDesc(a) = b
  <2>1. Segment(a, b) \ {a} = {}
    BY <1>2, NAssumption, SMT DEF Segment, NextDesc, Desc
  <2> QED
    BY <1>2, <2>1 DEF Shape
<1>3. CASE a # b /\ NextDesc(a) # b
  <2>1. Segment(a, b) \ {a} = Segment(NextDesc(a), b)
    BY <1>3, NAssumption, SMT DEF Segment, NextDesc, Desc
  <2> QED
    BY <1>3, <2>1 DEF Shape
<1> QED
  BY <1>1, <1>2, <1>3

-----------------------------------------------------------------------------
(* The order of the descriptors along the chain. *)

\* Steps along the chain from a to i.
Dist(a, i) == IF a <= i THEN i - a ELSE i - a + N

\* Descriptors filled when S has the shape of the chain from a to b.
Depth(S, a, b) == IF S = {} THEN 0 ELSE IF a = b THEN N ELSE Dist(a, b)

\* A descriptor is found by its distance.
LEMMA DistType ==
  ASSUME NEW a \in Desc, NEW i \in Desc, NEW j \in Desc
  PROVE  /\ Dist(a, i) \in 0 .. N - 1
         /\ Dist(a, i) = Dist(a, j) <=> i = j
         /\ Dist(a, a) = 0
BY NAssumption, SMT DEF Dist, Desc

\* One step of the origin brings every other descriptor one step nearer.
LEMMA DistFromNext ==
  ASSUME NEW a \in Desc, NEW i \in Desc, i # a
  PROVE  Dist(a, i) = Dist(NextDesc(a), i) + 1
BY NAssumption, SMT DEF Dist, Desc, NextDesc

\* One step of the target takes it one step further, until it is back.
LEMMA DistToNext ==
  ASSUME NEW a \in Desc, NEW i \in Desc
  PROVE  Dist(a, i) + 1 = IF NextDesc(i) = a THEN N ELSE Dist(a, NextDesc(i))
BY NAssumption, SMT DEF Dist, Desc, NextDesc

\* What is filled lies within the depth, and the producer stands at it unless
\* everything is filled.
LEMMA ShapeDepth ==
  ASSUME NEW S \in SUBSET Desc, NEW a \in Desc, NEW b \in Desc, Shape(S, a, b)
  PROVE  /\ Depth(S, a, b) \in 0 .. N
         /\ \A i \in Desc : i \in S <=> Dist(a, i) < Depth(S, a, b)
         /\ b \notin S => Dist(a, b) = Depth(S, a, b)
<1>1. CASE a = b /\ S = {}
  BY <1>1, NAssumption, DistType DEF Depth
<1>2. CASE a = b /\ S # {}
  <2>1. S = Desc
    BY <1>2 DEF Shape
  <2> QED
    BY <1>2, <2>1, NAssumption, DistType DEF Depth
<1>3. CASE a # b
  <2>1. S = Segment(a, b)
    BY <1>3 DEF Shape
  <2>2. a \in S
    BY <1>3, <2>1, NAssumption DEF Segment, Desc
  <2>3. Depth(S, a, b) = Dist(a, b)
    BY <1>3, <2>2 DEF Depth
  <2>4. \A i \in Desc : i \in Segment(a, b) <=> Dist(a, i) < Dist(a, b)
    BY <1>3, NAssumption DEF Segment, Desc, Dist
  <2> QED
    BY <2>1, <2>3, <2>4, DistType, NAssumption
<1> QED
  BY <1>1, <1>2, <1>3

\* Filling one descriptor makes the chain one deeper,
LEMMA DepthFill ==
  ASSUME NEW S \in SUBSET Desc, NEW a \in Desc, NEW b \in Desc,
         Shape(S, a, b), b \notin S
  PROVE  Depth(S \cup {b}, a, NextDesc(b)) = Depth(S, a, b) + 1
<1>1. Dist(a, b) = Depth(S, a, b)
  BY ShapeDepth
<1>2. Depth(S \cup {b}, a, NextDesc(b)) =
        IF NextDesc(b) = a THEN N ELSE Dist(a, NextDesc(b))
  BY DEF Depth
<1> QED
  BY <1>1, <1>2, DistToNext

\* and emptying one makes it one shallower.
LEMMA DepthEmpty ==
  ASSUME NEW S \in SUBSET Desc, NEW a \in Desc, NEW b \in Desc,
         Shape(S, a, b), a \in S
  PROVE  Depth(S \ {a}, NextDesc(a), b) + 1 = Depth(S, a, b)
<1>1. CASE a = b
  <2>1. S = Desc
    BY <1>1 DEF Shape
  <2>2. NextDesc(a) \in Desc /\ NextDesc(a) # a
    BY NextDescOnChain
  <2>3. Dist(NextDesc(a), a) + 1 = N
    BY NAssumption DEF Dist, NextDesc, Desc
  <2> QED
    BY <1>1, <2>1, <2>2, <2>3 DEF Depth
<1>2. CASE a # b /\ NextDesc(a) = b
  <2>1. S \ {a} = {}
    BY <1>2, NAssumption DEF Shape, Segment, NextDesc, Desc
  <2>2. Dist(a, b) = 1
    BY <1>2, NAssumption DEF Dist, NextDesc, Desc
  <2> QED
    BY <1>2, <2>1, <2>2 DEF Depth
<1>3. CASE a # b /\ NextDesc(a) # b
  <2>1. S \ {a} # {}
    BY <1>3, NAssumption, NextDescOnChain DEF Shape, Segment, NextDesc, Desc
  <2>2. Dist(a, b) = Dist(NextDesc(a), b) + 1
    BY <1>3, DistFromNext
  <2> QED
    BY <1>3, <2>1, <2>2 DEF Depth
<1> QED
  BY <1>1, <1>2, <1>3

-----------------------------------------------------------------------------
(* Pools. *)

\* Finitely many holders hold finitely many elements.
LEMMA HeldType ==
  ASSUME NEW S, IsFiniteSet(S), NEW w, \A i \in S : w[i] \in Nat
  PROVE  IsFiniteSet(Elements(S, w)) /\ Held(S, w) \in Nat
<1> DEFINE shares == {{i} \X (1 .. w[i]) : i \in S}
           share  == [i \in S |-> {i} \X (1 .. w[i])]
<1>1. share \in Surjection(S, shares)
  BY DEF Surjection
<1>2. IsFiniteSet(shares)
  BY <1>1, FS_Surjection
<1>3. ASSUME NEW T \in shares PROVE IsFiniteSet(T)
  <2> PICK i \in S : T = {i} \X (1 .. w[i])
    BY <1>3
  <2>1. IsFiniteSet({i})
    BY FS_Singleton
  <2>2. IsFiniteSet(1 .. w[i])
    BY FS_Interval
  <2> QED
    BY <2>1, <2>2, FS_Product
<1>4. IsFiniteSet(UNION shares)
  BY <1>2, <1>3, FS_UNION
<1> QED
  BY <1>4, FS_CardinalityType DEF Elements, Held

\* One holder holds what it has.
LEMMA HeldOne ==
  ASSUME NEW i, NEW w, w[i] \in Nat
  PROVE  Held({i}, w) = w[i]
<1>1. Elements({i}, w) = {i} \X (1 .. w[i])
  BY DEF Elements
<1>2. IsFiniteSet({i}) /\ Cardinality({i}) = 1
  BY FS_Singleton
<1>3. IsFiniteSet(1 .. w[i]) /\ Cardinality(1 .. w[i]) = w[i]
  BY FS_Interval
<1>4. Cardinality({i} \X (1 .. w[i])) = Cardinality({i}) * Cardinality(1 .. w[i])
  BY <1>2, <1>3, FS_Product
<1>5. Held({i}, w) = Cardinality({i} \X (1 .. w[i]))
  BY <1>1, Zenon DEF Held
<1> QED
  BY <1>2, <1>3, <1>4, <1>5

\* Holders apart are counted apart.
LEMMA HeldSplit ==
  ASSUME NEW S, NEW T, IsFiniteSet(S), IsFiniteSet(T), S \cap T = {},
         NEW w, \A i \in S \cup T : w[i] \in Nat
  PROVE  Held(S \cup T, w) = Held(S, w) + Held(T, w)
<1>1. Elements(S \cup T, w) = Elements(S, w) \cup Elements(T, w)
  BY DEF Elements
<1>2. Elements(S, w) \cap Elements(T, w) = {}
  BY DEF Elements
<1>3. IsFiniteSet(Elements(S, w)) /\ IsFiniteSet(Elements(T, w))
  BY HeldType
<1>4. Cardinality(Elements(S, w) \cup Elements(T, w)) =
        Cardinality(Elements(S, w)) + Cardinality(Elements(T, w))
          - Cardinality(Elements(S, w) \cap Elements(T, w))
  BY <1>3, FS_Union
<1>5. Cardinality(Elements(S, w) \cap Elements(T, w)) = 0
  BY <1>2, FS_EmptySet
<1>6. Held(S, w) \in Nat /\ Held(T, w) \in Nat
  BY HeldType
<1>7. Held(S \cup T, w) = Cardinality(Elements(S, w) \cup Elements(T, w))
  BY <1>1, Zenon DEF Held
<1> QED
  BY <1>4, <1>5, <1>6, <1>7 DEF Held

\* Only what the holders have counts.
LEMMA HeldSame ==
  ASSUME NEW S, NEW w, NEW v, \A i \in S : w[i] = v[i]
  PROVE  Held(S, w) = Held(S, v)
BY DEF Held, Elements

LEMMA HeldNone ==
  ASSUME NEW w
  PROVE  Held({}, w) = 0
BY FS_EmptySet DEF Held, Elements

\* Taking a holder out takes out what it holds.
LEMMA HeldWithout ==
  ASSUME NEW S, IsFiniteSet(S), NEW w, \A i \in S : w[i] \in Nat, NEW i \in S
  PROVE  Held(S, w) = Held(S \ {i}, w) + w[i]
<1>1. IsFiniteSet(S \ {i})
  BY FS_RemoveElement
<1>2. IsFiniteSet({i})
  BY FS_Singleton
<1>3. Held((S \ {i}) \cup {i}, w) = Held(S \ {i}, w) + Held({i}, w)
  BY <1>1, <1>2, HeldSplit
<1>4. S = (S \ {i}) \cup {i} /\ Held({i}, w) = w[i]
  BY HeldOne
<1> QED
  BY <1>3, <1>4

\* One holder's share changes.
LEMMA HeldUpdate ==
  ASSUME NEW S, IsFiniteSet(S), NEW w, NEW v, NEW i \in S,
         \A j \in S : w[j] \in Nat /\ v[j] \in Nat /\ (j # i => v[j] = w[j])
  PROVE  Held(S, v) = Held(S, w) - w[i] + v[i]
<1>1. Held(S, w) = Held(S \ {i}, w) + w[i] /\ Held(S, v) = Held(S \ {i}, v) + v[i]
  BY HeldWithout
<1>2. Held(S \ {i}, w) = Held(S \ {i}, v)
  BY HeldSame
<1>3. IsFiniteSet(S \ {i})
  BY FS_RemoveElement
<1>4. Held(S \ {i}, w) \in Nat
  BY <1>3, HeldType
<1> QED
  BY <1>1, <1>2, <1>4

\* Where every holder has an element there are no more holders than elements.
LEMMA HoldersBound ==
  ASSUME NEW S, IsFiniteSet(S), NEW w, \A i \in S : w[i] \in Nat \ {0}
  PROVE  Cardinality(S) \in Nat /\ Cardinality(S) <= Held(S, w)
<1> DEFINE first == [i \in S |-> <<i, 1>>]
<1>1. first \in Injection(S, Elements(S, w))
  <2>1. \A i \in S : first[i] \in {i} \X (1 .. w[i])
    OBVIOUS
  <2>2. first \in [S -> Elements(S, w)]
    BY <2>1 DEF Elements
  <2> QED
    BY <2>2 DEF Injection, IsInjective
<1>2. IsFiniteSet(Elements(S, w))
  BY HeldType
<1> QED
  BY <1>1, <1>2, FS_Injection, FS_CardinalityType DEF Held

-----------------------------------------------------------------------------
(* Counting the messages of a mailbox. *)

\* Places of s that hold one of P.
Places(P, s) == {k \in DOMAIN s : s[k] \in P}

LEMMA PlacesFinite ==
  ASSUME NEW M, NEW s \in Seq(M), NEW P
  PROVE  IsFiniteSet(Places(P, s)) /\ Cardinality(Places(P, s)) \in Nat
<1>1. Len(s) \in Nat /\ Places(P, s) \in SUBSET (1 .. Len(s))
  BY DEF Places
<1>2. IsFiniteSet(1 .. Len(s))
  BY <1>1, FS_Interval
<1>3. IsFiniteSet(Places(P, s))
  BY <1>1, <1>2, FS_Subset
<1> QED
  BY <1>3, FS_CardinalityType

\* Posting counts one more if what is posted counts,
LEMMA PlacesAppend ==
  ASSUME NEW M, NEW s \in Seq(M), NEW P, NEW m \in M
  PROVE  Cardinality(Places(P, Append(s, m))) =
           Cardinality(Places(P, s)) + IF m \in P THEN 1 ELSE 0
<1> DEFINE e == Len(s) + 1
<1>1. Places(P, Append(s, m)) = Places(P, s) \cup (IF m \in P THEN {e} ELSE {})
  BY DEF Places
<1>2. e \notin Places(P, s)
  BY DEF Places
<1>3. IsFiniteSet(Places(P, s)) /\ Cardinality(Places(P, s)) \in Nat
  BY PlacesFinite
<1>4. CASE m \in P
  <2>1. Cardinality(Places(P, s) \cup {e}) = Cardinality(Places(P, s)) + 1
    BY <1>2, <1>3, FS_AddElement
  <2>2. Places(P, Append(s, m)) = Places(P, s) \cup {e}
    BY <1>1, <1>4
  <2>3. Cardinality(Places(P, Append(s, m))) = Cardinality(Places(P, s) \cup {e})
    BY <2>2, Zenon
  <2> QED
    BY <1>4, <2>1, <2>3
<1>5. CASE m \notin P
  <2>1. Places(P, Append(s, m)) = Places(P, s)
    BY <1>1, <1>5
  <2>2. Cardinality(Places(P, Append(s, m))) = Cardinality(Places(P, s))
    BY <2>1, Zenon
  <2> QED
    BY <1>3, <1>5, <2>2
<1> QED
  BY <1>4, <1>5

\* and fetching one less if what is fetched did.
LEMMA PlacesTail ==
  ASSUME NEW M, NEW s \in Seq(M), NEW P, s # << >>
  PROVE  Cardinality(Places(P, s)) =
           Cardinality(Places(P, Tail(s))) + IF Head(s) \in P THEN 1 ELSE 0
<1> DEFINE T == Places(P, Tail(s))
           R == Places(P, s) \ {1}
           shift == [k \in T |-> k + 1]
<1>1. /\ \A k \in DOMAIN Tail(s) : k \in Nat /\ Tail(s)[k] = s[k + 1] /\ k + 1 \in DOMAIN s
      /\ \A k \in DOMAIN s : k \in Nat \ {0}
      /\ \A k \in DOMAIN s : k # 1 => /\ k - 1 \in DOMAIN Tail(s)
                                      /\ Tail(s)[k - 1] = s[k]
      /\ 1 \in DOMAIN s /\ s[1] = Head(s) /\ Tail(s) \in Seq(M)
  OBVIOUS
<1>2. shift \in Bijection(T, R)
  <2>1. \A k \in T : k \in Nat /\ k + 1 \in R
    <3>1. \A k \in T : k \in Nat \ {0} /\ k + 1 \in DOMAIN s /\ s[k + 1] \in P
      <4>1. \A k \in DOMAIN Tail(s) : k \in Nat \ {0}
        OBVIOUS
      <4> QED
        BY <1>1, <4>1 DEF Places
    <3> QED
      BY <3>1 DEF Places
  <2>2. shift \in Injection(T, R)
    BY <2>1 DEF Injection, IsInjective
  <2>3. \A r \in R : \E k \in T : shift[k] = r
    <3> SUFFICES ASSUME NEW r \in R PROVE \E k \in T : shift[k] = r
      OBVIOUS
    <3>1. r \in Nat /\ r - 1 \in T
      BY <1>1 DEF Places
    <3>2. shift[r - 1] = r
      BY <3>1
    <3> QED
      BY <3>1, <3>2
  <2> QED
    BY <2>2, <2>3 DEF Bijection, Surjection, Injection
<1>3. IsFiniteSet(T) /\ Cardinality(T) \in Nat
  BY <1>1, PlacesFinite
<1>4. Cardinality(R) = Cardinality(T)
  <2> HIDE DEF T, R, shift
  <2> QED
    BY <1>2, <1>3, FS_Bijection DEF ExistsBijection
<1>5. IsFiniteSet(Places(P, s)) /\ Cardinality(Places(P, s)) \in Nat
  BY PlacesFinite
<1>6. Cardinality(R) = IF 1 \in Places(P, s) THEN Cardinality(Places(P, s)) - 1
                       ELSE Cardinality(Places(P, s))
  BY <1>5, FS_RemoveElement
<1>7. 1 \in Places(P, s) <=> Head(s) \in P
  BY <1>1 DEF Places
<1> HIDE DEF T, R
<1>8. Cardinality(Places(P, s)) = Cardinality(T) + IF Head(s) \in P THEN 1 ELSE 0
  BY <1>3, <1>4, <1>5, <1>6, <1>7
<1> QED
  BY <1>8 DEF T

\* Holders of nothing hold nothing.
LEMMA HeldZero ==
  ASSUME NEW S, NEW w, \A i \in S : w[i] = 0
  PROVE  Held(S, w) = 0
<1>1. Elements(S, w) = {}
  BY DEF Elements
<1>2. Cardinality({}) = 0
  BY FS_EmptySet
<1> QED
  BY <1>1, <1>2, Zenon DEF Held
================================================================================
