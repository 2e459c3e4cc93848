--------------------------- MODULE DiagramProofs ---------------------------
(***************************************************************************)
(* Machine-checked theorems about diagrams: first what the exported image  *)
(* shows (ImageInv), then what the editor keeps (Good, EditorInv).         *)
(***************************************************************************)
EXTENDS DiagramEditor, DiagramImage, FiniteSetTheorems, SequenceTheorems,
        WellFoundedInduction, TLAPS

Plus(e, d, x) == d + x
AndIfUsed(e, cs, c) == IF c.rows > 0 THEN Append(cs, c) ELSE cs
Adding == INSTANCE FoldFacts WITH Op <- Plus
Using == INSTANCE FoldFacts WITH Op <- AndIfUsed

-----------------------------------------------------------------------------
(* Sets of numbers. *)

(* A finite set of numbers has a largest and a smallest, which Max and Min *)
(* are.                                                                    *)
LEMMA Extremes ==
  ASSUME NEW S \in SUBSET Int, IsFiniteSet(S), S # {}
  PROVE  /\ \E m \in S : \A x \in S : x <= m
         /\ \E m \in S : \A x \in S : m <= x
<1> DEFINE n == Cardinality(S)
<1>1. n \in Nat /\ ExistsBijection(1..n, S)
  BY FS_CardinalityType
<1>2. PICK b \in Bijection(1..n, S) : TRUE
  BY <1>1 DEF ExistsBijection
<1>3. /\ \A j \in 1..n : b[j] \in Int /\ b[j] \in S
      /\ \A x \in S : \E j \in 1..n : b[j] = x
  BY <1>2 DEF Bijection, Injection, Surjection
<1> HIDE DEF n
<1>4. n > 0
  <2>1. PICK x \in S : TRUE
    OBVIOUS
  <2>2. PICK j \in 1..n : b[j] = x
    BY <1>3, <2>1
  <2> QED
    BY <2>2, <1>1
<1> DEFINE T == {k \in 0..n : k > 0 => /\ \E m \in 1..k : \A j \in 1..k : b[j] <= b[m]
                                       /\ \E m \in 1..k : \A j \in 1..k : b[m] <= b[j]}
<1>5. 0 \in T
  BY <1>1
<1>6. ASSUME NEW k \in 0..n, k \in T, k < n PROVE k + 1 \in T
  <2>0. k + 1 \in 0..n /\ \A j \in 1..(k + 1) : j \in 1..k \/ j = k + 1
    BY <1>6, <1>1
  <2>1. CASE k = 0
    BY <2>0, <2>1, <1>3
  <2>2. CASE k > 0
    <3>1. PICK m \in 1..k : \A j \in 1..k : b[j] <= b[m]
      BY <1>6, <2>2
    <3>2. PICK l \in 1..k : \A j \in 1..k : b[l] <= b[j]
      BY <1>6, <2>2
    <3>3. /\ m \in 1..(k + 1) /\ l \in 1..(k + 1) /\ k + 1 \in 1..(k + 1)
          /\ b[m] \in Int /\ b[l] \in Int /\ b[k + 1] \in Int
          /\ \A j \in 1..(k + 1) : b[j] \in Int
      BY <1>3, <1>6, <1>1
    <3>4. \E i \in 1..(k + 1) : \A j \in 1..(k + 1) : b[j] <= b[i]
      <4>1. CASE b[k + 1] <= b[m]
        <5>1. \A j \in 1..(k + 1) : b[j] <= b[m]
          BY <4>1, <3>1, <2>0
        <5> QED
          BY <5>1, <3>3
      <4>2. CASE ~(b[k + 1] <= b[m])
        <5>1. \A j \in 1..k : b[j] \in Int /\ b[j] <= b[m]
          BY <3>1, <3>3, <2>0
        <5>2. b[k + 1] <= b[k + 1] /\ \A j \in 1..k : b[j] <= b[k + 1]
          BY <4>2, <5>1, <3>3
        <5>3. \A j \in 1..(k + 1) : b[j] <= b[k + 1]
          BY <5>2, <2>0
        <5> QED
          BY <5>3, <3>3
      <4> QED
        BY <4>1, <4>2
    <3>5. \E i \in 1..(k + 1) : \A j \in 1..(k + 1) : b[i] <= b[j]
      <4>1. CASE b[l] <= b[k + 1]
        <5>1. \A j \in 1..(k + 1) : b[l] <= b[j]
          BY <4>1, <3>2, <2>0
        <5> QED
          BY <5>1, <3>3
      <4>2. CASE ~(b[l] <= b[k + 1])
        <5>1. \A j \in 1..k : b[j] \in Int /\ b[l] <= b[j]
          BY <3>2, <3>3, <2>0
        <5>2. b[k + 1] <= b[k + 1] /\ \A j \in 1..k : b[k + 1] <= b[j]
          BY <4>2, <5>1, <3>3
        <5>3. \A j \in 1..(k + 1) : b[k + 1] <= b[j]
          BY <5>2, <2>0
        <5> QED
          BY <5>3, <3>3
      <4> QED
        BY <4>1, <4>2
    <3> QED
      BY <3>4, <3>5, <2>0
  <2> QED
    BY <2>1, <2>2
<1>7. 0..n \subseteq T
  <2> HIDE DEF T
  <2> QED BY <1>1, <1>5, <1>6, Adding!UpTo
<1>8. n \in T
  <2> HIDE DEF T
  <2> QED BY <1>7, <1>1
<1>9. PICK h \in 1..n : \A j \in 1..n : b[j] <= b[h]
  BY <1>8, <1>4
<1>10. PICK l \in 1..n : \A j \in 1..n : b[l] <= b[j]
  BY <1>8, <1>4
<1>11. \E m \in S : \A x \in S : x <= m
  BY <1>3, <1>9
<1>12. \E m \in S : \A x \in S : m <= x
  BY <1>3, <1>10
<1> QED
  BY <1>11, <1>12

LEMMA MaxMin ==
  ASSUME NEW S \in SUBSET Int, IsFiniteSet(S), S # {}
  PROVE  /\ Max(S) \in S /\ \A x \in S : x <= Max(S)
         /\ Min(S) \in S /\ \A x \in S : Min(S) <= x
<1>1. \E m \in S : \A x \in S : m >= x
  BY Extremes
<1>2. \E m \in S : \A x \in S : m =< x
  BY Extremes
<1>3. Max(S) \in S /\ \A x \in S : Max(S) >= x
  BY <1>1 DEF Max
<1>4. Min(S) \in S /\ \A x \in S : Min(S) =< x
  BY <1>2 DEF Min
<1> QED
  BY <1>3, <1>4

LEMMA FewFinite ==
  ASSUME NEW S, NEW a, NEW b, NEW c, NEW d, \A x \in S : x \in {a, b, c, d}
  PROVE  IsFiniteSet(S)
<1>1. IsFiniteSet({d})
  BY FS_Singleton
<1>2. IsFiniteSet({d} \cup {c})
  BY <1>1, FS_AddElement
<1>3. IsFiniteSet(({d} \cup {c}) \cup {b})
  BY <1>2, FS_AddElement
<1>4. IsFiniteSet((({d} \cup {c}) \cup {b}) \cup {a})
  BY <1>3, FS_AddElement
<1>5. S \subseteq (({d} \cup {c}) \cup {b}) \cup {a}
  OBVIOUS
<1> QED
  BY <1>4, <1>5, FS_Subset

LEMMA BoundedFinite ==
  ASSUME NEW n \in Nat, NEW D \in SUBSET (1..n)
  PROVE  IsFiniteSet(D) /\ D \subseteq Nat
<1> DEFINE R == 1..n
<1>1. IsFiniteSet(R)
  BY FS_Interval
<1>2. D \subseteq R
  OBVIOUS
<1>3. D \subseteq Nat
  OBVIOUS
<1> HIDE DEF R
<1>4. IsFiniteSet(D)
  BY <1>1, <1>2, FS_Subset
<1> QED
  BY <1>3, <1>4

(* The image of a finite set under a function is finite. *)
LEMMA ImageFinite ==
  ASSUME NEW f, IsFiniteSet(DOMAIN f)
  PROVE  IsFiniteSet({f[x] : x \in DOMAIN f})
<1> DEFINE T == {f[x] : x \in DOMAIN f}
           g == [x \in DOMAIN f |-> f[x]]
<1>1. g \in Surjection(DOMAIN f, T)
  BY DEF Surjection
<1> QED
  BY <1>1, FS_Surjection

-----------------------------------------------------------------------------
(* Sums. *)

LEMMA TotalIs == ASSUME NEW s PROVE Total(s) = Adding!Fold(0, 0, s)
BY DEF Total, Adding!Fold, Plus, FoldLeft, MapThenFoldSet, Max,
       Adding!FoldLeft, Adding!MapThenFoldSet, Adding!Max

\* The sums of the first k numbers of s.
Sums(s, f) ==
  /\ f \in [0..Len(s) -> Nat] /\ f[0] = 0
  /\ \A k \in 1..Len(s) : f[k] = f[k - 1] + s[k]

LEMMA SumsExist ==
  ASSUME NEW s \in Seq(Nat)
  PROVE  \E f : Sums(s, f) /\ f[Len(s)] = Total(s)
<1>1. PICK f : Adding!Runs(0, 0, s, f)
  BY Adding!FoldRuns
<1>2. /\ f[0] = 0 /\ f[Len(s)] = Total(s)
      /\ \A k \in 1..Len(s) : f[k] = f[k - 1] + s[k]
  BY <1>1, TotalIs DEF Adding!Runs, Plus
<1>3. Len(s) \in Nat /\ \A k \in 1..Len(s) : s[k] \in Nat
  OBVIOUS
<1> DEFINE g == [k \in 0..Len(s) |-> f[k]]
           T == {k \in 0..Len(s) : f[k] \in Nat}
<1>4. 0 \in T
  BY <1>2, <1>3
<1>5. ASSUME NEW k \in 0..Len(s), k \in T, k < Len(s) PROVE k + 1 \in T
  BY <1>2, <1>3, <1>5
<1>6. 0..Len(s) \subseteq T
  <2> HIDE DEF T
  <2> QED BY <1>3, <1>4, <1>5, Adding!UpTo
<1>7. g \in [0..Len(s) -> Nat]
  BY <1>6
<1>8. g[0] = 0 /\ g[Len(s)] = Total(s) /\ \A k \in 1..Len(s) : g[k] = g[k - 1] + s[k]
  BY <1>2, <1>3
<1> QED
  BY <1>7, <1>8 DEF Sums

(* They grow, and the last of them is the total. *)
LEMMA SumsGrow ==
  ASSUME NEW s \in Seq(Nat), NEW f, Sums(s, f)
  PROVE  /\ \A k \in 0..Len(s), j \in 0..Len(s) : j <= k => f[j] <= f[k]
         /\ f[Len(s)] = Total(s)
<1>1. /\ Len(s) \in Nat /\ \A k \in 1..Len(s) : s[k] \in Nat
      /\ \A k \in 0..Len(s) : f[k] \in Nat
  <2>1. Len(s) \in Nat /\ \A k \in 1..Len(s) : s[k] \in Nat
    OBVIOUS
  <2>2. f \in [0..Len(s) -> Nat]
    BY DEF Sums
  <2> QED
    BY <2>1, <2>2
<1>2. ASSUME NEW j \in 0..Len(s) PROVE \A k \in 0..Len(s) : j <= k => f[j] <= f[k]
  <2> DEFINE T == {k \in 0..Len(s) : j <= k => f[j] <= f[k]}
  <2>1. 0 \in T
    BY <1>1
  <2>2. ASSUME NEW k \in 0..Len(s), k \in T, k < Len(s) PROVE k + 1 \in T
    <3>1. f[k + 1] = f[k] + s[k + 1] /\ f[k] \in Nat /\ s[k + 1] \in Nat /\ f[j] \in Nat
      BY <1>1, <2>2 DEF Sums
    <3> QED
      BY <3>1, <2>2, <1>1
  <2>3. 0..Len(s) \subseteq T
    <3> HIDE DEF T
    <3> QED BY <1>1, <2>1, <2>2, Adding!UpTo
  <2> QED
    BY <2>3
<1>3. f[Len(s)] = Total(s)
  <2>1. PICK g : Sums(s, g) /\ g[Len(s)] = Total(s)
    BY SumsExist
  <2> DEFINE T == {k \in 0..Len(s) : f[k] = g[k]}
  <2>2. 0 \in T
    BY <1>1, <2>1 DEF Sums
  <2>3. ASSUME NEW k \in 0..Len(s), k \in T, k < Len(s) PROVE k + 1 \in T
    BY <1>1, <2>1, <2>3 DEF Sums
  <2>4. 0..Len(s) \subseteq T
    <3> HIDE DEF T
    <3> QED BY <1>1, <2>2, <2>3, Adding!UpTo
  <2> QED
    BY <2>4, <2>1, <1>1
<1> QED
  BY <1>2, <1>3

-----------------------------------------------------------------------------
(* Boxes and tags. *)

(* A finite set of numbers can be listed in their order. *)
LEMMA InOrder ==
  ASSUME NEW S \in SUBSET Nat, IsFiniteSet(S)
  PROVE  \E s \in [1..Cardinality(S) -> S] :
           \A j, k \in DOMAIN s : j < k => s[j] < s[k]
<1> DEFINE n == Cardinality(S)
           Listed(U) == \E s \in [1..Cardinality(U) -> U] :
                          \A j, k \in DOMAIN s : j < k => s[j] < s[k]
           T == {k \in 0..n : \A U \in SUBSET S : Cardinality(U) = k => Listed(U)}
<1>0. n \in Nat /\ \A U \in SUBSET S : IsFiniteSet(U) /\ Cardinality(U) \in Nat
  BY FS_CardinalityType, FS_Subset
<1> HIDE DEF n
<1>1. 0 \in T
  <2>1. ASSUME NEW U \in SUBSET S, Cardinality(U) = 0 PROVE Listed(U)
    <3> DEFINE s == [j \in 1..0 |-> CHOOSE u \in U : TRUE]
    <3>1. s \in [1..Cardinality(U) -> U] /\ DOMAIN s = {}
      BY <2>1
    <3> QED
      BY <3>1
  <2> QED
    BY <2>1, <1>0
<1>2. ASSUME NEW k \in 0..n, k \in T, k < n PROVE k + 1 \in T
  <2>1. ASSUME NEW U \in SUBSET S, Cardinality(U) = k + 1 PROVE Listed(U)
    <3>1. U # {} /\ U \in SUBSET Int /\ IsFiniteSet(U)
      BY <2>1, <1>0, <1>2, FS_EmptySet
    <3>2. PICK m \in U : \A x \in U : x <= m
      BY <3>1, Extremes
    <3>3. U \ {m} \in SUBSET S /\ Cardinality(U \ {m}) = k
      BY <2>1, <3>1, <1>0, FS_RemoveElement
    <3>4. PICK s \in [1..k -> U \ {m}] : \A i, j \in DOMAIN s : i < j => s[i] < s[j]
      BY <3>3, <1>2
    <3> DEFINE t == [i \in 1..(k + 1) |-> IF i = k + 1 THEN m ELSE s[i]]
    <3>5. t \in [1..Cardinality(U) -> U]
      BY <2>1, <3>4
    <3>6. ASSUME NEW i \in 1..(k + 1), NEW j \in 1..(k + 1), i < j PROVE t[i] < t[j]
      <4>1. i \in 1..k /\ s[i] \in U \ {m} /\ t[i] = s[i]
        BY <3>6, <3>4
      <4>2. CASE j = k + 1
        <5>1. t[j] = m /\ s[i] <= m /\ s[i] # m /\ s[i] \in Int /\ m \in Int
          BY <4>1, <4>2, <3>2, <3>1
        <5> QED
          BY <4>1, <5>1
      <4>3. CASE j # k + 1
        BY <4>1, <4>3, <3>4, <3>6
      <4> QED
        BY <4>2, <4>3
    <3> QED
      BY <3>5, <3>6, <2>1
  <2> QED
    BY <2>1, <1>2, <1>0
<1>3. 0..n \subseteq T
  <2> HIDE DEF T
  <2> QED BY <1>0, <1>1, <1>2, Adding!UpTo
<1>4. n \in T
  <2> HIDE DEF T
  <2> QED BY <1>3, <1>0
<1> QED
  BY <1>4 DEF n

LEMMA ChipWNat ==
  ASSUME NEW v \in Nat
  PROVE  ChipW(v) \in Nat
<1>1. Digits(v) \in 1..4
  BY DEF Digits
<1>2. \A t \in Nat : Roundup(t) \in Nat
  BY DEF Roundup
<1>3. (5 + Digits(v)) * 64 \in Nat
  BY <1>1
<1> QED
  BY <1>2, <1>3 DEF ChipW

(* The tags of a node one after the other: the first k of them reach no     *)
(* further than all of them, and as far as the k-th is wide.                *)
LEMMA ChipsGrow ==
  ASSUME NEW nums \in Seq(Nat), NEW k \in 1..Len(nums)
  PROVE  /\ ChipsW(nums) \in Nat /\ ChipsW(SubSeq(nums, 1, k)) \in Nat
         /\ ChipW(nums[k]) <= ChipsW(SubSeq(nums, 1, k))
         /\ ChipsW(SubSeq(nums, 1, k)) <= ChipsW(nums)
<1> DEFINE Ws(s) == [j \in DOMAIN s |-> ChipW(s[j]) + (IF j > 1 THEN 40 ELSE 0)]
           n == Len(nums)
           t == SubSeq(nums, 1, k)
<1>1. n \in Nat /\ DOMAIN nums = 1..n /\ \A j \in 1..n : nums[j] \in Nat
  OBVIOUS
<1>2. t \in Seq(Nat) /\ Len(t) = k /\ \A j \in 1..k : t[j] = nums[j]
  OBVIOUS
<1> HIDE DEF t, n
<1>3. \A s \in Seq(Nat) : /\ Ws(s) \in Seq(Nat) /\ Len(Ws(s)) = Len(s)
                          /\ \A j \in 1..Len(s) : ChipW(s[j]) \in Nat
  <2>1. ASSUME NEW s \in Seq(Nat) PROVE \A j \in 1..Len(s) : s[j] \in Nat /\ ChipW(s[j]) \in Nat
    <3>1. \A j \in 1..Len(s) : s[j] \in Nat
      OBVIOUS
    <3> QED
      BY <3>1, ChipWNat
  <2>2. ASSUME NEW s \in Seq(Nat) PROVE Ws(s) \in Seq(Nat) /\ Len(Ws(s)) = Len(s)
    <3>1. \A j \in 1..Len(s) : ChipW(s[j]) + (IF j > 1 THEN 40 ELSE 0) \in Nat
      BY <2>1
    <3>2. DOMAIN s = 1..Len(s) /\ Len(s) \in Nat
      OBVIOUS
    <3> QED
      BY <3>1, <3>2, IsASeq
  <2> QED
    BY <2>1, <2>2
<1>4. PICK f : Sums(Ws(nums), f)
  BY <1>3, SumsExist
<1> DEFINE g == [j \in 0..k |-> f[j]]
<1>5. Sums(Ws(t), g)
  <2>1. f \in [0..n -> Nat] /\ f[0] = 0
        /\ \A j \in 1..n : f[j] = f[j - 1] + Ws(nums)[j]
    BY <1>4, <1>3 DEF Sums, n
  <2>2. \A j \in 1..k : Ws(t)[j] = Ws(nums)[j]
    BY <1>1, <1>2 DEF n
  <2>3. Len(Ws(t)) = k /\ k \in 1..n
    BY <1>2, <1>3 DEF n
  <2> HIDE DEF Ws, g
  <2>4. g \in [0..k -> Nat] /\ g[0] = 0
    BY <2>1, <2>3, <1>1 DEF g
  <2>5. ASSUME NEW j \in 1..k PROVE g[j] = g[j - 1] + Ws(t)[j]
    <3>1. j \in 1..n /\ j \in 0..k /\ j - 1 \in 0..k
      BY <2>3, <1>1
    <3>2. f[j] = f[j - 1] + Ws(t)[j]
      BY <3>1, <2>1, <2>2
    <3> QED
      BY <3>1, <3>2 DEF g
  <2> QED
    BY <2>3, <2>4, <2>5 DEF Sums
<1>6. f[n] = ChipsW(nums) /\ f[k] = ChipsW(t)
  <2>1. f[n] = Total(Ws(nums))
    BY <1>3, <1>4, SumsGrow DEF n
  <2>2. g[k] = Total(Ws(t))
    BY <1>2, <1>3, <1>5, SumsGrow
  <2> QED
    BY <2>1, <2>2, <1>1 DEF ChipsW, n
<1>7. f[k] <= f[n] /\ f[k] \in Nat /\ f[n] \in Nat /\ f[k - 1] \in Nat
  <2>1. k \in 0..n /\ n \in 0..n /\ k - 1 \in 0..n /\ k <= n
    BY <1>1 DEF n
  <2>2. Len(Ws(nums)) = n
    BY <1>3 DEF n
  <2>3. \A i \in 0..n, j \in 0..n : j <= i => f[j] <= f[i]
    BY <1>3, <1>4, <2>2, SumsGrow
  <2>4. f \in [0..n -> Nat]
    BY <1>4, <2>2 DEF Sums
  <2> QED
    BY <2>1, <2>3, <2>4
<1>8. f[k] = f[k - 1] + Ws(nums)[k] /\ Ws(nums)[k] \in Nat /\ Ws(nums)[k] >= ChipW(nums[k])
  <2>1. f[k] = f[k - 1] + Ws(nums)[k]
    BY <1>4, <1>3 DEF Sums
  <2>2. ChipW(nums[k]) \in Nat /\ k \in DOMAIN nums
    BY <1>1, ChipWNat DEF n
  <2> QED
    BY <2>1, <2>2
<1> QED
  <2> HIDE DEF Ws
  <2>1. ChipW(nums[k]) \in Nat
    BY <1>3
  <2> QED
    BY <1>6, <1>7, <1>8, <2>1 DEF t

-----------------------------------------------------------------------------
(* The invariant: what the stored diagram consists of. *)
StoredNode ==
  [x : Places, y : Places, label : Labels, detail : Details, kind : DOMAIN KindLen,
   tags : SUBSET DOMAIN vlans]

StoredLine ==
  [from : nodes, to : nodes, type : DOMAIN LegendLen, text : LinkTexts]

ImageInv ==
  /\ IsFiniteSet(nodes) /\ nodes \subseteq StoredNode
  /\ vlans \in [DOMAIN vlans -> Names] /\ DOMAIN vlans \subseteq VlanNums
  /\ lines \subseteq StoredLine

LEMMA ImageInvInductive ==
  /\ ImageInit => ImageInv
  /\ ImageInv /\ [ImageNext]_imageVars => ImageInv'
<1>1. ImageInit => ImageInv
  BY FS_EmptySet DEF ImageInit, ImageInv
<1>2. ASSUME ImageInv, StoreNode PROVE ImageInv'
  <2>1. PICK x \in Places, y \in Places, label \in Labels, detail \in Details,
             kind \in DOMAIN KindLen, tags \in {T \in SUBSET DOMAIN vlans : Cardinality(T) <= 6} :
          nodes' = nodes \cup {[x |-> x, y |-> y, label |-> label, detail |-> detail,
                                kind |-> kind, tags |-> tags]}
    BY <1>2 DEF StoreNode
  <2>2. IsFiniteSet(nodes')
    BY <1>2, <2>1, FS_AddElement DEF ImageInv
  <2>3. vlans' = vlans /\ lines' = lines /\ nodes \subseteq nodes'
    BY <1>2, <2>1 DEF StoreNode
  <2>4. \A l \in lines : l \in StoredLine'
    BY <1>2, <2>3 DEF ImageInv, StoredLine
  <2> QED
    BY <1>2, <2>1, <2>2, <2>3, <2>4 DEF ImageInv, StoredNode
<1>3. ASSUME ImageInv, StoreVlan PROVE ImageInv'
  <2>1. PICK v \in VlanNums \ DOMAIN vlans, name \in Names :
          vlans' = [w \in DOMAIN vlans \cup {v} |-> IF w = v THEN name ELSE vlans[w]]
    BY <1>3 DEF StoreVlan
  <2>2. nodes' = nodes /\ lines' = lines
    BY <1>3 DEF StoreVlan
  <2>3. DOMAIN vlans \subseteq DOMAIN vlans' /\ DOMAIN vlans' \subseteq VlanNums
        /\ vlans' \in [DOMAIN vlans' -> Names]
    BY <1>3, <2>1 DEF ImageInv
  <2>4. \A n \in nodes : n \in StoredNode'
    BY <1>3, <2>3 DEF ImageInv, StoredNode
  <2> QED
    BY <1>3, <2>2, <2>3, <2>4 DEF ImageInv, StoredLine
<1>4. ASSUME ImageInv, StoreLink PROVE ImageInv'
  <2>1. PICK a \in nodes, b \in nodes, t \in DOMAIN LegendLen, text \in LinkTexts :
          lines' = lines \cup {[from |-> a, to |-> b, type |-> t, text |-> text]}
    BY <1>4 DEF StoreLink
  <2>2. nodes' = nodes /\ vlans' = vlans
    BY <1>4 DEF StoreLink
  <2>3. lines' \subseteq StoredLine
    BY <1>4, <2>1 DEF ImageInv, StoredLine
  <2> QED
    BY <1>4, <2>2, <2>3 DEF ImageInv, StoredNode, StoredLine
<1>5. ASSUME ImageInv, UNCHANGED imageVars PROVE ImageInv'
  BY <1>5 DEF ImageInv, imageVars, StoredNode, StoredLine
<1> QED
  BY <1>1, <1>2, <1>3, <1>4, <1>5 DEF ImageNext

(* What the sizes are made of are whole numbers. *)
LEMMA ListedNumbers ==
  ASSUME ImageInv
  PROVE  /\ DOMAIN vlans \subseteq Nat /\ IsFiniteSet(DOMAIN vlans)
         /\ \A n \in nodes : /\ n.x \in Nat /\ n.y \in Nat /\ n.label \in Nat
                             /\ n.detail \in Nat /\ n.tags \subseteq DOMAIN vlans
                             /\ n.kind \in DOMAIN KindLen
<1> DEFINE D == DOMAIN vlans
           top == 4094
<1>1. top \in Nat /\ D \in SUBSET (1..top)
  BY ImageAssumption DEF ImageInv
<1>2. ASSUME NEW n \in nodes
      PROVE  /\ n.x \in Places /\ n.y \in Places /\ n.label \in Labels
             /\ n.detail \in Details /\ n.tags \subseteq D
             /\ n.kind \in DOMAIN KindLen
  BY DEF ImageInv, StoredNode
<1> HIDE DEF D, top
<1>3. IsFiniteSet(D) /\ D \subseteq Nat
  BY <1>1, BoundedFinite
<1>4. Places \subseteq Nat /\ Labels \subseteq Nat /\ Details \subseteq Nat
  BY ImageAssumption
<1>5. \A n \in nodes : /\ n.x \in Nat /\ n.y \in Nat /\ n.label \in Nat /\ n.detail \in Nat
                       /\ n.tags \subseteq D /\ n.kind \in DOMAIN KindLen
  BY <1>2, <1>4
<1> QED
  BY <1>3, <1>5 DEF D

-----------------------------------------------------------------------------
(* The boxes of nodes. *)

LEMMA ChipsAre ==
  ASSUME ImageInv, NEW n \in nodes
  PROVE  Chips(n) \in Seq(Nat) /\ (DOMAIN Chips(n) # {} => n.tags # {})
<1>1. n.tags \in SUBSET Nat /\ IsFiniteSet(n.tags)
  BY ListedNumbers, FS_Subset
<1>2. Chips(n) \in [1..Cardinality(n.tags) -> n.tags]
  BY <1>1, InOrder DEF Chips
<1>3. Cardinality(n.tags) \in Nat
  BY <1>1, FS_CardinalityType
<1> QED
  BY <1>1, <1>2, <1>3

LEMMA ChipsWNat ==
  ASSUME NEW nums \in Seq(Nat)
  PROVE  ChipsW(nums) \in Nat
<1>1. CASE Len(nums) = 0
  <2> DEFINE W == [k \in DOMAIN nums |-> ChipW(nums[k]) + (IF k > 1 THEN 40 ELSE 0)]
  <2>1. W \in Seq(Nat)
    BY <1>1
  <2> HIDE DEF W
  <2>2. PICK f : Sums(W, f) /\ f[Len(W)] = Total(W)
    BY <2>1, SumsExist
  <2> QED
    BY <2>1, <2>2 DEF Sums, ChipsW, W
<1>2. CASE Len(nums) # 0
  BY <1>2, ChipsGrow
<1> QED
  BY <1>1, <1>2

(* A box is a whole number wide and high, and its tags fit into it. *)
LEMMA BoxHolds ==
  ASSUME ImageInv, NEW n \in nodes
  PROVE  /\ NodeWidth(n) \in Nat /\ NodeHeight(n) \in Nat /\ BaseHeight(n) \in Nat
         /\ n.tags # {} => /\ ChipsW(Chips(n)) + 240 <= NodeWidth(n)
                           /\ NodeHeight(n) = BaseHeight(n) + 200
         /\ BaseHeight(n) >= 560
<1> DEFINE a == n.label * 80 + 320
           b == IF n.detail > 0 THEN n.detail * 64 + 320 ELSE 0
           c == IF n.tags # {} THEN ChipsW(Chips(n)) + 240 ELSE 0
           m == 1400
           S == {m, a, b, c}
<1>1. a \in Nat /\ b \in Nat
  BY ListedNumbers
<1>2. c \in Nat
  BY ChipsAre, ChipsWNat
<1> HIDE DEF a, b, c
<1>3. S \in SUBSET Int /\ S # {} /\ \A x \in S : x \in {m, a, b, c}
  BY <1>1, <1>2
<1>30. IsFiniteSet(S)
  <2> HIDE DEF S, m
  <2> QED BY <1>3, FewFinite
<1>4. NodeWidth(n) = Max(S)
  BY DEF NodeWidth, a, b, c
<1>5. Max(S) \in S /\ c <= Max(S)
  <2>1. c \in S
    OBVIOUS
  <2> HIDE DEF S
  <2> QED BY <2>1, <1>3, <1>30, MaxMin
<1>6. NodeWidth(n) \in Nat /\ c <= NodeWidth(n)
  BY <1>1, <1>2, <1>4, <1>5
<1>7. BaseHeight(n) \in Nat /\ BaseHeight(n) >= 560
  BY ListedNumbers DEF BaseHeight
<1> QED
  BY <1>6, <1>7 DEF NodeHeight, c

-----------------------------------------------------------------------------
(* The legend. *)

LEMMA LargestNat ==
  ASSUME NEW f, IsFiniteSet(DOMAIN f), \A x \in DOMAIN f : f[x] \in Nat
  PROVE  Largest({f[x] : x \in DOMAIN f}) \in Nat
<1> DEFINE S == {f[x] : x \in DOMAIN f}
<1>1. IsFiniteSet(S) /\ S \subseteq Nat
  BY ImageFinite
<1>2. CASE S = {}
  BY <1>2 DEF Largest
<1>3. CASE S # {}
  <2> HIDE DEF S
  <2>1. S \in SUBSET Int
    BY <1>1
  <2>2. Max(S) \in Nat
    BY <2>1, <1>1, <1>3, MaxMin
  <2>3. Largest(S) \in Nat
    BY <2>2, <1>3 DEF Largest
  <2> QED
    BY <2>3 DEF S
<1> QED
  BY <1>2, <1>3

ColumnSet == [pre : Nat, text : Nat, rows : Nat]

LEMMA TypesKnown == ImageInv => TypesUsed \subseteq DOMAIN LegendLen
BY DEF ImageInv, StoredLine, TypesUsed

LEMMA ColumnsAre ==
  ASSUME ImageInv
  PROVE  Columns \in Seq(ColumnSet)
<1>1. IsFiniteSet(TypesUsed) /\ IsFiniteSet(KindsUsed) /\ KindsUsed \subseteq DOMAIN KindLen
  <2>1. IsFiniteSet(TypesUsed)
    BY TypesKnown, ImageAssumption, FS_Subset
  <2>2. KindsUsed \subseteq DOMAIN KindLen
    BY ListedNumbers DEF KindsUsed
  <2> QED
    BY <2>1, <2>2, ImageAssumption, FS_Subset
<1>2. Largest({TextW(LegendLen[t]) : t \in TypesUsed}) \in Nat
  <2> DEFINE f == [t \in TypesUsed |-> TextW(LegendLen[t])]
  <2>1. \A t \in DOMAIN f : f[t] \in Nat
    BY TypesKnown, ImageAssumption DEF TextW
  <2>2. {f[t] : t \in DOMAIN f} = {TextW(LegendLen[t]) : t \in TypesUsed}
    OBVIOUS
  <2>3. IsFiniteSet(DOMAIN f)
    BY <1>1
  <2> HIDE DEF f
  <2> QED
    BY <2>1, <2>2, <2>3, LargestNat
<1>3. Largest({TextW(KindLen[k]) : k \in KindsUsed}) \in Nat
  <2> DEFINE f == [k \in KindsUsed |-> TextW(KindLen[k])]
  <2>1. \A k \in DOMAIN f : f[k] \in Nat
    BY <1>1, ImageAssumption DEF TextW
  <2>2. {f[k] : k \in DOMAIN f} = {TextW(KindLen[k]) : k \in KindsUsed}
    OBVIOUS
  <2>3. IsFiniteSet(DOMAIN f)
    BY <1>1
  <2> HIDE DEF f
  <2> QED
    BY <2>1, <2>2, <2>3, LargestNat
<1>4. Largest({TextW(vlans[v]) : v \in DOMAIN vlans}) \in Nat
  <2> DEFINE f == [v \in DOMAIN vlans |-> TextW(vlans[v])]
  <2>1. \A v \in DOMAIN f : f[v] \in Nat
    <3>1. Names \subseteq Nat
      BY ImageAssumption
    <3> QED
      BY <3>1 DEF ImageInv, TextW
  <2>2. {f[v] : v \in DOMAIN f} = {TextW(vlans[v]) : v \in DOMAIN vlans}
    OBVIOUS
  <2>3. IsFiniteSet(DOMAIN f)
    BY ListedNumbers
  <2> HIDE DEF f
  <2> QED
    BY <2>1, <2>2, <2>3, LargestNat
<1>5. TagW \in Nat
  <2> DEFINE f == [v \in DOMAIN vlans |-> ChipW(v)]
  <2>1. \A v \in DOMAIN f : f[v] \in Nat
    BY ListedNumbers, ChipWNat
  <2>2. {f[v] : v \in DOMAIN f} = {ChipW(v) : v \in DOMAIN vlans}
    OBVIOUS
  <2>3. IsFiniteSet(DOMAIN f)
    BY ListedNumbers
  <2> HIDE DEF f
  <2> QED
    BY <2>1, <2>2, <2>3, LargestNat DEF TagW
<1>6. Cardinality(TypesUsed) \in Nat /\ Cardinality(KindsUsed) \in Nat
      /\ Cardinality(DOMAIN vlans) \in Nat
  BY <1>1, ListedNumbers, FS_CardinalityType
<1>7. AllColumns \in Seq(ColumnSet)
  <2>1. \A pre, rows \in Nat : \A texts : Largest(texts) \in Nat => Column(pre, texts, rows) \in ColumnSet
    BY DEF Column, ColumnSet
  <2>2. Column(460, {TextW(LegendLen[t]) : t \in TypesUsed}, Cardinality(TypesUsed)) \in ColumnSet
    BY <2>1, <1>2, <1>6
  <2>3. Column(TagW + 100, {TextW(vlans[v]) : v \in DOMAIN vlans}, Cardinality(DOMAIN vlans))
          \in ColumnSet
    <3>1. TagW + 100 \in Nat
      BY <1>5
    <3> QED
      BY <3>1, <2>1, <1>4, <1>6
  <2>4. Column(240, {TextW(KindLen[k]) : k \in KindsUsed}, Cardinality(KindsUsed)) \in ColumnSet
    BY <2>1, <1>3, <1>6
  <2> QED
    BY <2>2, <2>3, <2>4 DEF AllColumns
<1>8. Columns = Using!Fold(0, <<>>, AllColumns)
  BY DEF Columns, Using!Fold, AndIfUsed, FoldLeft, MapThenFoldSet, Max,
         Using!FoldLeft, Using!MapThenFoldSet, Using!Max
<1>9. \A cs \in Seq(ColumnSet), k \in 1..Len(AllColumns) :
        AndIfUsed(0, cs, AllColumns[k]) \in Seq(ColumnSet)
  BY <1>7 DEF AndIfUsed
<1>10. <<>> \in Seq(ColumnSet)
  OBVIOUS
<1> QED
  BY <1>7, <1>8, <1>9, <1>10, Using!FoldKeeps

(* Where the columns are: the first k of them end where the (k+1)-th begins, *)
(* less the space between, and the last ends in the legend.                  *)
ColumnLeft(k) == Total([j \in 1..(k - 1) |-> ColumnW(Columns[j]) + 360])

LEMMA ColumnsInRow ==
  ASSUME ImageInv
  PROVE  /\ \A k \in DOMAIN Columns :
              /\ ColumnLeft(k) \in Nat /\ ColumnW(Columns[k]) \in Nat
              /\ 400 + ColumnLeft(k) + ColumnW(Columns[k]) <= LegendW
         /\ \A j, k \in DOMAIN Columns :
              j < k => ColumnLeft(j) + ColumnW(Columns[j]) + 360 <= ColumnLeft(k)
         /\ LegendW \in Nat
<1> DEFINE n == Len(Columns)
           W == [k \in DOMAIN Columns |-> ColumnW(Columns[k])]
           Wider(k) == [j \in 1..(k - 1) |-> ColumnW(Columns[j]) + 360]
<1>1. n \in Nat /\ DOMAIN Columns = 1..n /\ \A k \in 1..n : ColumnW(Columns[k]) \in Nat
  <2>1. n \in Nat /\ DOMAIN Columns = 1..n /\ \A k \in 1..n : Columns[k] \in ColumnSet
    BY ColumnsAre
  <2> QED
    BY <2>1 DEF ColumnSet, ColumnW
<1>2. W \in Seq(Nat) /\ Len(W) = n /\ \A k \in 1..n : W[k] = ColumnW(Columns[k])
  BY <1>1
<1>3. PICK f : Sums(W, f)
  BY <1>2, SumsExist
<1>4. /\ f[0] = 0 /\ f[n] = Total(W)
      /\ \A k \in 1..n : f[k] = f[k - 1] + ColumnW(Columns[k])
      /\ \A j, k \in 0..n : j <= k => f[j] <= f[k]
      /\ \A k \in 0..n : f[k] \in Nat
  BY <1>2, <1>3, SumsGrow DEF Sums
<1> HIDE DEF n
<1>5. ASSUME NEW k \in 1..n PROVE ColumnLeft(k) = f[k - 1] + 360 * (k - 1)
  <2> DEFINE t == Wider(k)
             g == [j \in 0..(k - 1) |-> f[j] + 360 * j]
  <2>1. /\ t \in Seq(Nat) /\ Len(t) = k - 1
        /\ \A j \in 1..(k - 1) : t[j] = ColumnW(Columns[j]) + 360
    BY <1>1
  <2>2. g \in [0..(k - 1) -> Nat] /\ g[0] = 0
    BY <1>1, <1>4
  <2>3. \A j \in 1..(k - 1) : g[j] = g[j - 1] + t[j]
    <3>1. ASSUME NEW j \in 1..(k - 1) PROVE g[j] = g[j - 1] + t[j]
      <4>1. /\ f[j] = f[j - 1] + ColumnW(Columns[j])
            /\ f[j] \in Nat /\ f[j - 1] \in Nat /\ ColumnW(Columns[j]) \in Nat
        BY <1>1, <1>4
      <4>2. g[j] = f[j] + 360 * j /\ g[j - 1] = f[j - 1] + 360 * (j - 1)
        OBVIOUS
      <4> HIDE DEF t, g
      <4>3. t[j] = ColumnW(Columns[j]) + 360
        BY <2>1
      <4> QED
        BY <4>1, <4>2, <4>3
    <3> QED
      BY <3>1
  <2>4. g[k - 1] = f[k - 1] + 360 * (k - 1)
    BY <1>1
  <2>5. Total(t) = ColumnLeft(k)
    BY DEF ColumnLeft
  <2> HIDE DEF t, g
  <2>6. Sums(t, g)
    BY <2>1, <2>2, <2>3 DEF Sums
  <2>7. g[Len(t)] = Total(t)
    BY <2>1, <2>6, SumsGrow
  <2> QED
    BY <2>1, <2>4, <2>5, <2>7
<1>6. LegendW = IF n = 0 THEN 0 ELSE 400 + 360 * (n - 1) + f[n]
  <2>1. Columns = <<>> <=> n = 0
    BY ColumnsAre DEF n
  <2> QED
    BY <2>1, <1>4 DEF LegendW, n
<1>7. ASSUME NEW k \in 1..n
      PROVE  /\ ColumnLeft(k) \in Nat /\ 400 + ColumnLeft(k) + ColumnW(Columns[k]) <= LegendW
  <2>1. /\ f[k - 1] \in Nat /\ f[n] \in Nat /\ f[k] <= f[n] /\ k <= n /\ n # 0 /\ n \in Nat
        /\ f[k] = f[k - 1] + ColumnW(Columns[k]) /\ ColumnW(Columns[k]) \in Nat
    BY <1>1, <1>4
  <2> QED
    BY <2>1, <1>5, <1>6
<1>8. ASSUME NEW j \in 1..n, NEW k \in 1..n, j < k
      PROVE  ColumnLeft(j) + ColumnW(Columns[j]) + 360 <= ColumnLeft(k)
  <2>1. /\ f[j - 1] \in Nat /\ f[j] \in Nat /\ f[k - 1] \in Nat /\ f[j] <= f[k - 1]
        /\ f[j] = f[j - 1] + ColumnW(Columns[j]) /\ ColumnW(Columns[j]) \in Nat
    BY <1>1, <1>4, <1>8
  <2> QED
    BY <2>1, <1>5, <1>8
<1>9. LegendW \in Nat
  BY <1>1, <1>4, <1>6
<1> QED
  BY <1>1, <1>7, <1>8, <1>9

LEMMA LegendHigh ==
  ASSUME ImageInv
  PROVE  /\ LegendH \in Nat
         /\ \A k \in DOMAIN Columns : /\ Columns[k].rows \in Nat
                                      /\ 360 + 240 * Columns[k].rows + 140 <= LegendH
<1> DEFINE f == [k \in DOMAIN Columns |-> Columns[k].rows]
           S == {Columns[k].rows : k \in DOMAIN Columns}
           n == Len(Columns)
<1>1. n \in Nat /\ DOMAIN Columns = 1..n /\ \A k \in 1..n : Columns[k].rows \in Nat
  <2>1. n \in Nat /\ DOMAIN Columns = 1..n /\ \A k \in 1..n : Columns[k] \in ColumnSet
    BY ColumnsAre
  <2> QED
    BY <2>1 DEF ColumnSet
<1>2. CASE Columns = <<>>
  BY <1>2 DEF LegendH
<1>3. CASE Columns # <<>>
  <2>1. n # 0
    BY <1>3, ColumnsAre
  <2>2. S \in SUBSET Int /\ S # {}
    BY <1>1, <2>1
  <2>3. IsFiniteSet(S)
    <3>1. S = {f[k] : k \in DOMAIN f}
      OBVIOUS
    <3>2. IsFiniteSet(DOMAIN f)
      BY <1>1, FS_Interval
    <3> HIDE DEF S, f
    <3> QED
      BY <3>1, <3>2, ImageFinite
  <2>4. Max(S) \in S /\ \A x \in S : x <= Max(S)
    <3> HIDE DEF S
    <3> QED BY <2>2, <2>3, MaxMin
  <2>5. LegendH = 360 + 240 * Max(S) + 140
    BY <1>3 DEF LegendH
  <2>6. \A k \in DOMAIN Columns : Columns[k].rows \in S
    OBVIOUS
  <2>7. Max(S) \in Nat
    BY <2>4, <1>1
  <2> HIDE DEF S
  <2> QED
    BY <1>1, <2>4, <2>5, <2>6, <2>7
<1> QED
  BY <1>2, <1>3

-----------------------------------------------------------------------------
(* The picture. *)

LEMMA Extents ==
  ASSUME ImageInv
  PROVE  /\ {LeftMost, TopMost, RightMost, LowMost} \subseteq Int
         /\ LeftMost <= RightMost /\ TopMost <= LowMost
         /\ \A n \in nodes : /\ LeftMost <= NodeRect(n)[1] /\ TopMost <= NodeRect(n)[2]
                             /\ NodeRect(n)[3] <= RightMost /\ NodeRect(n)[4] <= LowMost
<1>1. CASE nodes = {}
  BY <1>1 DEF LeftMost, TopMost, RightMost, LowMost
<1>2. CASE nodes # {}
  <2>1. ASSUME NEW n \in nodes
        PROVE  /\ NodeRect(n)[1] \in Int /\ NodeRect(n)[2] \in Int
               /\ NodeRect(n)[3] \in Int /\ NodeRect(n)[4] \in Int
               /\ NodeRect(n)[1] <= NodeRect(n)[3] /\ NodeRect(n)[2] <= NodeRect(n)[4]
    BY ListedNumbers, BoxHolds DEF NodeRect, Rect
  <2> DEFINE Edge(i) == {NodeRect(n)[i] : n \in nodes}
  <2>2. ASSUME NEW i \in 1..4
        PROVE  /\ Edge(i) \in SUBSET Int /\ IsFiniteSet(Edge(i)) /\ Edge(i) # {}
               /\ \A n \in nodes : NodeRect(n)[i] \in Edge(i)
    <3> DEFINE f == [n \in nodes |-> NodeRect(n)[i]]
    <3>1. IsFiniteSet({f[n] : n \in DOMAIN f})
      <4>1. IsFiniteSet(DOMAIN f)
        BY DEF ImageInv
      <4> HIDE DEF f
      <4> QED
        BY <4>1, ImageFinite
    <3>2. {f[n] : n \in DOMAIN f} = Edge(i)
      OBVIOUS
    <3>3. \A n \in nodes : NodeRect(n)[i] \in Int
      <4>1. i = 1 \/ i = 2 \/ i = 3 \/ i = 4
        OBVIOUS
      <4> QED
        BY <4>1, <2>1
    <3> QED
      BY <3>1, <3>2, <3>3, <1>2
  <2> HIDE DEF Edge
  <2>3. ASSUME NEW i \in 1..4
        PROVE  /\ Max(Edge(i)) \in Int /\ Min(Edge(i)) \in Int
               /\ \A n \in nodes : Min(Edge(i)) <= NodeRect(n)[i] /\ NodeRect(n)[i] <= Max(Edge(i))
    BY <2>2, MaxMin
  <2>4. /\ LeftMost = Min(Edge(1)) /\ TopMost = Min(Edge(2))
        /\ RightMost = Max(Edge(3)) /\ LowMost = Max(Edge(4))
    BY <1>2 DEF LeftMost, TopMost, RightMost, LowMost, Edge
  <2>5. /\ LeftMost \in Int /\ \A n \in nodes : LeftMost <= NodeRect(n)[1]
        /\ TopMost \in Int /\ \A n \in nodes : TopMost <= NodeRect(n)[2]
        /\ RightMost \in Int /\ \A n \in nodes : NodeRect(n)[3] <= RightMost
        /\ LowMost \in Int /\ \A n \in nodes : NodeRect(n)[4] <= LowMost
    <3>1. 1 \in 1..4 /\ 2 \in 1..4 /\ 3 \in 1..4 /\ 4 \in 1..4
      OBVIOUS
    <3> QED
      BY <3>1, <2>3, <2>4
  <2>6. PICK n \in nodes : TRUE
    BY <1>2
  <2>7. LeftMost <= RightMost /\ TopMost <= LowMost
    BY <2>1, <2>5, <2>6
  <2> QED
    BY <2>5, <2>7
<1> QED
  BY <1>1, <1>2

(* The view reaches 40 pixels beyond the boxes on every side, as far below *)
(* them as the legend needs, and as far right as the legend is wide.       *)
LEMMA ViewHolds ==
  ASSUME ImageInv
  PROVE  /\ View[1] = LeftMost - 400 /\ View[2] = TopMost - 840
         /\ View[3] \in Int /\ View[4] \in Int
         /\ RightMost + 400 <= View[3] /\ View[1] + LegendW + 800 <= View[3]
         /\ LowMost + 400 <= View[4]
         /\ LegendH > 0 => LowMost + LegendH + 300 <= View[4]
<1> DEFINE a == RightMost - LeftMost + 2 * Pad
           m == 3600
           b == LegendW + 2 * Pad
           S == {a, m, b}
<1>1. a \in Int /\ m \in Int /\ b \in Int
      /\ LeftMost \in Int /\ TopMost \in Int /\ RightMost \in Int /\ LowMost \in Int
      /\ LegendW \in Nat /\ LegendH \in Nat
  BY Extents, ColumnsInRow, LegendHigh DEF Pad
<1>2. View = <<LeftMost - Pad, TopMost - Pad - TitleH, LeftMost - Pad + Max(S),
               TopMost - Pad - TitleH
                 + (LowMost - TopMost + 2 * Pad + TitleH
                      + (IF nodes = {} THEN 400 ELSE 0)
                      + (IF LegendH > 0 THEN LegendH + 300 ELSE 0))>>
  BY DEF View, Rect
<1> HIDE DEF a, m, b
<1>3. S \in SUBSET Int /\ S # {} /\ \A x \in S : x \in {a, m, b, b}
  BY <1>1
<1>4. a \in S /\ b \in S
  OBVIOUS
<1> HIDE DEF S
<1>5. IsFiniteSet(S)
  BY <1>3, FewFinite
<1>6. Max(S) \in Int /\ a <= Max(S) /\ b <= Max(S)
  BY <1>3, <1>4, <1>5, MaxMin
<1> QED
  BY <1>1, <1>2, <1>6 DEF a, b, Pad, TitleH

LEMMA BoxesFit ==
  ASSUME ImageInv, NEW n \in nodes
  PROVE  /\ Inside(NodeRect(n), View)
         /\ \A k \in DOMAIN ChipRects(n) : Inside(ChipRects(n)[k], NodeRect(n))
         /\ Apart(NodeRect(n), TitleRect) /\ Apart(NodeRect(n), LegendRect)
<1>1. /\ n.x \in Nat /\ n.y \in Nat /\ NodeWidth(n) \in Nat /\ NodeHeight(n) \in Nat
      /\ BaseHeight(n) \in Nat
  BY ListedNumbers, BoxHolds
<1>2. NodeRect(n) = <<10 * n.x, 10 * n.y, 10 * n.x + NodeWidth(n), 10 * n.y + NodeHeight(n)>>
  BY DEF NodeRect, Rect
<1>3. Inside(NodeRect(n), View)
  BY <1>1, <1>2, Extents, ViewHolds DEF Inside
<1>4. ASSUME NEW k \in DOMAIN ChipRects(n) PROVE Inside(ChipRects(n)[k], NodeRect(n))
  <2> DEFINE nums == Chips(n)
             all == ChipsW(nums)
             here == ChipsW(SubSeq(nums, 1, k))
             left == 10 * n.x + (NodeWidth(n) - all) \div 2
  <2>1. k \in DOMAIN nums /\ nums \in Seq(Nat)
    BY ChipsAre DEF ChipRects
  <2>2. n.tags # {}
    BY <2>1, ChipsAre
  <2>3. /\ all \in Nat /\ here \in Nat /\ ChipW(nums[k]) \in Nat
        /\ ChipW(nums[k]) <= here /\ here <= all
    <3>1. k \in 1..Len(nums) /\ nums[k] \in Nat
      BY <2>1
    <3> HIDE DEF nums
    <3> QED
      BY <2>1, <3>1, ChipsGrow, ChipWNat
  <2>4. all + 240 <= NodeWidth(n) /\ NodeHeight(n) = BaseHeight(n) + 200 /\ BaseHeight(n) >= 560
    BY <2>2, BoxHolds
  <2>5. ChipRects(n)[k] = <<left + here - ChipW(nums[k]), 10 * n.y + BaseHeight(n) - 20,
                            left + here - ChipW(nums[k]) + ChipW(nums[k]),
                            10 * n.y + BaseHeight(n) - 20 + 160>>
    BY <2>1 DEF ChipRects, Rect
  <2> HIDE DEF nums, all, here
  <2>6. left \in Int /\ 10 * n.x <= left /\ left + all <= 10 * n.x + NodeWidth(n)
    BY <1>1, <2>3, <2>4
  <2> HIDE DEF left
  <2> QED
    BY <1>1, <1>2, <2>3, <2>4, <2>5, <2>6 DEF Inside
<1>5. TitleRect[4] = TopMost - 400
  BY ViewHolds, Extents DEF TitleRect, Rect, TitleH
<1>6. LegendRect[2] = LowMost + 300
  BY DEF LegendRect, Rect
<1>7. TopMost \in Int /\ LowMost \in Int /\ TopMost <= NodeRect(n)[2] /\ NodeRect(n)[4] <= LowMost
      /\ NodeRect(n)[2] \in Int /\ NodeRect(n)[4] \in Int
  BY <1>1, <1>2, Extents
<1> QED
  BY <1>3, <1>4, <1>5, <1>6, <1>7 DEF Apart

(* A link's text is in the middle between its boxes, and lies in the view if *)
(* it is moderate.                                                           *)
LEMMA TextFits ==
  ASSUME ImageInv, NEW l \in lines, Moderate(l)
  PROVE  Inside(LabelRect(l), View)
<1> DEFINE a == l.from
           b == l.to
           half == LabelW(l) \div 2
           mx == (Middle(a)[1] + Middle(b)[1]) \div 4
           my == (Middle(a)[2] + Middle(b)[2]) \div 4
<1>1. a \in nodes /\ b \in nodes /\ l.text \in Nat
  BY ImageAssumption DEF ImageInv, StoredLine
<1>2. LabelW(l) = 2 * half /\ half \in Nat
  BY <1>1 DEF LabelW
<1>3. LabelRect(l) = <<mx - half, my - 100, mx - half + LabelW(l), my - 100 + 200>>
  BY DEF LabelRect, Rect
<1>4. ASSUME NEW n \in nodes
      PROVE  /\ Middle(n) = <<20 * n.x + NodeWidth(n), 20 * n.y + NodeHeight(n)>>
             /\ n.x \in Nat /\ n.y \in Nat /\ NodeWidth(n) \in Nat /\ NodeHeight(n) \in Nat
             /\ NodeHeight(n) >= 560
             /\ LeftMost <= 10 * n.x /\ 10 * n.x + NodeWidth(n) <= RightMost
             /\ TopMost <= 10 * n.y /\ 10 * n.y + NodeHeight(n) <= LowMost
  BY ListedNumbers, BoxHolds, Extents DEF Middle, NodeRect, Rect, NodeHeight
<1>5. LeftMost \in Int /\ TopMost \in Int /\ RightMost \in Int /\ LowMost \in Int
  BY Extents
<1>6. 4 * half <= NodeWidth(a) + NodeWidth(b) + 1600
  BY <1>1, <1>2, <1>4 DEF Moderate, Pad
<1> HIDE DEF half, a, b
<1>7. /\ mx \in Int /\ LeftMost - 400 <= mx - half /\ mx + half <= RightMost + 400
  BY <1>1, <1>2, <1>4, <1>5, <1>6
<1>8. /\ my \in Int /\ TopMost - 840 <= my - 100 /\ my + 100 <= LowMost + 400
  BY <1>1, <1>4, <1>5
<1> HIDE DEF mx, my
<1> QED
  BY <1>2, <1>3, <1>5, <1>7, <1>8, ViewHolds DEF Inside

LEMMA LegendFits ==
  ASSUME ImageInv
  PROVE  /\ Columns # <<>> => Inside(LegendRect, View)
         /\ \A k \in DOMAIN Columns : Inside(ColumnRect(k), LegendRect)
         /\ Apart(LegendRect, TitleRect)
         /\ \A j, k \in DOMAIN Columns : j # k => Apart(ColumnRect(j), ColumnRect(k))
<1> DEFINE x == View[1] + 200
           y == LowMost + 300
<1>1. /\ LeftMost \in Int /\ TopMost \in Int /\ LowMost \in Int /\ TopMost <= LowMost
      /\ LegendW \in Nat /\ LegendH \in Nat /\ x \in Int /\ y \in Int
  BY Extents, ColumnsInRow, LegendHigh, ViewHolds
<1>2. LegendRect = <<x, y, x + LegendW, y + LegendH>>
  BY DEF LegendRect, Rect
<1>3. Columns # <<>> => Inside(LegendRect, View)
  <2>1. ASSUME Columns # <<>> PROVE LegendH > 0
    <3>1. 1 \in DOMAIN Columns
      BY <2>1, ColumnsAre
    <3> QED
      BY <3>1, LegendHigh
  <2>2. /\ View[1] \in Int /\ View[2] \in Int /\ View[3] \in Int /\ View[4] \in Int
        /\ View[2] = TopMost - 840 /\ View[1] + LegendW + 800 <= View[3]
        /\ LegendH > 0 => y + LegendH <= View[4]
    BY <1>1, ViewHolds
  <2>3. x >= View[1] /\ y >= View[2] /\ x + LegendW <= View[3]
    BY <2>2, <1>1
  <2> HIDE DEF x, y
  <2> QED
    BY <2>1, <2>2, <2>3, <1>2 DEF Inside
<1>4. ASSUME NEW k \in DOMAIN Columns
      PROVE  /\ ColumnRect(k) = <<x + 200 + ColumnLeft(k), y + 360,
                                  x + 200 + ColumnLeft(k) + ColumnW(Columns[k]),
                                  y + 360 + (240 * (Columns[k].rows - 1) + 120)>>
             /\ ColumnLeft(k) \in Nat /\ ColumnW(Columns[k]) \in Nat /\ Columns[k].rows \in Nat
             /\ Inside(ColumnRect(k), LegendRect)
  <2>1. ColumnRect(k) = <<x + 200 + ColumnLeft(k), y + 360,
                          x + 200 + ColumnLeft(k) + ColumnW(Columns[k]),
                          y + 360 + (240 * (Columns[k].rows - 1) + 120)>>
    BY <1>2 DEF ColumnRect, Rect, ColumnLeft
  <2>2. /\ ColumnLeft(k) \in Nat /\ ColumnW(Columns[k]) \in Nat
        /\ 400 + ColumnLeft(k) + ColumnW(Columns[k]) <= LegendW
    BY ColumnsInRow
  <2>3. Columns[k].rows \in Nat /\ 360 + 240 * Columns[k].rows + 140 <= LegendH
    BY LegendHigh
  <2> HIDE DEF x, y
  <2> QED
    BY <2>1, <2>2, <2>3, <1>1, <1>2 DEF Inside
<1>5. Apart(LegendRect, TitleRect)
  <2>1. TitleRect[4] = TopMost - 400
    BY ViewHolds, Extents DEF TitleRect, Rect, TitleH
  <2> QED
    BY <2>1, <1>1, <1>2 DEF Apart
<1>6. ASSUME NEW j \in DOMAIN Columns, NEW k \in DOMAIN Columns, j < k
      PROVE  Apart(ColumnRect(j), ColumnRect(k)) /\ Apart(ColumnRect(k), ColumnRect(j))
  <2>1. ColumnLeft(j) + ColumnW(Columns[j]) + 360 <= ColumnLeft(k)
    BY <1>6, ColumnsInRow
  <2> HIDE DEF x, y
  <2>2. ColumnRect(j)[3] <= ColumnRect(k)[1]
    BY <2>1, <1>1, <1>4
  <2> QED
    BY <2>2 DEF Apart
<1>7. \A j, k \in DOMAIN Columns : j # k => j < k \/ k < j
  BY ColumnsAre
<1> QED
  BY <1>3, <1>4, <1>5, <1>6, <1>7

-----------------------------------------------------------------------------
LEMMA ImageAlways == ImageSpec => []ImageInv
BY ImageInvInductive, PTL DEF ImageSpec

(* No box, key or moderate text of a link is cut off the exported picture, *)
(* whatever is drawn.                                                       *)
THEOREM ImageComplete == ImageSpec => []NothingCutOff
<1>1. ImageInv => ImageTypeOK
  BY DEF ImageInv, ImageTypeOK, StoredNode, StoredLine
<1>2. ImageInv => NothingCutOff
  BY <1>1, BoxesFit, LegendFits, TextFits DEF NothingCutOff, Labelled
<1> QED
  BY <1>2, ImageAlways, PTL

(* Nothing in it covers anything else. *)
THEOREM ImageClear == ImageSpec => []NothingCovered
<1>1. ImageInv => NothingCovered
  BY BoxesFit, LegendFits DEF NothingCovered
<1> QED
  BY <1>1, ImageAlways, PTL

-----------------------------------------------------------------------------
(* The editor: folds, and what they compute. *)

Filter(X, t, it) == IF it \in X THEN Append(t, it) ELSE t
Insert(e, s, num) == Inserted(s, num)
Filtering == INSTANCE FoldFacts WITH Op <- Filter
Inserting == INSTANCE FoldFacts WITH Op <- Insert

-----------------------------------------------------------------------------
(* Lists. *)

\* The first index of an item is the one SelectInSeq returns.
LEMMA LeastIndex ==
  ASSUME NEW n \in Nat, NEW I \in SUBSET (1..n)
  PROVE  LET m == IF I # {} THEN Min(I) ELSE 0
         IN  /\ I # {} => m \in I /\ \A k \in I : m <= k
             /\ I = {} => m = 0
<1>1. CASE I # {}
  <2>1. I \in SUBSET Nat
    OBVIOUS
  <2>2. \E m \in I : \A k \in I : m <= k
    BY <1>1, <2>1, Filtering!LeastNat
  <2> QED
    BY <1>1, <2>2 DEF Min
<1>2. CASE I = {}
  BY <1>2
<1> QED
  BY <1>1, <1>2

LEMMA ByIdIs ==
  ASSUME NEW S, NEW items \in Seq(S), UniqueIds(items), NEW k \in DOMAIN items
  PROVE  ById(items, items[k].id) = items[k]
<1> DEFINE I == {j \in 1..Len(items) : items[j].id = items[k].id}
<1>1. DOMAIN items = 1..Len(items) /\ Len(items) \in Nat
  OBVIOUS
<1>2. I = {k}
  BY <1>1 DEF UniqueIds, Unique
<1>3. Min(I) = k
  BY <1>2 DEF Min
<1>4. SelectInSeq(items, LAMBDA it : it.id = items[k].id) = k
  BY <1>2, <1>3 DEF SelectInSeq
<1> QED
  BY <1>4 DEF ById

-----------------------------------------------------------------------------
(* Those: what is left of a list. *)

Increasing(s) == \A j, k \in DOMAIN s : j < k => s[j] < s[k]

\* t is what X leaves of the first n items of s: h says where they were.
Leaves(s, X, n, t) ==
  \E h : /\ \A j \in 1..Len(t) : h[j] \in 1..n /\ t[j] = s[h[j]] /\ s[h[j]] \in X
         /\ \A i, j \in 1..Len(t) : i < j => h[i] < h[j]
         /\ \A k \in 1..n : s[k] \in X => \E j \in 1..Len(t) : h[j] = k

LEMMA LeavesNext ==
  ASSUME NEW S, NEW s \in Seq(S), NEW X, NEW n \in Nat, n < Len(s),
         NEW t \in Seq(S), Leaves(s, X, n, t), Len(t) <= n
  PROVE  LET u == Filter(X, t, s[n + 1])
         IN  u \in Seq(S) /\ Leaves(s, X, n + 1, u) /\ Len(u) <= n + 1
<1>0. s[n + 1] \in S /\ Len(t) \in Nat
  OBVIOUS
<1>1. PICK h : /\ \A j \in 1..Len(t) : h[j] \in 1..n /\ t[j] = s[h[j]] /\ s[h[j]] \in X
               /\ \A i, j \in 1..Len(t) : i < j => h[i] < h[j]
               /\ \A k \in 1..n : s[k] \in X => \E j \in 1..Len(t) : h[j] = k
  BY DEF Leaves
<1>2. CASE s[n + 1] \in X
  <2> DEFINE u == Append(t, s[n + 1])
             g == [j \in 1..Len(u) |-> IF j = Len(u) THEN n + 1 ELSE h[j]]
  <2>1. u \in Seq(S) /\ Len(u) = Len(t) + 1 /\ u[Len(u)] = s[n + 1]
        /\ \A j \in 1..Len(t) : u[j] = t[j]
    BY <1>0
  <2> HIDE DEF u
  <2>2. /\ \A j \in 1..Len(t) : g[j] = h[j]
        /\ g[Len(u)] = n + 1
    BY <1>0, <2>1
  <2> HIDE DEF g
  <2>3. \A j \in 1..Len(u) : g[j] \in 1..(n + 1) /\ u[j] = s[g[j]] /\ s[g[j]] \in X
    BY <1>0, <1>1, <1>2, <2>1, <2>2
  <2>4. \A i, j \in 1..Len(u) : i < j => g[i] < g[j]
    <3> SUFFICES ASSUME NEW i \in 1..Len(u), NEW j \in 1..Len(u), i < j
                 PROVE  g[i] < g[j]
      OBVIOUS
    <3>1. i \in 1..Len(t) /\ g[i] = h[i] /\ h[i] \in 1..n
      BY <1>0, <1>1, <2>1, <2>2
    <3>2. CASE j = Len(u)
      BY <2>2, <3>1, <3>2
    <3>3. CASE j # Len(u)
      <4>1. j \in 1..Len(t)
        BY <1>0, <2>1, <3>3
      <4> QED
        BY <4>1, <1>1, <2>2, <3>1
    <3> QED
      BY <3>2, <3>3
  <2>5. \A k \in 1..(n + 1) : s[k] \in X => \E j \in 1..Len(u) : g[j] = k
    <3> SUFFICES ASSUME NEW k \in 1..(n + 1), s[k] \in X
                 PROVE  \E j \in 1..Len(u) : g[j] = k
      OBVIOUS
    <3>1. CASE k = n + 1
      BY <1>0, <2>1, <2>2, <3>1
    <3>2. CASE k \in 1..n
      <4>1. PICK j \in 1..Len(t) : h[j] = k
        BY <1>1, <3>2
      <4> QED
        BY <1>0, <2>1, <2>2, <4>1
    <3> QED
      BY <3>1, <3>2
  <2>6. Leaves(s, X, n + 1, u)
    BY <2>3, <2>4, <2>5 DEF Leaves
  <2>7. u = Filter(X, t, s[n + 1])
    BY <1>2 DEF Filter, u
  <2> QED
    BY <2>1, <2>6, <2>7
<1>3. CASE s[n + 1] \notin X
  <2>1. \A j \in 1..Len(t) : h[j] \in 1..(n + 1)
    BY <1>1
  <2>2. \A k \in 1..(n + 1) : s[k] \in X => \E j \in 1..Len(t) : h[j] = k
    <3> SUFFICES ASSUME NEW k \in 1..(n + 1), s[k] \in X
                 PROVE  \E j \in 1..Len(t) : h[j] = k
      OBVIOUS
    <3>1. k \in 1..n
      BY <1>3
    <3> QED
      BY <3>1, <1>1
  <2>3. Leaves(s, X, n + 1, t)
    BY <1>1, <2>1, <2>2 DEF Leaves
  <2>4. t = Filter(X, t, s[n + 1])
    BY <1>3 DEF Filter
  <2> QED
    BY <2>3, <2>4, <1>0
<1> QED
  BY <1>2, <1>3

LEMMA ThoseLeaves ==
  ASSUME NEW S, NEW s \in Seq(S), NEW X
  PROVE  Those(s, X) \in Seq(S) /\ Leaves(s, X, Len(s), Those(s, X)) /\ Len(Those(s, X)) <= Len(s)
<1>1. Those(s, X) = Filtering!Fold(X, <<>>, s)
  BY DEF Those, Filtering!Fold, Filter, FoldLeft, MapThenFoldSet, Max,
         Filtering!FoldLeft, Filtering!MapThenFoldSet, Filtering!Max
<1>2. PICK f : Filtering!Runs(X, <<>>, s, f)
  BY Filtering!FoldRuns
<1>3. /\ f[0] = <<>>
      /\ \A k \in 1..Len(s) : f[k] = Filter(X, f[k - 1], s[k])
      /\ f[Len(s)] = Filtering!Fold(X, <<>>, s)
  BY <1>2 DEF Filtering!Runs
<1> DEFINE T == {k \in 0..Len(s) : f[k] \in Seq(S) /\ Leaves(s, X, k, f[k]) /\ Len(f[k]) <= k}
<1>4. 0 \in T
  <2>1. Leaves(s, X, 0, <<>>)
    BY DEF Leaves
  <2>2. <<>> \in Seq(S) /\ Len(<<>>) = 0 /\ Len(s) \in Nat
    OBVIOUS
  <2>3. 0 \in 0..Len(s)
    BY <2>2
  <2> QED
    <3>1. f[0] = <<>>
      BY <1>3
    <3>2. f[0] \in Seq(S) /\ Leaves(s, X, 0, f[0]) /\ Len(f[0]) <= 0
      BY <3>1, <2>1, <2>2
    <3> QED
      BY <3>2, <2>3
<1>5. ASSUME NEW k \in 0..Len(s), k \in T, k < Len(s) PROVE k + 1 \in T
  <2>1. f[k + 1] = Filter(X, f[k], s[k + 1])
    BY <1>3, <1>5
  <2>2. k \in Nat /\ k + 1 \in 0..Len(s)
    BY <1>5
  <2> QED
    BY <2>1, <2>2, <1>5, LeavesNext
<1>6. Len(s) \in T
  <2> HIDE DEF T
  <2>1. Len(s) \in Nat
    OBVIOUS
  <2>2. 0..Len(s) \subseteq T
    BY <1>4, <1>5, <2>1, Filtering!UpTo
  <2> QED
    BY <2>1, <2>2
<1> QED
  BY <1>1, <1>3, <1>6

\* The items of what is left are those of the list that are in X.
LEMMA ThoseItems ==
  ASSUME NEW S, NEW s \in Seq(S), NEW X
  PROVE  /\ Those(s, X) \in Seq(S) /\ Len(Those(s, X)) <= Len(s)
         /\ ToSet(Those(s, X)) = ToSet(s) \cap X
<1> DEFINE t == Those(s, X)
<1>1. t \in Seq(S) /\ Leaves(s, X, Len(s), t) /\ Len(t) <= Len(s)
  BY ThoseLeaves
<1> HIDE DEF t
<1>2. PICK h : /\ \A j \in 1..Len(t) : h[j] \in 1..Len(s) /\ t[j] = s[h[j]] /\ s[h[j]] \in X
               /\ \A k \in 1..Len(s) : s[k] \in X => \E j \in 1..Len(t) : h[j] = k
  BY <1>1 DEF Leaves
<1>3. DOMAIN s = 1..Len(s) /\ DOMAIN t = 1..Len(t)
  BY <1>1
<1>4. \A x \in ToSet(t) : x \in ToSet(s) \cap X
  BY <1>2, <1>3 DEF ToSet
<1>5. \A x \in ToSet(s) \cap X : x \in ToSet(t)
  <2> SUFFICES ASSUME NEW k \in 1..Len(s), s[k] \in X
               PROVE  s[k] \in ToSet(t)
    BY <1>3 DEF ToSet
  <2>1. PICK j \in 1..Len(t) : h[j] = k
    BY <1>2
  <2> QED
    BY <2>1, <1>2, <1>3 DEF ToSet
<1> QED
  BY <1>1, <1>4, <1>5 DEF t

\* What is left of an increasing list is increasing.
LEMMA ThoseIncreasing ==
  ASSUME NEW s \in Seq(Int), NEW X, Increasing(s)
  PROVE  Increasing(Those(s, X))
<1> DEFINE t == Those(s, X)
<1>1. t \in Seq(Int) /\ Leaves(s, X, Len(s), t)
  BY ThoseLeaves
<1> HIDE DEF t
<1>2. PICK h : /\ \A j \in 1..Len(t) : h[j] \in 1..Len(s) /\ t[j] = s[h[j]]
               /\ \A i, j \in 1..Len(t) : i < j => h[i] < h[j]
  BY <1>1 DEF Leaves
<1>3. \A i, j \in 1..Len(t) : i < j => t[i] < t[j]
  <2> SUFFICES ASSUME NEW i \in 1..Len(t), NEW j \in 1..Len(t), i < j
               PROVE  t[i] < t[j]
    OBVIOUS
  <2>1. h[i] \in DOMAIN s /\ h[j] \in DOMAIN s /\ h[i] < h[j]
    BY <1>2
  <2>2. s[h[i]] < s[h[j]]
    BY <2>1 DEF Increasing
  <2> QED
    BY <2>2, <1>2
<1>4. DOMAIN t = 1..Len(t)
  BY <1>1
<1> QED
  BY <1>3, <1>4 DEF Increasing, t

\* What is left of items that differ differs.
LEMMA ThoseUnique ==
  ASSUME NEW S, NEW s \in Seq(S), NEW X, NEW f,
         \A j, k \in DOMAIN s : s[j] \in X /\ f[s[j]] = f[s[k]] => j = k
  PROVE  \A j, k \in DOMAIN Those(s, X) : f[Those(s, X)[j]] = f[Those(s, X)[k]] => j = k
<1> DEFINE t == Those(s, X)
<1>1. t \in Seq(S) /\ Leaves(s, X, Len(s), t)
  BY ThoseLeaves
<1> HIDE DEF t
<1>2. PICK h : /\ \A j \in 1..Len(t) : h[j] \in 1..Len(s) /\ t[j] = s[h[j]] /\ s[h[j]] \in X
               /\ \A i, j \in 1..Len(t) : i < j => h[i] < h[j]
  BY <1>1 DEF Leaves
<1>3. DOMAIN t = 1..Len(t) /\ DOMAIN s = 1..Len(s) /\ Len(t) \in Nat
  BY <1>1
<1>4. ASSUME NEW j \in 1..Len(t), NEW k \in 1..Len(t), f[t[j]] = f[t[k]]
      PROVE  j = k
  <2>1. h[j] = h[k]
    BY <1>2, <1>3, <1>4
  <2> QED
    BY <2>1, <1>2, <1>3
<1>5. \A j, k \in DOMAIN t : f[t[j]] = f[t[k]] => j = k
  BY <1>3, <1>4
<1> QED
  BY <1>5 DEF t

-----------------------------------------------------------------------------
(* Sorted. *)

LEMMA InsertAtIs ==
  ASSUME NEW s \in Seq(Int), NEW x \in Int, NEW k \in 0..Len(s)
  PROVE  LET r == InsertAt(s, k + 1, x)
         IN  /\ r \in Seq(Int) /\ Len(r) = Len(s) + 1 /\ r[k + 1] = x
             /\ \A j \in 1..k : r[j] = s[j]
             /\ \A j \in (k + 1)..Len(s) : r[j + 1] = s[j]
<1> DEFINE a == SubSeq(s, 1, k)
           b == SubSeq(s, k + 1, Len(s))
           c == a \o <<x>>
           r == c \o b
<1>1. Len(s) \in Nat /\ k \in Nat /\ k <= Len(s)
  OBVIOUS
<1>2. a \in Seq(Int) /\ Len(a) = k /\ \A j \in 1..k : a[j] = s[j]
  BY <1>1
<1>3. b \in Seq(Int) /\ Len(b) = Len(s) - k /\ \A j \in 1..(Len(s) - k) : b[j] = s[k + j]
  BY <1>1
<1> HIDE DEF a, b
<1>4. /\ c \in Seq(Int) /\ Len(c) = k + 1 /\ c[k + 1] = x
      /\ \A j \in 1..k : c[j] = s[j]
  BY <1>1, <1>2
<1> HIDE DEF c
<1>5. /\ r \in Seq(Int) /\ Len(r) = Len(s) + 1
      /\ \A j \in 1..(k + 1) : r[j] = c[j]
      /\ \A j \in 1..(Len(s) - k) : r[k + 1 + j] = b[j]
  <2>1. c \in Seq(Int) /\ b \in Seq(Int) /\ Len(c) = k + 1 /\ Len(b) = Len(s) - k
    BY <1>3, <1>4
  <2>2. /\ r \in Seq(Int) /\ Len(r) = Len(c) + Len(b)
        /\ \A j \in 1..Len(c) : r[j] = c[j]
        /\ \A j \in 1..Len(b) : r[Len(c) + j] = b[j]
    <3>1. /\ r \in Seq(Int) /\ Len(r) = Len(c) + Len(b)
          /\ \A i \in 1..(Len(c) + Len(b)) :
               r[i] = IF i <= Len(c) THEN c[i] ELSE b[i - Len(c)]
      BY <2>1, ConcatProperties
    <3> HIDE DEF r
    <3>2. Len(c) \in Nat /\ Len(b) \in Nat
      BY <2>1
    <3>3. \A j \in 1..Len(c) : r[j] = c[j]
      BY <3>1, <3>2
    <3>4. ASSUME NEW j \in 1..Len(b) PROVE r[Len(c) + j] = b[j]
      <4>1. /\ Len(c) + j \in 1..(Len(c) + Len(b)) /\ ~(Len(c) + j <= Len(c))
            /\ Len(c) + j - Len(c) = j
        BY <3>2
      <4> QED
        BY <4>1, <3>1
    <3> QED
      BY <3>1, <3>3, <3>4
  <2>3. Len(c) + Len(b) = Len(s) + 1
    BY <1>1, <2>1
  <2> HIDE DEF r
  <2>4. \A j \in 1..(Len(s) - k) : r[k + 1 + j] = b[j]
    BY <2>1, <2>2
  <2> QED
    BY <2>1, <2>2, <2>3, <2>4
<1>6. r = InsertAt(s, k + 1, x)
  <2>1. (k + 1) - 1 = k
    BY <1>1
  <2> QED
    BY <2>1 DEF InsertAt, r, c, a, b
<1> HIDE DEF r
<1>7. \A j \in (k + 1)..Len(s) : r[j + 1] = s[j]
  <2> SUFFICES ASSUME NEW j \in (k + 1)..Len(s) PROVE r[j + 1] = s[j]
    OBVIOUS
  <2>1. j - k \in 1..(Len(s) - k) /\ k + 1 + (j - k) = j + 1 /\ k + (j - k) = j
    BY <1>1
  <2>2. r[k + 1 + (j - k)] = b[j - k] /\ b[j - k] = s[k + (j - k)]
    BY <2>1, <1>3, <1>5
  <2> QED
    BY <2>1, <2>2
<1>8. r[k + 1] = x /\ \A j \in 1..k : r[j] = s[j]
  <2>1. \A j \in 1..(k + 1) : r[j] = c[j]
    BY <1>5
  <2> QED
    BY <1>1, <1>4, <2>1
<1> QED
  BY <1>5, <1>6, <1>7, <1>8

\* Where a number belongs in an increasing list.
LEMMA PlaceExists ==
  ASSUME NEW s \in Seq(Int), NEW x \in Int, Increasing(s)
  PROVE  \E k \in 0..Len(s) : /\ \A j \in 1..k : s[j] <= x
                              /\ \A j \in (k + 1)..Len(s) : x < s[j]
<1> DEFINE T == {k \in 0..Len(s) : \A j \in (k + 1)..Len(s) : x < s[j]}
<1>1. Len(s) \in Nat /\ DOMAIN s = 1..Len(s) /\ \A j \in 1..Len(s) : s[j] \in Int
  OBVIOUS
<1>2. Len(s) \in T /\ T \in SUBSET Nat
  BY <1>1
<1>3. PICK m \in T : \A k \in T : m <= k
  <2> HIDE DEF T
  <2> QED
    BY <1>2, Inserting!LeastNat
<1>4. ASSUME NEW j \in 1..m PROVE s[j] <= x
  <2>1. m \in 1..Len(s) /\ m - 1 \in 0..Len(s) /\ m - 1 \notin T
    <3>1. m \in 0..Len(s) /\ m >= 1
      BY <1>1, <1>3
    <3>2. ~(m <= m - 1)
      BY <3>1
    <3>3. m - 1 \notin T
      BY <1>3, <3>2
    <3> QED
      BY <3>1, <3>3, <1>1
  <2>2. PICK i \in m..Len(s) : ~(x < s[i])
    BY <1>1, <2>1
  <2>3. i = m
    BY <1>1, <1>3, <2>1, <2>2
  <2>4. s[m] <= x
    BY <1>1, <2>1, <2>2, <2>3
  <2>5. CASE j = m
    BY <2>4, <2>5
  <2>6. CASE j < m
    <3>1. j \in DOMAIN s /\ m \in DOMAIN s
      BY <1>1, <2>1, <2>6
    <3>2. s[j] < s[m] /\ s[j] \in Int /\ s[m] \in Int
      BY <1>1, <2>6, <3>1 DEF Increasing
    <3> QED
      BY <3>2, <2>4
  <2> QED
    BY <2>1, <2>5, <2>6
<1> QED
  BY <1>3, <1>4

LEMMA InsertedIs ==
  ASSUME NEW s \in Seq(Int), NEW x \in Int, Increasing(s)
  PROVE  \E k \in 0..Len(s) :
           /\ \A j \in 1..k : s[j] <= x
           /\ \A j \in (k + 1)..Len(s) : x < s[j]
           /\ Inserted(s, x) = InsertAt(s, k + 1, x)
<1> DEFINE k == CHOOSE i \in 0..Len(s) : /\ \A j \in 1..i : s[j] <= x
                                         /\ \A j \in (i + 1)..Len(s) : x < s[j]
<1>2. /\ k \in 0..Len(s)
      /\ \A j \in 1..k : s[j] <= x
      /\ \A j \in (k + 1)..Len(s) : x < s[j]
  BY PlaceExists
<1>3. Inserted(s, x) = InsertAt(s, k + 1, x)
  BY DEF Inserted
<1> HIDE DEF k
<1> QED
  BY <1>2, <1>3

LEMMA InsertedKeeps ==
  ASSUME NEW s \in Seq(Int), NEW x \in Int, Increasing(s), x \notin ToSet(s)
  PROVE  LET r == Inserted(s, x)
         IN  r \in Seq(Int) /\ Len(r) = Len(s) + 1 /\ Increasing(r) /\ ToSet(r) = ToSet(s) \cup {x}
<1> DEFINE r == Inserted(s, x)
           n == Len(s)
<1>1. PICK k \in 0..n : /\ \A j \in 1..k : s[j] <= x
                        /\ \A j \in (k + 1)..n : x < s[j]
                        /\ r = InsertAt(s, k + 1, x)
  BY InsertedIs
<1>9. \A j \in (k + 1)..n : x < s[j]
  BY <1>1
<1>2. /\ r \in Seq(Int) /\ Len(r) = n + 1 /\ r[k + 1] = x
      /\ \A j \in 1..k : r[j] = s[j]
      /\ \A j \in (k + 1)..n : r[j + 1] = s[j]
  <2>1. k \in 0..Len(s)
    OBVIOUS
  <2>2. LET u == InsertAt(s, k + 1, x)
        IN  /\ u \in Seq(Int) /\ Len(u) = Len(s) + 1 /\ u[k + 1] = x
            /\ \A j \in 1..k : u[j] = s[j]
            /\ \A j \in (k + 1)..Len(s) : u[j + 1] = s[j]
    BY <2>1, InsertAtIs
  <2>3. r = InsertAt(s, k + 1, x)
    BY <1>1
  <2> HIDE DEF r
  <2> QED
    BY <2>2, <2>3
<1>3. n \in Nat /\ k \in Nat /\ k <= n /\ DOMAIN s = 1..n /\ \A j \in 1..n : s[j] \in Int
  OBVIOUS
<1>4. DOMAIN r = 1..(n + 1)
  BY <1>2
<1>5. \A j \in 1..n : s[j] # x /\ s[j] \in ToSet(s)
  BY <1>3 DEF ToSet
<1> HIDE DEF r, n
<1>6. \A j \in (k + 2)..(n + 1) : j - 1 \in (k + 1)..n /\ r[j] = s[j - 1]
  <2> SUFFICES ASSUME NEW j \in (k + 2)..(n + 1)
               PROVE  j - 1 \in (k + 1)..n /\ r[j] = s[j - 1]
    OBVIOUS
  <2>1. j - 1 \in (k + 1)..n /\ (j - 1) + 1 = j
    BY <1>3
  <2> QED
    BY <2>1, <1>2
<1>7. ASSUME NEW i \in 1..(n + 1), NEW j \in 1..(n + 1), i < j
      PROVE  r[i] < r[j]
  <2>1. CASE i \in 1..k /\ j \in 1..k
    <3>1. i \in DOMAIN s /\ j \in DOMAIN s
      BY <1>3, <2>1
    <3>2. s[i] < s[j]
      BY <3>1, <1>7 DEF Increasing
    <3> QED
      BY <3>2, <2>1, <1>2
  <2>2. CASE i \in 1..k /\ j = k + 1
    <3>1. i \in 1..n
      BY <1>3, <2>2
    <3>2. s[i] <= x /\ s[i] # x /\ s[i] \in Int
      BY <1>1, <1>3, <1>5, <2>2, <3>1
    <3>3. s[i] < x
      BY <3>2
    <3> QED
      BY <3>3, <2>2, <1>2
  <2>3. CASE i \in 1..k /\ j \in (k + 2)..(n + 1)
    <3>1. i \in 1..n /\ j - 1 \in 1..n /\ i < j - 1 /\ r[j] = s[j - 1] /\ r[i] = s[i]
      BY <1>2, <1>3, <1>6, <2>3
    <3>2. s[i] < s[j - 1]
      BY <3>1, <1>3 DEF Increasing
    <3> QED
      BY <3>1, <3>2
  <2>4. CASE i = k + 1
    <3>1. j \in (k + 2)..(n + 1)
      BY <1>3, <1>7, <2>4
    <3>2. j - 1 \in (k + 1)..n /\ r[j] = s[j - 1]
      BY <3>1, <1>6
    <3>3. x < s[j - 1]
      BY <3>2, <1>9
    <3> QED
      BY <3>2, <3>3, <2>4, <1>2
  <2>5. CASE i \in (k + 2)..(n + 1)
    <3>1. j \in (k + 2)..(n + 1)
      BY <1>3, <1>7, <2>5
    <3>2. i - 1 \in 1..n /\ j - 1 \in 1..n /\ i - 1 < j - 1 /\ r[j] = s[j - 1] /\ r[i] = s[i - 1]
      BY <1>3, <1>6, <1>7, <2>5, <3>1
    <3>3. s[i - 1] < s[j - 1]
      BY <3>2, <1>3 DEF Increasing
    <3> QED
      BY <3>2, <3>3
  <2>6. i \in 1..k \/ i = k + 1 \/ i \in (k + 2)..(n + 1)
    BY <1>3
  <2>7. j \in 1..k \/ j = k + 1 \/ j \in (k + 2)..(n + 1)
    BY <1>3
  <2> QED
    BY <2>1, <2>2, <2>3, <2>4, <2>5, <2>6, <2>7
<1>8. ToSet(r) = ToSet(s) \cup {x}
  <2>1. ASSUME NEW j \in 1..(n + 1) PROVE r[j] \in ToSet(s) \cup {x}
    <3>1. CASE j \in 1..k
      <4>1. j \in 1..n
        BY <1>3, <3>1
      <4> QED
        BY <4>1, <3>1, <1>2, <1>5
    <3>2. CASE j = k + 1
      BY <1>2, <3>2
    <3>3. CASE j \in (k + 2)..(n + 1)
      <4>1. j - 1 \in 1..n /\ r[j] = s[j - 1]
        BY <1>3, <1>6, <3>3
      <4> QED
        BY <4>1, <1>5
    <3>4. j \in 1..k \/ j = k + 1 \/ j \in (k + 2)..(n + 1)
      BY <1>3
    <3> QED
      BY <3>1, <3>2, <3>3, <3>4
  <2>2. ASSUME NEW j \in 1..n PROVE s[j] \in ToSet(r)
    <3>1. CASE j \in 1..k
      <4>1. j \in 1..(n + 1) /\ r[j] = s[j]
        BY <1>2, <1>3, <3>1
      <4> QED
        BY <4>1, <1>4 DEF ToSet
    <3>2. CASE j \in (k + 1)..n
      <4>1. j + 1 \in 1..(n + 1) /\ r[j + 1] = s[j]
        BY <1>2, <1>3, <3>2
      <4> QED
        BY <4>1, <1>4 DEF ToSet
    <3>3. j \in 1..k \/ j \in (k + 1)..n
      BY <1>3
    <3> QED
      BY <3>1, <3>2, <3>3
  <2>3. x \in ToSet(r)
    <3>1. k + 1 \in 1..(n + 1)
      BY <1>3
    <3> QED
      BY <3>1, <1>2, <1>4 DEF ToSet
  <2> QED
    BY <2>1, <2>2, <2>3, <1>3, <1>4 DEF ToSet
<1> QED
  BY <1>2, <1>4, <1>7, <1>8 DEF Increasing, r, n

LEMMA SortedRuns ==
  ASSUME NEW nums \in Seq(Int)
  PROVE  \E f : /\ f[0] = <<>> /\ f[Len(nums)] = Sorted(nums)
                /\ \A k \in 1..Len(nums) : f[k] = Inserted(f[k - 1], nums[k])
<1>1. Sorted(nums) = Inserting!Fold(0, <<>>, nums)
  BY DEF Sorted, Inserting!Fold, Insert, FoldLeft, MapThenFoldSet, Max,
         Inserting!FoldLeft, Inserting!MapThenFoldSet, Inserting!Max
<1>2. PICK f : Inserting!Runs(0, <<>>, nums, f)
  BY Inserting!FoldRuns
<1> QED
  BY <1>1, <1>2 DEF Inserting!Runs, Insert

\* Numbers that differ are sorted: the same numbers, each larger than the last.
LEMMA SortedIs ==
  ASSUME NEW nums \in Seq(Int), Unique(nums)
  PROVE  /\ Sorted(nums) \in Seq(Int) /\ Len(Sorted(nums)) = Len(nums)
         /\ Increasing(Sorted(nums)) /\ ToSet(Sorted(nums)) = ToSet(nums)
<1>1. PICK f : /\ f[0] = <<>> /\ f[Len(nums)] = Sorted(nums)
               /\ \A k \in 1..Len(nums) : f[k] = Inserted(f[k - 1], nums[k])
  BY SortedRuns
<1> DEFINE n == Len(nums)
           Fine(k, s) == /\ s \in Seq(Int) /\ Len(s) = k /\ Increasing(s)
                         /\ ToSet(s) = {nums[j] : j \in 1..k}
           T == {k \in 0..n : Fine(k, f[k])}
<1>2. n \in Nat /\ DOMAIN nums = 1..n /\ \A k \in 1..n : nums[k] \in Int
  OBVIOUS
<1> HIDE DEF n
<1>3. 0 \in T
  <2>1. Fine(0, <<>>)
    <3>1. <<>> \in Seq(Int) /\ Len(<<>>) = 0 /\ DOMAIN <<>> = {}
      OBVIOUS
    <3>2. {nums[j] : j \in 1..0} = {}
      OBVIOUS
    <3> QED
      BY <3>1, <3>2 DEF Increasing, ToSet
  <2> HIDE DEF Fine
  <2>2. 0 \in 0..n
    BY <1>2
  <2> QED
    BY <1>1, <2>1, <2>2
<1>4. ASSUME NEW k \in 0..n, k \in T, k < n PROVE k + 1 \in T
  <2> DEFINE s == f[k]
             x == nums[k + 1]
             r == Inserted(s, x)
  <2>1. k \in Nat /\ k + 1 \in 1..n /\ k + 1 \in 0..n /\ x \in Int /\ (k + 1) - 1 = k
    BY <1>2, <1>4
  <2>2. Fine(k, s)
    BY <1>4
  <2>3. x \notin ToSet(s)
    BY <1>2, <2>1, <2>2 DEF Unique
  <2>4. /\ r \in Seq(Int) /\ Len(r) = Len(s) + 1 /\ Increasing(r)
        /\ ToSet(r) = ToSet(s) \cup {x}
    <3> HIDE DEF s, x
    <3> QED
      BY <2>1, <2>2, <2>3, InsertedKeeps
  <2>5. f[k + 1] = r
    <3>1. f[k + 1] = Inserted(f[(k + 1) - 1], nums[k + 1])
      BY <1>1, <2>1 DEF n
    <3> QED
      BY <3>1, <2>1
  <2>6. {nums[j] : j \in 1..(k + 1)} = {nums[j] : j \in 1..k} \cup {x}
    <3>1. 1..(k + 1) = (1..k) \cup {k + 1}
      BY <2>1
    <3> QED
      BY <3>1
  <2> HIDE DEF r, s, x
  <2>7. Fine(k + 1, r)
    BY <2>2, <2>4, <2>6
  <2> HIDE DEF Fine
  <2> QED
    BY <2>1, <2>5, <2>7
<1>5. n \in T
  <2> HIDE DEF T
  <2>1. 0..n \subseteq T
    BY <1>2, <1>3, <1>4, Inserting!UpTo
  <2> QED
    BY <1>2, <2>1
<1>6. Fine(n, Sorted(nums))
  BY <1>1, <1>5 DEF n
<1>7. {nums[j] : j \in 1..n} = ToSet(nums)
  BY <1>2 DEF ToSet
<1> QED
  BY <1>6, <1>7 DEF n

\* A list that is sorted stays as it is.
LEMMA SortedSame ==
  ASSUME NEW nums \in Seq(Int), Increasing(nums)
  PROVE  Sorted(nums) = nums
<1>1. PICK f : /\ f[0] = <<>> /\ f[Len(nums)] = Sorted(nums)
               /\ \A k \in 1..Len(nums) : f[k] = Inserted(f[k - 1], nums[k])
  BY SortedRuns
<1> DEFINE n == Len(nums)
           Fine(k, s) == s \in Seq(Int) /\ Len(s) = k /\ \A j \in 1..k : s[j] = nums[j]
           T == {k \in 0..n : Fine(k, f[k])}
<1>2. n \in Nat /\ DOMAIN nums = 1..n /\ \A k \in 1..n : nums[k] \in Int
  OBVIOUS
<1> HIDE DEF n
<1>3. 0 \in T
  <2>1. Fine(0, <<>>)
    OBVIOUS
  <2> HIDE DEF Fine
  <2>2. 0 \in 0..n
    BY <1>2
  <2> QED
    BY <1>1, <2>1, <2>2
<1>4. ASSUME NEW k \in 0..n, k \in T, k < n PROVE k + 1 \in T
  <2> DEFINE s == f[k]
             x == nums[k + 1]
             r == Inserted(s, x)
  <2>1. k \in Nat /\ k + 1 \in 1..n /\ k + 1 \in 0..n /\ x \in Int /\ (k + 1) - 1 = k
    BY <1>2, <1>4
  <2>2. Fine(k, s)
    BY <1>4
  <2>3. f[k + 1] = r
    <3>1. f[k + 1] = Inserted(f[(k + 1) - 1], nums[k + 1])
      BY <1>1, <2>1 DEF n
    <3> QED
      BY <3>1, <2>1
  <2>4. \A j \in 1..k : j \in DOMAIN nums /\ s[j] \in Int /\ s[j] < x
    <3> SUFFICES ASSUME NEW j \in 1..k PROVE j \in DOMAIN nums /\ s[j] \in Int /\ s[j] < x
      OBVIOUS
    <3>1. j \in DOMAIN nums /\ k + 1 \in DOMAIN nums /\ j < k + 1
      BY <1>2, <2>1
    <3>2. nums[j] < nums[k + 1] /\ nums[j] \in Int
      BY <3>1, <1>2 DEF Increasing
    <3> QED
      BY <3>1, <3>2, <2>2
  <2> HIDE DEF s, x
  <2>5. Increasing(s)
    <3>1. DOMAIN s = 1..k
      BY <2>2
    <3> SUFFICES ASSUME NEW i \in 1..k, NEW j \in 1..k, i < j PROVE s[i] < s[j]
      BY <3>1 DEF Increasing
    <3>2. i \in DOMAIN nums /\ j \in DOMAIN nums
      BY <2>4
    <3>3. nums[i] < nums[j]
      BY <3>2 DEF Increasing
    <3> QED
      BY <3>3, <2>2
  <2>6. s \in Seq(Int) /\ Len(s) = k
    BY <2>2
  <2>7. PICK i \in 0..Len(s) :
          /\ \A j \in (i + 1)..Len(s) : x < s[j]
          /\ r = InsertAt(s, i + 1, x)
    BY <2>1, <2>5, <2>6, InsertedIs
  <2>8. i = k
    <3> SUFFICES ASSUME i < k PROVE FALSE
      BY <2>1, <2>6
    <3>1. k \in (i + 1)..Len(s) /\ k \in 1..k
      BY <2>1, <2>6
    <3>2. x < s[k] /\ s[k] < x /\ s[k] \in Int
      BY <3>1, <2>4, <2>7
    <3> QED
      BY <3>2, <2>1
  <2>9. /\ r \in Seq(Int) /\ Len(r) = k + 1 /\ r[k + 1] = x
        /\ \A j \in 1..k : r[j] = s[j]
    <3>1. LET u == InsertAt(s, i + 1, x)
          IN  /\ u \in Seq(Int) /\ Len(u) = Len(s) + 1 /\ u[i + 1] = x
              /\ \A j \in 1..i : u[j] = s[j]
      BY <2>1, <2>6, InsertAtIs
    <3> HIDE DEF r
    <3> QED
      BY <3>1, <2>6, <2>7, <2>8
  <2> HIDE DEF r
  <2>10. Fine(k + 1, r)
    <3> SUFFICES ASSUME NEW j \in 1..(k + 1) PROVE r[j] = nums[j]
      BY <2>9
    <3>1. CASE j = k + 1
      BY <3>1, <2>9 DEF x
    <3>2. CASE j \in 1..k
      BY <3>2, <2>2, <2>9
    <3> QED
      BY <3>1, <3>2, <2>1
  <2> HIDE DEF Fine
  <2> QED
    BY <2>1, <2>3, <2>10
<1>5. n \in T
  <2> HIDE DEF T
  <2>1. 0..n \subseteq T
    BY <1>2, <1>3, <1>4, Inserting!UpTo
  <2> QED
    BY <1>2, <2>1
<1>6. Fine(n, Sorted(nums))
  BY <1>1, <1>5 DEF n
<1> QED
  BY <1>2, <1>6 DEF n

LEMMA IncreasingUnique ==
  ASSUME NEW s \in Seq(Int), Increasing(s)
  PROVE  Unique(s)
<1>1. \A k \in DOMAIN s : k \in Int /\ s[k] \in Int
  OBVIOUS
<1> SUFFICES ASSUME NEW j \in DOMAIN s, NEW k \in DOMAIN s, s[j] = s[k], j # k
             PROVE  FALSE
  BY DEF Unique
<1>2. CASE j < k
  BY <1>1, <1>2 DEF Increasing
<1>3. CASE k < j
  BY <1>1, <1>3 DEF Increasing
<1> QED
  BY <1>1, <1>2, <1>3

-----------------------------------------------------------------------------
(* The parts of a copy. *)

Cop == [nodes : Seq(Node), links : Seq(Link), vlans : Seq(Int), seq : Nat]

\* No label that is typed or recorded is of spaces alone.
PlainTexts ==
  /\ \A text \in Texts : "spaces" \notin text
  /\ \A inv \in Inventories : \A k \in DOMAIN inv.conns : inv.conns[k].name # "spaces"

GoodNode(n, vs) ==
  /\ n \in Node
  /\ Increasing(n.tags) /\ Len(n.tags) <= MaxTags /\ ToSet(n.tags) \subseteq ToSet(vs)

GoodLink(l, ids) ==
  /\ l \in Link
  /\ l.from \in ids /\ l.to \in ids /\ l.from # l.to
  /\ PlainTexts => "spaces" \notin l.label

NodesGood(ns, vs) ==
  /\ ns \in Seq(Node)
  /\ \A j, k \in DOMAIN ns : ns[j].id = ns[k].id => j = k
  /\ \A k \in DOMAIN ns : GoodNode(ns[k], vs)

Ends(l) == {l.from, l.to}

LinksGood(ls, ids) ==
  /\ ls \in Seq(Link)
  /\ \A j, k \in DOMAIN ls : ls[j].id = ls[k].id => j = k
  /\ \A k \in DOMAIN ls : GoodLink(ls[k], ids)
  /\ \A j, k \in DOMAIN ls : Ends(ls[j]) = Ends(ls[k]) => j = k

Good(c) ==
  /\ c \in Cop
  /\ Increasing(c.vlans)
  /\ NodesGood(c.nodes, c.vlans)
  /\ LinksGood(c.links, IdsOf(c.nodes))

LEMMA NodesMore ==
  ASSUME NEW ns, NEW vs, NEW us, NodesGood(ns, vs), ToSet(vs) \subseteq ToSet(us)
  PROVE  NodesGood(ns, us)
BY DEF NodesGood, GoodNode

LEMMA LinksMore ==
  ASSUME NEW ls, NEW I, NEW J, LinksGood(ls, I), I \subseteq J
  PROVE  LinksGood(ls, J)
BY DEF LinksGood, GoodLink

LEMMA Appended ==
  ASSUME NEW S, NEW s \in Seq(S), NEW x \in S
  PROVE  /\ Append(s, x) \in Seq(S) /\ Len(Append(s, x)) = Len(s) + 1 /\ Len(s) \in Nat
         /\ DOMAIN Append(s, x) = (DOMAIN s) \cup {Len(s) + 1}
         /\ Len(s) + 1 \notin DOMAIN s
         /\ Append(s, x)[Len(s) + 1] = x
         /\ \A k \in DOMAIN s : Append(s, x)[k] = s[k]
<1>1. Len(s) \in Nat /\ DOMAIN s = 1..Len(s)
  OBVIOUS
<1>2. /\ Append(s, x) \in Seq(S) /\ Len(Append(s, x)) = Len(s) + 1
      /\ DOMAIN Append(s, x) = 1..(Len(s) + 1)
      /\ Append(s, x)[Len(s) + 1] = x
      /\ \A k \in 1..Len(s) : Append(s, x)[k] = s[k]
  OBVIOUS
<1>3. 1..(Len(s) + 1) = (1..Len(s)) \cup {Len(s) + 1} /\ Len(s) + 1 \notin 1..Len(s)
  BY <1>1
<1> QED
  BY <1>1, <1>2, <1>3

LEMMA AppendNode ==
  ASSUME NEW ns, NEW vs, NodesGood(ns, vs), NEW n, GoodNode(n, vs), n.id \notin IdsOf(ns)
  PROVE  /\ NodesGood(Append(ns, n), vs)
         /\ IdsOf(Append(ns, n)) = IdsOf(ns) \cup {n.id}
<1> DEFINE r == Append(ns, n)
           m == Len(ns) + 1
<1>1. ns \in Seq(Node) /\ n \in Node
  BY DEF NodesGood, GoodNode
<1>2. /\ r \in Seq(Node) /\ DOMAIN r = (DOMAIN ns) \cup {m} /\ m \notin DOMAIN ns
      /\ r[m] = n /\ \A k \in DOMAIN ns : r[k] = ns[k]
  BY <1>1, Appended
<1> HIDE DEF r, m
<1>3. /\ \A j, k \in DOMAIN ns : ns[j].id = ns[k].id => j = k
      /\ \A k \in DOMAIN ns : GoodNode(ns[k], vs)
      /\ \A k \in DOMAIN ns : ns[k].id # n.id
  BY DEF NodesGood, IdsOf
<1>4. \A j, k \in DOMAIN r : r[j].id = r[k].id => j = k
  BY <1>2, <1>3
<1>5. \A k \in DOMAIN r : GoodNode(r[k], vs)
  BY <1>2, <1>3
<1>6. IdsOf(r) = IdsOf(ns) \cup {n.id}
  BY <1>2 DEF IdsOf
<1> QED
  BY <1>2, <1>4, <1>5, <1>6 DEF NodesGood, r

LEMMA AppendLink ==
  ASSUME NEW ls, NEW I, LinksGood(ls, I), NEW l, GoodLink(l, I), l.id \notin IdsOf(ls),
         \A k \in DOMAIN ls : Ends(ls[k]) # Ends(l)
  PROVE  LinksGood(Append(ls, l), I)
<1> DEFINE r == Append(ls, l)
           m == Len(ls) + 1
<1>1. ls \in Seq(Link) /\ l \in Link
  BY DEF LinksGood, GoodLink
<1>2. /\ r \in Seq(Link) /\ DOMAIN r = (DOMAIN ls) \cup {m} /\ m \notin DOMAIN ls
      /\ r[m] = l /\ \A k \in DOMAIN ls : r[k] = ls[k]
  BY <1>1, Appended
<1> HIDE DEF r, m
<1>3. /\ \A j, k \in DOMAIN ls : ls[j].id = ls[k].id => j = k
      /\ \A j, k \in DOMAIN ls : Ends(ls[j]) = Ends(ls[k]) => j = k
      /\ \A k \in DOMAIN ls : GoodLink(ls[k], I)
      /\ \A k \in DOMAIN ls : ls[k].id # l.id
  BY DEF LinksGood, IdsOf
<1>4. \A j, k \in DOMAIN r : r[j].id = r[k].id => j = k
  BY <1>2, <1>3
<1>5. \A k \in DOMAIN r : GoodLink(r[k], I)
  BY <1>2, <1>3
<1>6. \A j, k \in DOMAIN r : Ends(r[j]) = Ends(r[k]) => j = k
  BY <1>2, <1>3
<1> QED
  BY <1>2, <1>4, <1>5, <1>6 DEF LinksGood, r

\* Nodes that change, but not their ids.
LEMMA NodesMapped ==
  ASSUME NEW ns, NEW vs, NodesGood(ns, vs), NEW us,
         NEW ms, ms = [k \in DOMAIN ns |-> ms[k]],
         \A k \in DOMAIN ns : GoodNode(ms[k], us) /\ ms[k].id = ns[k].id
  PROVE  NodesGood(ms, us) /\ IdsOf(ms) = IdsOf(ns)
<1>1. ns \in Seq(Node) /\ DOMAIN ms = DOMAIN ns
  BY DEF NodesGood
<1>2. ms \in Seq(Node)
  <2>1. DOMAIN ns = 1..Len(ns) /\ Len(ns) \in Nat
    BY <1>1
  <2>2. \A k \in 1..Len(ns) : ms[k] \in Node
    BY <2>1 DEF GoodNode
  <2>3. ms = [k \in 1..Len(ns) |-> ms[k]]
    BY <2>1
  <2>4. ms \in [1..Len(ns) -> Node]
    BY <2>2, <2>3
  <2> QED
    BY <2>1, <2>4
<1>3. IdsOf(ms) = IdsOf(ns)
  BY <1>1 DEF IdsOf
<1>4. \A j, k \in DOMAIN ms : ms[j].id = ms[k].id => j = k
  BY <1>1 DEF NodesGood
<1> QED
  BY <1>1, <1>2, <1>3, <1>4 DEF NodesGood

\* Links that change, but neither their ids nor their ends.
LEMMA LinksMapped ==
  ASSUME NEW ls, NEW I, LinksGood(ls, I),
         NEW ms, ms = [k \in DOMAIN ls |-> ms[k]],
         \A k \in DOMAIN ls : GoodLink(ms[k], I) /\ ms[k].id = ls[k].id /\ Ends(ms[k]) = Ends(ls[k])
  PROVE  LinksGood(ms, I)
<1>1. ls \in Seq(Link) /\ DOMAIN ms = DOMAIN ls
  BY DEF LinksGood
<1>2. ms \in Seq(Link)
  <2>1. DOMAIN ls = 1..Len(ls) /\ Len(ls) \in Nat
    BY <1>1
  <2>2. \A k \in 1..Len(ls) : ms[k] \in Link
    BY <2>1 DEF GoodLink
  <2>3. ms = [k \in 1..Len(ls) |-> ms[k]]
    BY <2>1
  <2>4. ms \in [1..Len(ls) -> Link]
    BY <2>2, <2>3
  <2> QED
    BY <2>1, <2>4
<1>3. \A j, k \in DOMAIN ms : ms[j].id = ms[k].id => j = k
  BY <1>1 DEF LinksGood
<1>4. \A j, k \in DOMAIN ms : Ends(ms[j]) = Ends(ms[k]) => j = k
  BY <1>1 DEF LinksGood
<1> QED
  BY <1>1, <1>2, <1>3, <1>4 DEF LinksGood

LEMMA ItemsOf ==
  ASSUME NEW S, NEW s \in Seq(S), NEW X
  PROVE  /\ \A k \in DOMAIN Those(s, X) : \E j \in DOMAIN s : Those(s, X)[k] = s[j] /\ s[j] \in X
         /\ \A j \in DOMAIN s : s[j] \in X => \E k \in DOMAIN Those(s, X) : Those(s, X)[k] = s[j]
<1>1. ToSet(Those(s, X)) = ToSet(s) \cap X
  BY ThoseItems
<1> QED
  BY <1>1 DEF ToSet

LEMMA ThoseNodes ==
  ASSUME NEW ns, NEW vs, NodesGood(ns, vs), NEW X
  PROVE  /\ NodesGood(Those(ns, X), vs)
         /\ IdsOf(Those(ns, X)) = {ns[k].id : k \in {j \in DOMAIN ns : ns[j] \in X}}
<1> DEFINE r == Those(ns, X)
           f == [n \in Node |-> n.id]
<1>1. ns \in Seq(Node) /\ r \in Seq(Node)
  BY ThoseItems DEF NodesGood
<1>2. /\ \A k \in DOMAIN r : \E j \in DOMAIN ns : r[k] = ns[j] /\ ns[j] \in X
      /\ \A j \in DOMAIN ns : ns[j] \in X => \E k \in DOMAIN r : r[k] = ns[j]
  BY <1>1, ItemsOf
<1>3. /\ \A k \in DOMAIN ns : ns[k] \in Node /\ f[ns[k]] = ns[k].id
      /\ \A k \in DOMAIN r : r[k] \in Node /\ f[r[k]] = r[k].id
  BY <1>1
<1>4. \A j, k \in DOMAIN r : f[r[j]] = f[r[k]] => j = k
  <2> HIDE DEF f
  <2>1. \A j, k \in DOMAIN ns : f[ns[j]] = f[ns[k]] => j = k
    BY <1>3 DEF NodesGood
  <2> QED
    BY <1>1, <2>1, ThoseUnique
<1> HIDE DEF r, f
<1>5. \A j, k \in DOMAIN r : r[j].id = r[k].id => j = k
  BY <1>3, <1>4
<1>6. \A k \in DOMAIN r : GoodNode(r[k], vs)
  BY <1>2 DEF NodesGood
<1>7. IdsOf(r) = {ns[k].id : k \in {j \in DOMAIN ns : ns[j] \in X}}
  BY <1>2 DEF IdsOf
<1> QED
  BY <1>1, <1>5, <1>6, <1>7 DEF NodesGood, r

LEMMA ThoseLinks ==
  ASSUME NEW ls, NEW I, LinksGood(ls, I), NEW X, NEW J,
         \A k \in DOMAIN ls : ls[k] \in X => Ends(ls[k]) \subseteq J
  PROVE  LinksGood(Those(ls, X), J)
<1> DEFINE r == Those(ls, X)
           f == [l \in Link |-> l.id]
           g == [l \in Link |-> Ends(l)]
<1>1. ls \in Seq(Link) /\ r \in Seq(Link)
  BY ThoseItems DEF LinksGood
<1>2. \A k \in DOMAIN r : \E j \in DOMAIN ls : r[k] = ls[j] /\ ls[j] \in X
  BY <1>1, ItemsOf
<1>3. /\ \A k \in DOMAIN ls : ls[k] \in Link /\ f[ls[k]] = ls[k].id /\ g[ls[k]] = Ends(ls[k])
      /\ \A k \in DOMAIN r : r[k] \in Link /\ f[r[k]] = r[k].id /\ g[r[k]] = Ends(r[k])
  BY <1>1
<1> HIDE DEF f, g
<1>4. \A j, k \in DOMAIN r : f[r[j]] = f[r[k]] => j = k
  <2>1. \A j, k \in DOMAIN ls : f[ls[j]] = f[ls[k]] => j = k
    BY <1>3 DEF LinksGood
  <2> QED
    BY <1>1, <2>1, ThoseUnique
<1>5. \A j, k \in DOMAIN r : g[r[j]] = g[r[k]] => j = k
  <2>1. \A j, k \in DOMAIN ls : g[ls[j]] = g[ls[k]] => j = k
    BY <1>3 DEF LinksGood
  <2> QED
    BY <1>1, <2>1, ThoseUnique
<1> HIDE DEF r
<1>6. \A k \in DOMAIN r : GoodLink(r[k], J)
  <2> SUFFICES ASSUME NEW k \in DOMAIN r PROVE GoodLink(r[k], J)
    OBVIOUS
  <2>1. PICK j \in DOMAIN ls : r[k] = ls[j] /\ ls[j] \in X
    BY <1>2
  <2>2. GoodLink(ls[j], I) /\ Ends(ls[j]) \subseteq J
    BY <2>1 DEF LinksGood
  <2> QED
    BY <2>1, <2>2 DEF GoodLink, Ends
<1>7. /\ \A j, k \in DOMAIN r : r[j].id = r[k].id => j = k
      /\ \A j, k \in DOMAIN r : Ends(r[j]) = Ends(r[k]) => j = k
  BY <1>3, <1>4, <1>5
<1> QED
  BY <1>1, <1>6, <1>7 DEF LinksGood, r

\* There are more numbers to try than ids in use, so that newId ends.
LEMMA NewIdIs ==
  ASSUME NEW S, NEW items \in Seq(S), NEW seq \in Nat
  PROVE  LET id == NewId(items, seq) IN id \in Nat /\ id > seq /\ id \notin IdsOf(items)
<1> DEFINE n == Len(items)
           N == (seq + 1)..(seq + 1 + n)
           F == N \ IdsOf(items)
<1>1. n \in Nat /\ DOMAIN items = 1..n
  OBVIOUS
<1> HIDE DEF n
<1>2. IsFiniteSet(IdsOf(items)) /\ Cardinality(IdsOf(items)) <= n
  <2> DEFINE f == [k \in 1..n |-> items[k].id]
  <2>1. f \in Surjection(1..n, IdsOf(items))
    BY <1>1 DEF Surjection, IdsOf
  <2>2. IsFiniteSet(1..n) /\ Cardinality(1..n) = n
    BY <1>1, FS_Interval
  <2> QED
    BY <2>1, <2>2, FS_Surjection
<1>3. IsFiniteSet(N) /\ Cardinality(N) = n + 1
  BY <1>1, FS_Interval
<1>4. F # {}
  <2> SUFFICES ASSUME F = {} PROVE FALSE
    OBVIOUS
  <2>1. N \subseteq IdsOf(items)
    OBVIOUS
  <2> HIDE DEF N
  <2>2. Cardinality(N) <= Cardinality(IdsOf(items))
    BY <2>1, <1>2, FS_Subset
  <2>3. Cardinality(IdsOf(items)) \in Nat
    BY <1>2, FS_CardinalityType
  <2> QED
    BY <2>2, <2>3, <1>1, <1>2, <1>3
<1>5. F \in SUBSET Nat
  BY <1>1
<1>6. PICK m \in F : \A k \in F : m <= k
  <2> HIDE DEF F
  <2> QED
    BY <1>4, <1>5, Filtering!LeastNat
<1>7. \E s \in N : /\ s \notin IdsOf(items)
                   /\ \A t \in (seq + 1)..(s - 1) : t \in IdsOf(items)
  <2>1. m \in N /\ m \notin IdsOf(items)
    BY <1>6
  <2>2. ASSUME NEW t \in (seq + 1)..(m - 1) PROVE t \in IdsOf(items)
    <3>1. t \in N /\ ~(m <= t)
      BY <1>1, <2>1
    <3> QED
      BY <1>6, <3>1
  <2> QED
    BY <2>1, <2>2
<1>8. NewId(items, seq) \in N /\ NewId(items, seq) \notin IdsOf(items)
  BY <1>7 DEF NewId, n
<1> QED
  BY <1>8, <1>1

-----------------------------------------------------------------------------
(* What the handlers share. *)

Pairs(c) == {Ends(c.links[k]) : k \in DOMAIN c.links}

LEMMA BetweenPairs ==
  ASSUME NEW c, NEW a, NEW b
  PROVE  Between(c, a, b) # {} <=> {a, b} \in Pairs(c)
BY DEF Between, Pairs, Ends

\* A copy with one more link, and one with other nodes, links or VLANs.
LEMMA TwoFields ==
  ASSUME NEW c, NEW x, NEW y, NEW n, NEW l, NEW v, NEW s,
         c = [nodes |-> n, links |-> l, vlans |-> v, seq |-> s]
  PROVE  /\ [c EXCEPT !.seq = x, !.links = y] = [[c EXCEPT !.seq = x] EXCEPT !.links = y]
         /\ [c EXCEPT !.seq = x, !.nodes = y] = [[c EXCEPT !.seq = x] EXCEPT !.nodes = y]
         /\ [c EXCEPT !.nodes = x, !.links = y] = [[c EXCEPT !.nodes = x] EXCEPT !.links = y]
<1>1. [c EXCEPT !.seq = x, !.links = y] = [[c EXCEPT !.seq = x] EXCEPT !.links = y]
  OBVIOUS
<1>2. [c EXCEPT !.seq = x, !.nodes = y] = [[c EXCEPT !.seq = x] EXCEPT !.nodes = y]
  OBVIOUS
<1>3. [c EXCEPT !.nodes = x, !.links = y] = [[c EXCEPT !.nodes = x] EXCEPT !.links = y]
  OBVIOUS
<1> QED
  BY <1>1, <1>2, <1>3

LEMMA CopFields ==
  ASSUME NEW c \in Cop, NEW ns, NEW ls, NEW vs, NEW q
  PROVE  /\ [c EXCEPT !.seq = q, !.links = ls]
              = [nodes |-> c.nodes, links |-> ls, vlans |-> c.vlans, seq |-> q]
         /\ [c EXCEPT !.seq = q, !.nodes = ns]
              = [nodes |-> ns, links |-> c.links, vlans |-> c.vlans, seq |-> q]
         /\ [c EXCEPT !.nodes = ns, !.links = ls]
              = [nodes |-> ns, links |-> ls, vlans |-> c.vlans, seq |-> c.seq]
         /\ [c EXCEPT !.nodes = ns]
              = [nodes |-> ns, links |-> c.links, vlans |-> c.vlans, seq |-> c.seq]
         /\ [c EXCEPT !.links = ls]
              = [nodes |-> c.nodes, links |-> ls, vlans |-> c.vlans, seq |-> c.seq]
         /\ [c EXCEPT !.vlans = vs]
              = [nodes |-> c.nodes, links |-> c.links, vlans |-> vs, seq |-> c.seq]
         /\ c.nodes \in Seq(Node) /\ c.links \in Seq(Link) /\ c.vlans \in Seq(Int) /\ c.seq \in Nat
<1>1. c.nodes \in Seq(Node) /\ c.links \in Seq(Link) /\ c.vlans \in Seq(Int) /\ c.seq \in Nat
  BY DEF Cop
<1>2. c = [nodes |-> c.nodes, links |-> c.links, vlans |-> c.vlans, seq |-> c.seq]
  BY DEF Cop
<1>3. [c EXCEPT !.seq = q, !.links = ls]
        = [nodes |-> c.nodes, links |-> ls, vlans |-> c.vlans, seq |-> q]
  <2>1. [c EXCEPT !.seq = q] = [nodes |-> c.nodes, links |-> c.links, vlans |-> c.vlans, seq |-> q]
    BY <1>2
  <2>2. [c EXCEPT !.seq = q, !.links = ls] = [[c EXCEPT !.seq = q] EXCEPT !.links = ls]
    BY <1>2, TwoFields
  <2> DEFINE e == [c EXCEPT !.seq = q]
  <2>3. [c EXCEPT !.seq = q, !.links = ls] = [e EXCEPT !.links = ls]
    BY <2>2
  <2>4. e = [nodes |-> c.nodes, links |-> c.links, vlans |-> c.vlans, seq |-> q]
    BY <2>1
  <2> HIDE DEF e
  <2>5. [e EXCEPT !.links = ls] = [nodes |-> c.nodes, links |-> ls, vlans |-> c.vlans, seq |-> q]
    BY <2>4
  <2> QED
    BY <2>3, <2>5
<1>4. [c EXCEPT !.seq = q, !.nodes = ns]
        = [nodes |-> ns, links |-> c.links, vlans |-> c.vlans, seq |-> q]
  <2>1. [c EXCEPT !.seq = q] = [nodes |-> c.nodes, links |-> c.links, vlans |-> c.vlans, seq |-> q]
    BY <1>2
  <2>2. [c EXCEPT !.seq = q, !.nodes = ns] = [[c EXCEPT !.seq = q] EXCEPT !.nodes = ns]
    BY <1>2, TwoFields
  <2> DEFINE e == [c EXCEPT !.seq = q]
  <2>3. [c EXCEPT !.seq = q, !.nodes = ns] = [e EXCEPT !.nodes = ns]
    BY <2>2
  <2>4. e = [nodes |-> c.nodes, links |-> c.links, vlans |-> c.vlans, seq |-> q]
    BY <2>1
  <2> HIDE DEF e
  <2>5. [e EXCEPT !.nodes = ns] = [nodes |-> ns, links |-> c.links, vlans |-> c.vlans, seq |-> q]
    BY <2>4
  <2> QED
    BY <2>3, <2>5
<1>5. [c EXCEPT !.nodes = ns, !.links = ls]
        = [nodes |-> ns, links |-> ls, vlans |-> c.vlans, seq |-> c.seq]
  <2>1. [c EXCEPT !.nodes = ns] = [nodes |-> ns, links |-> c.links, vlans |-> c.vlans, seq |-> c.seq]
    BY <1>2
  <2>2. [c EXCEPT !.nodes = ns, !.links = ls] = [[c EXCEPT !.nodes = ns] EXCEPT !.links = ls]
    BY <1>2, TwoFields
  <2> DEFINE e == [c EXCEPT !.nodes = ns]
  <2>3. [c EXCEPT !.nodes = ns, !.links = ls] = [e EXCEPT !.links = ls]
    BY <2>2
  <2>4. e = [nodes |-> ns, links |-> c.links, vlans |-> c.vlans, seq |-> c.seq]
    BY <2>1
  <2> HIDE DEF e
  <2>5. [e EXCEPT !.links = ls] = [nodes |-> ns, links |-> ls, vlans |-> c.vlans, seq |-> c.seq]
    BY <2>4
  <2> QED
    BY <2>3, <2>5
<1>6. [c EXCEPT !.nodes = ns]
        = [nodes |-> ns, links |-> c.links, vlans |-> c.vlans, seq |-> c.seq]
  BY <1>2
<1>7. [c EXCEPT !.links = ls]
        = [nodes |-> c.nodes, links |-> ls, vlans |-> c.vlans, seq |-> c.seq]
  BY <1>2
<1>8. [c EXCEPT !.vlans = vs]
        = [nodes |-> c.nodes, links |-> c.links, vlans |-> vs, seq |-> c.seq]
  BY <1>2
<1> QED
  BY <1>1, <1>3, <1>4, <1>5, <1>6, <1>7, <1>8

LEMMA MakesGood ==
  ASSUME NEW ns, NEW ls, NEW vs \in Seq(Int), NEW q \in Nat,
         Increasing(vs), NodesGood(ns, vs), LinksGood(ls, IdsOf(ns))
  PROVE  Good([nodes |-> ns, links |-> ls, vlans |-> vs, seq |-> q])
<1>1. ns \in Seq(Node) /\ ls \in Seq(Link)
  BY DEF NodesGood, LinksGood
<1> QED
  BY <1>1 DEF Good, Cop

LEMMA WithLinkGood ==
  ASSUME NEW c, Good(c), NEW a \in IdsOf(c.nodes), NEW b \in IdsOf(c.nodes), a # b,
         NEW label \in SUBSET Words, NEW style \in Styles, PlainTexts => "spaces" \notin label
  PROVE  LET d == WithLink(c, a, b, label, style)
         IN  Good(d) /\ d.nodes = c.nodes /\ d.vlans = c.vlans /\ Pairs(d) = Pairs(c) \cup {{a, b}}
<1> DEFINE d == WithLink(c, a, b, label, style)
           id == NewId(c.links, c.seq)
           l == [id |-> id, from |-> a, to |-> b, label |-> label, style |-> style]
           ls == Append(c.links, l)
<1>0. /\ c \in Cop /\ Increasing(c.vlans) /\ NodesGood(c.nodes, c.vlans)
      /\ LinksGood(c.links, IdsOf(c.nodes))
  BY DEF Good
<1>1. CASE Between(c, a, b) # {}
  <2>1. d = c
    BY <1>1 DEF WithLink
  <2>2. {a, b} \in Pairs(c)
    BY <1>1, BetweenPairs
  <2> QED
    BY <2>1, <2>2
<1>2. CASE Between(c, a, b) = {}
  <2>1. /\ c.nodes \in Seq(Node) /\ c.links \in Seq(Link) /\ c.vlans \in Seq(Int) /\ c.seq \in Nat
    BY <1>0, CopFields
  <2>2. id \in Nat /\ id \notin IdsOf(c.links)
    BY <2>1, NewIdIs
  <2>3. d = [c EXCEPT !.seq = id, !.links = ls]
    BY <1>2 DEF WithLink
  <2> HIDE DEF d, id
  <2>4. a \in Nat /\ b \in Nat
    <3>0. \A k \in DOMAIN c.nodes : c.nodes[k] \in Node
      BY <2>1
    <3>1. \A k \in DOMAIN c.nodes : c.nodes[k].id \in Nat
      BY <3>0 DEF Node
    <3> QED
      BY <3>1 DEF IdsOf
  <2>5. GoodLink(l, IdsOf(c.nodes)) /\ l.id = id /\ Ends(l) = {a, b} /\ l \in Link
    BY <2>2, <2>4 DEF GoodLink, Link, Ends
  <2>6. \A k \in DOMAIN c.links : Ends(c.links[k]) # Ends(l)
    BY <1>2, <2>5 DEF Between, Ends
  <2> HIDE DEF l
  <2>7. LinksGood(ls, IdsOf(c.nodes))
    BY <1>0, <2>2, <2>5, <2>6, AppendLink
  <2>8. DOMAIN ls = (DOMAIN c.links) \cup {Len(c.links) + 1} /\ ls[Len(c.links) + 1] = l
        /\ \A k \in DOMAIN c.links : ls[k] = c.links[k]
    BY <2>1, <2>5, Appended
  <2> HIDE DEF ls
  <2>9. d = [nodes |-> c.nodes, links |-> ls, vlans |-> c.vlans, seq |-> id]
    BY <2>3, <1>0, CopFields, ZenonT(30)
  <2>10. Good(d)
    BY <2>9, <1>0, <2>1, <2>2, <2>7, MakesGood
  <2>11. d.nodes = c.nodes /\ d.links = ls /\ d.vlans = c.vlans
    BY <2>9
  <2>12. Pairs(d) = Pairs(c) \cup {{a, b}}
    BY <2>5, <2>8, <2>11 DEF Pairs
  <2> QED
    BY <2>10, <2>11, <2>12 DEF d
<1> QED
  BY <1>1, <1>2

LEMMA WithNodeGood ==
  ASSUME NEW c, Good(c), NEW kind \in Kinds, NEW ref \in Refs,
         NEW tags \in Seq(Int), Increasing(tags), Len(tags) <= MaxTags,
         ToSet(tags) \subseteq ToSet(c.vlans)
  PROVE  LET d == WithNode(c, kind, ref, tags)
         IN  /\ Good(d) /\ d.links = c.links /\ d.vlans = c.vlans
             /\ \E n \in Node : /\ d.nodes = Append(c.nodes, n) /\ n.id \notin IdsOf(c.nodes)
                                /\ n.kind = kind /\ n.ref = ref
<1> DEFINE d == WithNode(c, kind, ref, tags)
           id == NewId(c.nodes, c.seq)
           n == [id |-> id, kind |-> kind, num |-> 0, ref |-> ref, tags |-> tags]
           ns == Append(c.nodes, n)
<1>0. /\ c \in Cop /\ Increasing(c.vlans) /\ NodesGood(c.nodes, c.vlans)
      /\ LinksGood(c.links, IdsOf(c.nodes))
  BY DEF Good
<1>1. /\ c.nodes \in Seq(Node) /\ c.links \in Seq(Link) /\ c.vlans \in Seq(Int) /\ c.seq \in Nat
  BY <1>0, CopFields
<1>2. id \in Nat /\ id \notin IdsOf(c.nodes)
  BY <1>1, NewIdIs
<1>3. d = [c EXCEPT !.seq = id, !.nodes = ns]
  BY DEF WithNode
<1> HIDE DEF d, id
<1>4. n \in Node /\ n.id = id /\ n.kind = kind /\ n.ref = ref /\ n.tags = tags
  BY <1>2 DEF Node
<1> HIDE DEF n
<1>5. GoodNode(n, c.vlans)
  BY <1>4 DEF GoodNode
<1>6. NodesGood(ns, c.vlans) /\ IdsOf(ns) = IdsOf(c.nodes) \cup {id}
  BY <1>0, <1>2, <1>4, <1>5, AppendNode
<1> HIDE DEF ns
<1>7. LinksGood(c.links, IdsOf(ns))
  BY <1>0, <1>6, LinksMore
<1>8. d = [nodes |-> ns, links |-> c.links, vlans |-> c.vlans, seq |-> id]
  BY <1>3, <1>0, CopFields, ZenonT(30)
<1>9. Good(d)
  BY <1>8, <1>0, <1>1, <1>2, <1>6, <1>7, MakesGood
<1>10. d.nodes = ns /\ d.links = c.links /\ d.vlans = c.vlans
  BY <1>8
<1> QED
  BY <1>9, <1>10, <1>4, <1>2 DEF ns, d

LEMMA WithVlanGood ==
  ASSUME NEW c, Good(c), NEW num \in Int
  PROVE  LET d == WithVlan(c, num)
         IN  /\ Good(d) /\ d.nodes = c.nodes /\ d.links = c.links
             /\ ToSet(d.vlans) = ToSet(c.vlans) \cup {num}
<1> DEFINE d == WithVlan(c, num)
           vs == Sorted(Append(c.vlans, num))
<1>0. /\ c \in Cop /\ Increasing(c.vlans) /\ NodesGood(c.nodes, c.vlans)
      /\ LinksGood(c.links, IdsOf(c.nodes))
  BY DEF Good
<1>1. CASE num \in ToSet(c.vlans)
  BY <1>1 DEF WithVlan
<1>2. CASE num \notin ToSet(c.vlans)
  <2>1. c.vlans \in Seq(Int) /\ c.seq \in Nat
    BY <1>0, CopFields
  <2> DEFINE r == Append(c.vlans, num)
             m == Len(c.vlans) + 1
  <2>2. /\ r \in Seq(Int) /\ DOMAIN r = (DOMAIN c.vlans) \cup {m} /\ m \notin DOMAIN c.vlans
        /\ r[m] = num /\ \A k \in DOMAIN c.vlans : r[k] = c.vlans[k]
    BY <2>1, Appended
  <2> HIDE DEF r, m
  <2>3. Unique(c.vlans)
    BY <1>0, <2>1, IncreasingUnique
  <2>4. \A k \in DOMAIN c.vlans : c.vlans[k] # num
    BY <1>2 DEF ToSet
  <2>5. Unique(r)
    BY <2>2, <2>3, <2>4 DEF Unique
  <2>6. ToSet(r) = ToSet(c.vlans) \cup {num}
    BY <2>2 DEF ToSet
  <2>7. vs \in Seq(Int) /\ Increasing(vs) /\ ToSet(vs) = ToSet(c.vlans) \cup {num}
    <3>1. vs = Sorted(r)
      BY DEF r
    <3> HIDE DEF vs
    <3> QED
      BY <3>1, <2>2, <2>5, <2>6, SortedIs
  <2>8. d = [c EXCEPT !.vlans = vs]
    BY <1>2 DEF WithVlan
  <2> HIDE DEF d, vs
  <2>9. d = [nodes |-> c.nodes, links |-> c.links, vlans |-> vs, seq |-> c.seq]
    BY <2>8, <1>0, CopFields
  <2>10. NodesGood(c.nodes, vs)
    <3>1. ToSet(c.vlans) \subseteq ToSet(vs)
      BY <2>7
    <3> QED
      BY <3>1, <1>0, NodesMore
  <2>11. Good(d)
    BY <2>9, <2>10, <2>7, <2>1, <1>0, MakesGood
  <2>12. d.nodes = c.nodes /\ d.links = c.links /\ d.vlans = vs
    BY <2>9
  <2> QED
    BY <2>7, <2>11, <2>12 DEF d
<1> QED
  BY <1>1, <1>2

-----------------------------------------------------------------------------
(* What the editor takes from an answer of the inventory. *)

LEMMA InventoryHas ==
  ASSUME NEW inv \in Inventories
  PROVE  /\ inv.vlans \in Seq([id : STRING, num : Int])
         /\ inv.devices \in Seq([id : STRING, kind : Kinds, vlans : Seq(STRING)])
         /\ inv.services \in Seq([id : STRING, host : STRING, vlans : Seq(STRING)])
         /\ inv.conns \in Seq([name : STRING, device : STRING, switch : STRING,
                               mode : {"Access", "Trunk"}])
BY InventoryAssumption DEF Inventory

LEMMA InvVlanNumIs ==
  ASSUME NEW inv \in Inventories, NEW id
  PROVE  /\ InvVlanNum(inv, id) \in Int
         /\ InvVlanNum(inv, id) # 0 =>
              \E k \in DOMAIN inv.vlans : inv.vlans[k].id = id /\ inv.vlans[k].num = InvVlanNum(inv, id)
<1> DEFINE I == {j \in 1..Len(inv.vlans) : inv.vlans[j].id = id}
           m == IF I # {} THEN Min(I) ELSE 0
<1>1. inv.vlans \in Seq([id : STRING, num : Int])
  BY InventoryHas
<1>2. DOMAIN inv.vlans = 1..Len(inv.vlans) /\ Len(inv.vlans) \in Nat
  BY <1>1
<1>3. InvVlanNum(inv, id) = IF m = 0 THEN 0 ELSE inv.vlans[m].num
  BY DEF InvVlanNum, SelectInSeq
<1>4. (I # {} => m \in I) /\ (I = {} => m = 0)
  BY <1>2, LeastIndex
<1>5. \A j \in I : j \in DOMAIN inv.vlans /\ inv.vlans[j].id = id
  BY <1>2
<1> HIDE DEF I, m
<1>6. \A j \in DOMAIN inv.vlans : inv.vlans[j] \in [id : STRING, num : Int]
  <2> DEFINE V == [id : STRING, num : Int]
             vs == inv.vlans
  <2>1. vs \in Seq(V)
    BY <1>1
  <2> HIDE DEF V, vs
  <2>2. \A j \in DOMAIN vs : vs[j] \in V
    BY <2>1
  <2> QED
    BY <2>2 DEF V, vs
<1>7. \A j \in DOMAIN inv.vlans : inv.vlans[j].num \in Int
  BY <1>6
<1> QED
  BY <1>3, <1>4, <1>5, <1>7

\* No two VLANs of an answer have one number.
LEMMA OneNumberEach ==
  ASSUME NEW inv \in Inventories, NEW id1, NEW id2,
         InvVlanNum(inv, id1) # 0, InvVlanNum(inv, id1) = InvVlanNum(inv, id2)
  PROVE  id1 = id2
<1>1. PICK k \in DOMAIN inv.vlans : inv.vlans[k].id = id1 /\ inv.vlans[k].num = InvVlanNum(inv, id1)
  BY InvVlanNumIs
<1>2. PICK j \in DOMAIN inv.vlans : inv.vlans[j].id = id2 /\ inv.vlans[j].num = InvVlanNum(inv, id2)
  BY InvVlanNumIs
<1>3. Unique([i \in DOMAIN inv.vlans |-> inv.vlans[i].num])
  BY InventoryAssumption
<1>4. j = k
  BY <1>1, <1>2, <1>3 DEF Unique
<1> QED
  BY <1>1, <1>2, <1>4

LEMMA TagsOfIs ==
  ASSUME NEW inv \in Inventories, NEW ids \in Seq(STRING), Unique(ids)
  PROVE  LET tags == TagsOf(inv, ids)
         IN  tags \in Seq(Int) /\ Len(tags) <= MaxTags /\ Unique(tags)
<1> DEFINE all == [k \in DOMAIN ids |-> InvVlanNum(inv, ids[k])]
           X == Int \ {0}
           nums == Those(all, X)
           m == IF Len(nums) < MaxTags THEN Len(nums) ELSE MaxTags
           f == [x \in Int |-> x]
           tags == SubSeq(nums, 1, m)
<1>1. all \in Seq(Int)
  <2>1. DOMAIN ids = 1..Len(ids) /\ Len(ids) \in Nat
    OBVIOUS
  <2>2. \A k \in DOMAIN ids : InvVlanNum(inv, ids[k]) \in Int
    BY InvVlanNumIs
  <2> QED
    BY <2>1, <2>2
<1>2. \A j, k \in DOMAIN all : all[j] \in X /\ f[all[j]] = f[all[k]] => j = k
  <2> SUFFICES ASSUME NEW j \in DOMAIN ids, NEW k \in DOMAIN ids, all[j] \in X, f[all[j]] = f[all[k]]
               PROVE  j = k
    OBVIOUS
  <2>1. all[j] \in Int /\ all[k] \in Int /\ all[j] # 0
    BY InvVlanNumIs
  <2>2. all[j] = all[k]
    BY <2>1
  <2>3. ids[j] = ids[k]
    BY <2>1, <2>2, OneNumberEach
  <2> QED
    BY <2>3 DEF Unique
<1>3. nums \in Seq(Int)
  <2> HIDE DEF all, X
  <2> QED
    BY <1>1, ThoseItems
<1>4. \A j, k \in DOMAIN nums : f[nums[j]] = f[nums[k]] => j = k
  <2> HIDE DEF all, X, f
  <2> QED
    BY <1>1, <1>2, ThoseUnique
<1> HIDE DEF nums
<1>5. MaxTags \in Nat
  BY DiagramLimits
<1>6. Len(nums) \in Nat /\ DOMAIN nums = 1..Len(nums) /\ \A j \in DOMAIN nums : nums[j] \in Int
  BY <1>3
<1>7. m \in 0..Len(nums) /\ m <= MaxTags
  BY <1>5, <1>6
<1> HIDE DEF m
<1>8. tags \in Seq(Int) /\ Len(tags) = m /\ \A j \in 1..m : tags[j] = nums[j]
  BY <1>3, <1>6, <1>7
<1> HIDE DEF tags
<1>9. Unique(tags)
  <2> SUFFICES ASSUME NEW j \in DOMAIN tags, NEW k \in DOMAIN tags, tags[j] = tags[k]
               PROVE  j = k
    BY DEF Unique
  <2>1. j \in 1..m /\ k \in 1..m /\ j \in DOMAIN nums /\ k \in DOMAIN nums
    BY <1>6, <1>7, <1>8
  <2>2. nums[j] = nums[k] /\ nums[j] \in Int /\ nums[k] \in Int
    BY <2>1, <1>6, <1>8
  <2> HIDE DEF f
  <2> QED
    BY <2>1, <2>2, <1>4
<1>10. tags = TagsOf(inv, ids)
  BY DEF tags, m, nums, TagsOf
<1> QED
  BY <1>7, <1>8, <1>9, <1>10

-----------------------------------------------------------------------------
(* Taking over the inventory. *)

AddVlanOf(e, c, num) == WithVlan(c, num)
AddInvVlan(e, c, v) == WithInvVlan(c, v)
AddDevice(inv, c, d) == WithDevice(c, inv, d)
AddService(inv, c, s) == WithService(c, inv, s)
AddHostLink(e, c, s) == WithHostLink(c, s)
AddCable(inv, c, x) == WithCable(c, inv, x)
AddBox(inv, c, box) == WithBoxAsTag(c, inv, box)
Vlans == INSTANCE FoldFacts WITH Op <- AddVlanOf
InvVlans == INSTANCE FoldFacts WITH Op <- AddInvVlan
Devices == INSTANCE FoldFacts WITH Op <- AddDevice
Services == INSTANCE FoldFacts WITH Op <- AddService
HostLinks == INSTANCE FoldFacts WITH Op <- AddHostLink
Cables == INSTANCE FoldFacts WITH Op <- AddCable
BoxTags == INSTANCE FoldFacts WITH Op <- AddBox

LEMMA VlansAdded ==
  ASSUME NEW c, Good(c), NEW tags \in Seq(Int)
  PROVE  LET d == FoldLeft(WithVlan, c, tags)
         IN  /\ Good(d) /\ d.nodes = c.nodes /\ d.links = c.links
             /\ ToSet(tags) \subseteq ToSet(d.vlans)
<1>1. FoldLeft(WithVlan, c, tags) = Vlans!Fold(0, c, tags)
  BY DEF Vlans!Fold, AddVlanOf, FoldLeft, MapThenFoldSet, Max,
         Vlans!FoldLeft, Vlans!MapThenFoldSet, Vlans!Max
<1>2. PICK f : Vlans!Runs(0, c, tags, f)
  BY Vlans!FoldRuns
<1>3. /\ f[0] = c
      /\ \A k \in 1..Len(tags) : f[k] = WithVlan(f[k - 1], tags[k])
      /\ f[Len(tags)] = Vlans!Fold(0, c, tags)
  BY <1>2 DEF Vlans!Runs, AddVlanOf
<1> DEFINE n == Len(tags)
           Fine(k, d) == /\ Good(d) /\ d.nodes = c.nodes /\ d.links = c.links
                         /\ \A j \in 1..k : tags[j] \in ToSet(d.vlans)
           T == {k \in 0..n : Fine(k, f[k])}
<1>4. n \in Nat /\ DOMAIN tags = 1..n /\ \A k \in 1..n : tags[k] \in Int
  OBVIOUS
<1>5. 0 \in T
  BY <1>3, <1>4
<1>6. ASSUME NEW k \in 0..n, k \in T, k < n PROVE k + 1 \in T
  <2>1. k \in Nat /\ k + 1 \in 1..n /\ k + 1 \in 0..n /\ (k + 1) - 1 = k
    BY <1>4, <1>6
  <2>2. f[k + 1] = WithVlan(f[k], tags[k + 1]) /\ tags[k + 1] \in Int
    BY <1>3, <1>4, <2>1
  <2>3. Fine(k, f[k])
    BY <1>6
  <2>4. /\ Good(f[k + 1]) /\ f[k + 1].nodes = c.nodes /\ f[k + 1].links = c.links
        /\ ToSet(f[k + 1].vlans) = ToSet(f[k].vlans) \cup {tags[k + 1]}
    <3> DEFINE s == f[k]
               x == tags[k + 1]
               r == WithVlan(s, x)
    <3>1. Good(s) /\ s.nodes = c.nodes /\ s.links = c.links /\ x \in Int
      BY <2>2, <2>3
    <3> HIDE DEF s, x, Fine
    <3>2. Good(r) /\ r.nodes = s.nodes /\ r.links = s.links /\ ToSet(r.vlans) = ToSet(s.vlans) \cup {x}
      BY <3>1, WithVlanGood
    <3>3. f[k + 1] = r
      BY <2>2 DEF s, x
    <3> HIDE DEF r
    <3> QED
      BY <3>1, <3>2, <3>3 DEF s, x
  <2>5. \A j \in 1..(k + 1) : j \in 1..k \/ j = k + 1
    BY <2>1
  <2>6. Fine(k + 1, f[k + 1])
    BY <2>3, <2>4, <2>5
  <2> QED
    BY <2>1, <2>6
<1>7. n \in T
  <2> HIDE DEF T, n
  <2>1. 0..n \subseteq T
    BY <1>4, <1>5, <1>6, Vlans!UpTo
  <2> QED
    BY <1>4, <2>1
<1>8. \A x \in ToSet(tags) : \E j \in 1..n : x = tags[j]
  BY <1>4 DEF ToSet
<1> QED
  BY <1>1, <1>3, <1>7, <1>8

\* d has the nodes of c at their places, and links what c links.
Grown(c, d) ==
  /\ Good(d)
  /\ DOMAIN c.nodes \subseteq DOMAIN d.nodes
  /\ \A k \in DOMAIN c.nodes : d.nodes[k] = c.nodes[k]
  /\ Pairs(c) \subseteq Pairs(d)

LEMMA GrownOn ==
  ASSUME NEW b, NEW c, NEW d, Grown(b, c), Grown(c, d)
  PROVE  Grown(b, d)
BY DEF Grown

LEMMA GrownByNode ==
  ASSUME NEW c, Good(c), NEW d, Good(d), NEW n \in Node,
         d.nodes = Append(c.nodes, n), Pairs(c) \subseteq Pairs(d)
  PROVE  /\ Grown(c, d)
         /\ d.nodes[Len(c.nodes) + 1] = n /\ Len(c.nodes) + 1 \in DOMAIN d.nodes
         /\ Len(d.nodes) = Len(c.nodes) + 1
<1>1. c.nodes \in Seq(Node)
  BY DEF Good, Cop
<1>2. /\ DOMAIN d.nodes = (DOMAIN c.nodes) \cup {Len(c.nodes) + 1}
      /\ Len(d.nodes) = Len(c.nodes) + 1
      /\ d.nodes[Len(c.nodes) + 1] = n
      /\ \A k \in DOMAIN c.nodes : d.nodes[k] = c.nodes[k]
  BY <1>1, Appended
<1> QED
  BY <1>2 DEF Grown

\* FindRef is the first node with the reference.
LEMMA RefIs ==
  ASSUME NEW c, Good(c), NEW ref, HasRef(c, ref)
  PROVE  \E k \in DOMAIN c.nodes :
           /\ c.nodes[k].ref = ref /\ FindRef(c, ref) = c.nodes[k].id
           /\ \A j \in DOMAIN c.nodes : c.nodes[j].ref = ref => k <= j
<1> DEFINE ns == c.nodes
           I == {j \in 1..Len(ns) : ns[j].ref = ref}
           m == IF I # {} THEN Min(I) ELSE 0
<1>1. ns \in Seq(Node)
  BY DEF Good, Cop
<1>2. DOMAIN ns = 1..Len(ns) /\ Len(ns) \in Nat
  BY <1>1
<1>3. FindRef(c, ref) = ns[m].id
  BY DEF FindRef, SelectInSeq
<1>4. I # {}
  BY <1>2 DEF HasRef
<1>5. m \in I /\ \A j \in I : m <= j
  BY <1>2, <1>4, LeastIndex
<1> HIDE DEF m
<1>6. m \in DOMAIN ns /\ ns[m].ref = ref /\ \A j \in DOMAIN ns : ns[j].ref = ref => m <= j
  BY <1>2, <1>5
<1> QED
  BY <1>3, <1>6

LEMMA RefKept ==
  ASSUME NEW c, Good(c), NEW d, Grown(c, d), NEW ref, HasRef(c, ref)
  PROVE  HasRef(d, ref) /\ FindRef(d, ref) = FindRef(c, ref)
<1>1. PICK k \in DOMAIN c.nodes :
        /\ c.nodes[k].ref = ref /\ FindRef(c, ref) = c.nodes[k].id
        /\ \A j \in DOMAIN c.nodes : c.nodes[j].ref = ref => k <= j
  BY RefIs
<1>2. HasRef(d, ref)
  BY <1>1 DEF Grown, HasRef
<1>3. PICK m \in DOMAIN d.nodes :
        /\ d.nodes[m].ref = ref /\ FindRef(d, ref) = d.nodes[m].id
        /\ \A j \in DOMAIN d.nodes : d.nodes[j].ref = ref => m <= j
  BY <1>2, RefIs DEF Grown
<1>4. /\ c.nodes \in Seq(Node) /\ d.nodes \in Seq(Node)
  BY DEF Grown, Good, Cop
<1>5. m <= k
  BY <1>1, <1>3 DEF Grown
<1>6. DOMAIN c.nodes = 1..Len(c.nodes) /\ DOMAIN d.nodes = 1..Len(d.nodes)
      /\ Len(c.nodes) \in Nat /\ Len(d.nodes) \in Nat
  BY <1>4
<1>7. m \in DOMAIN c.nodes
  BY <1>5, <1>6
<1>8. k <= m
  BY <1>1, <1>3, <1>7 DEF Grown
<1>9. k = m
  BY <1>5, <1>6, <1>8
<1> QED
  BY <1>1, <1>2, <1>3, <1>9 DEF Grown

LEMMA TwoRefs ==
  ASSUME NEW c, Good(c), NEW ref1, NEW ref2, HasRef(c, ref1), HasRef(c, ref2), ref1 # ref2
  PROVE  /\ FindRef(c, ref1) \in IdsOf(c.nodes) /\ FindRef(c, ref2) \in IdsOf(c.nodes)
         /\ FindRef(c, ref1) # FindRef(c, ref2)
<1>1. PICK k \in DOMAIN c.nodes : c.nodes[k].ref = ref1 /\ FindRef(c, ref1) = c.nodes[k].id
  BY RefIs
<1>2. PICK m \in DOMAIN c.nodes : c.nodes[m].ref = ref2 /\ FindRef(c, ref2) = c.nodes[m].id
  BY RefIs
<1>3. \A i, j \in DOMAIN c.nodes : c.nodes[i].id = c.nodes[j].id => i = j
  BY DEF Good, NodesGood
<1> QED
  BY <1>1, <1>2, <1>3 DEF IdsOf

LEMMA InvNodeAdded ==
  ASSUME NEW c, Good(c), NEW inv \in Inventories, NEW ref \in Refs,
         NEW kind \in Kinds, NEW ids \in Seq(STRING), Unique(ids)
  PROVE  LET d == WithInvNode(c, inv, ref, kind, ids) IN Grown(c, d) /\ HasRef(d, ref)
<1> DEFINE tags == TagsOf(inv, ids)
           e == FoldLeft(WithVlan, c, tags)
           sorted == Sorted(tags)
           d == WithNode(e, kind, ref, sorted)
<1>1. CASE HasRef(c, ref)
  <2>1. WithInvNode(c, inv, ref, kind, ids) = c
    BY <1>1 DEF WithInvNode
  <2> QED
    BY <2>1, <1>1 DEF Grown
<1>2. CASE ~HasRef(c, ref)
  <2>1. tags \in Seq(Int) /\ Len(tags) <= MaxTags /\ Unique(tags)
    BY TagsOfIs
  <2>2. WithInvNode(c, inv, ref, kind, ids) = d
    BY <1>2 DEF WithInvNode
  <2> HIDE DEF tags
  <2>3. Good(e) /\ e.nodes = c.nodes /\ e.links = c.links /\ ToSet(tags) \subseteq ToSet(e.vlans)
    BY <2>1, VlansAdded
  <2>4. /\ sorted \in Seq(Int) /\ Len(sorted) = Len(tags)
        /\ Increasing(sorted) /\ ToSet(sorted) = ToSet(tags)
    BY <2>1, SortedIs
  <2> HIDE DEF e, sorted
  <2>5. Len(sorted) <= MaxTags /\ ToSet(sorted) \subseteq ToSet(e.vlans)
    BY <2>1, <2>3, <2>4
  <2>6. /\ Good(d) /\ d.links = e.links
        /\ \E n \in Node : d.nodes = Append(e.nodes, n) /\ n.ref = ref
    <3>1. LET r == WithNode(e, kind, ref, sorted)
          IN  /\ Good(r) /\ r.links = e.links /\ r.vlans = e.vlans
              /\ \E n \in Node : /\ r.nodes = Append(e.nodes, n) /\ n.id \notin IdsOf(e.nodes)
                                 /\ n.kind = kind /\ n.ref = ref
      <4>1. /\ Good(e)
            /\ sorted \in Seq(Int) /\ Increasing(sorted)
            /\ Len(sorted) <= MaxTags /\ ToSet(sorted) \subseteq ToSet(e.vlans)
        BY <2>3, <2>4, <2>5
      <4> HIDE DEF d
      <4> QED
        BY <4>1, WithNodeGood
    <3> HIDE DEF d
    <3> QED
      BY <3>1 DEF d
  <2> HIDE DEF d
  <2>7. PICK n \in Node : d.nodes = Append(c.nodes, n) /\ n.ref = ref
    BY <2>3, <2>6
  <2>8. Pairs(c) \subseteq Pairs(d)
    BY <2>3, <2>6 DEF Pairs
  <2>9. Grown(c, d) /\ d.nodes[Len(c.nodes) + 1] = n /\ Len(c.nodes) + 1 \in DOMAIN d.nodes
    BY <2>6, <2>7, <2>8, GrownByNode
  <2>10. HasRef(d, ref)
    BY <2>7, <2>9 DEF HasRef
  <2> QED
    BY <2>2, <2>9, <2>10
<1> QED
  BY <1>1, <1>2

LEMMA DeviceAdded ==
  ASSUME NEW c, Good(c), NEW inv \in Inventories, NEW k \in DOMAIN inv.devices
  PROVE  LET d == WithDevice(c, inv, inv.devices[k])
         IN  Grown(c, d) /\ HasRef(d, <<"devices", inv.devices[k].id>>)
<1> DEFINE D == [id : STRING, kind : Kinds, vlans : Seq(STRING)]
           x == inv.devices[k]
           ref == <<"devices", x.id>>
<1>1. x \in D
  <2> DEFINE ds == inv.devices
  <2>1. ds \in Seq(D) /\ k \in DOMAIN ds
    BY InventoryHas
  <2> HIDE DEF D, ds
  <2>2. ds[k] \in D
    BY <2>1
  <2> QED
    BY <2>2 DEF ds
<1>2. Unique(x.vlans)
  BY InventoryAssumption
<1> HIDE DEF x
<1>3. x.id \in STRING /\ x.kind \in Kinds /\ x.vlans \in Seq(STRING)
  BY <1>1
<1>4. ref \in Refs
  BY <1>3 DEF Refs, RefTypes
<1> HIDE DEF ref
<1>5. LET d == WithInvNode(c, inv, ref, x.kind, x.vlans) IN Grown(c, d) /\ HasRef(d, ref)
  BY <1>2, <1>3, <1>4, InvNodeAdded
<1> QED
  BY <1>5 DEF WithDevice, x, ref

LEMMA ServiceAdded ==
  ASSUME NEW c, Good(c), NEW inv \in Inventories, NEW k \in DOMAIN inv.services
  PROVE  LET d == WithService(c, inv, inv.services[k])
         IN  Grown(c, d) /\ HasRef(d, <<"services", inv.services[k].id>>)
<1> DEFINE D == [id : STRING, host : STRING, vlans : Seq(STRING)]
           x == inv.services[k]
           ref == <<"services", x.id>>
<1>1. x \in D
  <2> DEFINE ds == inv.services
  <2>1. ds \in Seq(D) /\ k \in DOMAIN ds
    BY InventoryHas
  <2> HIDE DEF D, ds
  <2>2. ds[k] \in D
    BY <2>1
  <2> QED
    BY <2>2 DEF ds
<1>2. Unique(x.vlans)
  BY InventoryAssumption
<1> HIDE DEF x
<1>3. x.id \in STRING /\ x.vlans \in Seq(STRING) /\ "service" \in Kinds
  BY <1>1 DEF Kinds
<1>4. ref \in Refs
  BY <1>3 DEF Refs, RefTypes
<1> HIDE DEF ref
<1>5. LET d == WithInvNode(c, inv, ref, "service", x.vlans) IN Grown(c, d) /\ HasRef(d, ref)
  BY <1>2, <1>3, <1>4, InvNodeAdded
<1> QED
  BY <1>5 DEF WithService, x, ref

LEMMA InvVlanAdded ==
  ASSUME NEW c, Good(c), NEW inv \in Inventories, NEW k \in DOMAIN inv.vlans
  PROVE  Grown(c, WithInvVlan(c, inv.vlans[k]))
<1> DEFINE num == inv.vlans[k].num
           d == WithVlan(c, num)
<1>1. num \in Int
  <2> DEFINE V == [id : STRING, num : Int]
             vs == inv.vlans
  <2>1. vs \in Seq(V) /\ k \in DOMAIN vs
    BY InventoryHas
  <2> HIDE DEF V, vs
  <2>2. vs[k] \in V
    BY <2>1
  <2> QED
    BY <2>2 DEF V, vs
<1> HIDE DEF num
<1>2. Good(d) /\ d.nodes = c.nodes /\ d.links = c.links
  BY <1>1, WithVlanGood
<1> HIDE DEF d
<1>3. Grown(c, d)
  BY <1>2 DEF Grown, Pairs
<1> QED
  BY <1>3 DEF WithInvVlan, d, num

LEMMA ItsItems ==
  ASSUME NEW S, NEW s \in Seq(S)
  PROVE  s \in Seq(ToSet(s)) /\ Len(s) \in Nat /\ DOMAIN s = 1..Len(s)
<1>1. Len(s) \in Nat /\ DOMAIN s = 1..Len(s)
  OBVIOUS
<1>2. \A k \in 1..Len(s) : s[k] \in ToSet(s)
  BY <1>1 DEF ToSet
<1>3. s = [k \in 1..Len(s) |-> s[k]]
  BY <1>1
<1>4. s \in [1..Len(s) -> ToSet(s)]
  BY <1>2, <1>3
<1> QED
  BY <1>1, <1>4

LEMMA InvVlansAdded ==
  ASSUME NEW c, Good(c), NEW inv \in Inventories
  PROVE  LET d == FoldLeft(WithInvVlan, c, inv.vlans)
         IN  Grown(c, d)
<1> DEFINE s == inv.vlans
           n == Len(s)
           all == FoldLeft(WithInvVlan, c, inv.vlans)
           Fine(k, d) ==
             /\ Grown(c, d)
<1>0. s \in Seq(ToSet(s)) /\ n \in Nat /\ DOMAIN s = 1..n
  BY InventoryHas, ItsItems
<1>1. all = InvVlans!Fold(0, c, s)
  BY DEF InvVlans!Fold, AddInvVlan, FoldLeft, MapThenFoldSet, Max,
         InvVlans!FoldLeft, InvVlans!MapThenFoldSet, InvVlans!Max
<1>2. PICK f : InvVlans!Runs(0, c, s, f)
  <2> HIDE DEF s
  <2> QED
    BY <1>0, InvVlans!FoldRuns
<1>3. /\ f[0] = c /\ f[n] = all
      /\ \A k \in 1..n : f[k] = WithInvVlan(f[k - 1], s[k])
  BY <1>1, <1>2 DEF InvVlans!Runs, AddInvVlan
<1> HIDE DEF n, all
<1> DEFINE T == {k \in 0..n : Fine(k, f[k])}
<1>4. 0 \in T
  <2>1. Fine(0, c)
    BY DEF Grown
  <2> HIDE DEF Fine
  <2> QED
    BY <2>1, <1>0, <1>3
<1>5. ASSUME NEW k \in 0..n, k \in T, k < n PROVE k + 1 \in T
  <2> DEFINE b == f[k]
             r == WithInvVlan(b, s[k + 1])
  <2>1. k \in Nat /\ k + 1 \in 1..n /\ k + 1 \in 0..n /\ (k + 1) - 1 = k
    BY <1>0, <1>5
  <2>2. Fine(k, b)
    BY <1>5
  <2>3. f[k + 1] = r
    <3>1. f[k + 1] = WithInvVlan(f[(k + 1) - 1], s[k + 1])
      BY <1>3, <2>1
    <3> QED
      BY <3>1, <2>1
  <2> HIDE DEF b
  <2>4. Grown(b, r)
    <3>1. Good(b) /\ k + 1 \in DOMAIN inv.vlans
      BY <1>0, <2>1, <2>2 DEF Grown
    <3> QED
      BY <3>1, InvVlanAdded
  <2> HIDE DEF r, s
  <2>5. Grown(c, r)
    BY <2>2, <2>4, GrownOn
  <2>7. Fine(k + 1, r)
    BY <2>5
  <2> HIDE DEF Fine
  <2> QED
    BY <2>1, <2>3, <2>7
<1>6. n \in T
  <2> HIDE DEF T, s
  <2>1. 0..n \subseteq T
    BY <1>0, <1>4, <1>5, InvVlans!UpTo
  <2> QED
    BY <1>0, <2>1
<1>7. Fine(n, all)
  <2> HIDE DEF Fine
  <2> QED
    BY <1>3, <1>6
<1> QED
  BY <1>0, <1>7 DEF all

LEMMA DevicesAdded ==
  ASSUME NEW c, Good(c), NEW inv \in Inventories
  PROVE  LET d == FoldLeft(LAMBDA e, x : WithDevice(e, inv, x), c, inv.devices)
         IN  Grown(c, d) /\ \A k \in DOMAIN inv.devices : HasRef(d, <<"devices", inv.devices[k].id>>)
<1> DEFINE s == inv.devices
           n == Len(s)
           all == FoldLeft(LAMBDA e, x : WithDevice(e, inv, x), c, inv.devices)
           Fine(k, d) ==
             /\ Grown(c, d)
             /\ \A j \in 1..k : HasRef(d, <<"devices", s[j].id>>)
<1>0. s \in Seq(ToSet(s)) /\ n \in Nat /\ DOMAIN s = 1..n
  BY InventoryHas, ItsItems
<1>1. all = Devices!Fold(inv, c, s)
  BY DEF Devices!Fold, AddDevice, FoldLeft, MapThenFoldSet, Max,
         Devices!FoldLeft, Devices!MapThenFoldSet, Devices!Max
<1>2. PICK f : Devices!Runs(inv, c, s, f)
  <2> HIDE DEF s
  <2> QED
    BY <1>0, Devices!FoldRuns
<1>3. /\ f[0] = c /\ f[n] = all
      /\ \A k \in 1..n : f[k] = WithDevice(f[k - 1], inv, s[k])
  BY <1>1, <1>2 DEF Devices!Runs, AddDevice
<1> HIDE DEF n, all
<1> DEFINE T == {k \in 0..n : Fine(k, f[k])}
<1>4. 0 \in T
  <2>1. Fine(0, c)
    BY DEF Grown
  <2> HIDE DEF Fine
  <2> QED
    BY <2>1, <1>0, <1>3
<1>5. ASSUME NEW k \in 0..n, k \in T, k < n PROVE k + 1 \in T
  <2> DEFINE b == f[k]
             r == WithDevice(b, inv, s[k + 1])
  <2>1. k \in Nat /\ k + 1 \in 1..n /\ k + 1 \in 0..n /\ (k + 1) - 1 = k
    BY <1>0, <1>5
  <2>2. Fine(k, b)
    BY <1>5
  <2>3. f[k + 1] = r
    <3>1. f[k + 1] = WithDevice(f[(k + 1) - 1], inv, s[k + 1])
      BY <1>3, <2>1
    <3> QED
      BY <3>1, <2>1
  <2> HIDE DEF b
  <2>4. Grown(b, r) /\ HasRef(r, <<"devices", s[k + 1].id>>)
    <3>1. Good(b) /\ k + 1 \in DOMAIN inv.devices
      BY <1>0, <2>1, <2>2 DEF Grown
    <3> QED
      BY <3>1, DeviceAdded
  <2> HIDE DEF r, s
  <2>5. Grown(c, r)
    BY <2>2, <2>4, GrownOn
  <2>6. \A j \in 1..(k + 1) : HasRef(r, <<"devices", s[j].id>>)
    <3> SUFFICES ASSUME NEW j \in 1..(k + 1) PROVE HasRef(r, <<"devices", s[j].id>>)
      OBVIOUS
    <3>1. CASE j = k + 1
      BY <3>1, <2>4
    <3>2. CASE j \in 1..k
      <4>1. HasRef(b, <<"devices", s[j].id>>) /\ Good(b)
        BY <3>2, <2>2 DEF Grown
      <4> QED
        BY <4>1, <2>4, RefKept
    <3> QED
      BY <3>1, <3>2, <2>1
  <2>7. Fine(k + 1, r)
    BY <2>5, <2>6
  <2> HIDE DEF Fine
  <2> QED
    BY <2>1, <2>3, <2>7
<1>6. n \in T
  <2> HIDE DEF T, s
  <2>1. 0..n \subseteq T
    BY <1>0, <1>4, <1>5, Devices!UpTo
  <2> QED
    BY <1>0, <2>1
<1>7. Fine(n, all)
  <2> HIDE DEF Fine
  <2> QED
    BY <1>3, <1>6
<1> QED
  BY <1>0, <1>7 DEF all

LEMMA ServicesAdded ==
  ASSUME NEW c, Good(c), NEW inv \in Inventories
  PROVE  LET d == FoldLeft(LAMBDA e, x : WithService(e, inv, x), c, inv.services)
         IN  Grown(c, d) /\ \A k \in DOMAIN inv.services : HasRef(d, <<"services", inv.services[k].id>>)
<1> DEFINE s == inv.services
           n == Len(s)
           all == FoldLeft(LAMBDA e, x : WithService(e, inv, x), c, inv.services)
           Fine(k, d) ==
             /\ Grown(c, d)
             /\ \A j \in 1..k : HasRef(d, <<"services", s[j].id>>)
<1>0. s \in Seq(ToSet(s)) /\ n \in Nat /\ DOMAIN s = 1..n
  BY InventoryHas, ItsItems
<1>1. all = Services!Fold(inv, c, s)
  BY DEF Services!Fold, AddService, FoldLeft, MapThenFoldSet, Max,
         Services!FoldLeft, Services!MapThenFoldSet, Services!Max
<1>2. PICK f : Services!Runs(inv, c, s, f)
  <2> HIDE DEF s
  <2> QED
    BY <1>0, Services!FoldRuns
<1>3. /\ f[0] = c /\ f[n] = all
      /\ \A k \in 1..n : f[k] = WithService(f[k - 1], inv, s[k])
  BY <1>1, <1>2 DEF Services!Runs, AddService
<1> HIDE DEF n, all
<1> DEFINE T == {k \in 0..n : Fine(k, f[k])}
<1>4. 0 \in T
  <2>1. Fine(0, c)
    BY DEF Grown
  <2> HIDE DEF Fine
  <2> QED
    BY <2>1, <1>0, <1>3
<1>5. ASSUME NEW k \in 0..n, k \in T, k < n PROVE k + 1 \in T
  <2> DEFINE b == f[k]
             r == WithService(b, inv, s[k + 1])
  <2>1. k \in Nat /\ k + 1 \in 1..n /\ k + 1 \in 0..n /\ (k + 1) - 1 = k
    BY <1>0, <1>5
  <2>2. Fine(k, b)
    BY <1>5
  <2>3. f[k + 1] = r
    <3>1. f[k + 1] = WithService(f[(k + 1) - 1], inv, s[k + 1])
      BY <1>3, <2>1
    <3> QED
      BY <3>1, <2>1
  <2> HIDE DEF b
  <2>4. Grown(b, r) /\ HasRef(r, <<"services", s[k + 1].id>>)
    <3>1. Good(b) /\ k + 1 \in DOMAIN inv.services
      BY <1>0, <2>1, <2>2 DEF Grown
    <3> QED
      BY <3>1, ServiceAdded
  <2> HIDE DEF r, s
  <2>5. Grown(c, r)
    BY <2>2, <2>4, GrownOn
  <2>6. \A j \in 1..(k + 1) : HasRef(r, <<"services", s[j].id>>)
    <3> SUFFICES ASSUME NEW j \in 1..(k + 1) PROVE HasRef(r, <<"services", s[j].id>>)
      OBVIOUS
    <3>1. CASE j = k + 1
      BY <3>1, <2>4
    <3>2. CASE j \in 1..k
      <4>1. HasRef(b, <<"services", s[j].id>>) /\ Good(b)
        BY <3>2, <2>2 DEF Grown
      <4> QED
        BY <4>1, <2>4, RefKept
    <3> QED
      BY <3>1, <3>2, <2>1
  <2>7. Fine(k + 1, r)
    BY <2>5, <2>6
  <2> HIDE DEF Fine
  <2> QED
    BY <2>1, <2>3, <2>7
<1>6. n \in T
  <2> HIDE DEF T, s
  <2>1. 0..n \subseteq T
    BY <1>0, <1>4, <1>5, Services!UpTo
  <2> QED
    BY <1>0, <2>1
<1>7. Fine(n, all)
  <2> HIDE DEF Fine
  <2> QED
    BY <1>3, <1>6
<1> QED
  BY <1>0, <1>7 DEF all

\* What importing everything adds before it draws the links.
LEMMA AllImported ==
  ASSUME NEW c, Good(c), NEW inv \in Inventories
  PROVE  LET d == ImportedAll(c, inv)
         IN  /\ Grown(c, d)
             /\ \A k \in DOMAIN inv.devices : HasRef(d, <<"devices", inv.devices[k].id>>)
             /\ \A k \in DOMAIN inv.services : HasRef(d, <<"services", inv.services[k].id>>)
<1> DEFINE c1 == FoldLeft(WithInvVlan, c, inv.vlans)
           c2 == FoldLeft(LAMBDA e, x : WithDevice(e, inv, x), c1, inv.devices)
           d == FoldLeft(LAMBDA e, x : WithService(e, inv, x), c2, inv.services)
<1>1. Grown(c, c1)
  BY InvVlansAdded
<1> HIDE DEF c1
<1>2. Grown(c1, c2) /\ \A k \in DOMAIN inv.devices : HasRef(c2, <<"devices", inv.devices[k].id>>)
  BY <1>1, DevicesAdded DEF Grown
<1> HIDE DEF c2
<1>3. Grown(c2, d) /\ \A k \in DOMAIN inv.services : HasRef(d, <<"services", inv.services[k].id>>)
  BY <1>2, ServicesAdded DEF Grown
<1>4. d = ImportedAll(c, inv)
  BY DEF ImportedAll, d, c2, c1
<1> HIDE DEF d
<1>5. Grown(c, d)
  BY <1>1, <1>2, <1>3, GrownOn
<1>6. \A k \in DOMAIN inv.devices : HasRef(d, <<"devices", inv.devices[k].id>>)
  BY <1>2, <1>3, RefKept DEF Grown
<1> QED
  BY <1>3, <1>4, <1>5, <1>6

LEMMA JoinedKept ==
  ASSUME NEW c, Good(c), NEW d, Grown(c, d), NEW ref1, NEW ref2, Joined(c, ref1, ref2)
  PROVE  Joined(d, ref1, ref2)
<1>1. HasRef(c, ref1) /\ HasRef(c, ref2) /\ {FindRef(c, ref1), FindRef(c, ref2)} \in Pairs(c)
  BY BetweenPairs DEF Joined
<1>2. /\ HasRef(d, ref1) /\ FindRef(d, ref1) = FindRef(c, ref1)
      /\ HasRef(d, ref2) /\ FindRef(d, ref2) = FindRef(c, ref2)
  BY <1>1, RefKept
<1>3. {FindRef(d, ref1), FindRef(d, ref2)} \in Pairs(d)
  BY <1>1, <1>2 DEF Grown
<1> QED
  BY <1>2, <1>3, BetweenPairs DEF Joined

\* A link between two references.
LEMMA RefsLinked ==
  ASSUME NEW c, Good(c), NEW ref1, NEW ref2, HasRef(c, ref1), HasRef(c, ref2), ref1 # ref2,
         NEW label \in SUBSET Words, NEW style \in Styles, PlainTexts => "spaces" \notin label
  PROVE  LET d == WithLink(c, FindRef(c, ref1), FindRef(c, ref2), label, style)
         IN  Grown(c, d) /\ d.nodes = c.nodes /\ Joined(d, ref1, ref2)
<1> DEFINE a == FindRef(c, ref1)
           b == FindRef(c, ref2)
           d == WithLink(c, a, b, label, style)
<1>1. a \in IdsOf(c.nodes) /\ b \in IdsOf(c.nodes) /\ a # b
  BY TwoRefs
<1> HIDE DEF a, b
<1>2. Good(d) /\ d.nodes = c.nodes /\ d.vlans = c.vlans /\ Pairs(d) = Pairs(c) \cup {{a, b}}
  BY <1>1, WithLinkGood
<1> HIDE DEF d
<1>3. Grown(c, d)
  BY <1>2 DEF Grown
<1>4. HasRef(d, ref1) /\ HasRef(d, ref2) /\ FindRef(d, ref1) = a /\ FindRef(d, ref2) = b
  BY <1>3, RefKept DEF a, b
<1>5. Between(d, a, b) # {}
  BY <1>2, BetweenPairs
<1>6. Joined(d, ref1, ref2)
  BY <1>4, <1>5 DEF Joined
<1> QED
  BY <1>2, <1>3, <1>6 DEF d, a, b

LEMMA HostLinkAdded ==
  ASSUME NEW c, Good(c), NEW s
  PROVE  LET d == WithHostLink(c, s)
             sn == <<"services", s.id>>
             host == <<"devices", s.host>>
         IN  /\ Grown(c, d) /\ d.nodes = c.nodes
             /\ HasRef(c, sn) /\ HasRef(c, host) => Joined(d, sn, host)
<1> DEFINE sn == <<"services", s.id>>
           host == <<"devices", s.host>>
           d == WithHostLink(c, s)
<1>1. sn # host
  OBVIOUS
<1>2. CASE HasRef(c, sn) /\ HasRef(c, host)
  <2>1. d = WithLink(c, FindRef(c, sn), FindRef(c, host), {}, "logical")
    BY <1>2 DEF WithHostLink
  <2>2. "logical" \in Styles /\ {} \in SUBSET Words /\ "spaces" \notin {}
    BY DEF Styles
  <2> HIDE DEF sn, host, d
  <2>3. Grown(c, d) /\ d.nodes = c.nodes /\ Joined(d, sn, host)
    BY <1>1, <1>2, <2>1, <2>2, RefsLinked
  <2> QED
    BY <2>3 DEF d, sn, host
<1>3. CASE ~(HasRef(c, sn) /\ HasRef(c, host))
  <2>1. d = c
    BY <1>3 DEF WithHostLink
  <2> HIDE DEF d, sn, host
  <2>2. Grown(c, d) /\ d.nodes = c.nodes
    BY <2>1 DEF Grown
  <2> QED
    BY <1>3, <2>2 DEF d, sn, host
<1> QED
  BY <1>2, <1>3

Relabeled(l, label, style) == [l EXCEPT !.label = label, !.style = style]

LEMMA LinkRelabeled ==
  ASSUME NEW I, NEW l, GoodLink(l, I), NEW label \in SUBSET Words, NEW style \in Styles,
         PlainTexts => "spaces" \notin label
  PROVE  LET m == Relabeled(l, label, style)
         IN  GoodLink(m, I) /\ m.id = l.id /\ Ends(m) = Ends(l)
<1> DEFINE m == [id |-> l.id, from |-> l.from, to |-> l.to, label |-> label, style |-> style]
<1>1. l \in Link /\ l.from \in I /\ l.to \in I /\ l.from # l.to
  BY DEF GoodLink
<1>2. Relabeled(l, label, style) = m
  <2>1. l = [id |-> l.id, from |-> l.from, to |-> l.to, label |-> l.label, style |-> l.style]
    BY <1>1 DEF Link
  <2> DEFINE e == [l EXCEPT !.label = label]
  <2>2. [l EXCEPT !.label = label, !.style = style] = [e EXCEPT !.style = style]
    BY <2>1
  <2>3. e = [id |-> l.id, from |-> l.from, to |-> l.to, label |-> label, style |-> l.style]
    BY <2>1
  <2> HIDE DEF e
  <2>4. [e EXCEPT !.style = style] = m
    BY <2>3
  <2> QED
    BY <2>2, <2>4 DEF Relabeled
<1>3. l.id \in Nat /\ l.from \in Nat /\ l.to \in Nat
  BY <1>1 DEF Link
<1>4. m \in Link
  BY <1>3 DEF Link
<1>5. m.id = l.id /\ m.from = l.from /\ m.to = l.to /\ m.label = label
  OBVIOUS
<1> HIDE DEF m
<1> QED
  BY <1>1, <1>2, <1>4, <1>5 DEF GoodLink, Ends

\* A copy with links that changed, but neither their ids nor their ends.
LEMMA WithLinks ==
  ASSUME NEW c, Good(c), NEW ms, ms = [k \in DOMAIN c.links |-> ms[k]],
         \A k \in DOMAIN c.links :
           /\ GoodLink(ms[k], IdsOf(c.nodes))
           /\ ms[k].id = c.links[k].id /\ Ends(ms[k]) = Ends(c.links[k])
  PROVE  LET d == [c EXCEPT !.links = ms]
         IN  Good(d) /\ d.nodes = c.nodes /\ d.vlans = c.vlans /\ d.seq = c.seq /\ Pairs(d) = Pairs(c)
<1> DEFINE d == [c EXCEPT !.links = ms]
<1>0. /\ c \in Cop /\ Increasing(c.vlans) /\ NodesGood(c.nodes, c.vlans)
      /\ LinksGood(c.links, IdsOf(c.nodes))
  BY DEF Good
<1>1. d = [nodes |-> c.nodes, links |-> ms, vlans |-> c.vlans, seq |-> c.seq]
      /\ c.vlans \in Seq(Int) /\ c.seq \in Nat
  BY <1>0, CopFields
<1> HIDE DEF d
<1>2. LinksGood(ms, IdsOf(c.nodes))
  BY <1>0, LinksMapped
<1>3. Good(d)
  BY <1>0, <1>1, <1>2, MakesGood
<1>4. d.nodes = c.nodes /\ d.links = ms /\ d.vlans = c.vlans /\ d.seq = c.seq
  BY <1>1
<1>5. DOMAIN ms = DOMAIN c.links
  OBVIOUS
<1>6. Pairs(d) = Pairs(c)
  BY <1>4, <1>5 DEF Pairs
<1> QED
  BY <1>3, <1>4, <1>6 DEF d

LEMMA CableAdded ==
  ASSUME NEW c, Good(c), NEW inv \in Inventories, NEW i \in DOMAIN inv.conns
  PROVE  LET x == inv.conns[i]
             d == WithCable(c, inv, x)
             dev == <<"devices", x.device>>
             sw == <<"devices", x.switch>>
         IN  /\ Grown(c, d) /\ d.nodes = c.nodes
             /\ HasRef(c, dev) /\ HasRef(c, sw) => Joined(d, dev, sw)
<1> DEFINE x == inv.conns[i]
           dev == <<"devices", x.device>>
           sw == <<"devices", x.switch>>
           cs == {y \in ToSet(inv.conns) : SameEnds(x, y)}
           label == {y.name : y \in cs}
           style == IF \E y \in cs : y.mode = "Trunk" THEN "trunk" ELSE "access"
           a == FindRef(c, dev)
           b == FindRef(c, sw)
           d == WithCable(c, inv, x)
<1>1. dev # sw
  <2>1. x.device # x.switch
    BY InventoryAssumption
  <2> HIDE DEF x
  <2> QED
    BY <2>1
<1>2. label \in SUBSET Words /\ style \in Styles /\ (PlainTexts => "spaces" \notin label)
  <2>1. \A y \in ToSet(inv.conns) : y.name \in STRING
    <3> DEFINE C == [name : STRING, device : STRING, switch : STRING, mode : {"Access", "Trunk"}]
               s == inv.conns
    <3>1. s \in Seq(C)
      BY InventoryHas
    <3> HIDE DEF C, s
    <3>2. \A k \in DOMAIN s : s[k] \in C
      BY <3>1
    <3>3. \A k \in DOMAIN s : s[k].name \in STRING
      BY <3>2 DEF C
    <3> QED
      BY <3>3 DEF s, ToSet
  <2>2. label \in SUBSET Words
    BY <2>1 DEF Words
  <2>3. style \in Styles
    BY DEF Styles
  <2>4. PlainTexts => \A y \in ToSet(inv.conns) : y.name # "spaces"
    BY DEF PlainTexts, ToSet
  <2> QED
    BY <2>2, <2>3, <2>4
<1>3. d = IF ~HasRef(c, dev) \/ ~HasRef(c, sw) THEN c
          ELSE IF Between(c, a, b) = {} THEN WithLink(c, a, b, label, style)
          ELSE OnLinks(c, LAMBDA l :
                 IF {l.from, l.to} = {a, b} /\ l.label = {}
                 THEN [l EXCEPT !.label = label, !.style = style] ELSE l)
  BY DEF WithCable
<1> HIDE DEF x, dev, sw, label, style, d
<1> SUFFICES /\ Grown(c, d) /\ d.nodes = c.nodes
             /\ HasRef(c, dev) /\ HasRef(c, sw) => Joined(d, dev, sw)
  BY DEF x, dev, sw, d
<1>4. CASE ~(HasRef(c, dev) /\ HasRef(c, sw))
  BY <1>3, <1>4 DEF Grown
<1>5. CASE HasRef(c, dev) /\ HasRef(c, sw) /\ Between(c, a, b) = {}
  <2>1. d = WithLink(c, a, b, label, style)
    BY <1>3, <1>5
  <2> QED
    BY <2>1, <1>1, <1>2, <1>5, RefsLinked
<1>6. CASE HasRef(c, dev) /\ HasRef(c, sw) /\ Between(c, a, b) # {}
  <2> DEFINE Do(l) == IF {l.from, l.to} = {a, b} /\ l.label = {}
                      THEN [l EXCEPT !.label = label, !.style = style] ELSE l
             ms == [k \in DOMAIN c.links |-> Do(c.links[k])]
  <2>1. d = [c EXCEPT !.links = ms]
    BY <1>3, <1>6 DEF OnLinks
  <2>2. ASSUME NEW k \in DOMAIN c.links
        PROVE  /\ GoodLink(ms[k], IdsOf(c.nodes))
               /\ ms[k].id = c.links[k].id /\ Ends(ms[k]) = Ends(c.links[k])
    <3> DEFINE l == c.links[k]
    <3>1. GoodLink(l, IdsOf(c.nodes))
      BY DEF Good, LinksGood
    <3>2. ms[k] = l \/ ms[k] = Relabeled(l, label, style)
      BY DEF Relabeled
    <3> HIDE DEF l, ms, Do
    <3>3. CASE ms[k] = l
      BY <3>1, <3>3 DEF l
    <3>4. CASE ms[k] = Relabeled(l, label, style)
      <4>1. LET m == Relabeled(l, label, style)
            IN  GoodLink(m, IdsOf(c.nodes)) /\ m.id = l.id /\ Ends(m) = Ends(l)
        BY <1>2, <3>1, LinkRelabeled
      <4> QED
        BY <3>4, <4>1 DEF l
    <3> QED
      BY <3>2, <3>3, <3>4
  <2>3. ms = [k \in DOMAIN c.links |-> ms[k]]
    OBVIOUS
  <2> HIDE DEF ms, Do
  <2>4. Good(d) /\ d.nodes = c.nodes /\ Pairs(d) = Pairs(c)
    BY <2>1, <2>2, <2>3, WithLinks
  <2>5. Grown(c, d)
    BY <2>4 DEF Grown
  <2>6. Joined(c, dev, sw)
    BY <1>6 DEF Joined
  <2> QED
    BY <2>4, <2>5, <2>6, JoinedKept
<1> QED
  BY <1>4, <1>5, <1>6

LEMMA HostLinksAdded ==
  ASSUME NEW c, Good(c), NEW inv \in Inventories
  PROVE  LET d == FoldLeft(WithHostLink, c, inv.services)
         IN  /\ Grown(c, d) /\ d.nodes = c.nodes
             /\ \A k \in DOMAIN inv.services :
                  LET x == inv.services[k]
                  IN  HasRef(c, <<"services", x.id>>) /\ HasRef(c, <<"devices", x.host>>)
                        => Joined(d, <<"services", x.id>>, <<"devices", x.host>>)
<1> DEFINE s == inv.services
           n == Len(s)
           all == FoldLeft(WithHostLink, c, inv.services)
           Fine(k, d) ==
             /\ Grown(c, d) /\ d.nodes = c.nodes
             /\ \A j \in 1..k : HasRef(c, <<"services", s[j].id>>) /\ HasRef(c, <<"devices", s[j].host>>)
                  => Joined(d, <<"services", s[j].id>>, <<"devices", s[j].host>>)
<1>0. s \in Seq(ToSet(s)) /\ n \in Nat /\ DOMAIN s = 1..n
  BY InventoryHas, ItsItems
<1>1. all = HostLinks!Fold(0, c, s)
  BY DEF HostLinks!Fold, AddHostLink, FoldLeft, MapThenFoldSet, Max,
         HostLinks!FoldLeft, HostLinks!MapThenFoldSet, HostLinks!Max
<1>2. PICK f : HostLinks!Runs(0, c, s, f)
  <2> HIDE DEF s
  <2> QED
    BY <1>0, HostLinks!FoldRuns
<1>3. /\ f[0] = c /\ f[n] = all
      /\ \A k \in 1..n : f[k] = WithHostLink(f[k - 1], s[k])
  BY <1>1, <1>2 DEF HostLinks!Runs, AddHostLink
<1> HIDE DEF n, all
<1> DEFINE T == {k \in 0..n : Fine(k, f[k])}
<1>4. 0 \in T
  <2>1. Fine(0, c)
    BY DEF Grown
  <2> HIDE DEF Fine
  <2> QED
    BY <2>1, <1>0, <1>3
<1>5. ASSUME NEW k \in 0..n, k \in T, k < n PROVE k + 1 \in T
  <2> DEFINE b == f[k]
             x == s[k + 1]
             r == WithHostLink(b, x)
             ref1 == <<"services", x.id>>
             ref2 == <<"devices", x.host>>
  <2>1. k \in Nat /\ k + 1 \in 1..n /\ k + 1 \in 0..n /\ (k + 1) - 1 = k
    BY <1>0, <1>5
  <2>2. Fine(k, b)
    BY <1>5
  <2>3. f[k + 1] = r
    <3>1. f[k + 1] = WithHostLink(f[(k + 1) - 1], s[k + 1])
      BY <1>3, <2>1
    <3> QED
      BY <3>1, <2>1
  <2> HIDE DEF b
  <2>4. /\ Grown(b, r) /\ r.nodes = b.nodes
        /\ HasRef(b, ref1) /\ HasRef(b, ref2) => Joined(r, ref1, ref2)
    <3>1. Good(b) /\ k + 1 \in DOMAIN inv.services
      BY <1>0, <2>1, <2>2 DEF Grown
    <3> QED
      BY <3>1, HostLinkAdded
  <2> HIDE DEF r, s
  <2>5. Grown(c, r) /\ r.nodes = c.nodes
    BY <2>2, <2>4, GrownOn
  <2>6. ASSUME NEW j \in 1..(k + 1), HasRef(c, <<"services", s[j].id>>), HasRef(c, <<"devices", s[j].host>>)
        PROVE  Joined(r, <<"services", s[j].id>>, <<"devices", s[j].host>>)
    <3>1. CASE j = k + 1
      <4>1. HasRef(c, ref1) /\ HasRef(c, ref2)
        BY <2>6, <3>1
      <4> HIDE DEF ref1, ref2
      <4>2. HasRef(b, ref1) /\ HasRef(b, ref2)
        BY <4>1, <2>2 DEF HasRef
      <4>3. Joined(r, ref1, ref2)
        BY <4>2, <2>4
      <4> QED
        BY <4>3, <3>1 DEF ref1, ref2
    <3>2. CASE j \in 1..k
      <4>1. Joined(b, <<"services", s[j].id>>, <<"devices", s[j].host>>) /\ Good(b)
        BY <3>2, <2>2, <2>6 DEF Grown
      <4> QED
        BY <4>1, <2>4, JoinedKept
    <3> QED
      BY <3>1, <3>2, <2>1
  <2>7. Fine(k + 1, r)
    BY <2>5, <2>6
  <2> HIDE DEF Fine
  <2> QED
    BY <2>1, <2>3, <2>7
<1>6. n \in T
  <2> HIDE DEF T, s
  <2>1. 0..n \subseteq T
    BY <1>0, <1>4, <1>5, HostLinks!UpTo
  <2> QED
    BY <1>0, <2>1
<1>7. Fine(n, all)
  <2> HIDE DEF Fine
  <2> QED
    BY <1>3, <1>6
<1> QED
  BY <1>0, <1>7 DEF all

LEMMA CablesAdded ==
  ASSUME NEW c, Good(c), NEW inv \in Inventories
  PROVE  LET d == FoldLeft(LAMBDA e, x : WithCable(e, inv, x), c, inv.conns)
         IN  /\ Grown(c, d) /\ d.nodes = c.nodes
             /\ \A k \in DOMAIN inv.conns :
                  LET x == inv.conns[k]
                  IN  HasRef(c, <<"devices", x.device>>) /\ HasRef(c, <<"devices", x.switch>>)
                        => Joined(d, <<"devices", x.device>>, <<"devices", x.switch>>)
<1> DEFINE s == inv.conns
           n == Len(s)
           all == FoldLeft(LAMBDA e, x : WithCable(e, inv, x), c, inv.conns)
           Fine(k, d) ==
             /\ Grown(c, d) /\ d.nodes = c.nodes
             /\ \A j \in 1..k : HasRef(c, <<"devices", s[j].device>>) /\ HasRef(c, <<"devices", s[j].switch>>)
                  => Joined(d, <<"devices", s[j].device>>, <<"devices", s[j].switch>>)
<1>0. s \in Seq(ToSet(s)) /\ n \in Nat /\ DOMAIN s = 1..n
  BY InventoryHas, ItsItems
<1>1. all = Cables!Fold(inv, c, s)
  BY DEF Cables!Fold, AddCable, FoldLeft, MapThenFoldSet, Max,
         Cables!FoldLeft, Cables!MapThenFoldSet, Cables!Max
<1>2. PICK f : Cables!Runs(inv, c, s, f)
  <2> HIDE DEF s
  <2> QED
    BY <1>0, Cables!FoldRuns
<1>3. /\ f[0] = c /\ f[n] = all
      /\ \A k \in 1..n : f[k] = WithCable(f[k - 1], inv, s[k])
  BY <1>1, <1>2 DEF Cables!Runs, AddCable
<1> HIDE DEF n, all
<1> DEFINE T == {k \in 0..n : Fine(k, f[k])}
<1>4. 0 \in T
  <2>1. Fine(0, c)
    BY DEF Grown
  <2> HIDE DEF Fine
  <2> QED
    BY <2>1, <1>0, <1>3
<1>5. ASSUME NEW k \in 0..n, k \in T, k < n PROVE k + 1 \in T
  <2> DEFINE b == f[k]
             x == s[k + 1]
             r == WithCable(b, inv, x)
             ref1 == <<"devices", x.device>>
             ref2 == <<"devices", x.switch>>
  <2>1. k \in Nat /\ k + 1 \in 1..n /\ k + 1 \in 0..n /\ (k + 1) - 1 = k
    BY <1>0, <1>5
  <2>2. Fine(k, b)
    BY <1>5
  <2>3. f[k + 1] = r
    <3>1. f[k + 1] = WithCable(f[(k + 1) - 1], inv, s[k + 1])
      BY <1>3, <2>1
    <3> QED
      BY <3>1, <2>1
  <2> HIDE DEF b
  <2>4. /\ Grown(b, r) /\ r.nodes = b.nodes
        /\ HasRef(b, ref1) /\ HasRef(b, ref2) => Joined(r, ref1, ref2)
    <3>1. Good(b) /\ k + 1 \in DOMAIN inv.conns
      BY <1>0, <2>1, <2>2 DEF Grown
    <3> QED
      BY <3>1, CableAdded
  <2> HIDE DEF r, s
  <2>5. Grown(c, r) /\ r.nodes = c.nodes
    BY <2>2, <2>4, GrownOn
  <2>6. ASSUME NEW j \in 1..(k + 1), HasRef(c, <<"devices", s[j].device>>), HasRef(c, <<"devices", s[j].switch>>)
        PROVE  Joined(r, <<"devices", s[j].device>>, <<"devices", s[j].switch>>)
    <3>1. CASE j = k + 1
      <4>1. HasRef(c, ref1) /\ HasRef(c, ref2)
        BY <2>6, <3>1
      <4> HIDE DEF ref1, ref2
      <4>2. HasRef(b, ref1) /\ HasRef(b, ref2)
        BY <4>1, <2>2 DEF HasRef
      <4>3. Joined(r, ref1, ref2)
        BY <4>2, <2>4
      <4> QED
        BY <4>3, <3>1 DEF ref1, ref2
    <3>2. CASE j \in 1..k
      <4>1. Joined(b, <<"devices", s[j].device>>, <<"devices", s[j].switch>>) /\ Good(b)
        BY <3>2, <2>2, <2>6 DEF Grown
      <4> QED
        BY <4>1, <2>4, JoinedKept
    <3> QED
      BY <3>1, <3>2, <2>1
  <2>7. Fine(k + 1, r)
    BY <2>5, <2>6
  <2> HIDE DEF Fine
  <2> QED
    BY <2>1, <2>3, <2>7
<1>6. n \in T
  <2> HIDE DEF T, s
  <2>1. 0..n \subseteq T
    BY <1>0, <1>4, <1>5, Cables!UpTo
  <2> QED
    BY <1>0, <2>1
<1>7. Fine(n, all)
  <2> HIDE DEF Fine
  <2> QED
    BY <1>3, <1>6
<1> QED
  BY <1>0, <1>7 DEF all

LEMMA LinksImported ==
  ASSUME NEW c, Good(c), NEW inv \in Inventories
  PROVE  LET d == LinkInventory(c, inv)
         IN  /\ Grown(c, d) /\ d.nodes = c.nodes
             /\ \A k \in DOMAIN inv.conns :
                  LET x == inv.conns[k]
                  IN  HasRef(c, <<"devices", x.device>>) /\ HasRef(c, <<"devices", x.switch>>)
                        => Joined(d, <<"devices", x.device>>, <<"devices", x.switch>>)
             /\ \A k \in DOMAIN inv.services :
                  LET x == inv.services[k]
                  IN  HasRef(c, <<"services", x.id>>) /\ HasRef(c, <<"devices", x.host>>)
                        => Joined(d, <<"services", x.id>>, <<"devices", x.host>>)
<1> DEFINE b == FoldLeft(WithHostLink, c, inv.services)
           d == FoldLeft(LAMBDA e, x : WithCable(e, inv, x), b, inv.conns)
<1>1. d = LinkInventory(c, inv)
  BY DEF LinkInventory
<1>2. /\ Grown(c, b) /\ b.nodes = c.nodes
      /\ \A k \in DOMAIN inv.services :
           LET x == inv.services[k]
           IN  HasRef(c, <<"services", x.id>>) /\ HasRef(c, <<"devices", x.host>>)
                 => Joined(b, <<"services", x.id>>, <<"devices", x.host>>)
  BY HostLinksAdded
<1> HIDE DEF b
<1>3. /\ Grown(b, d) /\ d.nodes = b.nodes
      /\ \A k \in DOMAIN inv.conns :
           LET x == inv.conns[k]
           IN  HasRef(b, <<"devices", x.device>>) /\ HasRef(b, <<"devices", x.switch>>)
                 => Joined(d, <<"devices", x.device>>, <<"devices", x.switch>>)
  <2>1. Good(b)
    BY <1>2 DEF Grown
  <2> QED
    BY <2>1, CablesAdded
<1> HIDE DEF d
<1>4. Grown(c, d) /\ d.nodes = c.nodes /\ Good(b)
  BY <1>2, <1>3, GrownOn DEF Grown
<1>5. \A ref : HasRef(b, ref) <=> HasRef(c, ref)
  BY <1>2 DEF HasRef
<1>6. \A ref1, ref2 : Joined(b, ref1, ref2) => Joined(d, ref1, ref2)
  BY <1>3, <1>4, JoinedKept
<1> QED
  BY <1>1, <1>2, <1>3, <1>4, <1>5, <1>6

\* A node that is drawn without a reference.
LEMMA BareNodeAdded ==
  ASSUME NEW c, Good(c), NEW kind \in Kinds
  PROVE  LET d == WithNode(c, kind, NoRef, <<>>)
         IN  /\ Good(d) /\ d.links = c.links
             /\ \E n \in Node : d.nodes = Append(c.nodes, n) /\ n.id \notin IdsOf(c.nodes)
<1> DEFINE tags == <<>>
           d == WithNode(c, kind, NoRef, tags)
<1>1. /\ NoRef \in Refs /\ tags \in Seq(Int) /\ Increasing(tags)
      /\ Len(tags) <= MaxTags /\ ToSet(tags) \subseteq ToSet(c.vlans)
  <2>1. NoRef \in Refs
    BY DEF Refs
  <2>2. <<>> \in Seq(Int) /\ DOMAIN <<>> = {} /\ Len(<<>>) = 0 /\ MaxTags \in Nat
    BY DiagramLimits
  <2> QED
    BY <2>1, <2>2 DEF Increasing, ToSet
<1> HIDE DEF tags
<1>2. LET r == WithNode(c, kind, NoRef, tags)
      IN  /\ Good(r) /\ r.links = c.links /\ r.vlans = c.vlans
          /\ \E n \in Node : /\ r.nodes = Append(c.nodes, n) /\ n.id \notin IdsOf(c.nodes)
                             /\ n.kind = kind /\ n.ref = NoRef
  BY <1>1, WithNodeGood
<1> HIDE DEF d
<1>3. /\ Good(d) /\ d.links = c.links
      /\ \E n \in Node : d.nodes = Append(c.nodes, n) /\ n.id \notin IdsOf(c.nodes)
  BY <1>2 DEF d
<1> QED
  BY <1>3 DEF d, tags

LEMMA InternetAdded ==
  ASSUME NEW c, Good(c)
  PROVE  Grown(c, WithInternet(c))
<1> DEFINE edges == IF Busiest(c, "firewall") # {} THEN Busiest(c, "firewall") ELSE Busiest(c, "router")
           d == WithNode(c, "internet", NoRef, <<>>)
           edge == CHOOSE k \in edges : TRUE
           a == Last(d.nodes).id
           b == c.nodes[edge].id
           e == WithLink(d, a, b, {"WAN"}, "")
<1>1. CASE edges = {} \/ \E k \in DOMAIN c.nodes : c.nodes[k].kind = "internet"
  <2>1. WithInternet(c) = c
    BY <1>1 DEF WithInternet
  <2> QED
    BY <2>1 DEF Grown
<1>2. CASE edges # {} /\ ~\E k \in DOMAIN c.nodes : c.nodes[k].kind = "internet"
  <2>1. WithInternet(c) = e
    BY <1>2 DEF WithInternet
  <2>2. edge \in DOMAIN c.nodes
    <3>1. edge \in edges
      BY <1>2
    <3>2. edges \subseteq DOMAIN c.nodes
      BY DEF Busiest
    <3> QED
      BY <3>1, <3>2
  <2>3. b \in IdsOf(c.nodes)
    BY <2>2 DEF IdsOf
  <2> HIDE DEF edge, b, edges
  <2>4. /\ Good(d) /\ d.links = c.links
        /\ \E n \in Node : d.nodes = Append(c.nodes, n) /\ n.id \notin IdsOf(c.nodes)
    <3> DEFINE kind == "internet"
    <3>1. kind \in Kinds
      BY DEF Kinds
    <3>2. d = WithNode(c, kind, NoRef, <<>>)
      OBVIOUS
    <3> HIDE DEF d, kind
    <3> QED
      BY <3>1, <3>2, BareNodeAdded
  <2> HIDE DEF d
  <2>5. PICK n \in Node : d.nodes = Append(c.nodes, n) /\ n.id \notin IdsOf(c.nodes)
    BY <2>4
  <2>6. Pairs(c) \subseteq Pairs(d)
    BY <2>4 DEF Pairs
  <2>7. /\ Grown(c, d) /\ d.nodes[Len(c.nodes) + 1] = n /\ Len(c.nodes) + 1 \in DOMAIN d.nodes
        /\ Len(d.nodes) = Len(c.nodes) + 1
    BY <2>4, <2>5, <2>6, GrownByNode
  <2>8. a = n.id /\ a \in IdsOf(d.nodes)
    BY <2>7 DEF Last, IdsOf
  <2>9. b \in IdsOf(d.nodes) /\ a # b
    BY <2>3, <2>5, <2>7, <2>8 DEF IdsOf, Grown
  <2>10. {"WAN"} \in SUBSET Words /\ "" \in Styles /\ "spaces" \notin {"WAN"}
    BY DEF Words, Styles
  <2> HIDE DEF a, e
  <2>11. Good(e) /\ e.nodes = d.nodes /\ Pairs(e) = Pairs(d) \cup {{a, b}}
    <3> DEFINE label == {"WAN"}
               style == ""
    <3>1. label \in SUBSET Words /\ style \in Styles /\ "spaces" \notin label
      BY <2>10
    <3>2. e = WithLink(d, a, b, label, style)
      BY DEF e
    <3> HIDE DEF label, style
    <3>3. LET r == WithLink(d, a, b, label, style)
          IN  Good(r) /\ r.nodes = d.nodes /\ r.vlans = d.vlans /\ Pairs(r) = Pairs(d) \cup {{a, b}}
      <4>1. /\ Good(d) /\ a \in IdsOf(d.nodes) /\ b \in IdsOf(d.nodes) /\ a # b
            /\ label \in SUBSET Words /\ style \in Styles /\ (PlainTexts => "spaces" \notin label)
        BY <2>4, <2>8, <2>9, <3>1
      <4> QED
        BY <4>1, WithLinkGood
    <3> QED
      BY <3>2, <3>3
  <2>12. Grown(d, e)
    BY <2>11 DEF Grown
  <2> QED
    BY <2>1, <2>7, <2>12, GrownOn
<1> QED
  BY <1>1, <1>2

-----------------------------------------------------------------------------
(* Converting boxes. *)

LEMMA SortedMore ==
  ASSUME NEW s \in Seq(Int), Increasing(s), NEW x \in Int, x \notin ToSet(s)
  PROVE  LET r == Sorted(Append(s, x))
         IN  /\ r \in Seq(Int) /\ Increasing(r) /\ Len(r) = Len(s) + 1
             /\ ToSet(r) = ToSet(s) \cup {x}
<1> DEFINE a == Append(s, x)
           m == Len(s) + 1
<1>1. /\ a \in Seq(Int) /\ DOMAIN a = (DOMAIN s) \cup {m} /\ m \notin DOMAIN s
      /\ a[m] = x /\ Len(a) = m /\ \A k \in DOMAIN s : a[k] = s[k]
  BY Appended
<1> HIDE DEF a
<1>2. Unique(s) /\ \A k \in DOMAIN s : s[k] # x
  BY IncreasingUnique DEF ToSet
<1> HIDE DEF m
<1>3. Unique(a)
  BY <1>1, <1>2 DEF Unique
<1>4. ToSet(a) = ToSet(s) \cup {x}
  BY <1>1 DEF ToSet
<1>5. /\ Sorted(a) \in Seq(Int) /\ Len(Sorted(a)) = m
      /\ Increasing(Sorted(a)) /\ ToSet(Sorted(a)) = ToSet(s) \cup {x}
  BY <1>1, <1>3, <1>4, SortedIs
<1> QED
  BY <1>5 DEF a, m

\* A copy with nodes that changed, but not their ids.
LEMMA WithNodes ==
  ASSUME NEW c, Good(c), NEW ms, ms = [k \in DOMAIN c.nodes |-> ms[k]],
         \A k \in DOMAIN c.nodes : GoodNode(ms[k], c.vlans) /\ ms[k].id = c.nodes[k].id
  PROVE  LET d == [c EXCEPT !.nodes = ms]
         IN  /\ Good(d) /\ d.nodes = ms /\ d.links = c.links /\ d.vlans = c.vlans
             /\ d.seq = c.seq /\ IdsOf(d.nodes) = IdsOf(c.nodes)
<1> DEFINE d == [c EXCEPT !.nodes = ms]
<1>0. /\ c \in Cop /\ Increasing(c.vlans) /\ NodesGood(c.nodes, c.vlans)
      /\ LinksGood(c.links, IdsOf(c.nodes))
  BY DEF Good
<1>1. d = [nodes |-> ms, links |-> c.links, vlans |-> c.vlans, seq |-> c.seq]
      /\ c.vlans \in Seq(Int) /\ c.seq \in Nat
  BY <1>0, CopFields
<1> HIDE DEF d
<1>2. NodesGood(ms, c.vlans) /\ IdsOf(ms) = IdsOf(c.nodes)
  BY <1>0, NodesMapped
<1>3. LinksGood(c.links, IdsOf(ms))
  BY <1>0, <1>2
<1>4. Good(d)
  BY <1>0, <1>1, <1>2, <1>3, MakesGood
<1>5. d.nodes = ms /\ d.links = c.links /\ d.vlans = c.vlans /\ d.seq = c.seq
  BY <1>1
<1> QED
  BY <1>2, <1>4, <1>5 DEF d

LEMMA WithoutGood ==
  ASSUME NEW c, Good(c), NEW id
  PROVE  LET d == Without(c, id)
         IN  /\ Good(d) /\ d.vlans = c.vlans /\ d.seq = c.seq
             /\ IdsOf(d.nodes) = IdsOf(c.nodes) \ {id}
             /\ \A k \in DOMAIN c.nodes : c.nodes[k].id # id =>
                  \E j \in DOMAIN d.nodes : d.nodes[j] = c.nodes[k]
             /\ \A p \in Pairs(c) : id \notin p => p \in Pairs(d)
<1> DEFINE X == {n \in ToSet(c.nodes) : n.id # id}
           Y == {l \in ToSet(c.links) : id \notin {l.from, l.to}}
           ns == Those(c.nodes, X)
           ls == Those(c.links, Y)
           d == [c EXCEPT !.nodes = ns, !.links = ls]
<1>0. /\ c \in Cop /\ Increasing(c.vlans) /\ NodesGood(c.nodes, c.vlans)
      /\ LinksGood(c.links, IdsOf(c.nodes))
  BY DEF Good
<1>1. d = [nodes |-> ns, links |-> ls, vlans |-> c.vlans, seq |-> c.seq]
      /\ c.vlans \in Seq(Int) /\ c.seq \in Nat /\ c.nodes \in Seq(Node) /\ c.links \in Seq(Link)
  <2> HIDE DEF ns, ls
  <2>1. d = [c EXCEPT !.nodes = ns, !.links = ls]
    OBVIOUS
  <2> HIDE DEF d
  <2>2. d = [nodes |-> ns, links |-> ls, vlans |-> c.vlans, seq |-> c.seq]
    BY <2>1, <1>0, CopFields, ZenonT(30)
  <2> QED
    BY <2>2, <1>0, CopFields
<1>2. Without(c, id) = d
  BY DEF Without
<1>3. /\ \A k \in DOMAIN c.nodes : c.nodes[k] \in X <=> c.nodes[k].id # id
      /\ \A k \in DOMAIN c.links : c.links[k] \in Y <=> id \notin Ends(c.links[k])
  BY DEF ToSet, Ends
<1> HIDE DEF X, Y, d
<1>4. NodesGood(ns, c.vlans) /\ IdsOf(ns) = {c.nodes[k].id : k \in {j \in DOMAIN c.nodes : c.nodes[j] \in X}}
  BY <1>0, ThoseNodes
<1>5. \A k \in DOMAIN c.nodes : c.nodes[k].id # id => \E j \in DOMAIN ns : ns[j] = c.nodes[k]
  BY <1>1, <1>3, ItemsOf
<1>6. \A k \in DOMAIN c.links : id \notin Ends(c.links[k]) => \E j \in DOMAIN ls : ls[j] = c.links[k]
  BY <1>1, <1>3, ItemsOf
<1> HIDE DEF ns
<1>7. IdsOf(ns) = IdsOf(c.nodes) \ {id}
  BY <1>3, <1>4 DEF IdsOf
<1>8. LinksGood(ls, IdsOf(ns))
  <2>1. \A k \in DOMAIN c.links : Ends(c.links[k]) \subseteq IdsOf(c.nodes)
    BY <1>0 DEF LinksGood, GoodLink, Ends
  <2>2. \A k \in DOMAIN c.links : c.links[k] \in Y => Ends(c.links[k]) \subseteq IdsOf(ns)
    BY <2>1, <1>3, <1>7
  <2> QED
    BY <2>2, <1>0, ThoseLinks
<1> HIDE DEF ls
<1>9. Good(d)
  BY <1>0, <1>1, <1>4, <1>8, MakesGood
<1>10. d.nodes = ns /\ d.links = ls /\ d.vlans = c.vlans /\ d.seq = c.seq
  BY <1>1
<1>11. \A p \in Pairs(c) : id \notin p => p \in Pairs(d)
  BY <1>6, <1>10 DEF Pairs
<1> QED
  BY <1>2, <1>5, <1>7, <1>9, <1>10, <1>11

LEMMA TaggedGood ==
  ASSUME NEW vs, NEW n, GoodNode(n, vs), NEW num \in Int, num \in ToSet(vs)
  PROVE  LET m == Tagged(n, num)
         IN  /\ GoodNode(m, vs) /\ m.id = n.id /\ m.kind = n.kind
             /\ ToSet(n.tags) \subseteq ToSet(m.tags)
             /\ Len(n.tags) >= MaxTags => Len(m.tags) >= MaxTags
             /\ num \in ToSet(m.tags) \/ Len(m.tags) >= MaxTags
<1>1. /\ n \in Node /\ Increasing(n.tags) /\ Len(n.tags) <= MaxTags /\ ToSet(n.tags) \subseteq ToSet(vs)
  BY DEF GoodNode
<1>2. /\ n.id \in Nat /\ n.kind \in Kinds /\ n.num \in Nat /\ n.ref \in Refs /\ n.tags \in Seq(Int)
      /\ n = [id |-> n.id, kind |-> n.kind, num |-> n.num, ref |-> n.ref, tags |-> n.tags]
  BY <1>1 DEF Node
<1>3. Len(n.tags) \in Nat /\ MaxTags \in Nat
  BY <1>2, DiagramLimits
<1>4. CASE num \in ToSet(n.tags) \/ Len(n.tags) >= MaxTags
  <2>1. Tagged(n, num) = n
    BY <1>4 DEF Tagged
  <2> QED
    BY <2>1, <1>4
<1>5. CASE ~(num \in ToSet(n.tags) \/ Len(n.tags) >= MaxTags)
  <2> DEFINE r == Sorted(Append(n.tags, num))
             m == [id |-> n.id, kind |-> n.kind, num |-> n.num, ref |-> n.ref, tags |-> r]
  <2>1. Tagged(n, num) = [n EXCEPT !.tags = r]
    BY <1>5 DEF Tagged
  <2>2. /\ r \in Seq(Int) /\ Increasing(r) /\ Len(r) = Len(n.tags) + 1
        /\ ToSet(r) = ToSet(n.tags) \cup {num}
    BY <1>1, <1>2, <1>5, SortedMore
  <2> HIDE DEF r
  <2>3. [n EXCEPT !.tags = r] = m
    BY <1>2
  <2>4. m \in Node
    BY <1>2, <2>2 DEF Node
  <2>5. m.id = n.id /\ m.kind = n.kind /\ m.tags = r
    OBVIOUS
  <2> HIDE DEF m
  <2>6. Len(r) <= MaxTags
    BY <1>3, <1>5, <2>2
  <2>7. GoodNode(m, vs)
    BY <1>1, <2>2, <2>4, <2>5, <2>6 DEF GoodNode
  <2> QED
    BY <1>5, <2>1, <2>2, <2>3, <2>5, <2>7
<1> QED
  BY <1>4, <1>5

LEMMA NeighborsTagged ==
  ASSUME NEW c, Good(c), NEW box, NEW num \in Int, num \in ToSet(c.vlans)
  PROVE  LET d == TagNeighbors(c, box, num)
         IN  /\ Good(d) /\ d.links = c.links /\ d.seq = c.seq /\ DOMAIN d.nodes = DOMAIN c.nodes
             /\ \A k \in DOMAIN c.nodes :
                  d.nodes[k] = IF c.nodes[k].kind # "vlan" /\ Between(c, box.id, c.nodes[k].id) # {}
                               THEN Tagged(c.nodes[k], num) ELSE c.nodes[k]
<1> DEFINE Do(n) == IF n.kind # "vlan" /\ Between(c, box.id, n.id) # {} THEN Tagged(n, num) ELSE n
           ms == [k \in DOMAIN c.nodes |-> Do(c.nodes[k])]
           d == [c EXCEPT !.nodes = ms]
<1>1. d = TagNeighbors(c, box, num)
  BY DEF TagNeighbors, OnNodes
<1>2. ASSUME NEW k \in DOMAIN c.nodes
      PROVE  GoodNode(ms[k], c.vlans) /\ ms[k].id = c.nodes[k].id
  <2> DEFINE n == c.nodes[k]
  <2>1. GoodNode(n, c.vlans)
    BY DEF Good, NodesGood
  <2>2. ms[k] = n \/ ms[k] = Tagged(n, num)
    OBVIOUS
  <2> HIDE DEF ms, Do, n, d
  <2>3. GoodNode(Tagged(n, num), c.vlans) /\ Tagged(n, num).id = n.id
    BY <2>1, TaggedGood
  <2> QED
    BY <2>1, <2>2, <2>3 DEF n
<1>3. ms = [k \in DOMAIN c.nodes |-> ms[k]]
  OBVIOUS
<1>4. \A k \in DOMAIN c.nodes :
        ms[k] = IF c.nodes[k].kind # "vlan" /\ Between(c, box.id, c.nodes[k].id) # {}
                THEN Tagged(c.nodes[k], num) ELSE c.nodes[k]
  OBVIOUS
<1>5. DOMAIN ms = DOMAIN c.nodes
  OBVIOUS
<1> HIDE DEF ms, Do
<1>6. Good(d) /\ d.nodes = ms /\ d.links = c.links /\ d.seq = c.seq
  BY <1>2, <1>3, WithNodes
<1> QED
  BY <1>1, <1>4, <1>5, <1>6

\* A node with the id that is no box, and one that carries a tag or is full.
Plain(c, id) == \E k \in DOMAIN c.nodes : c.nodes[k].id = id /\ c.nodes[k].kind # "vlan"
Carries(c, id, num) ==
  \E k \in DOMAIN c.nodes :
    /\ c.nodes[k].id = id /\ c.nodes[k].kind # "vlan"
    /\ num \in ToSet(c.nodes[k].tags) \/ Len(c.nodes[k].tags) >= MaxTags

LEMMA BoxTagged ==
  ASSUME NEW c, Good(c), NEW inv \in Inventories, NEW box \in Node
  PROVE  LET d == WithBoxAsTag(c, inv, box)
             num == BoxNum(inv, box)
         IN  /\ Good(d)
             /\ \A id : Plain(c, id) /\ id # box.id => Plain(d, id)
             /\ \A id, other : Carries(c, id, other) /\ id # box.id => Carries(d, id, other)
             /\ \A id : Plain(c, id) /\ id # box.id /\ num # 0 /\ {box.id, id} \in Pairs(c)
                  => Carries(d, id, num)
             /\ \A p \in Pairs(c) : box.id \notin p => p \in Pairs(d)
<1> DEFINE num == BoxNum(inv, box)
           v == WithVlan(c, num)
           t == TagNeighbors(v, box, num)
           d == Without(t, box.id)
<1>1. num \in Int
  <2>1. box.num \in Int
    BY DEF Node
  <2> QED
    BY <2>1, InvVlanNumIs DEF BoxNum
<1> HIDE DEF num
<1>2. CASE num = 0
  <2>1. WithBoxAsTag(c, inv, box) = c
    BY <1>2 DEF WithBoxAsTag, num
  <2> QED
    BY <1>2, <2>1 DEF num
<1>3. CASE num # 0
  <2>1. WithBoxAsTag(c, inv, box) = d
    BY <1>3 DEF WithBoxAsTag, num
  <2>2. /\ Good(v) /\ v.nodes = c.nodes /\ v.links = c.links /\ num \in ToSet(v.vlans)
    <3>1. /\ Good(v) /\ v.nodes = c.nodes /\ v.links = c.links
          /\ ToSet(v.vlans) = ToSet(c.vlans) \cup {num}
      BY <1>1, WithVlanGood
    <3> QED
      BY <3>1
  <2> HIDE DEF v
  <2>3. /\ Good(t) /\ t.links = v.links /\ DOMAIN t.nodes = DOMAIN v.nodes
        /\ \A k \in DOMAIN v.nodes :
             t.nodes[k] = IF v.nodes[k].kind # "vlan" /\ Between(v, box.id, v.nodes[k].id) # {}
                          THEN Tagged(v.nodes[k], num) ELSE v.nodes[k]
    BY <1>1, <2>2, NeighborsTagged
  <2> HIDE DEF t
  <2>4. /\ Good(d)
        /\ \A k \in DOMAIN t.nodes : t.nodes[k].id # box.id =>
             \E j \in DOMAIN d.nodes : d.nodes[j] = t.nodes[k]
        /\ \A p \in Pairs(t) : box.id \notin p => p \in Pairs(d)
    BY <2>3, WithoutGood
  <2> HIDE DEF d
  <2>5. Pairs(t) = Pairs(c) /\ Pairs(v) = Pairs(c)
    BY <2>2, <2>3 DEF Pairs
  <2>6. ASSUME NEW k \in DOMAIN c.nodes
        PROVE  LET n == c.nodes[k]  m == t.nodes[k] IN
               /\ k \in DOMAIN t.nodes /\ m.id = n.id /\ m.kind = n.kind
               /\ ToSet(n.tags) \subseteq ToSet(m.tags)
               /\ Len(n.tags) >= MaxTags => Len(m.tags) >= MaxTags
               /\ n.kind # "vlan" /\ {box.id, n.id} \in Pairs(c)
                    => num \in ToSet(m.tags) \/ Len(m.tags) >= MaxTags
    <3> DEFINE n == c.nodes[k]
               m == t.nodes[k]
    <3>1. GoodNode(n, v.vlans)
      BY <2>2 DEF Good, NodesGood
    <3>2. k \in DOMAIN t.nodes /\ m = IF n.kind # "vlan" /\ Between(v, box.id, n.id) # {}
                                      THEN Tagged(n, num) ELSE n
      BY <2>2, <2>3
    <3>3. Between(v, box.id, n.id) # {} <=> {box.id, n.id} \in Pairs(c)
      BY <2>5, BetweenPairs
    <3> HIDE DEF n, m
    <3>4. LET r == Tagged(n, num)
          IN  /\ r.id = n.id /\ r.kind = n.kind
              /\ ToSet(n.tags) \subseteq ToSet(r.tags)
              /\ Len(n.tags) >= MaxTags => Len(r.tags) >= MaxTags
              /\ num \in ToSet(r.tags) \/ Len(r.tags) >= MaxTags
      BY <1>1, <2>2, <3>1, TaggedGood
    <3>5. /\ k \in DOMAIN t.nodes /\ m.id = n.id /\ m.kind = n.kind
          /\ ToSet(n.tags) \subseteq ToSet(m.tags)
          /\ Len(n.tags) >= MaxTags => Len(m.tags) >= MaxTags
          /\ n.kind # "vlan" /\ {box.id, n.id} \in Pairs(c)
               => num \in ToSet(m.tags) \/ Len(m.tags) >= MaxTags
      BY <3>2, <3>3, <3>4
    <3> QED
      BY <3>5 DEF n, m
  <2>7. \A k \in DOMAIN c.nodes : c.nodes[k].id # box.id =>
          \E j \in DOMAIN d.nodes : d.nodes[j] = t.nodes[k]
    BY <2>4, <2>6
  <2>8. \A id : Plain(c, id) /\ id # box.id => Plain(d, id)
    BY <2>6, <2>7 DEF Plain
  <2>9. \A id, other : Carries(c, id, other) /\ id # box.id => Carries(d, id, other)
    <3> SUFFICES ASSUME NEW id, NEW other, Carries(c, id, other), id # box.id
                 PROVE  Carries(d, id, other)
      OBVIOUS
    <3>1. PICK k \in DOMAIN c.nodes :
            /\ c.nodes[k].id = id /\ c.nodes[k].kind # "vlan"
            /\ other \in ToSet(c.nodes[k].tags) \/ Len(c.nodes[k].tags) >= MaxTags
      BY DEF Carries
    <3>2. PICK j \in DOMAIN d.nodes : d.nodes[j] = t.nodes[k]
      BY <2>7, <3>1
    <3>3. /\ t.nodes[k].id = id /\ t.nodes[k].kind # "vlan"
          /\ other \in ToSet(t.nodes[k].tags) \/ Len(t.nodes[k].tags) >= MaxTags
      BY <2>6, <3>1
    <3> QED
      BY <3>2, <3>3 DEF Carries
  <2>10. \A id : Plain(c, id) /\ id # box.id /\ {box.id, id} \in Pairs(c) => Carries(d, id, num)
    <3> SUFFICES ASSUME NEW id, Plain(c, id), id # box.id, {box.id, id} \in Pairs(c)
                 PROVE  Carries(d, id, num)
      OBVIOUS
    <3>1. PICK k \in DOMAIN c.nodes : c.nodes[k].id = id /\ c.nodes[k].kind # "vlan"
      BY DEF Plain
    <3>2. PICK j \in DOMAIN d.nodes : d.nodes[j] = t.nodes[k]
      BY <2>7, <3>1
    <3>3. /\ t.nodes[k].id = id /\ t.nodes[k].kind # "vlan"
          /\ num \in ToSet(t.nodes[k].tags) \/ Len(t.nodes[k].tags) >= MaxTags
      BY <2>6, <3>1
    <3> QED
      BY <3>2, <3>3 DEF Carries
  <2> QED
    BY <2>1, <2>4, <2>5, <2>8, <2>9, <2>10 DEF num
<1> QED
  BY <1>2, <1>3

LEMMA BoxedIs ==
  ASSUME NEW c, Good(c)
  PROVE  /\ Boxed(c) \in Seq(Node)
         /\ \A j \in DOMAIN Boxed(c) :
              \E k \in DOMAIN c.nodes : Boxed(c)[j] = c.nodes[k] /\ c.nodes[k].kind = "vlan"
         /\ \A k \in DOMAIN c.nodes : c.nodes[k].kind = "vlan" =>
              \E j \in DOMAIN Boxed(c) : Boxed(c)[j] = c.nodes[k]
         /\ \A i, j \in DOMAIN Boxed(c) : Boxed(c)[i].id = Boxed(c)[j].id => i = j
<1> DEFINE ns == c.nodes
           X == {n \in ToSet(ns) : n.kind = "vlan"}
           r == Those(ns, X)
           f == [n \in Node |-> n.id]
<1>1. ns \in Seq(Node) /\ \A j, k \in DOMAIN ns : ns[j].id = ns[k].id => j = k
  BY DEF Good, NodesGood
<1>2. \A k \in DOMAIN ns : ns[k] \in X <=> ns[k].kind = "vlan"
  BY DEF ToSet
<1>3. Boxed(c) = r
  BY DEF Boxed
<1> HIDE DEF ns, X
<1>4. r \in Seq(Node)
  BY <1>1, ThoseItems
<1>5. /\ \A k \in DOMAIN r : \E j \in DOMAIN ns : r[k] = ns[j] /\ ns[j] \in X
      /\ \A j \in DOMAIN ns : ns[j] \in X => \E k \in DOMAIN r : r[k] = ns[j]
  BY <1>1, ItemsOf
<1>6. /\ \A k \in DOMAIN ns : f[ns[k]] = ns[k].id
      /\ \A k \in DOMAIN r : f[r[k]] = r[k].id
  <2>1. \A k \in DOMAIN ns : ns[k] \in Node
    BY <1>1
  <2>2. \A k \in DOMAIN r : r[k] \in Node
    BY <1>4
  <2> QED
    BY <2>1, <2>2
<1> HIDE DEF f
<1>7. \A i, j \in DOMAIN r : f[r[i]] = f[r[j]] => i = j
  <2>1. \A i, j \in DOMAIN ns : ns[i] \in X /\ f[ns[i]] = f[ns[j]] => i = j
    BY <1>1, <1>6
  <2> QED
    BY <1>1, <2>1, ThoseUnique
<1> HIDE DEF r
<1> QED
  BY <1>2, <1>3, <1>4, <1>5, <1>6, <1>7 DEF ns

LEMMA BoxesConverted ==
  ASSUME NEW c, Good(c), NEW inv \in Inventories
  PROVE  LET d == Converted(c, inv)
         IN  /\ Good(d)
             /\ \A k, b \in DOMAIN c.nodes :
                  LET n == c.nodes[k]  box == c.nodes[b]
                  IN  (/\ n.kind # "vlan" /\ box.kind = "vlan"
                       /\ BoxNum(inv, box) # 0 /\ {box.id, n.id} \in Pairs(c))
                        => Carries(d, n.id, BoxNum(inv, box))
<1> DEFINE s == Boxed(c)
           n == Len(s)
           all == Converted(c, inv)
           Num(j) == BoxNum(inv, s[j])
           Fine(k, d) ==
             /\ Good(d)
             /\ \A id : Plain(c, id) => Plain(d, id)
             /\ \A id : \A j \in 1..k :
                  Plain(c, id) /\ Num(j) # 0 /\ {s[j].id, id} \in Pairs(c) => Carries(d, id, Num(j))
             /\ \A id : \A j \in (k + 1)..n :
                  Plain(c, id) /\ {s[j].id, id} \in Pairs(c) => {s[j].id, id} \in Pairs(d)
<1>1. /\ s \in Seq(Node)
      /\ \A j \in DOMAIN s : \E k \in DOMAIN c.nodes : s[j] = c.nodes[k] /\ c.nodes[k].kind = "vlan"
      /\ \A k \in DOMAIN c.nodes : c.nodes[k].kind = "vlan" => \E j \in DOMAIN s : s[j] = c.nodes[k]
      /\ \A i, j \in DOMAIN s : s[i].id = s[j].id => i = j
  BY BoxedIs
<1>2. n \in Nat /\ DOMAIN s = 1..n
  BY <1>1
<1>3. all = BoxTags!Fold(inv, c, s)
  BY DEF Converted, BoxTags!Fold, AddBox, FoldLeft, MapThenFoldSet, Max,
         BoxTags!FoldLeft, BoxTags!MapThenFoldSet, BoxTags!Max
<1> HIDE DEF s
<1>4. PICK f : BoxTags!Runs(inv, c, s, f)
  BY <1>1, BoxTags!FoldRuns
<1>5. /\ f[0] = c /\ f[n] = all
      /\ \A k \in 1..n : f[k] = WithBoxAsTag(f[k - 1], inv, s[k])
  BY <1>3, <1>4 DEF BoxTags!Runs, AddBox
<1> HIDE DEF n, all
<1>6. \A id : Plain(c, id) => \A j \in 1..n : s[j].id # id
  <2>1. \A j, k \in DOMAIN c.nodes : c.nodes[j].id = c.nodes[k].id => j = k
    BY DEF Good, NodesGood
  <2> QED
    BY <2>1, <1>1, <1>2 DEF Plain
<1> DEFINE T == {k \in 0..n : Fine(k, f[k])}
<1>7. 0 \in T
  <2>1. Fine(0, c)
    OBVIOUS
  <2> HIDE DEF Fine
  <2> QED
    BY <2>1, <1>2, <1>5
<1>8. ASSUME NEW k \in 0..n, k \in T, k < n PROVE k + 1 \in T
  <2> DEFINE b == f[k]
             box == s[k + 1]
             r == WithBoxAsTag(b, inv, box)
  <2>1. k \in Nat /\ k + 1 \in 1..n /\ k + 1 \in 0..n /\ (k + 1) - 1 = k
    BY <1>2, <1>8
  <2>2. Fine(k, b)
    BY <1>8
  <2>3. f[k + 1] = r
    <3>1. f[k + 1] = WithBoxAsTag(f[(k + 1) - 1], inv, s[k + 1])
      BY <1>5, <2>1
    <3> QED
      BY <3>1, <2>1
  <2>4. box \in Node
    BY <1>1, <1>2, <2>1
  <2> HIDE DEF b, box
  <2>5. LET num == BoxNum(inv, box)
        IN  /\ Good(r)
            /\ \A id : Plain(b, id) /\ id # box.id => Plain(r, id)
            /\ \A id, other : Carries(b, id, other) /\ id # box.id => Carries(r, id, other)
            /\ \A id : Plain(b, id) /\ id # box.id /\ num # 0 /\ {box.id, id} \in Pairs(b)
                 => Carries(r, id, num)
            /\ \A p \in Pairs(b) : box.id \notin p => p \in Pairs(r)
    BY <2>2, <2>4, BoxTagged
  <2> HIDE DEF r
  <2>6. \A id : Plain(c, id) => Plain(r, id) /\ Plain(b, id) /\ id # box.id
    BY <2>1, <2>2, <2>5, <1>6 DEF box
  <2>7. ASSUME NEW id, NEW j \in 1..(k + 1), Plain(c, id), Num(j) # 0, {s[j].id, id} \in Pairs(c)
        PROVE  Carries(r, id, Num(j))
    <3>1. CASE j = k + 1
      <4>1. {box.id, id} \in Pairs(b)
        BY <3>1, <2>1, <2>2, <2>7 DEF box
      <4>2. BoxNum(inv, box) # 0
        BY <3>1, <2>7 DEF box
      <4>3. Carries(r, id, BoxNum(inv, box))
        BY <4>1, <4>2, <2>5, <2>6, <2>7
      <4> QED
        BY <4>3, <3>1 DEF box
    <3>2. CASE j \in 1..k
      <4>1. Carries(b, id, Num(j))
        BY <3>2, <2>2, <2>7
      <4> HIDE DEF Num
      <4> QED
        BY <4>1, <2>5, <2>6, <2>7
    <3> QED
      BY <3>1, <3>2, <2>1
  <2>8. ASSUME NEW id, NEW j \in ((k + 1) + 1)..n, Plain(c, id), {s[j].id, id} \in Pairs(c)
        PROVE  {s[j].id, id} \in Pairs(r)
    <3>1. j \in (k + 1)..n /\ j \in 1..n /\ j # k + 1
      BY <1>2, <2>1
    <3>2. {s[j].id, id} \in Pairs(b)
      BY <3>1, <2>2, <2>8
    <3>3. s[j].id # box.id
      BY <3>1, <1>1, <1>2, <2>1 DEF box
    <3>4. box.id \notin {s[j].id, id}
      BY <3>3, <2>6, <2>8
    <3> QED
      BY <3>2, <3>4, <2>5
  <2>9. Fine(k + 1, r)
    <3>1. Good(r)
      BY <2>5
    <3> HIDE DEF Num
    <3> QED
      BY <3>1, <2>6, <2>7, <2>8
  <2> HIDE DEF Fine
  <2> QED
    BY <2>1, <2>3, <2>9
<1>9. n \in T
  <2> HIDE DEF T
  <2>1. 0..n \subseteq T
    BY <1>2, <1>7, <1>8, BoxTags!UpTo
  <2> QED
    BY <1>2, <2>1
<1>10. Fine(n, all)
  <2> HIDE DEF Fine
  <2> QED
    BY <1>5, <1>9
<1>11. ASSUME NEW k \in DOMAIN c.nodes, NEW b \in DOMAIN c.nodes,
              c.nodes[k].kind # "vlan", c.nodes[b].kind = "vlan", BoxNum(inv, c.nodes[b]) # 0,
              {c.nodes[b].id, c.nodes[k].id} \in Pairs(c)
       PROVE  Carries(all, c.nodes[k].id, BoxNum(inv, c.nodes[b]))
  <2>1. PICK j \in 1..n : s[j] = c.nodes[b]
    BY <1>1, <1>2, <1>11
  <2>2. Plain(c, c.nodes[k].id)
    BY <1>11 DEF Plain
  <2>3. Num(j) # 0 /\ {s[j].id, c.nodes[k].id} \in Pairs(c)
    BY <2>1, <1>11
  <2>4. Carries(all, c.nodes[k].id, Num(j))
    BY <1>10, <2>2, <2>3
  <2> QED
    BY <2>1, <2>4
<1> QED
  BY <1>10, <1>11 DEF all

-----------------------------------------------------------------------------
(* Saving and opening. *)

LEMMA FaultsNone ==
  ASSUME NEW d, Faults(d) = {}
  PROVE  /\ ~(Len(d.nodes) > MaxNodes) /\ ~(Len(d.links) > MaxLinks) /\ ~(Len(d.vlans) > MaxVlans)
         /\ Unique(d.vlans) /\ UniqueIds(d.nodes) /\ UniqueIds(d.links)
         /\ \A k \in DOMAIN d.nodes : NodeFaults(d, d.nodes[k]) = {}
         /\ \A k \in DOMAIN d.links : LinkFaults(d, d.links[k]) = {}
<1> DEFINE A == If("too many nodes", Len(d.nodes) > MaxNodes)
           B == If("too many links", Len(d.links) > MaxLinks)
           C == If("too many VLANs", Len(d.vlans) > MaxVlans)
           D == If("VLAN number", ~(ToSet(d.vlans) \subseteq VlanNumbers))
           E == If("duplicate VLAN", ~Unique(d.vlans))
           F == If("duplicate node id", ~UniqueIds(d.nodes))
           G == If("duplicate link id", ~UniqueIds(d.links))
           H == UNION {NodeFaults(d, d.nodes[k]) : k \in DOMAIN d.nodes}
           I == UNION {LinkFaults(d, d.links[k]) : k \in DOMAIN d.links}
<1>0. Faults(d) = A \cup B \cup C \cup D \cup E \cup F \cup G \cup H \cup I
  BY DEF Faults
<1>1. A = {} /\ B = {} /\ C = {} /\ D = {} /\ E = {} /\ F = {} /\ G = {} /\ H = {} /\ I = {}
  <2> HIDE DEF A, B, C, D, E, F, G, H, I
  <2> QED
    BY <1>0
<1>2. /\ \A k \in DOMAIN d.nodes : NodeFaults(d, d.nodes[k]) = {}
      /\ \A k \in DOMAIN d.links : LinkFaults(d, d.links[k]) = {}
  BY <1>1
<1>3. /\ ~(Len(d.nodes) > MaxNodes) /\ ~(Len(d.links) > MaxLinks) /\ ~(Len(d.vlans) > MaxVlans)
  BY <1>1 DEF If
<1>4. Unique(d.vlans) /\ UniqueIds(d.nodes) /\ UniqueIds(d.links)
  BY <1>1 DEF If
<1> QED
  BY <1>2, <1>3, <1>4

LEMMA NumbersInRange ==
  ASSUME NEW d, Faults(d) = {}
  PROVE  ToSet(d.vlans) \subseteq VlanNumbers
<1> DEFINE D == If("VLAN number", ~(ToSet(d.vlans) \subseteq VlanNumbers))
<1>1. D \subseteq Faults(d)
  BY DEF Faults
<1>2. D = {}
  BY <1>1
<1> QED
  BY <1>2 DEF If

LEMMA NodeFaultsNone ==
  ASSUME NEW d, NEW n, NodeFaults(d, n) = {}
  PROVE  ~(Len(n.tags) > MaxTags) /\ ToSet(n.tags) \subseteq ToSet(d.vlans) /\ Unique(n.tags)
<1>1. /\ If("too many tags", Len(n.tags) > MaxTags) = {}
      /\ If("tag not listed", ~(ToSet(n.tags) \subseteq ToSet(d.vlans))) = {}
      /\ If("tag listed twice", ~Unique(n.tags)) = {}
  BY DEF NodeFaults
<1> QED
  BY <1>1 DEF If

LEMMA LinkFaultsNone ==
  ASSUME NEW d, NEW l, LinkFaults(d, l) = {}
  PROVE  l.from \in IdsOf(d.nodes) /\ l.to \in IdsOf(d.nodes) /\ l.from # l.to
<1>1. /\ If("missing node", ~({l.from, l.to} \subseteq IdsOf(d.nodes))) = {}
      /\ If("link to itself", l.from = l.to) = {}
  BY DEF LinkFaults
<1> QED
  BY <1>1 DEF If

LEMMA NormalFields ==
  ASSUME NEW d, {"nodes", "links", "vlans"} \subseteq DOMAIN d
  PROVE  /\ Normal(d).nodes = SortedTags(d.nodes)
         /\ Normal(d).links = TrimmedLabels(d.links)
         /\ Normal(d).vlans = Sorted(d.vlans)
<1> DEFINE a == Sorted(d.vlans)
           b == SortedTags(d.nodes)
           e == TrimmedLabels(d.links)
<1>1. Normal(d) = [d EXCEPT !.vlans = a, !.nodes = b, !.links = e]
  BY DEF Normal
<1> HIDE DEF a, b, e
<1>2. /\ [d EXCEPT !.vlans = a, !.nodes = b, !.links = e].nodes = b
      /\ [d EXCEPT !.vlans = a, !.nodes = b, !.links = e].links = e
      /\ [d EXCEPT !.vlans = a, !.nodes = b, !.links = e].vlans = a
  OBVIOUS
<1> QED
  BY <1>1, <1>2 DEF a, b, e

\* Sorting again changes no node of a copy.
LEMMA TagsSortedSame ==
  ASSUME NEW ns, NEW vs, NodesGood(ns, vs)
  PROVE  SortedTags(ns) = ns
<1>1. ns \in Seq(Node)
  BY DEF NodesGood
<1>2. ASSUME NEW k \in DOMAIN ns
      PROVE  [ns[k] EXCEPT !.tags = Sorted(@)] = ns[k]
  <2> DEFINE n == ns[k]
  <2>1. GoodNode(n, vs)
    BY DEF NodesGood
  <2> HIDE DEF n
  <2>2. n \in Node /\ Increasing(n.tags)
    BY <2>1 DEF GoodNode
  <2>3. n.tags \in Seq(Int)
    BY <2>2 DEF Node
  <2>4. Sorted(n.tags) = n.tags
    BY <2>2, <2>3, SortedSame
  <2>5. [n EXCEPT !.tags = Sorted(@)] = n
    BY <2>2, <2>4 DEF Node
  <2> QED
    BY <2>5 DEF n
<1>3. SortedTags(ns) = [k \in DOMAIN ns |-> ns[k]]
  BY <1>2 DEF SortedTags
<1>4. DOMAIN ns = 1..Len(ns) /\ ns = [k \in DOMAIN ns |-> ns[k]]
  BY <1>1
<1> QED
  BY <1>3, <1>4

\* Links whose labels lose their spaces.
LEMMA LinkTrimmed ==
  ASSUME NEW l, NEW I, GoodLink(l, I)
  PROVE  LET m == [l EXCEPT !.label = Trimmed(@)]
         IN  /\ GoodLink(m, I) /\ m.id = l.id /\ Ends(m) = Ends(l)
             /\ PlainTexts => m = l
<1> DEFINE m == [id |-> l.id, from |-> l.from, to |-> l.to, label |-> Trimmed(l.label), style |-> l.style]
<1>1. l \in Link /\ l.from \in I /\ l.to \in I /\ l.from # l.to /\ (PlainTexts => "spaces" \notin l.label)
  BY DEF GoodLink
<1>2. /\ l = [id |-> l.id, from |-> l.from, to |-> l.to, label |-> l.label, style |-> l.style]
      /\ l.id \in Nat /\ l.from \in Nat /\ l.to \in Nat /\ l.label \in SUBSET Words /\ l.style \in Styles
  BY <1>1 DEF Link
<1>3. [l EXCEPT !.label = Trimmed(@)] = m
  BY <1>2
<1>4. m \in Link
  BY <1>2 DEF Link, Trimmed
<1>5. m.id = l.id /\ m.from = l.from /\ m.to = l.to /\ m.label = Trimmed(l.label)
  OBVIOUS
<1>6. PlainTexts => m = l
  <2>1. "spaces" \notin l.label => Trimmed(l.label) = l.label
    BY DEF Trimmed, Spaces
  <2> QED
    BY <1>1, <1>2, <2>1
<1> HIDE DEF m
<1>7. PlainTexts => "spaces" \notin m.label
  BY <1>1, <1>5 DEF Trimmed
<1>8. GoodLink(m, I)
  BY <1>1, <1>4, <1>5, <1>7 DEF GoodLink
<1> QED
  BY <1>3, <1>5, <1>6, <1>8 DEF Ends

LEMMA LabelsTrimmed ==
  ASSUME NEW ls, NEW I, LinksGood(ls, I)
  PROVE  /\ LinksGood(TrimmedLabels(ls), I) /\ Len(TrimmedLabels(ls)) = Len(ls)
         /\ PlainTexts => TrimmedLabels(ls) = ls
<1> DEFINE ms == TrimmedLabels(ls)
<1>1. \A k \in DOMAIN ls : ms[k] = [ls[k] EXCEPT !.label = Trimmed(@)]
  BY DEF TrimmedLabels
<1>2. ms = [k \in DOMAIN ls |-> ms[k]]
  BY DEF TrimmedLabels
<1> HIDE DEF ms
<1>3. ASSUME NEW k \in DOMAIN ls
      PROVE  /\ GoodLink(ms[k], I) /\ ms[k].id = ls[k].id /\ Ends(ms[k]) = Ends(ls[k])
             /\ PlainTexts => ms[k] = ls[k]
  <2> DEFINE l == ls[k]
             m == [l EXCEPT !.label = Trimmed(@)]
  <2>1. GoodLink(l, I)
    BY DEF LinksGood
  <2>2. ms[k] = m
    BY <1>1
  <2> HIDE DEF l
  <2>3. /\ GoodLink(m, I) /\ m.id = l.id /\ Ends(m) = Ends(l)
        /\ PlainTexts => m = l
    BY <2>1, LinkTrimmed
  <2> HIDE DEF m
  <2> QED
    BY <2>2, <2>3 DEF l
<1>4. LinksGood(ms, I)
  BY <1>2, <1>3, LinksMapped
<1>5. ls \in Seq(Link) /\ ms \in Seq(Link) /\ DOMAIN ms = DOMAIN ls
  BY <1>2, <1>4 DEF LinksGood
<1>6. Len(ms) = Len(ls)
  BY <1>5
<1>7. ASSUME PlainTexts PROVE ms = ls
  <2>1. ls = [k \in DOMAIN ls |-> ls[k]]
    BY <1>5
  <2> QED
    BY <2>1, <1>2, <1>3, <1>7
<1> QED
  BY <1>4, <1>6, <1>7 DEF ms

LEMMA OpenedGood ==
  ASSUME NEW d, NodesGood(d.nodes, d.vlans), LinksGood(d.links, IdsOf(d.nodes)),
         d.vlans \in Seq(Int), Unique(d.vlans),
         ~(Len(d.nodes) > MaxNodes), ~(Len(d.links) > MaxLinks)
  PROVE  Good(Opened(d)) /\ Opened(d).seq <= MaxSeq
<1> DEFINE vs == Sorted(d.vlans)
           q == Len(d.nodes) + Len(d.links)
<1>1. d.nodes \in Seq(Node) /\ d.links \in Seq(Link)
  BY DEF NodesGood, LinksGood
<1>2. Len(d.nodes) \in Nat /\ Len(d.links) \in Nat
  BY <1>1
<1>3. MaxNodes \in Nat /\ MaxLinks \in Nat /\ MaxSeq \in Nat /\ MaxNodes + MaxLinks <= MaxSeq
  BY DiagramLimits, OfferAssumption
<1>4. q \in Nat /\ q <= MaxSeq
  <2> DEFINE a == Len(d.nodes)
             b == Len(d.links)
  <2>1. a \in Nat /\ b \in Nat /\ ~(a > MaxNodes) /\ ~(b > MaxLinks) /\ q = a + b
    BY <1>2
  <2> HIDE DEF a, b, q
  <2> QED
    BY <2>1, <1>3
<1>5. vs \in Seq(Int) /\ Increasing(vs) /\ ToSet(vs) = ToSet(d.vlans)
  BY SortedIs
<1>6. Opened(d) = [nodes |-> d.nodes, links |-> d.links, vlans |-> vs, seq |-> q]
  BY DEF Opened
<1> HIDE DEF vs, q
<1>7. NodesGood(d.nodes, vs)
  <2>1. ToSet(d.vlans) \subseteq ToSet(vs)
    BY <1>5
  <2> QED
    BY <2>1, NodesMore
<1>8. Good([nodes |-> d.nodes, links |-> d.links, vlans |-> vs, seq |-> q])
  BY <1>4, <1>5, <1>7, MakesGood
<1>9. Opened(d).seq = q
  BY <1>6
<1> QED
  BY <1>4, <1>6, <1>8, <1>9

LEMMA StoredGood ==
  ASSUME NEW d \in Stored
  PROVE  Good(Opened(d)) /\ Opened(d).seq <= MaxSeq
<1>1. d \in Diagram /\ Faults(d) = {} /\ Normal(d) = d /\ OnePerPair(d.links)
  BY StoredAssumption
<1>2. /\ d.nodes \in Seq(Node) /\ d.links \in Seq(Link) /\ d.vlans \in Seq(Int)
      /\ {"nodes", "links", "vlans"} \subseteq DOMAIN d
  BY <1>1 DEF Diagram
<1>3. d.nodes = SortedTags(d.nodes) /\ d.links = TrimmedLabels(d.links)
  BY <1>1, <1>2, NormalFields
<1>4. /\ ~(Len(d.nodes) > MaxNodes) /\ ~(Len(d.links) > MaxLinks)
      /\ Unique(d.vlans) /\ UniqueIds(d.nodes) /\ UniqueIds(d.links)
      /\ \A k \in DOMAIN d.nodes : NodeFaults(d, d.nodes[k]) = {}
      /\ \A k \in DOMAIN d.links : LinkFaults(d, d.links[k]) = {}
  BY <1>1, FaultsNone
<1>5. ASSUME NEW k \in DOMAIN d.nodes PROVE GoodNode(d.nodes[k], d.vlans)
  <2> DEFINE n == d.nodes[k]
  <2>1. n = [n EXCEPT !.tags = Sorted(@)]
    BY <1>3 DEF SortedTags
  <2>2. n \in Node /\ NodeFaults(d, n) = {}
    BY <1>2, <1>4
  <2> HIDE DEF n
  <2>3. ~(Len(n.tags) > MaxTags) /\ ToSet(n.tags) \subseteq ToSet(d.vlans) /\ Unique(n.tags)
    BY <2>2, NodeFaultsNone
  <2>4. n.tags \in Seq(Int)
    BY <2>2 DEF Node
  <2>5. n.tags = Sorted(n.tags)
    <3>1. [n EXCEPT !.tags = Sorted(@)].tags = Sorted(n.tags)
      BY <2>2 DEF Node
    <3> QED
      BY <2>1, <3>1
  <2>6. Increasing(n.tags)
    BY <2>3, <2>4, <2>5, SortedIs
  <2>7. Len(n.tags) <= MaxTags
    <3>1. Len(n.tags) \in Nat /\ MaxTags \in Nat
      BY <2>4, DiagramLimits
    <3> QED
      BY <3>1, <2>3
  <2>8. GoodNode(n, d.vlans)
    BY <2>2, <2>3, <2>6, <2>7 DEF GoodNode
  <2> QED
    BY <2>8 DEF n
<1>6. NodesGood(d.nodes, d.vlans)
  <2>1. \A j, k \in DOMAIN d.nodes : d.nodes[j].id = d.nodes[k].id => j = k
    BY <1>4 DEF UniqueIds, Unique
  <2> QED
    BY <2>1, <1>2, <1>5 DEF NodesGood
<1>7. ASSUME NEW k \in DOMAIN d.links PROVE GoodLink(d.links[k], IdsOf(d.nodes))
  <2> DEFINE l == d.links[k]
  <2>1. l = [l EXCEPT !.label = Trimmed(@)]
    BY <1>3 DEF TrimmedLabels
  <2>2. l \in Link /\ LinkFaults(d, l) = {}
    BY <1>2, <1>4
  <2> HIDE DEF l
  <2>3. l.from \in IdsOf(d.nodes) /\ l.to \in IdsOf(d.nodes) /\ l.from # l.to
    BY <2>2, LinkFaultsNone
  <2>4. "spaces" \notin l.label
    <3>1. [l EXCEPT !.label = Trimmed(@)].label = Trimmed(l.label)
      BY <2>2 DEF Link
    <3>2. l.label = Trimmed(l.label)
      BY <2>1, <3>1
    <3> QED
      BY <3>2 DEF Trimmed, Spaces
  <2>5. GoodLink(l, IdsOf(d.nodes))
    BY <2>2, <2>3, <2>4 DEF GoodLink
  <2> QED
    BY <2>5 DEF l
<1>8. LinksGood(d.links, IdsOf(d.nodes))
  <2>1. \A j, k \in DOMAIN d.links : d.links[j].id = d.links[k].id => j = k
    BY <1>4 DEF UniqueIds, Unique
  <2>2. \A j, k \in DOMAIN d.links : Ends(d.links[j]) = Ends(d.links[k]) => j = k
    BY <1>1 DEF OnePerPair, Unique, Ends
  <2> QED
    BY <2>1, <2>2, <1>2, <1>7 DEF LinksGood
<1> QED
  BY <1>2, <1>4, <1>6, <1>8, OpenedGood

\* What the server keeps of a copy it accepts.
LEMMA NormalOfGood ==
  ASSUME NEW c, Good(c)
  PROVE  /\ Normal(c).nodes = c.nodes /\ Normal(c).vlans = c.vlans
         /\ Normal(c).links = TrimmedLabels(c.links)
<1>1. /\ c \in Cop /\ Increasing(c.vlans) /\ NodesGood(c.nodes, c.vlans)
  BY DEF Good
<1>2. {"nodes", "links", "vlans"} \subseteq DOMAIN c /\ c.vlans \in Seq(Int)
  BY <1>1 DEF Cop
<1>3. SortedTags(c.nodes) = c.nodes /\ Sorted(c.vlans) = c.vlans
  BY <1>1, <1>2, TagsSortedSame, SortedSame
<1> QED
  BY <1>2, <1>3, NormalFields

LEMMA SavedGood ==
  ASSUME NEW c, Good(c), Faults(c) = {}
  PROVE  Good(Opened(Normal(c))) /\ Opened(Normal(c)).seq <= MaxSeq
<1> DEFINE d == Normal(c)
<1>0. /\ c \in Cop /\ Increasing(c.vlans) /\ NodesGood(c.nodes, c.vlans)
      /\ LinksGood(c.links, IdsOf(c.nodes))
  BY DEF Good
<1>1. d.nodes = c.nodes /\ d.vlans = c.vlans /\ d.links = TrimmedLabels(c.links)
  BY NormalOfGood
<1> HIDE DEF d
<1>2. c.vlans \in Seq(Int)
  BY <1>0, CopFields
<1>3. LinksGood(d.links, IdsOf(d.nodes)) /\ Len(d.links) = Len(c.links)
  <2>1. LinksGood(TrimmedLabels(c.links), IdsOf(c.nodes)) /\ Len(TrimmedLabels(c.links)) = Len(c.links)
    BY <1>0, LabelsTrimmed
  <2> QED
    BY <2>1, <1>1
<1>4. ~(Len(c.nodes) > MaxNodes) /\ ~(Len(c.links) > MaxLinks) /\ Unique(c.vlans)
  BY FaultsNone
<1>5. NodesGood(d.nodes, d.vlans) /\ d.vlans \in Seq(Int) /\ Unique(d.vlans)
      /\ ~(Len(d.nodes) > MaxNodes) /\ ~(Len(d.links) > MaxLinks)
  BY <1>0, <1>1, <1>2, <1>3, <1>4
<1>6. Good(Opened(d)) /\ Opened(d).seq <= MaxSeq
  BY <1>3, <1>5, OpenedGood
<1> QED
  BY <1>6 DEF d

LEMMA NodeAccepted ==
  ASSUME NEW d, NEW n, GoodNode(n, d.vlans)
  PROVE  NodeFaults(d, n) = {}
<1>1. /\ n \in Node /\ Increasing(n.tags) /\ Len(n.tags) <= MaxTags
      /\ ToSet(n.tags) \subseteq ToSet(d.vlans)
  BY DEF GoodNode
<1>2. n.kind \in Kinds /\ n.tags \in Seq(Int) /\ n.ref \in Refs
  BY <1>1 DEF Node
<1>3. Unique(n.tags)
  BY <1>1, <1>2, IncreasingUnique
<1>4. n.ref # NoRef => n.ref[1] \in RefTypes
  BY <1>2 DEF Refs
<1>5. ~(Len(n.tags) > MaxTags)
  <2>1. Len(n.tags) \in Nat /\ MaxTags \in Nat
    BY <1>2, DiagramLimits
  <2> QED
    BY <2>1, <1>1
<1> QED
  BY <1>1, <1>2, <1>3, <1>4, <1>5 DEF NodeFaults, If

LEMMA LinkAccepted ==
  ASSUME NEW d, NEW l, GoodLink(l, IdsOf(d.nodes))
  PROVE  LinkFaults(d, l) = {}
<1>1. l \in Link /\ l.from \in IdsOf(d.nodes) /\ l.to \in IdsOf(d.nodes) /\ l.from # l.to
  BY DEF GoodLink
<1>2. l.style \in Styles
  BY <1>1 DEF Link
<1> QED
  BY <1>1, <1>2 DEF LinkFaults, If

LEMMA GoodFaults ==
  ASSUME NEW c, Good(c)
  PROVE  /\ Faults(c) \subseteq {"too many nodes", "too many links", "too many VLANs", "VLAN number"}
         /\ OnePerPair(c.links)
         /\ Unique(c.vlans) /\ UniqueIds(c.nodes) /\ UniqueIds(c.links)
<1>0. /\ c \in Cop /\ Increasing(c.vlans) /\ NodesGood(c.nodes, c.vlans)
      /\ LinksGood(c.links, IdsOf(c.nodes))
  BY DEF Good
<1>1. c.vlans \in Seq(Int)
  BY <1>0, CopFields
<1>2. Unique(c.vlans)
  BY <1>0, <1>1, IncreasingUnique
<1>3. UniqueIds(c.nodes) /\ UniqueIds(c.links)
  BY <1>0 DEF UniqueIds, Unique, NodesGood, LinksGood
<1>4. OnePerPair(c.links)
  BY <1>0 DEF OnePerPair, Unique, LinksGood, Ends
<1>5. \A k \in DOMAIN c.nodes : NodeFaults(c, c.nodes[k]) = {}
  BY <1>0, NodeAccepted DEF NodesGood
<1>6. \A k \in DOMAIN c.links : LinkFaults(c, c.links[k]) = {}
  BY <1>0, LinkAccepted DEF LinksGood
<1> DEFINE A == If("too many nodes", Len(c.nodes) > MaxNodes)
           B == If("too many links", Len(c.links) > MaxLinks)
           C == If("too many VLANs", Len(c.vlans) > MaxVlans)
           D == If("VLAN number", ~(ToSet(c.vlans) \subseteq VlanNumbers))
           E == If("duplicate VLAN", ~Unique(c.vlans))
           F == If("duplicate node id", ~UniqueIds(c.nodes))
           G == If("duplicate link id", ~UniqueIds(c.links))
           H == UNION {NodeFaults(c, c.nodes[k]) : k \in DOMAIN c.nodes}
           I == UNION {LinkFaults(c, c.links[k]) : k \in DOMAIN c.links}
<1>7. Faults(c) = A \cup B \cup C \cup D \cup E \cup F \cup G \cup H \cup I
  BY DEF Faults
<1>8. /\ A \subseteq {"too many nodes"} /\ B \subseteq {"too many links"}
      /\ C \subseteq {"too many VLANs"} /\ D \subseteq {"VLAN number"}
  <2>1. A \subseteq {"too many nodes"}
    BY Zenon DEF If
  <2>2. B \subseteq {"too many links"}
    BY Zenon DEF If
  <2>3. C \subseteq {"too many VLANs"}
    BY Zenon DEF If
  <2>4. D \subseteq {"VLAN number"}
    BY Zenon DEF If
  <2> QED
    BY <2>1, <2>2, <2>3, <2>4
<1>9. E = {} /\ F = {} /\ G = {}
  BY <1>2, <1>3 DEF If
<1>10. H = {} /\ I = {}
  BY <1>5, <1>6
<1> HIDE DEF A, B, C, D, E, F, G, H, I
<1>11. Faults(c) \subseteq {"too many nodes", "too many links", "too many VLANs", "VLAN number"}
  BY <1>7, <1>8, <1>9, <1>10
<1> QED
  BY <1>2, <1>3, <1>4, <1>11

-----------------------------------------------------------------------------
(* The steps. *)

EditorInv ==
  /\ Good(copy) /\ copy.seq <= MaxSeq
  /\ linkFrom \in IdsOf(copy.nodes) \cup {NoNode}
  /\ inventory \in Inventories /\ edits \in 0..MaxEdits

LEMMA GrownIds ==
  ASSUME NEW c, NEW d, Grown(c, d)
  PROVE  Good(d) /\ IdsOf(c.nodes) \subseteq IdsOf(d.nodes)
BY DEF Grown, IdsOf

LEMMA NodeEdited ==
  ASSUME NEW n, NEW vs, GoodNode(n, vs),
         NEW kind \in Kinds, NEW num \in Nat, NEW ref \in Refs
  PROVE  LET a == [n EXCEPT !.kind = kind]
             b == [n EXCEPT !.num = num]
             c == [n EXCEPT !.ref = ref]
         IN  /\ GoodNode(a, vs) /\ GoodNode(b, vs) /\ GoodNode(c, vs)
             /\ a.id = n.id /\ b.id = n.id /\ c.id = n.id
<1>1. /\ n \in Node /\ Increasing(n.tags) /\ Len(n.tags) <= MaxTags
      /\ ToSet(n.tags) \subseteq ToSet(vs)
  BY DEF GoodNode
<1>2. /\ n.id \in Nat /\ n.kind \in Kinds /\ n.num \in Nat /\ n.ref \in Refs /\ n.tags \in Seq(Int)
      /\ n = [id |-> n.id, kind |-> n.kind, num |-> n.num, ref |-> n.ref, tags |-> n.tags]
  BY <1>1 DEF Node
<1>3. GoodNode([n EXCEPT !.kind = kind], vs) /\ [n EXCEPT !.kind = kind].id = n.id
  <2> DEFINE m == [id |-> n.id, kind |-> kind, num |-> n.num, ref |-> n.ref, tags |-> n.tags]
  <2>1. [n EXCEPT !.kind = kind] = m
    BY <1>2
  <2>2. m \in Node /\ m.tags = n.tags /\ m.id = n.id
    BY <1>2 DEF Node
  <2> HIDE DEF m
  <2> QED
    BY <1>1, <2>1, <2>2 DEF GoodNode
<1>4. GoodNode([n EXCEPT !.num = num], vs) /\ [n EXCEPT !.num = num].id = n.id
  <2> DEFINE m == [id |-> n.id, kind |-> n.kind, num |-> num, ref |-> n.ref, tags |-> n.tags]
  <2>1. [n EXCEPT !.num = num] = m
    BY <1>2
  <2>2. m \in Node /\ m.tags = n.tags /\ m.id = n.id
    BY <1>2 DEF Node
  <2> HIDE DEF m
  <2> QED
    BY <1>1, <2>1, <2>2 DEF GoodNode
<1>5. GoodNode([n EXCEPT !.ref = ref], vs) /\ [n EXCEPT !.ref = ref].id = n.id
  <2> DEFINE m == [id |-> n.id, kind |-> n.kind, num |-> n.num, ref |-> ref, tags |-> n.tags]
  <2>1. [n EXCEPT !.ref = ref] = m
    BY <1>2
  <2>2. m \in Node /\ m.tags = n.tags /\ m.id = n.id
    BY <1>2 DEF Node
  <2> HIDE DEF m
  <2> QED
    BY <1>1, <2>1, <2>2 DEF GoodNode
<1> QED
  BY <1>3, <1>4, <1>5

LEMMA NodeRetagged ==
  ASSUME NEW n, NEW vs, GoodNode(n, vs), NEW us, NEW tags \in Seq(Int),
         Increasing(tags), Len(tags) <= MaxTags, ToSet(tags) \subseteq ToSet(us)
  PROVE  LET d == [n EXCEPT !.tags = tags]
         IN  GoodNode(d, us) /\ d.id = n.id
<1> DEFINE m == [id |-> n.id, kind |-> n.kind, num |-> n.num, ref |-> n.ref, tags |-> tags]
<1>1. /\ n.id \in Nat /\ n.kind \in Kinds /\ n.num \in Nat /\ n.ref \in Refs
      /\ n = [id |-> n.id, kind |-> n.kind, num |-> n.num, ref |-> n.ref, tags |-> n.tags]
  BY DEF GoodNode, Node
<1>2. [n EXCEPT !.tags = tags] = m
  BY <1>1
<1>3. m \in Node /\ m.tags = tags /\ m.id = n.id
  BY <1>1 DEF Node
<1> HIDE DEF m
<1> QED
  BY <1>2, <1>3 DEF GoodNode

\* A copy in which one node is another, with the same id.
LEMMA NodeSet ==
  ASSUME NEW c, Good(c), NEW k \in DOMAIN c.nodes, NEW m, GoodNode(m, c.vlans),
         m.id = c.nodes[k].id
  PROVE  LET d == [c EXCEPT !.nodes = [c.nodes EXCEPT ![k] = m]]
         IN  Good(d) /\ IdsOf(d.nodes) = IdsOf(c.nodes)
<1> DEFINE ms == [c.nodes EXCEPT ![k] = m]
<1>1. \A j \in DOMAIN c.nodes : GoodNode(c.nodes[j], c.vlans)
  BY DEF Good, NodesGood
<1>2. /\ \A j \in DOMAIN c.nodes : ms[j] = IF j = k THEN m ELSE c.nodes[j]
      /\ ms = [j \in DOMAIN c.nodes |-> ms[j]]
  OBVIOUS
<1> HIDE DEF ms
<1>3. \A j \in DOMAIN c.nodes : GoodNode(ms[j], c.vlans) /\ ms[j].id = c.nodes[j].id
  BY <1>1, <1>2
<1> QED
  <2> DEFINE d == [c EXCEPT !.nodes = ms]
  <2>1. Good(d) /\ IdsOf(d.nodes) = IdsOf(c.nodes)
    BY <1>2, <1>3, WithNodes
  <2> QED
    BY <2>1 DEF ms

LEMMA LinkSet ==
  ASSUME NEW c, Good(c), NEW k \in DOMAIN c.links, NEW m, GoodLink(m, IdsOf(c.nodes)),
         m.id = c.links[k].id, Ends(m) = Ends(c.links[k])
  PROVE  LET d == [c EXCEPT !.links = [c.links EXCEPT ![k] = m]]
         IN  Good(d) /\ d.nodes = c.nodes
<1> DEFINE ms == [c.links EXCEPT ![k] = m]
<1>1. \A j \in DOMAIN c.links : GoodLink(c.links[j], IdsOf(c.nodes))
  BY DEF Good, LinksGood
<1>2. /\ \A j \in DOMAIN c.links : ms[j] = IF j = k THEN m ELSE c.links[j]
      /\ ms = [j \in DOMAIN c.links |-> ms[j]]
  OBVIOUS
<1> HIDE DEF ms
<1>3. \A j \in DOMAIN c.links : /\ GoodLink(ms[j], IdsOf(c.nodes))
                                /\ ms[j].id = c.links[j].id /\ Ends(ms[j]) = Ends(c.links[j])
  BY <1>1, <1>2
<1> QED
  <2> DEFINE d == [c EXCEPT !.links = ms]
  <2>1. Good(d) /\ d.nodes = c.nodes
    BY <1>2, <1>3, WithLinks
  <2> QED
    BY <2>1 DEF ms

LEMMA LinkEdited ==
  ASSUME NEW l, NEW I, GoodLink(l, I), NEW style \in Styles,
         NEW label \in SUBSET Words, PlainTexts => "spaces" \notin label
  PROVE  LET a == [l EXCEPT !.style = style]
             b == [l EXCEPT !.label = label]
         IN  /\ GoodLink(a, I) /\ a.id = l.id /\ Ends(a) = Ends(l)
             /\ GoodLink(b, I) /\ b.id = l.id /\ Ends(b) = Ends(l)
<1>1. l \in Link /\ l.from \in I /\ l.to \in I /\ l.from # l.to /\ (PlainTexts => "spaces" \notin l.label)
  BY DEF GoodLink
<1>2. /\ l = [id |-> l.id, from |-> l.from, to |-> l.to, label |-> l.label, style |-> l.style]
      /\ l.id \in Nat /\ l.from \in Nat /\ l.to \in Nat /\ l.label \in SUBSET Words /\ l.style \in Styles
  BY <1>1 DEF Link
<1>3. LET a == [l EXCEPT !.style = style] IN GoodLink(a, I) /\ a.id = l.id /\ Ends(a) = Ends(l)
  <2> DEFINE m == [id |-> l.id, from |-> l.from, to |-> l.to, label |-> l.label, style |-> style]
  <2>1. [l EXCEPT !.style = style] = m
    BY <1>2
  <2>2. m \in Link
    BY <1>2 DEF Link
  <2>3. m.id = l.id /\ m.from = l.from /\ m.to = l.to /\ m.label = l.label
    OBVIOUS
  <2> HIDE DEF m
  <2> QED
    BY <1>1, <2>1, <2>2, <2>3 DEF GoodLink, Ends
<1>4. LET b == [l EXCEPT !.label = label] IN GoodLink(b, I) /\ b.id = l.id /\ Ends(b) = Ends(l)
  <2> DEFINE m == [id |-> l.id, from |-> l.from, to |-> l.to, label |-> label, style |-> l.style]
  <2>1. [l EXCEPT !.label = label] = m
    BY <1>2
  <2>2. m \in Link
    BY <1>2 DEF Link
  <2>3. m.id = l.id /\ m.from = l.from /\ m.to = l.to /\ m.label = label
    OBVIOUS
  <2> HIDE DEF m
  <2> QED
    BY <1>1, <2>1, <2>2, <2>3 DEF GoodLink, Ends
<1> QED
  BY <1>3, <1>4

LEMMA LinksLeft ==
  ASSUME NEW c, Good(c), NEW X
  PROVE  LET d == [c EXCEPT !.links = Those(c.links, X)]
         IN  Good(d) /\ d.nodes = c.nodes /\ d.seq = c.seq
<1> DEFINE ls == Those(c.links, X)
           d == [c EXCEPT !.links = ls]
<1>0. /\ c \in Cop /\ Increasing(c.vlans) /\ NodesGood(c.nodes, c.vlans)
      /\ LinksGood(c.links, IdsOf(c.nodes))
  BY DEF Good
<1>1. LinksGood(ls, IdsOf(c.nodes))
  <2>1. \A k \in DOMAIN c.links : c.links[k] \in X => Ends(c.links[k]) \subseteq IdsOf(c.nodes)
    BY <1>0 DEF LinksGood, GoodLink, Ends
  <2> QED
    BY <2>1, <1>0, ThoseLinks
<1> HIDE DEF ls
<1>2. d = [nodes |-> c.nodes, links |-> ls, vlans |-> c.vlans, seq |-> c.seq]
      /\ c.vlans \in Seq(Int) /\ c.seq \in Nat
  BY <1>0, CopFields
<1> HIDE DEF d
<1>3. Good(d)
  BY <1>0, <1>1, <1>2, MakesGood
<1>4. d.nodes = c.nodes /\ d.seq = c.seq
  BY <1>2
<1> QED
  BY <1>3, <1>4 DEF d, ls

\* A change of one node that keeps its tags sorted and listed.
LEMMA NodeChanged ==
  ASSUME NEW c, Good(c), NEW k \in DOMAIN c.nodes, NEW kind \in Kinds, NEW num \in Nat,
         NEW ref \in Refs
  PROVE  LET d1 == [c EXCEPT !.nodes[k].kind = kind]
             d2 == [c EXCEPT !.nodes[k].num = num]
             d3 == [c EXCEPT !.nodes[k].ref = ref]
         IN  /\ Good(d1) /\ IdsOf(d1.nodes) = IdsOf(c.nodes)
             /\ Good(d2) /\ IdsOf(d2.nodes) = IdsOf(c.nodes)
             /\ Good(d3) /\ IdsOf(d3.nodes) = IdsOf(c.nodes)
<1> DEFINE n == c.nodes[k]
           m1 == [n EXCEPT !.kind = kind]
           m2 == [n EXCEPT !.num = num]
           m3 == [n EXCEPT !.ref = ref]
<1>1. GoodNode(n, c.vlans)
  BY DEF Good, NodesGood
<1>3. /\ [c EXCEPT !.nodes[k].kind = kind] = [c EXCEPT !.nodes = [c.nodes EXCEPT ![k] = m1]]
      /\ [c EXCEPT !.nodes[k].num = num] = [c EXCEPT !.nodes = [c.nodes EXCEPT ![k] = m2]]
      /\ [c EXCEPT !.nodes[k].ref = ref] = [c EXCEPT !.nodes = [c.nodes EXCEPT ![k] = m3]]
  OBVIOUS
<1>4. /\ GoodNode(m1, c.vlans) /\ GoodNode(m2, c.vlans) /\ GoodNode(m3, c.vlans)
      /\ m1.id = n.id /\ m2.id = n.id /\ m3.id = n.id
  <2> HIDE DEF n
  <2> QED
    BY <1>1, NodeEdited
<1> HIDE DEF m1, m2, m3
<1>5. LET d == [c EXCEPT !.nodes = [c.nodes EXCEPT ![k] = m1]]
      IN  Good(d) /\ IdsOf(d.nodes) = IdsOf(c.nodes)
  BY <1>4, NodeSet
<1>6. LET d == [c EXCEPT !.nodes = [c.nodes EXCEPT ![k] = m2]]
      IN  Good(d) /\ IdsOf(d.nodes) = IdsOf(c.nodes)
  BY <1>4, NodeSet
<1>7. LET d == [c EXCEPT !.nodes = [c.nodes EXCEPT ![k] = m3]]
      IN  Good(d) /\ IdsOf(d.nodes) = IdsOf(c.nodes)
  BY <1>4, NodeSet
<1> QED
  BY <1>3, <1>5, <1>6, <1>7

LEMMA NodeTicked ==
  ASSUME NEW c, Good(c), NEW k \in DOMAIN c.nodes, NEW num \in ToSet(c.vlans)
  PROVE  LET d1 == [c EXCEPT !.nodes[k] = Tagged(@, num)]
             d2 == [c EXCEPT !.nodes[k].tags = Those(@, Int \ {num})]
         IN  /\ Good(d1) /\ IdsOf(d1.nodes) = IdsOf(c.nodes)
             /\ Good(d2) /\ IdsOf(d2.nodes) = IdsOf(c.nodes)
<1> DEFINE n == c.nodes[k]
           m1 == Tagged(n, num)
           X == Int \ {num}
           tags == Those(n.tags, X)
           m2 == [n EXCEPT !.tags = tags]
<1>1. GoodNode(n, c.vlans) /\ c.vlans \in Seq(Int)
  BY DEF Good, NodesGood, Cop
<1>2. /\ n.tags \in Seq(Int) /\ Increasing(n.tags) /\ Len(n.tags) <= MaxTags
      /\ ToSet(n.tags) \subseteq ToSet(c.vlans)
      /\ n.kind \in Kinds /\ n.num \in Nat /\ n.ref \in Refs
  BY <1>1 DEF GoodNode, Node
<1>3. num \in Int
  BY <1>1 DEF ToSet
<1>4. /\ [c EXCEPT !.nodes[k] = Tagged(@, num)] = [c EXCEPT !.nodes = [c.nodes EXCEPT ![k] = m1]]
      /\ [c EXCEPT !.nodes[k].tags = Those(@, Int \ {num})]
           = [c EXCEPT !.nodes = [c.nodes EXCEPT ![k] = m2]]
  OBVIOUS
<1>5. GoodNode(m1, c.vlans) /\ m1.id = n.id
  BY <1>1, <1>3, TaggedGood
<1>6. /\ tags \in Seq(Int) /\ Increasing(tags) /\ Len(tags) <= MaxTags
      /\ ToSet(tags) \subseteq ToSet(c.vlans)
  <2> HIDE DEF X
  <2>1. tags \in Seq(Int) /\ Len(tags) <= Len(n.tags) /\ ToSet(tags) = ToSet(n.tags) \cap X
    BY <1>2, ThoseItems
  <2>2. Increasing(tags)
    BY <1>2, ThoseIncreasing
  <2>3. Len(tags) \in Nat /\ Len(n.tags) \in Nat /\ MaxTags \in Nat
    BY <1>2, <2>1, DiagramLimits
  <2> HIDE DEF tags
  <2> QED
    BY <1>2, <2>1, <2>2, <2>3
<1> HIDE DEF tags, m1
<1>7. GoodNode(m2, c.vlans) /\ m2.id = n.id
  <2> HIDE DEF n
  <2> QED
    BY <1>1, <1>6, NodeRetagged
<1> HIDE DEF m2
<1>8. LET d == [c EXCEPT !.nodes = [c.nodes EXCEPT ![k] = m1]]
      IN  Good(d) /\ IdsOf(d.nodes) = IdsOf(c.nodes)
  BY <1>5, NodeSet
<1>9. LET d == [c EXCEPT !.nodes = [c.nodes EXCEPT ![k] = m2]]
      IN  Good(d) /\ IdsOf(d.nodes) = IdsOf(c.nodes)
  BY <1>7, NodeSet
<1> QED
  BY <1>4, <1>8, <1>9

LEMMA LinkChanged ==
  ASSUME NEW c, Good(c), NEW k \in DOMAIN c.links, NEW style \in Styles,
         NEW label \in SUBSET Words, PlainTexts => "spaces" \notin label
  PROVE  LET d1 == [c EXCEPT !.links[k].style = style]
             d2 == [c EXCEPT !.links[k].label = label]
         IN  Good(d1) /\ d1.nodes = c.nodes /\ Good(d2) /\ d2.nodes = c.nodes
<1> DEFINE l == c.links[k]
           m1 == [l EXCEPT !.style = style]
           m2 == [l EXCEPT !.label = label]
           I == IdsOf(c.nodes)
<1>1. GoodLink(l, I)
  BY DEF Good, LinksGood
<1>2. /\ [c EXCEPT !.links[k].style = style] = [c EXCEPT !.links = [c.links EXCEPT ![k] = m1]]
      /\ [c EXCEPT !.links[k].label = label] = [c EXCEPT !.links = [c.links EXCEPT ![k] = m2]]
  OBVIOUS
<1>3. /\ GoodLink(m1, I) /\ m1.id = l.id /\ Ends(m1) = Ends(l)
      /\ GoodLink(m2, I) /\ m2.id = l.id /\ Ends(m2) = Ends(l)
  <2> HIDE DEF l, I
  <2> QED
    BY <1>1, LinkEdited
<1> HIDE DEF m1, m2
<1>4. LET d == [c EXCEPT !.links = [c.links EXCEPT ![k] = m1]]
      IN  Good(d) /\ d.nodes = c.nodes
  BY <1>3, LinkSet
<1>5. LET d == [c EXCEPT !.links = [c.links EXCEPT ![k] = m2]]
      IN  Good(d) /\ d.nodes = c.nodes
  BY <1>3, LinkSet
<1> QED
  BY <1>2, <1>4, <1>5

\* A VLAN goes, and with it the tags that name it.
LEMMA VlanRemoved ==
  ASSUME NEW c, Good(c), NEW num
  PROVE  LET d == OnNodes([c EXCEPT !.vlans = Those(@, Int \ {num})],
                          LAMBDA n : [n EXCEPT !.tags = Those(@, Int \ {num})])
         IN  Good(d) /\ IdsOf(d.nodes) = IdsOf(c.nodes)
<1> DEFINE X == Int \ {num}
           vs == Those(c.vlans, X)
           b == [c EXCEPT !.vlans = vs]
           ms == [k \in DOMAIN c.nodes |-> [c.nodes[k] EXCEPT !.tags = Those(@, X)]]
           d == [b EXCEPT !.nodes = ms]
<1>0. /\ c \in Cop /\ Increasing(c.vlans) /\ NodesGood(c.nodes, c.vlans)
      /\ LinksGood(c.links, IdsOf(c.nodes)) /\ c.vlans \in Seq(Int) /\ c.seq \in Nat
      /\ c.nodes \in Seq(Node) /\ c.links \in Seq(Link)
  BY CopFields DEF Good
<1>1. b = [nodes |-> c.nodes, links |-> c.links, vlans |-> vs, seq |-> c.seq]
  <2> HIDE DEF vs
  <2> QED
    BY <1>0, CopFields
<1>2. OnNodes([c EXCEPT !.vlans = Those(@, Int \ {num})],
              LAMBDA n : [n EXCEPT !.tags = Those(@, Int \ {num})])
        = [b EXCEPT !.nodes = [k \in DOMAIN b.nodes |-> [b.nodes[k] EXCEPT !.tags = Those(@, X)]]]
  BY DEF OnNodes
<1>3. vs \in Seq(Int) /\ Increasing(vs) /\ ToSet(vs) = ToSet(c.vlans) \cap X
  <2> HIDE DEF X
  <2> QED
    BY <1>0, ThoseItems, ThoseIncreasing
<1> HIDE DEF X, vs
<1>4. ASSUME NEW k \in DOMAIN c.nodes
      PROVE  GoodNode(ms[k], vs) /\ ms[k].id = c.nodes[k].id
  <2> DEFINE n == c.nodes[k]
             tags == Those(n.tags, X)
  <2>1. GoodNode(n, c.vlans)
    BY <1>0 DEF NodesGood
  <2>2. /\ n.tags \in Seq(Int) /\ Increasing(n.tags) /\ Len(n.tags) <= MaxTags
        /\ ToSet(n.tags) \subseteq ToSet(c.vlans)
        /\ n.kind \in Kinds /\ n.num \in Nat /\ n.ref \in Refs
    BY <2>1 DEF GoodNode, Node
  <2>3. tags \in Seq(Int) /\ Len(tags) <= Len(n.tags) /\ ToSet(tags) = ToSet(n.tags) \cap X
    BY <2>2, ThoseItems
  <2>4. Increasing(tags)
    BY <2>2, ThoseIncreasing
  <2>5. ms[k] = [n EXCEPT !.tags = tags]
    OBVIOUS
  <2>6. Len(tags) \in Nat /\ Len(n.tags) \in Nat /\ MaxTags \in Nat
    BY <2>2, <2>3, DiagramLimits
  <2> HIDE DEF tags, ms
  <2>7. Len(tags) <= MaxTags /\ ToSet(tags) \subseteq ToSet(vs)
    BY <2>2, <2>3, <2>6, <1>3
  <2> HIDE DEF n
  <2>8. GoodNode([n EXCEPT !.tags = tags], vs) /\ [n EXCEPT !.tags = tags].id = n.id
    BY <2>1, <2>3, <2>4, <2>7, NodeRetagged
  <2> QED
    BY <2>5, <2>8 DEF n
<1>5. ms = [k \in DOMAIN c.nodes |-> ms[k]]
  OBVIOUS
<1>6. b.nodes = c.nodes
  BY <1>1
<1>7. OnNodes([c EXCEPT !.vlans = Those(@, Int \ {num})],
              LAMBDA n : [n EXCEPT !.tags = Those(@, Int \ {num})]) = d
  BY <1>2, <1>6
<1> HIDE DEF ms, b
<1>8. NodesGood(ms, vs) /\ IdsOf(ms) = IdsOf(c.nodes)
  BY <1>0, <1>4, <1>5, NodesMapped
<1>9. d = [nodes |-> ms, links |-> c.links, vlans |-> vs, seq |-> c.seq]
  BY <1>1
<1> HIDE DEF d
<1>10. Good(d)
  BY <1>0, <1>3, <1>8, <1>9, MakesGood
<1>11. IdsOf(d.nodes) = IdsOf(c.nodes)
  BY <1>8, <1>9
<1> QED
  BY <1>7, <1>10, <1>11

LEMMA EditsBounded ==
  ASSUME EditorInv, UNCHANGED edits \/ ByHand
  PROVE  edits' \in 0..MaxEdits
<1>1. MaxEdits \in Nat
  BY OfferAssumption
<1>2. edits \in 0..MaxEdits
  BY DEF EditorInv
<1> QED
  BY <1>1, <1>2 DEF ByHand

\* A handler that only adds, or changes what is there, keeps the invariant.
LEMMA EditKeeps ==
  ASSUME EditorInv, NEW c, Good(c), IdsOf(copy.nodes) \subseteq IdsOf(c.nodes),
         Edited(c) \/ Chained(c)
  PROVE  EditorInv'
<1>1. copy' = c /\ c.seq <= MaxSeq /\ linkFrom' = linkFrom /\ inventory' = inventory
  BY DEF Edited, Chained, Becomes
<1>2. edits' \in 0..MaxEdits
  BY EditsBounded DEF Edited, Chained
<1> QED
  BY <1>1, <1>2 DEF EditorInv

\* A handler after which no link is begun.
LEMMA ResetKeeps ==
  ASSUME EditorInv, Good(copy'), copy'.seq <= MaxSeq, linkFrom' = NoNode,
         inventory' \in Inventories, edits' = edits \/ ByHand
  PROVE  EditorInv'
<1>1. edits' \in 0..MaxEdits
  BY EditsBounded
<1> QED
  BY <1>1 DEF EditorInv

LEMMA EditorFacts ==
  ASSUME EditorInv
  PROVE  /\ Good(copy) /\ copy \in Cop /\ copy.seq <= MaxSeq
         /\ copy.nodes \in Seq(Node) /\ copy.links \in Seq(Link) /\ copy.vlans \in Seq(Int)
         /\ inventory \in Inventories /\ IdsOf(copy.nodes) \subseteq Nat
<1>1. Good(copy) /\ copy.seq <= MaxSeq /\ inventory \in Inventories
  BY DEF EditorInv
<1>2. copy \in Cop
  BY <1>1 DEF Good
<1>3. copy.nodes \in Seq(Node) /\ copy.links \in Seq(Link) /\ copy.vlans \in Seq(Int)
  BY <1>2 DEF Cop
<1>4. \A k \in DOMAIN copy.nodes : copy.nodes[k] \in Node
  BY <1>3
<1>5. IdsOf(copy.nodes) \subseteq Nat
  BY <1>4 DEF IdsOf, Node
<1> QED
  BY <1>1, <1>2, <1>3, <1>5

LEMMA BareLinkAdded ==
  ASSUME NEW c, Good(c), NEW a \in IdsOf(c.nodes), NEW b \in IdsOf(c.nodes), a # b
  PROVE  LET d == WithLink(c, a, b, {}, "") IN Good(d) /\ d.nodes = c.nodes
<1>1. {} \in SUBSET Words /\ "" \in Styles /\ (PlainTexts => "spaces" \notin {})
  BY DEF Styles
<1> QED
  BY <1>1, WithLinkGood

LEMMA ClickKeeps ==
  ASSUME EditorInv, NEW k \in Nodes, ClickNode(k)
  PROVE  EditorInv'
<1> DEFINE id == copy.nodes[k].id
           none == {}
           style == ""
           from == linkFrom
           c == WithLink(copy, from, id, none, style)
<1>1. id \in IdsOf(copy.nodes) /\ edits' \in 0..MaxEdits /\ inventory' = inventory
  <2>1. id \in IdsOf(copy.nodes)
    BY DEF Nodes, IdsOf
  <2>2. inventory' = inventory /\ ByHand
    BY DEF ClickNode
  <2>3. edits' \in 0..MaxEdits
    BY <2>2, EditsBounded
  <2> QED
    BY <2>1, <2>2, <2>3
<1>2. linkFrom' \in IdsOf(copy.nodes) \cup {NoNode}
  BY <1>1 DEF ClickNode
<1>3. CASE linkFrom \in {NoNode, id}
  <2>1. copy' = copy
    BY <1>3 DEF ClickNode
  <2> QED
    BY <1>1, <1>2, <2>1 DEF EditorInv
<1>4. CASE linkFrom \notin {NoNode, id}
  <2>1. copy' = c /\ c.seq <= MaxSeq
    BY <1>4 DEF ClickNode, Becomes
  <2>2. from \in IdsOf(copy.nodes) /\ from # id /\ Good(copy)
    BY <1>4 DEF EditorInv
  <2>3. none \in SUBSET Words /\ style \in Styles /\ (PlainTexts => "spaces" \notin none)
    BY DEF Styles
  <2>4. Good(c) /\ c.nodes = copy.nodes
    <3> DEFINE cp == copy
    <3>1. /\ Good(cp) /\ from \in IdsOf(cp.nodes) /\ id \in IdsOf(cp.nodes) /\ from # id
          /\ none \in SUBSET Words /\ style \in Styles /\ (PlainTexts => "spaces" \notin none)
      BY <1>1, <2>2, <2>3
    <3> HIDE DEF id, from, cp
    <3>2. Good(WithLink(cp, from, id, {}, "")) /\ WithLink(cp, from, id, {}, "").nodes = cp.nodes
      BY <3>1, BareLinkAdded
    <3> QED
      BY <3>2 DEF cp
  <2> HIDE DEF c
  <2> QED
    BY <1>1, <1>2, <2>1, <2>4 DEF EditorInv
<1> QED
  BY <1>3, <1>4

LEMMA DeleteKeeps ==
  ASSUME EditorInv
  PROVE  /\ \A k \in Nodes : DeleteNode(k) => EditorInv'
         /\ \A k \in DrawnLinks : DeleteLink(k) => EditorInv'
<1>0. Good(copy) /\ inventory \in Inventories
  BY DEF EditorInv
<1>1. ASSUME NEW k \in Nodes, DeleteNode(k) PROVE EditorInv'
  <2> DEFINE id == copy.nodes[k].id
             c == Without(copy, id)
  <2>1. Good(c)
    BY <1>0, WithoutGood
  <2>2. copy' = c /\ c.seq <= MaxSeq /\ linkFrom' = NoNode /\ inventory' = inventory /\ ByHand
    BY <1>1 DEF DeleteNode, Becomes
  <2> HIDE DEF c
  <2> QED
    BY <1>0, <2>1, <2>2, ResetKeeps
<1>2. ASSUME NEW k \in DrawnLinks, DeleteLink(k) PROVE EditorInv'
  <2> DEFINE X == {l \in ToSet(copy.links) : l.id # copy.links[k].id}
             c == [copy EXCEPT !.links = Those(copy.links, X)]
  <2>1. Good(c)
    <3> HIDE DEF X
    <3> QED
      BY <1>0, LinksLeft
  <2>2. copy' = c /\ c.seq <= MaxSeq /\ linkFrom' = NoNode /\ inventory' = inventory /\ ByHand
    BY <1>2 DEF DeleteLink, Becomes
  <2> HIDE DEF c
  <2> QED
    BY <1>0, <2>1, <2>2, ResetKeeps
<1> QED
  BY <1>1, <1>2

LEMMA NodeEditKeeps ==
  ASSUME EditorInv, NEW k \in Nodes, EditNode(k)
  PROVE  EditorInv'
<1>0. Good(copy) /\ k \in DOMAIN copy.nodes /\ inventory \in Inventories
      /\ copy.vlans \in Seq(Int) /\ OfferedKinds \subseteq Kinds /\ Numbers \subseteq Nat
  BY EditorFacts, OfferAssumption DEF Nodes
<1>1. ASSUME NEW kind \in OfferedKinds, SetKind(k, kind) PROVE EditorInv'
  <2> DEFINE c == [copy EXCEPT !.nodes[k].kind = kind]
  <2>1. Good(c) /\ IdsOf(c.nodes) = IdsOf(copy.nodes)
    <3>1. kind \in Kinds /\ NoRef \in Refs /\ 0 \in Nat
      BY <1>0 DEF Refs
    <3> QED
      BY <1>0, <3>1, NodeChanged
  <2>2. Edited(c)
    BY <1>1 DEF SetKind
  <2> HIDE DEF c
  <2> QED
    BY <2>1, <2>2, EditKeeps
<1>2. ASSUME NEW ref \in Refs, SetRef(k, ref) PROVE EditorInv'
  <2> DEFINE c == [copy EXCEPT !.nodes[k].ref = ref]
  <2>1. Good(c) /\ IdsOf(c.nodes) = IdsOf(copy.nodes)
    <3>1. \E kind : kind \in Kinds
      BY DEF Kinds
    <3>2. PICK kind \in Kinds : TRUE
      BY <3>1
    <3> QED
      BY <1>0, <3>2, NodeChanged
  <2>2. Edited(c)
    BY <1>2 DEF SetRef
  <2> HIDE DEF c
  <2> QED
    BY <2>1, <2>2, EditKeeps
<1>3. ASSUME NEW num \in Numbers \cup {0}, NameBox(k, num) PROVE EditorInv'
  <2> DEFINE c == [copy EXCEPT !.nodes[k].num = num]
  <2>1. Good(c) /\ IdsOf(c.nodes) = IdsOf(copy.nodes)
    <3>1. \E kind : kind \in Kinds
      BY DEF Kinds
    <3>2. PICK kind \in Kinds : TRUE
      BY <3>1
    <3>3. num \in Nat /\ NoRef \in Refs
      BY <1>0 DEF Refs
    <3> QED
      BY <1>0, <3>2, <3>3, NodeChanged
  <2>2. Edited(c)
    BY <1>3 DEF NameBox
  <2> HIDE DEF c
  <2> QED
    BY <2>1, <2>2, EditKeeps
<1>4. ASSUME NEW num \in ToSet(copy.vlans), Tick(k, num) \/ Untick(k, num) PROVE EditorInv'
  <2> DEFINE c == [copy EXCEPT !.nodes[k] = Tagged(@, num)]
             d == [copy EXCEPT !.nodes[k].tags = Those(@, Int \ {num})]
  <2>1. /\ Good(c) /\ IdsOf(c.nodes) = IdsOf(copy.nodes)
        /\ Good(d) /\ IdsOf(d.nodes) = IdsOf(copy.nodes)
    BY <1>0, NodeTicked
  <2>2. Edited(c) \/ Edited(d)
    BY <1>4 DEF Tick, Untick
  <2> HIDE DEF c, d
  <2> QED
    BY <2>1, <2>2, EditKeeps
<1>5. \A j \in DOMAIN inventory.devices : <<"devices", inventory.devices[j].id>> \in Refs
  <2> DEFINE D == [id : STRING, kind : Kinds, vlans : Seq(STRING)]
             ds == inventory.devices
  <2>1. ds \in Seq(D)
    BY <1>0, InventoryHas
  <2> HIDE DEF D, ds
  <2>2. \A j \in DOMAIN ds : ds[j] \in D
    BY <2>1
  <2>3. \A j \in DOMAIN ds : ds[j].id \in STRING
    BY <2>2 DEF D
  <2> QED
    BY <2>3 DEF ds, Refs, RefTypes
<1>6. NoRef \in Refs
  BY DEF Refs
<1>7. ClickNode(k) \/ DeleteNode(k) => EditorInv'
  BY ClickKeeps, DeleteKeeps
<1> QED
  BY <1>1, <1>2, <1>3, <1>4, <1>5, <1>6, <1>7 DEF EditNode

LEMMA LinkEditKeeps ==
  ASSUME EditorInv, NEW k \in DrawnLinks, EditLink(k)
  PROVE  EditorInv'
<1>0. Good(copy) /\ k \in DOMAIN copy.links /\ OfferedStyles \subseteq Styles
      /\ Texts \subseteq SUBSET Words
  BY OfferAssumption DEF EditorInv, DrawnLinks, Drawn
<1>1. ASSUME NEW style \in OfferedStyles, SetStyle(k, style) PROVE EditorInv'
  <2> DEFINE c == [copy EXCEPT !.links[k].style = style]
             none == {}
  <2>1. Good(c) /\ c.nodes = copy.nodes
    <3>1. style \in Styles /\ none \in SUBSET Words /\ (PlainTexts => "spaces" \notin none)
      BY <1>0
    <3> HIDE DEF none
    <3> QED
      BY <1>0, <3>1, LinkChanged
  <2>2. Edited(c)
    BY <1>1 DEF SetStyle
  <2> HIDE DEF c
  <2> QED
    BY <2>1, <2>2, EditKeeps
<1>2. ASSUME NEW text \in Texts, SetLabel(k, text) PROVE EditorInv'
  <2> DEFINE c == [copy EXCEPT !.links[k].label = text]
             style == ""
  <2>1. Good(c) /\ c.nodes = copy.nodes
    <3>1. style \in Styles
      BY DEF Styles
    <3>2. text \in SUBSET Words /\ (PlainTexts => "spaces" \notin text)
      BY <1>0 DEF PlainTexts
    <3> HIDE DEF style
    <3> QED
      BY <1>0, <3>1, <3>2, LinkChanged
  <2>2. Edited(c)
    BY <1>2 DEF SetLabel
  <2> HIDE DEF c
  <2> QED
    BY <2>1, <2>2, EditKeeps
<1> QED
  BY <1>1, <1>2, DeleteKeeps DEF EditLink

\* What the inventory brings is added to what is drawn.
LEMMA InventoryKeeps ==
  ASSUME EditorInv, AddFromInventory \/ ImportAll \/ AutoLayout
  PROVE  EditorInv'
<1>0. Good(copy) /\ inventory \in Inventories
  BY DEF EditorInv
<1> DEFINE inv == inventory
<1>1. CASE AddFromInventory
  <2>1. PICK c \in {WithInvVlan(copy, inv.vlans[k]) : k \in DOMAIN inv.vlans}
                   \cup {WithDevice(copy, inv, inv.devices[k]) : k \in DOMAIN inv.devices}
                   \cup {WithService(copy, inv, inv.services[k]) : k \in DOMAIN inv.services} :
               Chained(LinkInventory(c, inv))
    BY <1>1 DEF AddFromInventory
  <2>2. Grown(copy, c)
    <3>1. \A k \in DOMAIN inv.vlans : Grown(copy, WithInvVlan(copy, inv.vlans[k]))
      BY <1>0, InvVlanAdded
    <3>2. \A k \in DOMAIN inv.devices : Grown(copy, WithDevice(copy, inv, inv.devices[k]))
      BY <1>0, DeviceAdded
    <3>3. \A k \in DOMAIN inv.services : Grown(copy, WithService(copy, inv, inv.services[k]))
      BY <1>0, ServiceAdded
    <3> HIDE DEF inv
    <3> QED
      BY <2>1, <3>1, <3>2, <3>3
  <2> DEFINE d == LinkInventory(c, inv)
  <2>3. Grown(c, d)
    <3>1. Good(c)
      BY <2>2 DEF Grown
    <3> QED
      BY <1>0, <3>1, LinksImported
  <2>4. Chained(d)
    BY <2>1
  <2> HIDE DEF d
  <2>5. Good(d) /\ IdsOf(copy.nodes) \subseteq IdsOf(d.nodes)
    BY <2>2, <2>3, GrownOn, GrownIds
  <2> QED
    BY <2>4, <2>5, EditKeeps
<1>2. CASE ImportAll
  <2> DEFINE c == ImportedAll(copy, inv)
             d == LinkInventory(c, inv)
             e == WithInternet(d)
  <2>1. Grown(copy, c)
    BY <1>0, AllImported
  <2>2. Chained(e)
    BY <1>2 DEF ImportAll
  <2> HIDE DEF c
  <2>3. Good(c)
    BY <2>1 DEF Grown
  <2>4. Grown(c, d)
    BY <1>0, <2>3, LinksImported
  <2> HIDE DEF d
  <2>5. Good(d)
    BY <2>4 DEF Grown
  <2>6. Grown(d, e)
    BY <2>5, InternetAdded
  <2> HIDE DEF e
  <2>7. Good(e) /\ IdsOf(copy.nodes) \subseteq IdsOf(e.nodes)
    BY <2>1, <2>4, <2>6, GrownOn, GrownIds
  <2> QED
    BY <2>2, <2>7, EditKeeps
<1>3. CASE AutoLayout
  <2> DEFINE e == WithInternet(copy)
  <2>1. Grown(copy, e)
    BY <1>0, InternetAdded
  <2>2. Chained(e)
    BY <1>3 DEF AutoLayout
  <2> HIDE DEF e
  <2>3. Good(e) /\ IdsOf(copy.nodes) \subseteq IdsOf(e.nodes)
    BY <2>1, GrownIds
  <2> QED
    BY <2>2, <2>3, EditKeeps
<1> QED
  BY <1>1, <1>2, <1>3

LEMMA ConvertKeeps ==
  ASSUME EditorInv, FinishesLinks, ConvertVlanNodes
  PROVE  EditorInv'
<1> DEFINE c == Converted(copy, inventory)
<1>1. Good(c)
  BY BoxesConverted DEF EditorInv
<1>2. linkFrom = NoNode /\ Chained(c)
  BY DEF ConvertVlanNodes
<1> HIDE DEF c
<1>3. copy' = c /\ c.seq <= MaxSeq /\ linkFrom' = NoNode /\ inventory' = inventory /\ edits' = edits
  BY <1>2 DEF Chained, Becomes
<1> QED
  BY <1>1, <1>3, ResetKeeps DEF EditorInv

LEMMA SaveKeeps ==
  ASSUME EditorInv, SaveAndReopen
  PROVE  EditorInv'
<1> DEFINE c == Opened(Normal(copy))
<1>1. Good(c) /\ c.seq <= MaxSeq
  BY SavedGood DEF EditorInv, SaveAndReopen
<1>2. copy' = c /\ linkFrom' = NoNode /\ inventory' \in Inventories /\ edits' = edits
  BY DEF SaveAndReopen
<1> HIDE DEF c
<1> QED
  BY <1>1, <1>2, ResetKeeps

LEMMA VlanKeeps ==
  ASSUME EditorInv
  PROVE  /\ \A num \in Numbers : AddVlan(num) => EditorInv'
         /\ \A num : RemoveVlan(num) => EditorInv'
<1>0. Good(copy) /\ Numbers \subseteq Int
  BY OfferAssumption DEF EditorInv
<1>1. ASSUME NEW num \in Numbers, AddVlan(num) PROVE EditorInv'
  <2> DEFINE c == WithVlan(copy, num)
  <2>1. Good(c) /\ c.nodes = copy.nodes
    BY <1>0, WithVlanGood
  <2>2. Edited(c)
    BY <1>1 DEF AddVlan
  <2> HIDE DEF c
  <2> QED
    BY <2>1, <2>2, EditKeeps
<1>2. ASSUME NEW num, RemoveVlan(num) PROVE EditorInv'
  <2> DEFINE c == OnNodes([copy EXCEPT !.vlans = Those(@, Int \ {num})],
                          LAMBDA n : [n EXCEPT !.tags = Those(@, Int \ {num})])
  <2>1. Good(c) /\ IdsOf(c.nodes) = IdsOf(copy.nodes)
    <3> DEFINE cp == copy
    <3>1. Good(cp)
      BY <1>0
    <3> HIDE DEF cp
    <3>2. LET d == OnNodes([cp EXCEPT !.vlans = Those(@, Int \ {num})],
                          LAMBDA n : [n EXCEPT !.tags = Those(@, Int \ {num})])
          IN  Good(d) /\ IdsOf(d.nodes) = IdsOf(cp.nodes)
      BY <3>1, VlanRemoved DEF OnNodes
    <3> QED
      BY <3>2 DEF cp
  <2>2. Edited(c)
    BY <1>2 DEF RemoveVlan
  <2> HIDE DEF c
  <2> QED
    BY <2>1, <2>2, EditKeeps
<1> QED
  BY <1>1, <1>2

LEMMA AddNodeKeeps ==
  ASSUME EditorInv, NEW kind \in OfferedKinds, AddNode(kind)
  PROVE  EditorInv'
<1> DEFINE c == WithNode(copy, kind, NoRef, <<>>)
<1>1. /\ Good(copy) /\ Good(c) /\ c.links = copy.links
      /\ \E n \in Node : c.nodes = Append(copy.nodes, n) /\ n.id \notin IdsOf(copy.nodes)
  BY OfferAssumption, BareNodeAdded DEF EditorInv
<1>2. Edited(c)
  BY DEF AddNode
<1> HIDE DEF c
<1>3. PICK n \in Node : c.nodes = Append(copy.nodes, n)
  BY <1>1
<1>4. Pairs(copy) \subseteq Pairs(c)
  BY <1>1 DEF Pairs
<1>5. Grown(copy, c)
  BY <1>1, <1>3, <1>4, GrownByNode
<1> QED
  BY <1>1, <1>2, <1>5, EditKeeps, GrownIds

LEMMA EditorInductive ==
  ASSUME FinishesLinks
  PROVE  /\ Init => EditorInv
         /\ EditorInv /\ [Next]_vars => EditorInv'
<1>1. ASSUME Init PROVE EditorInv
  <2>1. PICK d \in Stored : copy = Opened(d)
    BY <1>1 DEF Init
  <2>2. Good(copy) /\ copy.seq <= MaxSeq
    BY <2>1, StoredGood
  <2>3. linkFrom = NoNode /\ inventory \in Inventories /\ edits \in 0..MaxEdits
    BY <1>1, OfferAssumption DEF Init
  <2> QED
    BY <2>2, <2>3 DEF EditorInv
<1>2. ASSUME EditorInv, [Next]_vars PROVE EditorInv'
  <2>1. CASE UNCHANGED vars
    BY <1>2, <2>1 DEF EditorInv, vars
  <2>2. ASSUME NEW kind \in OfferedKinds, AddNode(kind) PROVE EditorInv'
    BY <1>2, <2>2, AddNodeKeeps
  <2>3. ASSUME NEW k \in Nodes, EditNode(k) PROVE EditorInv'
    BY <1>2, <2>3, NodeEditKeeps
  <2>4. ASSUME NEW k \in DrawnLinks, EditLink(k) PROVE EditorInv'
    BY <1>2, <2>4, LinkEditKeeps
  <2>5. ASSUME NEW num, (AddVlan(num) /\ num \in Numbers) \/ RemoveVlan(num) PROVE EditorInv'
    BY <1>2, <2>5, VlanKeeps
  <2>6. CASE GiveUpLink
    BY <1>2, <2>6 DEF EditorInv, GiveUpLink
  <2>7. CASE AddFromInventory \/ ImportAll \/ AutoLayout
    BY <1>2, <2>7, InventoryKeeps
  <2>8. CASE ConvertVlanNodes
    BY <1>2, <2>8, ConvertKeeps
  <2>9. CASE RefreshInventory
    BY <1>2, <2>9 DEF EditorInv, RefreshInventory
  <2>10. CASE SaveAndReopen
    BY <1>2, <2>10, SaveKeeps
  <2> QED
    BY <1>2, <2>1, <2>2, <2>3, <2>4, <2>5, <2>6, <2>7, <2>8, <2>9, <2>10 DEF Next
<1> QED
  BY <1>1, <1>2

-----------------------------------------------------------------------------
(* What the editor promises. *)

LEMMA EditorAlways ==
  ASSUME FinishesLinks
  PROVE  Spec => []EditorInv
BY EditorInductive, PTL DEF Spec

(* However a diagram is drawn, imported, converted, saved and opened again, it *)
(* stays one whose structure only the limits on numbers can refuse, with one   *)
(* link at most between two nodes, and a link that was begun was begun on the  *)
(* diagram: for users who finish or give up a link before they convert boxes.  *)
THEOREM EditorWellFormed ==
  ASSUME FinishesLinks
  PROVE  Spec => []WellFormed
<1>1. ASSUME EditorInv PROVE WellFormed
  <2>1. /\ Good(copy) /\ copy \in Cop /\ copy.seq <= MaxSeq /\ IdsOf(copy.nodes) \subseteq Nat
        /\ copy.nodes \in Seq(Node) /\ copy.links \in Seq(Link) /\ copy.vlans \in Seq(Int)
    BY <1>1, EditorFacts
  <2>2. ToSet(copy.nodes) \subseteq Node /\ ToSet(copy.links) \subseteq Link
    BY <2>1 DEF ToSet
  <2>3. Sorted(copy.vlans) = copy.vlans
    BY <2>1, SortedSame DEF Good
  <2>4. copy.seq \in 0..MaxSeq
    <3>1. copy.seq \in Nat
      BY <2>1, CopFields
    <3> QED
      BY <2>1, <3>1, OfferAssumption
  <2>5. linkFrom \in IdsOf(copy.nodes) \cup {NoNode} /\ linkFrom \in Nat
    BY <1>1, <2>1 DEF EditorInv, NoNode
  <2>6. TypeOK
    BY <1>1, <2>1, <2>2, <2>3, <2>4, <2>5 DEF TypeOK, EditorInv
  <2> QED
    BY <2>1, <2>6, GoodFaults DEF WellFormed
<1> QED
  BY <1>1, EditorAlways, PTL

\* The color of a VLAN that is listed, in the editor and in the picture.
LEMMA SameColor ==
  ASSUME NEW c, c.vlans \in Seq(Int), Unique(c.vlans), NEW num \in ToSet(c.vlans)
  PROVE  VlanColor(c.vlans, num) = CanvasColor(c, num)
<1> DEFINE vs == c.vlans
<1>1. PICK k \in DOMAIN vs : vs[k] = num
  BY DEF ToSet
<1>2. DOMAIN vs = 1..Len(vs) /\ Len(vs) \in Nat
  OBVIOUS
<1>3. {j \in 1..Len(vs) : vs[j] = num} = {k} /\ k \in Nat /\ k # 0
  BY <1>1, <1>2 DEF Unique
<1>4. Min({k}) = k /\ Max({k}) = k
  BY <1>3 DEF Min, Max
<1>5. SelectInSeq(vs, LAMBDA v : v = num) = k
  BY <1>3, <1>4 DEF SelectInSeq
<1>6. SelectLastInSeq(vs, LAMBDA v : v = num) = k
  BY <1>3, <1>4 DEF SelectLastInSeq
<1> QED
  BY <1>3, <1>5, <1>6 DEF VlanColor, CanvasColor

LEMMA SameType ==
  ASSUME NEW c, NEW k, c.links[k].style \in Styles
  PROVE  TypeOf(c, k) = CanvasType(c, c.links[k])
<1> DEFINE l == c.links[k]
           x == ById(c.nodes, l.from).kind
           y == ById(c.nodes, l.to).kind
           dashed == \E e \in {l.from, l.to} : ById(c.nodes, e).kind \in Logical
<1>1. dashed <=> {x, y} \cap Logical # {}
  OBVIOUS
<1>2. TypeOf(c, k) = IF l.style = "logical" \/ {x, y} \cap Logical # {} THEN "logical"
                     ELSE IF l.style \in {"trunk", "access"} THEN l.style ELSE "link"
  BY DEF TypeOf, LinkType
<1>3. CASE dashed \/ l.style = "logical"
  <2>1. TypeOf(c, k) = "logical"
    BY <1>1, <1>2, <1>3
  <2>2. CanvasType(c, l) = "logical"
    BY <1>3 DEF CanvasType
  <2> QED
    BY <2>1, <2>2
<1>4. CASE ~dashed /\ l.style \in {"trunk", "access"}
  <2>1. TypeOf(c, k) = l.style
    BY <1>1, <1>2, <1>4
  <2>2. CanvasType(c, l) = l.style
    BY <1>4 DEF CanvasType
  <2> QED
    BY <2>1, <2>2
<1>5. CASE ~dashed /\ l.style = ""
  <2>1. TypeOf(c, k) = "link"
    BY <1>1, <1>2, <1>5
  <2>2. CanvasType(c, l) = "link"
    BY <1>5 DEF CanvasType
  <2> QED
    BY <2>1, <2>2
<1> QED
  BY <1>3, <1>4, <1>5 DEF Styles

LEMMA SameText ==
  ASSUME NEW hide \in BOOLEAN, NEW l, NEW type
  PROVE  LinkLabel(hide, l.label, type) = CanvasText(hide, l, type)
<1>1. CASE hide
  BY <1>1 DEF LinkLabel, CanvasText
<1>2. CASE ~hide /\ l.label # {}
  BY <1>2 DEF LinkLabel, CanvasText
<1>3. CASE ~hide /\ l.label = {} /\ type = "logical"
  BY <1>3 DEF LinkLabel, CanvasText
<1>4. CASE ~hide /\ l.label = {} /\ type # "logical"
  BY <1>4 DEF LinkLabel, CanvasText
<1> QED
  BY <1>1, <1>2, <1>3, <1>4

\* A copy and what is stored of it are drawn alike.
LEMMA DrawnAlike ==
  ASSUME NEW c, Good(c), NEW d, d.nodes = c.nodes, d.links = c.links, d.vlans = c.vlans,
         NEW hide \in BOOLEAN
  PROVE  Canvas(c, hide) = Picture(d, hide) /\ Explained(Picture(d, hide))
<1>0. /\ \A k \in DOMAIN c.nodes : GoodNode(c.nodes[k], c.vlans)
      /\ \A k \in DOMAIN c.links : GoodLink(c.links[k], IdsOf(c.nodes))
      /\ c.vlans \in Seq(Int) /\ Unique(c.vlans)
  <2>1. c.vlans \in Seq(Int) /\ Increasing(c.vlans)
    BY CopFields DEF Good
  <2> QED
    BY <2>1, IncreasingUnique DEF Good, NodesGood, LinksGood
<1>1. \A num \in ToSet(c.vlans) : VlanColor(c.vlans, num) = CanvasColor(c, num)
  BY <1>0, SameColor
<1>2. \A k \in DOMAIN c.links : TypeOf(c, k) = CanvasType(c, c.links[k])
  BY <1>0, SameType DEF GoodLink, Link
<1>3. \A k : TypeOf(d, k) = TypeOf(c, k)
  BY DEF TypeOf
<1>4. Drawn(d) = Drawn(c) /\ Drawn(c) \subseteq DOMAIN c.links
  BY DEF Drawn
<1>5. \A k \in DOMAIN c.nodes : \A j \in DOMAIN c.nodes[k].tags : c.nodes[k].tags[j] \in ToSet(c.vlans)
  BY <1>0 DEF GoodNode, ToSet
<1> DEFINE boxes == [k \in DOMAIN c.nodes |->
                       LET n == c.nodes[k] IN
                       [id |-> n.id, kind |-> n.kind, dashed |-> n.kind \in Logical,
                        chips |-> [j \in DOMAIN n.tags |-> <<n.tags[j], CanvasColor(c, n.tags[j])>>]]]
           type(k) == CanvasType(c, c.links[k])
           linesOf == [k \in Drawn(c) |->
                       [ends |-> <<c.links[k].from, c.links[k].to>>, type |-> type(k),
                        text |-> CanvasText(hide, c.links[k], type(k))]]
           styles == {type(k) : k \in Drawn(c)}
           chips == {<<v, CanvasColor(c, v)>> : v \in ToSet(c.vlans)}
           kinds == {c.nodes[k].kind : k \in DOMAIN c.nodes}
           p == [boxes |-> boxes, lines |-> linesOf,
                 legend |-> [types |-> styles, chips |-> chips, kinds |-> kinds]]
<1>6. Canvas(c, hide) = p
  BY DEF Canvas
<1>7. Boxes(d) = boxes
  <2>1. \A k \in DOMAIN c.nodes :
          LET n == c.nodes[k] IN
          [j \in DOMAIN n.tags |-> <<n.tags[j], VlanColor(d.vlans, n.tags[j])>>]
            = [j \in DOMAIN n.tags |-> <<n.tags[j], CanvasColor(c, n.tags[j])>>]
    BY <1>1, <1>5
  <2> QED
    BY <2>1 DEF Boxes
<1>8. Lines(d, hide) = linesOf
  <2>1. \A k \in Drawn(c) : TypeOf(d, k) = type(k)
    BY <1>2, <1>3, <1>4
  <2>2. \A k \in Drawn(c) : LinkLabel(hide, c.links[k].label, type(k))
                              = CanvasText(hide, c.links[k], type(k))
    BY SameText
  <2> HIDE DEF type
  <2> QED
    BY <2>1, <2>2, <1>4 DEF Lines
<1>9. Legend(d) = [types |-> styles, chips |-> chips, kinds |-> kinds]
  <2>1. {TypeOf(d, k) : k \in Drawn(d)} = styles
    BY <1>2, <1>3, <1>4
  <2>2. {<<v, VlanColor(d.vlans, v)>> : v \in ToSet(d.vlans)} = chips
    BY <1>1
  <2> HIDE DEF styles, chips
  <2> QED
    BY <2>1, <2>2 DEF Legend
<1>10. Picture(d, hide) = p
  <2> HIDE DEF boxes, linesOf, styles, chips, kinds
  <2> QED
    BY <1>7, <1>8, <1>9 DEF Picture
<1>11. Explained(p)
  <2>1. \A k \in DOMAIN linesOf : linesOf[k].type \in styles
    OBVIOUS
  <2>2. \A k \in DOMAIN boxes : boxes[k].kind \in kinds
    OBVIOUS
  <2>3. ASSUME NEW k \in DOMAIN boxes PROVE ToSet(boxes[k].chips) \subseteq chips
    <3> DEFINE n == c.nodes[k]
               cs == [j \in DOMAIN n.tags |-> <<n.tags[j], CanvasColor(c, n.tags[j])>>]
    <3>1. boxes[k].chips = cs /\ DOMAIN cs = DOMAIN n.tags
      OBVIOUS
    <3>2. \A j \in DOMAIN n.tags : cs[j] \in chips
      BY <1>5
    <3> QED
      BY <3>1, <3>2 DEF ToSet
  <2>4. p.lines = linesOf /\ p.boxes = boxes /\ p.legend.types = styles /\ p.legend.chips = chips
        /\ p.legend.kinds = kinds
    OBVIOUS
  <2> HIDE DEF p, boxes, linesOf, styles, chips, kinds
  <2> QED
    BY <2>1, <2>2, <2>3, <2>4 DEF Explained
<1> QED
  BY <1>6, <1>10, <1>11

(* The exported picture of a diagram that can be saved is what the editor    *)
(* draws, and its legend explains it: for users as above, and for texts that *)
(* are not of spaces alone.                                                  *)
THEOREM EditorDrawingsAgree ==
  ASSUME FinishesLinks, PlainTexts
  PROVE  Spec => []DrawingsAgree
<1>1. ASSUME EditorInv PROVE DrawingsAgree
  <2>1. Good(copy)
    BY <1>1 DEF EditorInv
  <2>2. Normal(copy).nodes = copy.nodes /\ Normal(copy).vlans = copy.vlans
        /\ Normal(copy).links = copy.links
    <3>1. LinksGood(copy.links, IdsOf(copy.nodes))
      BY <2>1 DEF Good
    <3>2. TrimmedLabels(copy.links) = copy.links
      BY <3>1, LabelsTrimmed
    <3> QED
      BY <2>1, <3>2, NormalOfGood
  <2>3. \A hide \in BOOLEAN : Canvas(copy, hide) = Picture(Normal(copy), hide)
                              /\ Explained(Picture(Normal(copy), hide))
    BY <2>1, <2>2, DrawnAlike
  <2> QED
    BY <2>3 DEF DrawingsAgree
<1> QED
  BY <1>1, EditorAlways, PTL

(* Importing everything draws every connection between devices, and every     *)
(* service to its host, whatever was drawn, named or linked by hand before.   *)
THEOREM EditorImportDrawsAll ==
  ASSUME FinishesLinks
  PROVE  Spec => ImportDrawsAll
<1>1. ASSUME EditorInv, ImportAll
      PROVE  /\ \A k \in DOMAIN inventory.conns :
                  LET x == inventory.conns[k] IN
                  {x.device, x.switch} \subseteq IdsOf(inventory.devices)
                    => Joined(copy', <<"devices", x.device>>, <<"devices", x.switch>>)
             /\ \A k \in DOMAIN inventory.services :
                  LET s == inventory.services[k] IN
                  s.host \in IdsOf(inventory.devices)
                    => Joined(copy', <<"services", s.id>>, <<"devices", s.host>>)
  <2> DEFINE inv == inventory
             c == ImportedAll(copy, inv)
             d == LinkInventory(c, inv)
             e == WithInternet(d)
  <2>0. Good(copy) /\ inv \in Inventories
    BY <1>1 DEF EditorInv
  <2>1. /\ Grown(copy, c)
        /\ \A k \in DOMAIN inv.devices : HasRef(c, <<"devices", inv.devices[k].id>>)
        /\ \A k \in DOMAIN inv.services : HasRef(c, <<"services", inv.services[k].id>>)
    BY <2>0, AllImported
  <2>2. copy' = e
    BY <1>1 DEF ImportAll, Chained, Becomes
  <2> HIDE DEF c
  <2>3. Good(c)
    BY <2>1 DEF Grown
  <2>4. /\ Grown(c, d)
        /\ \A k \in DOMAIN inv.conns :
             LET x == inv.conns[k]
             IN  HasRef(c, <<"devices", x.device>>) /\ HasRef(c, <<"devices", x.switch>>)
                   => Joined(d, <<"devices", x.device>>, <<"devices", x.switch>>)
        /\ \A k \in DOMAIN inv.services :
             LET x == inv.services[k]
             IN  HasRef(c, <<"services", x.id>>) /\ HasRef(c, <<"devices", x.host>>)
                   => Joined(d, <<"services", x.id>>, <<"devices", x.host>>)
    BY <2>0, <2>3, LinksImported
  <2> HIDE DEF d
  <2>5. Good(d)
    BY <2>4 DEF Grown
  <2>6. Grown(d, e)
    BY <2>5, InternetAdded
  <2> HIDE DEF e, inv
  <2>7. \A ref1, ref2 : Joined(d, ref1, ref2) => Joined(e, ref1, ref2)
    BY <2>5, <2>6, JoinedKept
  <2>8. \A id \in IdsOf(inv.devices) : HasRef(c, <<"devices", id>>)
    BY <2>1 DEF IdsOf
  <2>9. ASSUME NEW k \in DOMAIN inv.conns,
               {inv.conns[k].device, inv.conns[k].switch} \subseteq IdsOf(inv.devices)
        PROVE  Joined(e, <<"devices", inv.conns[k].device>>, <<"devices", inv.conns[k].switch>>)
    BY <2>4, <2>7, <2>8, <2>9
  <2>10. ASSUME NEW k \in DOMAIN inv.services, inv.services[k].host \in IdsOf(inv.devices)
         PROVE  Joined(e, <<"services", inv.services[k].id>>, <<"devices", inv.services[k].host>>)
    BY <2>1, <2>4, <2>7, <2>8, <2>10
  <2> QED
    BY <2>2, <2>9, <2>10 DEF inv
<1> QED
  BY <1>1, EditorAlways, PTL DEF ImportDrawsAll

(* A node that is linked to VLAN boxes when they are converted carries their *)
(* numbers afterwards, or is full, however many boxes share nodes or numbers. *)
THEOREM EditorConvertTags ==
  ASSUME FinishesLinks
  PROVE  Spec => ConvertTags
<1>1. ASSUME EditorInv, ConvertVlanNodes, NEW k \in Nodes, NEW b \in Nodes,
             copy.nodes[k].kind # "vlan", copy.nodes[b].kind = "vlan",
             BoxNum(inventory, copy.nodes[b]) # 0,
             Between(copy, copy.nodes[k].id, copy.nodes[b].id) # {}
      PROVE  LET m == ById(copy'.nodes, copy.nodes[k].id)
             IN  BoxNum(inventory, copy.nodes[b]) \in ToSet(m.tags) \/ Len(m.tags) >= MaxTags
  <2> DEFINE n == copy.nodes[k]
             box == copy.nodes[b]
             num == BoxNum(inventory, box)
             d == Converted(copy, inventory)
  <2>0. Good(copy) /\ inventory \in Inventories /\ k \in DOMAIN copy.nodes /\ b \in DOMAIN copy.nodes
    BY <1>1 DEF EditorInv, Nodes
  <2>1. copy' = d
    BY <1>1 DEF ConvertVlanNodes, Chained, Becomes
  <2>2. {n.id, box.id} \in Pairs(copy)
    BY <1>1, BetweenPairs
  <2>3. {box.id, n.id} \in Pairs(copy)
    <3>1. {n.id, box.id} = {box.id, n.id}
      OBVIOUS
    <3> QED
      BY <2>2, <3>1
  <2>4. Good(d) /\ Carries(d, n.id, num)
    BY <1>1, <2>0, <2>3, BoxesConverted
  <2> HIDE DEF d, num
  <2>5. PICK j \in DOMAIN d.nodes :
          d.nodes[j].id = n.id /\ (num \in ToSet(d.nodes[j].tags) \/ Len(d.nodes[j].tags) >= MaxTags)
    BY <2>4 DEF Carries
  <2>6. UniqueIds(d.nodes) /\ d.nodes \in Seq(Node)
    BY <2>4, GoodFaults, CopFields DEF Good
  <2>7. ById(d.nodes, d.nodes[j].id) = d.nodes[j]
    BY <2>6, ByIdIs
  <2> QED
    BY <2>1, <2>5, <2>7 DEF num
<1>2. EditorInv /\ ConvertVlanNodes =>
        \A k \in Nodes, b \in Nodes :
         LET n == copy.nodes[k]  box == copy.nodes[b]  num == BoxNum(inventory, box) IN
         (n.kind # "vlan" /\ box.kind = "vlan" /\ num # 0 /\ Between(copy, n.id, box.id) # {})
           => LET m == ById(copy'.nodes, n.id)
              IN  num \in ToSet(m.tags) \/ Len(m.tags) >= MaxTags
  BY <1>1
<1> QED
  BY <1>2, EditorAlways, PTL DEF ConvertTags

-----------------------------------------------------------------------------
(* What validate keeps of a diagram. *)

\* A node with its tags sorted.
LEMMA NodeSorted ==
  ASSUME NEW d, NEW n \in Node, NodeFaults(d, n) = {}, NEW vs, ToSet(vs) = ToSet(d.vlans)
  PROVE  LET m == [n EXCEPT !.tags = Sorted(@)]
         IN  GoodNode(m, vs) /\ m.id = n.id
<1> DEFINE tags == Sorted(n.tags)
           m == [id |-> n.id, kind |-> n.kind, num |-> n.num, ref |-> n.ref, tags |-> tags]
<1>1. /\ n = [id |-> n.id, kind |-> n.kind, num |-> n.num, ref |-> n.ref, tags |-> n.tags]
      /\ n.id \in Nat /\ n.kind \in Kinds /\ n.num \in Nat /\ n.ref \in Refs /\ n.tags \in Seq(Int)
  BY DEF Node
<1>2. ~(Len(n.tags) > MaxTags) /\ ToSet(n.tags) \subseteq ToSet(d.vlans) /\ Unique(n.tags)
  BY NodeFaultsNone
<1>3. /\ tags \in Seq(Int) /\ Len(tags) = Len(n.tags) /\ Increasing(tags)
      /\ ToSet(tags) = ToSet(n.tags)
  BY <1>1, <1>2, SortedIs
<1>4. Len(tags) <= MaxTags
  BY <1>1, <1>2, <1>3, DiagramLimits
<1> HIDE DEF tags
<1>5. [n EXCEPT !.tags = tags] = m
  BY <1>1
<1>6. m \in Node /\ m.tags = tags /\ m.id = n.id
  BY <1>1, <1>3 DEF Node
<1> HIDE DEF m
<1>7. GoodNode(m, vs)
  BY <1>2, <1>3, <1>4, <1>6 DEF GoodNode
<1> QED
  BY <1>5, <1>6, <1>7 DEF tags

\* Lists of nodes and links, sorted and trimmed.
LEMMA NodesSorted ==
  ASSUME NEW d \in Diagram, Faults(d) = {}
  PROVE  NodesGood(SortedTags(d.nodes), Sorted(d.vlans)) /\ IdsOf(SortedTags(d.nodes)) = IdsOf(d.nodes)
         /\ Len(SortedTags(d.nodes)) = Len(d.nodes)
<1> DEFINE ns == d.nodes
           ms == SortedTags(ns)
           vs == Sorted(d.vlans)
<1>1. ns \in Seq(Node) /\ d.vlans \in Seq(Int)
  BY DEF Diagram
<1>2. UniqueIds(ns) /\ Unique(d.vlans) /\ \A k \in DOMAIN ns : NodeFaults(d, ns[k]) = {}
  BY FaultsNone
<1>3. ToSet(vs) = ToSet(d.vlans)
  BY <1>1, <1>2, SortedIs
<1> HIDE DEF vs
<1>4. \A k \in DOMAIN ns : ns[k] \in Node
  BY <1>1
<1>5. DOMAIN ms = DOMAIN ns /\ \A k \in DOMAIN ns : ms[k] = [ns[k] EXCEPT !.tags = Sorted(@)]
  BY DEF SortedTags
<1>6. ASSUME NEW k \in DOMAIN ns PROVE GoodNode(ms[k], vs) /\ ms[k].id = ns[k].id
  <2> DEFINE n == ns[k]
  <2>1. n \in Node /\ NodeFaults(d, n) = {} /\ ms[k] = [n EXCEPT !.tags = Sorted(@)]
    BY <1>2, <1>4, <1>5
  <2> HIDE DEF n, ms
  <2>2. LET m == [n EXCEPT !.tags = Sorted(@)] IN GoodNode(m, vs) /\ m.id = n.id
    BY <2>1, <1>3, NodeSorted
  <2> QED
    BY <2>1, <2>2 DEF n
<1>7. ms \in Seq(Node) /\ Len(ms) = Len(ns)
  <2>1. \A k \in DOMAIN ns : ms[k] \in Node
    BY <1>6 DEF GoodNode
  <2>2. ms = [k \in DOMAIN ns |-> ms[k]]
    BY DEF SortedTags
  <2>3. DOMAIN ns = 1..Len(ns) /\ Len(ns) \in Nat
    BY <1>1
  <2> HIDE DEF ms
  <2>4. ms \in [1..Len(ns) -> Node]
    BY <2>1, <2>2, <2>3
  <2> QED
    BY <2>3, <2>4
<1>8. \A j, k \in DOMAIN ns : ns[j].id = ns[k].id => j = k
  BY <1>2 DEF UniqueIds, Unique
<1> HIDE DEF ms
<1>9. NodesGood(ms, vs)
  BY <1>5, <1>6, <1>7, <1>8 DEF NodesGood
<1>10. IdsOf(ms) = IdsOf(ns)
  BY <1>5, <1>6 DEF IdsOf
<1> QED
  BY <1>7, <1>9, <1>10 DEF ms, vs

LEMMA LinksTrimmed ==
  ASSUME NEW d \in Diagram, Faults(d) = {}
  PROVE  LET ms == TrimmedLabels(d.links)
         IN  /\ ms \in Seq(Link) /\ Len(ms) = Len(d.links) /\ DOMAIN ms = DOMAIN d.links
             /\ TrimmedLabels(ms) = ms
             /\ \A k \in DOMAIN ms : /\ ms[k].id = d.links[k].id
                                     /\ ms[k].from = d.links[k].from /\ ms[k].to = d.links[k].to
                                     /\ ms[k].style \in Styles
<1> DEFINE ls == d.links
           ms == TrimmedLabels(ls)
<1>1. ls \in Seq(Link)
  BY DEF Diagram
<1>2. DOMAIN ms = DOMAIN ls /\ ms = [k \in DOMAIN ls |-> ms[k]]
      /\ \A k \in DOMAIN ls : ms[k] = [ls[k] EXCEPT !.label = Trimmed(@)]
  BY DEF TrimmedLabels
<1> HIDE DEF ms
<1>3. ASSUME NEW k \in DOMAIN ls
      PROVE  /\ ms[k] \in Link /\ ms[k].id = ls[k].id /\ ms[k].from = ls[k].from /\ ms[k].to = ls[k].to
             /\ ms[k].style \in Styles
             /\ [ms[k] EXCEPT !.label = Trimmed(@)] = ms[k]
  <2> DEFINE l == ls[k]
             m == [id |-> l.id, from |-> l.from, to |-> l.to, label |-> Trimmed(l.label), style |-> l.style]
  <2>1. l \in Link
    BY <1>1
  <2>2. ms[k] = [l EXCEPT !.label = Trimmed(@)]
    BY <1>2
  <2> HIDE DEF l
  <2>3. /\ l = [id |-> l.id, from |-> l.from, to |-> l.to, label |-> l.label, style |-> l.style]
        /\ l.id \in Nat /\ l.from \in Nat /\ l.to \in Nat /\ l.label \in SUBSET Words /\ l.style \in Styles
    BY <2>1 DEF Link
  <2>4. [l EXCEPT !.label = Trimmed(@)] = m
    BY <2>3
  <2>5. m \in Link
    BY <2>3 DEF Link, Trimmed
  <2>6. Trimmed(Trimmed(l.label)) = Trimmed(l.label)
    BY DEF Trimmed
  <2>7. [m EXCEPT !.label = Trimmed(@)] = m
    BY <2>6
  <2>8. m.id = l.id /\ m.from = l.from /\ m.to = l.to /\ m.style \in Styles
    BY <2>3
  <2> HIDE DEF m
  <2> QED
    BY <2>2, <2>4, <2>5, <2>7, <2>8 DEF l
<1>4. ms \in Seq(Link) /\ Len(ms) = Len(ls)
  <2>1. DOMAIN ls = 1..Len(ls) /\ Len(ls) \in Nat
    BY <1>1
  <2>2. ms \in [1..Len(ls) -> Link]
    BY <1>2, <1>3, <2>1
  <2> QED
    BY <2>1, <2>2
<1>5. TrimmedLabels(ms) = ms
  BY <1>2, <1>3 DEF TrimmedLabels
<1> QED
  BY <1>2, <1>3, <1>4, <1>5 DEF ms

(* What validate stores of a diagram that it accepts, it accepts again and    *)
(* stores unchanged, however often the diagram is opened and saved; so a save *)
(* without an edit writes no revision (Topologies takes this of its Normal,   *)
(* and the editor of what is stored).                                         *)
THEOREM NormalSettles ==
  ASSUME NEW d \in Diagram, Faults(d) = {}
  PROVE  /\ Normal(d) \in Diagram /\ Faults(Normal(d)) = {}
         /\ Normal(Normal(d)) = Normal(d)
         /\ OnePerPair(d.links) => OnePerPair(Normal(d).links)
<1> DEFINE e == Normal(d)
           ns == SortedTags(d.nodes)
           ls == TrimmedLabels(d.links)
           vs == Sorted(d.vlans)
<1>1. d.nodes \in Seq(Node) /\ d.links \in Seq(Link) /\ d.vlans \in Seq(Int)
      /\ d = [nodes |-> d.nodes, links |-> d.links, vlans |-> d.vlans]
  BY DEF Diagram
<1>2. /\ ~(Len(d.nodes) > MaxNodes) /\ ~(Len(d.links) > MaxLinks) /\ ~(Len(d.vlans) > MaxVlans)
      /\ Unique(d.vlans) /\ UniqueIds(d.nodes) /\ UniqueIds(d.links)
      /\ \A k \in DOMAIN d.links : LinkFaults(d, d.links[k]) = {}
  BY FaultsNone
<1>3. NodesGood(ns, vs) /\ IdsOf(ns) = IdsOf(d.nodes) /\ Len(ns) = Len(d.nodes)
  BY NodesSorted
<1>4. /\ ls \in Seq(Link) /\ Len(ls) = Len(d.links) /\ DOMAIN ls = DOMAIN d.links
      /\ TrimmedLabels(ls) = ls
      /\ \A k \in DOMAIN ls : /\ ls[k].id = d.links[k].id
                              /\ ls[k].from = d.links[k].from /\ ls[k].to = d.links[k].to
                              /\ ls[k].style \in Styles
  BY LinksTrimmed
<1>5. vs \in Seq(Int) /\ Len(vs) = Len(d.vlans) /\ Increasing(vs) /\ ToSet(vs) = ToSet(d.vlans)
  BY <1>1, <1>2, SortedIs
<1>6. e = [d EXCEPT !.vlans = vs, !.nodes = ns, !.links = ls]
  BY DEF Normal
<1> HIDE DEF ns, ls, vs, e
<1>7. e = [nodes |-> ns, links |-> ls, vlans |-> vs]
  BY <1>1, <1>6
<1>8. e.nodes = ns /\ e.links = ls /\ e.vlans = vs
  BY <1>7
<1>9. e \in Diagram
  BY <1>3, <1>4, <1>5, <1>7 DEF Diagram, NodesGood
<1>10. Normal(e) = e
  <2>1. SortedTags(ns) = ns
    BY <1>3, TagsSortedSame
  <2>2. Sorted(vs) = vs
    BY <1>5, SortedSame
  <2>3. e = [nodes |-> e.nodes, links |-> e.links, vlans |-> e.vlans]
    BY <1>9 DEF Diagram
  <2>4. Normal(e) = [e EXCEPT !.vlans = vs, !.nodes = ns, !.links = ls]
    BY <1>4, <1>8, <2>1, <2>2 DEF Normal
  <2> DEFINE f == Normal(e)
  <2>5. f = [e EXCEPT !.vlans = vs, !.nodes = ns, !.links = ls]
    BY <2>4
  <2> HIDE DEF f
  <2>6. f = [nodes |-> ns, links |-> ls, vlans |-> vs]
    BY <2>3, <2>5
  <2> QED
    BY <1>7, <2>6 DEF f
<1>11. Faults(e) = {}
  <2>1. /\ ~(Len(ns) > MaxNodes) /\ ~(Len(ls) > MaxLinks) /\ ~(Len(vs) > MaxVlans)
    BY <1>2, <1>3, <1>4, <1>5
  <2>2. Unique(vs)
    BY <1>5, IncreasingUnique
  <2>3. UniqueIds(ns)
    BY <1>3 DEF NodesGood, UniqueIds, Unique
  <2>4. UniqueIds(ls)
    <3>1. \A j, k \in DOMAIN d.links : d.links[j].id = d.links[k].id => j = k
      BY <1>2 DEF UniqueIds, Unique
    <3>2. \A j, k \in DOMAIN ls : ls[j].id = ls[k].id => j = k
      BY <3>1, <1>4
    <3> QED
      BY <3>2 DEF UniqueIds, Unique
  <2>5. \A k \in DOMAIN ns : NodeFaults(e, ns[k]) = {}
    BY <1>3, <1>8, NodeAccepted DEF NodesGood
  <2>6. ASSUME NEW k \in DOMAIN ls PROVE LinkFaults(e, ls[k]) = {}
    <3>0. LinkFaults(d, d.links[k]) = {}
      BY <1>2, <1>4
    <3>1. d.links[k].from \in IdsOf(d.nodes) /\ d.links[k].to \in IdsOf(d.nodes)
          /\ d.links[k].from # d.links[k].to
      BY <3>0, LinkFaultsNone
    <3>2. ls[k].from \in IdsOf(e.nodes) /\ ls[k].to \in IdsOf(e.nodes) /\ ls[k].from # ls[k].to
          /\ ls[k].style \in Styles
      BY <3>1, <1>3, <1>4, <1>8
    <3> QED
      BY <3>2 DEF LinkFaults, If
  <2>7. If("VLAN number", ~(ToSet(vs) \subseteq VlanNumbers)) = {}
    <3>1. ToSet(d.vlans) \subseteq VlanNumbers
      BY NumbersInRange
    <3>2. ToSet(vs) \subseteq VlanNumbers
      BY <1>5, <3>1
    <3> QED
      BY <3>2 DEF If
  <2>8. /\ If("too many nodes", Len(ns) > MaxNodes) = {} /\ If("too many links", Len(ls) > MaxLinks) = {}
        /\ If("too many VLANs", Len(vs) > MaxVlans) = {}
        /\ If("duplicate VLAN", ~Unique(vs)) = {} /\ If("duplicate node id", ~UniqueIds(ns)) = {}
        /\ If("duplicate link id", ~UniqueIds(ls)) = {}
    BY <2>1, <2>2, <2>3, <2>4 DEF If
  <2>9. /\ UNION {NodeFaults(e, ns[k]) : k \in DOMAIN ns} = {}
        /\ UNION {LinkFaults(e, ls[k]) : k \in DOMAIN ls} = {}
    BY <2>5, <2>6
  <2> DEFINE A == If("too many nodes", Len(e.nodes) > MaxNodes)
             B == If("too many links", Len(e.links) > MaxLinks)
             C == If("too many VLANs", Len(e.vlans) > MaxVlans)
             D == If("VLAN number", ~(ToSet(e.vlans) \subseteq VlanNumbers))
             E == If("duplicate VLAN", ~Unique(e.vlans))
             F == If("duplicate node id", ~UniqueIds(e.nodes))
             G == If("duplicate link id", ~UniqueIds(e.links))
             H == UNION {NodeFaults(e, e.nodes[k]) : k \in DOMAIN e.nodes}
             I == UNION {LinkFaults(e, e.links[k]) : k \in DOMAIN e.links}
  <2>10. Faults(e) = A \cup B \cup C \cup D \cup E \cup F \cup G \cup H \cup I
    BY DEF Faults
  <2>11. /\ A = {} /\ B = {} /\ C = {} /\ D = {}
         /\ E = {} /\ F = {} /\ G = {} /\ H = {} /\ I = {}
    BY <1>8, <2>7, <2>8, <2>9
  <2> HIDE DEF A, B, C, D, E, F, G, H, I
  <2> QED
    BY <2>10, <2>11
<1>12. OnePerPair(d.links) => OnePerPair(ls)
  BY <1>4 DEF OnePerPair, Unique
<1> QED
  BY <1>8, <1>9, <1>10, <1>11, <1>12 DEF e
=============================================================================
