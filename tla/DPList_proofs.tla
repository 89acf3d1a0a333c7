---------------------------- MODULE DPList_proofs ----------------------------
(***************************************************************************)
(* Proofs about DPList for every set of addresses and elements: the types, *)
(* the shape of the list after every sequence of calls, and that each call *)
(* keeps the promise of ElementList or breaks it in the way DPList names.  *)
(*                                                                         *)
(* The four ways of linking a node are one: Linked says what they leave in *)
(* the pointers around the place of the new node.                          *)
(***************************************************************************)
EXTENDS DPList, SequenceTheorems, TLAPS

-----------------------------------------------------------------------------
(* Sequences with an element put in or taken out. *)

LEMMA FrontProperties ==
  ASSUME NEW S, NEW s \in Seq(S), NEW j \in 0..Len(s)
  PROVE  /\ SubSeq(s, 1, j) \in Seq(S) /\ Len(SubSeq(s, 1, j)) = j
         /\ \A m \in 1..j : SubSeq(s, 1, j)[m] = s[m]
<1> DEFINE a == SubSeq(s, 1, j)
<1>1. 1 \in Int /\ j \in Int /\ \A m \in 1..j : s[m] \in S
  OBVIOUS
<1>2. /\ a \in Seq(S) /\ Len(a) = IF 1 =< j THEN j - 1 + 1 ELSE 0
      /\ \A m \in 1..j - 1 + 1 : a[m] = s[1 + m - 1]
  BY <1>1, SubSeqProperties
<1> HIDE DEF a
<1>3. ASSUME NEW m \in 1..j PROVE a[m] = s[m]
  <2>1. m \in 1..j - 1 + 1 /\ 1 + m - 1 = m
    OBVIOUS
  <2> QED BY <2>1, <1>2
<1>4. Len(a) = j
  BY <1>2
<1> QED BY <1>2, <1>3, <1>4 DEF a

LEMMA BackProperties ==
  ASSUME NEW S, NEW s \in Seq(S), NEW k \in 1..Len(s) + 1
  PROVE  /\ SubSeq(s, k, Len(s)) \in Seq(S) /\ Len(SubSeq(s, k, Len(s))) = Len(s) - k + 1
         /\ \A m \in 1..Len(s) - k + 1 : SubSeq(s, k, Len(s))[m] = s[k + m - 1]
<1> DEFINE n == Len(s)
           b == SubSeq(s, k, n)
<1>1. n \in Nat /\ n \in Int /\ k \in Int /\ \A m \in k..n : s[m] \in S
  OBVIOUS
<1>2. /\ b \in Seq(S) /\ Len(b) = IF k =< n THEN n - k + 1 ELSE 0
      /\ \A m \in 1..n - k + 1 : b[m] = s[k + m - 1]
  BY <1>1, SubSeqProperties
<1> HIDE DEF b
<1>3. Len(b) = n - k + 1
  BY <1>1, <1>2
<1> QED BY <1>2, <1>3 DEF b

\* t is s with e put in at position k.
PutIn(t, s, k, e) ==
  /\ Len(t) = Len(s) + 1
  /\ \A m \in 1..Len(s) + 1 : t[m] = IF m < k THEN s[m] ELSE IF m = k THEN e ELSE s[m - 1]

LEMMA InsertAtProperties ==
  ASSUME NEW S, NEW s \in Seq(S), NEW k \in 1..Len(s) + 1, NEW e \in S
  PROVE  InsertAt(s, k, e) \in Seq(S) /\ PutIn(InsertAt(s, k, e), s, k, e)
<1> DEFINE n == Len(s)
           a == SubSeq(s, 1, k - 1)
           b == SubSeq(s, k, n)
           c == a \o <<e>>
           r == c \o b
<1>1. n \in Nat /\ k \in 1..n + 1 /\ k - 1 \in 0..n
  OBVIOUS
<1>2. a \in Seq(S) /\ Len(a) = k - 1 /\ \A m \in 1..k - 1 : a[m] = s[m]
  BY <1>1, FrontProperties
<1>3. b \in Seq(S) /\ Len(b) = n - k + 1 /\ \A m \in 1..n - k + 1 : b[m] = s[k + m - 1]
  BY <1>1, BackProperties
<1>4. InsertAt(s, k, e) = r
  BY DEF InsertAt
<1> HIDE DEF a, b
<1>5. c \in Seq(S) /\ Len(c) = k /\ \A m \in 1..k : c[m] = IF m < k THEN s[m] ELSE e
  <2> DEFINE d == <<e>>
  <2>1. d \in Seq(S) /\ Len(d) = 1 /\ d[1] = e
    OBVIOUS
  <2> HIDE DEF d
  <2>2. /\ a \o d \in Seq(S) /\ Len(a \o d) = Len(a) + Len(d)
        /\ \A m \in 1..Len(a) + Len(d) : (a \o d)[m] = IF m =< Len(a) THEN a[m] ELSE d[m - Len(a)]
    BY <1>2, <2>1, ConcatProperties
  <2>3. c = a \o d
    BY DEF c, d
  <2> HIDE DEF c
  <2>4. /\ c \in Seq(S) /\ Len(c) = k
        /\ \A m \in 1..k : c[m] = IF m =< k - 1 THEN a[m] ELSE d[m - (k - 1)]
    <3>1. Len(a) = k - 1 /\ Len(a) + Len(d) = k
      BY <1>1, <1>2, <2>1
    <3> QED BY <2>2, <2>3, <3>1
  <2>5. ASSUME NEW m \in 1..k PROVE c[m] = IF m < k THEN s[m] ELSE e
    <3>1. c[m] = IF m =< k - 1 THEN a[m] ELSE d[m - (k - 1)]
      BY <2>4
    <3>2. CASE m < k
      BY <3>1, <3>2, <1>2
    <3>3. CASE ~ (m < k)
      <4>1. m - (k - 1) = 1 /\ ~ (m =< k - 1)
        BY <3>3
      <4> QED BY <3>1, <3>3, <4>1, <2>1
    <3> QED BY <3>2, <3>3
  <2> QED BY <2>4, <2>5
<1> HIDE DEF c
<1>6. /\ r \in Seq(S) /\ Len(r) = n + 1
      /\ \A m \in 1..n + 1 : r[m] = IF m =< k THEN c[m] ELSE b[m - k]
  <2>1. Len(c) + Len(b) = n + 1
    BY <1>1, <1>3, <1>5
  <2>2. /\ r \in Seq(S) /\ Len(r) = Len(c) + Len(b)
        /\ \A m \in 1..Len(c) + Len(b) : r[m] = IF m =< Len(c) THEN c[m] ELSE b[m - Len(c)]
    BY <1>3, <1>5, ConcatProperties
  <2> QED BY <2>1, <2>2, <1>5
<1> HIDE DEF r
<1>7. ASSUME NEW m \in 1..n + 1
      PROVE  r[m] = IF m < k THEN s[m] ELSE IF m = k THEN e ELSE s[m - 1]
  <2>1. CASE m =< k
    BY <2>1, <1>1, <1>5, <1>6
  <2>2. CASE ~ (m =< k)
    <3>1. m - k \in 1..n - k + 1 /\ k + (m - k) - 1 = m - 1 /\ ~ (m < k) /\ m # k
      BY <2>2, <1>1
    <3>2. b[m - k] = s[m - 1]
      BY <3>1, <1>3
    <3> QED BY <2>2, <3>1, <3>2, <1>6
  <2> QED BY <2>1, <2>2
<1> QED BY <1>4, <1>6, <1>7 DEF PutIn

LEMMA RemoveAtProperties ==
  ASSUME NEW S, NEW s \in Seq(S), NEW k \in 1..Len(s)
  PROVE  /\ RemoveAt(s, k) \in Seq(S)
         /\ Len(RemoveAt(s, k)) = Len(s) - 1
         /\ \A m \in 1..Len(s) - 1 :
              RemoveAt(s, k)[m] = IF m < k THEN s[m] ELSE s[m + 1]
<1> DEFINE n == Len(s)
           a == SubSeq(s, 1, k - 1)
           b == SubSeq(s, k + 1, n)
           r == a \o b
<1>1. n \in Nat /\ k \in 1..n /\ k - 1 \in 0..n /\ k + 1 \in 1..n + 1
  OBVIOUS
<1>2. a \in Seq(S) /\ Len(a) = k - 1 /\ \A m \in 1..k - 1 : a[m] = s[m]
  BY <1>1, FrontProperties
<1>3. /\ b \in Seq(S) /\ Len(b) = n - (k + 1) + 1
      /\ \A m \in 1..n - (k + 1) + 1 : b[m] = s[(k + 1) + m - 1]
  BY <1>1, BackProperties
<1>4. RemoveAt(s, k) = r
  BY DEF RemoveAt
<1> HIDE DEF a, b
<1>5. /\ r \in Seq(S) /\ Len(r) = n - 1
      /\ \A m \in 1..n - 1 : r[m] = IF m =< k - 1 THEN a[m] ELSE b[m - (k - 1)]
  <2>1. Len(a) + Len(b) = n - 1
    BY <1>1, <1>2, <1>3
  <2>2. /\ r \in Seq(S) /\ Len(r) = Len(a) + Len(b)
        /\ \A m \in 1..Len(a) + Len(b) : r[m] = IF m =< Len(a) THEN a[m] ELSE b[m - Len(a)]
    BY <1>2, <1>3, ConcatProperties
  <2> QED BY <2>1, <2>2, <1>2
<1> HIDE DEF r
<1>6. ASSUME NEW m \in 1..n - 1 PROVE r[m] = IF m < k THEN s[m] ELSE s[m + 1]
  <2>1. CASE m < k
    BY <2>1, <1>1, <1>2, <1>5
  <2>2. CASE ~ (m < k)
    <3>1. /\ m - (k - 1) \in 1..n - (k + 1) + 1 /\ (k + 1) + (m - (k - 1)) - 1 = m + 1
          /\ ~ (m =< k - 1)
      BY <2>2, <1>1
    <3>2. b[m - (k - 1)] = s[m + 1]
      BY <3>1, <1>3
    <3> QED BY <2>2, <3>1, <3>2, <1>5
  <2> QED BY <2>1, <2>2
<1> QED BY <1>4, <1>5, <1>6
-----------------------------------------------------------------------------
(* The invariant, and the node that is linked or unlinked. *)

\* Linked nodes hold elements, a list that is not open has no nodes, and one
\* filled by comparisons alone is in order.
Filled == \A k \in 1..Size : ElementAt(k) \in Element
Sorted == order = "three_way" /\ ~ indexed =>
            \A j, k \in 1..Size : j < k => ElementAt(j) =< ElementAt(k)
DInv == TypeOK /\ Shape /\ Filled /\ (~ open => Size = 0) /\ Sorted

\* The node a has become the k-th.
Linked(k, a) ==
  /\ chain' \in Seq(Addr) /\ Len(chain') = Size + 1
  /\ \A m \in 1..Size + 1 :
       chain'[m] = IF m < k THEN chain[m] ELSE IF m = k THEN a ELSE chain[m - 1]
  /\ head' = IF k = 1 THEN a ELSE head
  /\ prev' \in [Addr -> Addr \cup {NULL}] /\ next' \in [Addr -> Addr \cup {NULL}]
  /\ \A b \in Addr :
       /\ prev'[b] = IF b = a THEN IF k = 1 THEN NULL ELSE chain[k - 1]
                     ELSE IF k =< Size /\ b = chain[k] THEN a ELSE prev[b]
       /\ next'[b] = IF b = a THEN IF k = Size + 1 THEN NULL ELSE chain[k]
                     ELSE IF k > 1 /\ b = chain[k - 1] THEN a ELSE next[b]
  /\ lost' = lost

LEMMA ChainProperties ==
  ASSUME DInv
  PROVE  /\ Size \in Nat /\ \A k \in 1..Size : chain[k] \in ChainNodes /\ chain[k] \in Addr
         /\ (head = NULL) <=> (Size = 0)
         /\ Size > 0 => head = chain[1] /\ prev[head] = NULL /\ next[chain[Size]] = NULL
<1>1. Size \in Nat /\ chain \in Seq(Addr)
  BY DEF DInv, TypeOK, Size
<1>2. \A k \in 1..Size : chain[k] \in ChainNodes /\ chain[k] \in Addr
  BY <1>1, ElementOfSeq DEF ChainNodes, Size
<1>3. (chain = <<>>) <=> (Size = 0)
  BY <1>1, EmptySeq DEF Size
<1>4. Size > 0 => head = chain[1] /\ prev[head] = NULL /\ next[chain[Size]] = NULL
  BY <1>1, <1>3 DEF DInv, Shape
<1>5. Size = 0 => head = NULL
  BY <1>3 DEF DInv, Shape
<1>6. Size > 0 => head # NULL
  BY <1>1, <1>2, <1>4, NullIsNoNode
<1> QED BY <1>1, <1>2, <1>4, <1>5, <1>6

\* The first branches of both insertions; an empty list has no first node.
LEMMA OnlyIsLinked ==
  ASSUME DInv, NEW a \in Addr \ heap, head = NULL, LinkOnly(a)
  PROVE  Linked(1, a)
<1>1. Size = 0
  BY ChainProperties
<1>2. chain' = <<a>> /\ chain' \in Seq(Addr) /\ Len(chain') = 1 /\ chain'[1] = a
  BY DEF LinkOnly
<1>3. /\ head' = a /\ lost' = lost
      /\ prev' = [prev EXCEPT ![a] = NULL] /\ next' = [next EXCEPT ![a] = NULL]
  BY DEF LinkOnly
<1> QED BY <1>1, <1>2, <1>3 DEF Linked, DInv, TypeOK

LEMMA FirstIsLinked ==
  ASSUME DInv, NEW a \in Addr \ heap, head # NULL, LinkFirst(a)
  PROVE  Linked(1, a)
<1>1. Size \in Nat /\ Size > 0 /\ head = chain[1] /\ head \in Addr /\ head \in heap
  BY ChainProperties DEF DInv, Shape
<1>2. /\ chain' \in Seq(Addr) /\ Len(chain') = Size + 1
      /\ \A m \in 1..Size + 1 : chain'[m] = IF m = 1 THEN a ELSE chain[m - 1]
  <2> DEFINE d == <<a>>
  <2>1. d \in Seq(Addr) /\ Len(d) = 1 /\ d[1] = a
    OBVIOUS
  <2>2. chain' = d \o chain
    BY DEF LinkFirst
  <2> HIDE DEF d
  <2>3. chain \in Seq(Addr)
    BY DEF DInv, TypeOK
  <2>4. /\ chain' \in Seq(Addr) /\ Len(chain') = Len(d) + Len(chain)
        /\ \A m \in 1..Len(d) + Len(chain) :
             chain'[m] = IF m =< Len(d) THEN d[m] ELSE chain[m - Len(d)]
    BY <2>1, <2>2, <2>3, ConcatProperties
  <2> QED BY <1>1, <2>1, <2>4 DEF Size
<1>3. /\ head' = a /\ lost' = lost
      /\ prev' = [prev EXCEPT ![head] = a, ![a] = NULL]
      /\ next' = [next EXCEPT ![a] = head]
  BY DEF LinkFirst
<1> QED BY <1>1, <1>2, <1>3 DEF Linked, DInv, TypeOK

LEMMA LastIsLinked ==
  ASSUME DInv, NEW a \in Addr \ heap, Size > 0, LinkLast(a)
  PROVE  Linked(Size + 1, a)
<1>1. Size \in Nat /\ chain[Size] \in Addr /\ chain[Size] \in heap
  BY ChainProperties DEF DInv, Shape
<1>2. /\ chain' \in Seq(Addr) /\ Len(chain') = Size + 1
      /\ \A m \in 1..Size : chain'[m] = chain[m]
      /\ chain'[Size + 1] = a
  BY AppendProperties DEF LinkLast, DInv, TypeOK, Size
<1>3. /\ head' = head /\ lost' = lost
      /\ prev' = [prev EXCEPT ![a] = chain[Size]]
      /\ next' = [next EXCEPT ![chain[Size]] = a, ![a] = NULL]
  BY DEF LinkLast
<1> QED BY <1>1, <1>2, <1>3 DEF Linked, DInv, TypeOK

\* prev of the k-th node is where the pointers of Shape put it.
LEMMA BeforeIsLinked ==
  ASSUME DInv, NEW a \in Addr \ heap, NEW k \in 2..Size, LinkBefore(a, k)
  PROVE  Linked(k, a)
<1>1. /\ Size \in Nat /\ k \in 1..Size + 1 /\ k - 1 \in 1..Size - 1
      /\ chain[k] \in Addr /\ chain[k] \in heap
      /\ chain[k - 1] \in Addr /\ chain[k - 1] \in heap
  <2>1. Size \in Nat /\ k \in 1..Size /\ k - 1 \in 1..Size /\ k - 1 \in 1..Size - 1
    BY ChainProperties
  <2> QED BY <2>1, ChainProperties DEF DInv, Shape
<1>2. prev[chain[k]] = chain[k - 1]
  <2>1. (k - 1) + 1 = k
    BY <1>1
  <2>2. prev[chain[(k - 1) + 1]] = chain[k - 1]
    BY <1>1 DEF DInv, Shape
  <2> QED BY <2>1, <2>2
<1>3. /\ chain' \in Seq(Addr) /\ Len(chain') = Size + 1
      /\ \A m \in 1..Size + 1 :
           chain'[m] = IF m < k THEN chain[m] ELSE IF m = k THEN a ELSE chain[m - 1]
  <2>1. chain \in Seq(Addr) /\ k \in 1..Len(chain) + 1 /\ a \in Addr
    BY <1>1 DEF DInv, TypeOK, Size
  <2>2. InsertAt(chain, k, a) \in Seq(Addr) /\ PutIn(InsertAt(chain, k, a), chain, k, a)
    BY <2>1, InsertAtProperties
  <2>3. chain' = InsertAt(chain, k, a)
    BY DEF LinkBefore
  <2>4. chain' \in Seq(Addr) /\ PutIn(chain', chain, k, a)
    BY <2>2, <2>3
  <2> QED BY <2>4 DEF PutIn, Size
<1>4. /\ head' = head /\ lost' = lost
      /\ prev' = [prev EXCEPT ![a] = chain[k - 1], ![chain[k]] = a]
      /\ next' = [next EXCEPT ![a] = chain[k], ![chain[k - 1]] = a]
  BY <1>2 DEF LinkBefore
<1>5. chain[k] # a /\ chain[k - 1] # a
  BY <1>1
<1>6. /\ prev' \in [Addr -> Addr \cup {NULL}] /\ next' \in [Addr -> Addr \cup {NULL}]
      /\ \A b \in Addr :
           /\ prev'[b] = IF b = a THEN chain[k - 1] ELSE IF b = chain[k] THEN a ELSE prev[b]
           /\ next'[b] = IF b = a THEN chain[k] ELSE IF b = chain[k - 1] THEN a ELSE next[b]
  BY <1>1, <1>4, <1>5 DEF DInv, TypeOK
<1>7. k # 1 /\ k > 1 /\ k =< Size /\ k # Size + 1
  BY <1>1
<1> QED BY <1>3, <1>4, <1>6, <1>7 DEF Linked
\* Wherever the node is linked, the chain and the pointers agree again.
LEMMA LinkingKeepsShape ==
  ASSUME DInv, NEW a \in Addr \ heap, NEW k \in 1..Size + 1, Linked(k, a),
         heap' = heap \cup {a}
  PROVE  Shape'
<1> DEFINE from(m) == IF m < k THEN m ELSE m - 1
<1>1. /\ Size \in Nat /\ Size' = Size + 1
      /\ \A m \in 1..Size : chain[m] \in Addr /\ chain[m] # a
      /\ \A j, m \in 1..Size : chain[j] = chain[m] => j = m
  BY ChainProperties DEF Linked, DInv, Shape, Size
<1>2. /\ chain'[k] = a
      /\ \A m \in 1..Size + 1 : m # k => from(m) \in 1..Size /\ chain'[m] = chain[from(m)]
  BY <1>1 DEF Linked
<1>3. \A j, m \in 1..Size' : chain'[j] = chain'[m] => j = m
  <2>1. \A j, m \in 1..Size + 1 : j # k /\ m # k /\ from(j) = from(m) => j = m
    BY <1>1
  <2> HIDE DEF from
  <2> SUFFICES ASSUME NEW j \in 1..Size + 1, NEW m \in 1..Size + 1, chain'[j] = chain'[m]
               PROVE  j = m
    BY <1>1
  <2> QED BY <1>1, <1>2, <2>1
<1>4. ChainNodes' = ChainNodes \cup {a}
  <2>1. ASSUME NEW m \in 1..Size PROVE chain[m] \in ChainNodes'
    <3>1. CASE m < k
      BY <1>1, <1>2, <3>1 DEF ChainNodes
    <3>2. CASE ~ (m < k)
      <4>1. m + 1 \in 1..Size + 1 /\ m + 1 # k /\ from(m + 1) = m
        BY <1>1, <3>2
      <4> QED BY <1>1, <1>2, <4>1 DEF ChainNodes
    <3> QED BY <3>1, <3>2
  <2>2. a \in ChainNodes'
    BY <1>1, <1>2 DEF ChainNodes
  <2>3. \A m \in 1..Size + 1 : chain'[m] \in ChainNodes \cup {a}
    BY <1>2 DEF ChainNodes
  <2> QED BY <1>1, <2>1, <2>2, <2>3 DEF ChainNodes
<1>5. heap' = ChainNodes' \cup lost' /\ ChainNodes' \cap lost' = {}
  BY <1>4 DEF Linked, DInv, Shape
<1>6. head' = chain'[1] /\ prev'[head'] = NULL
  <2>1. CASE k = 1
    BY <1>2, <2>1 DEF Linked
  <2>2. CASE k # 1
    <3>1. 1 \in 1..Size /\ 1 < k /\ head = chain[1] /\ prev[head] = NULL
      BY <1>1, <2>2, ChainProperties
    <3>2. head' = head /\ chain'[1] = chain[1]
      BY <1>1, <3>1 DEF Linked
    <3>3. k =< Size => chain[1] # chain[k]
      BY <1>1, <3>1
    <3> QED BY <1>1, <3>1, <3>2, <3>3 DEF Linked
  <2> QED BY <2>1, <2>2
<1>7. next'[chain'[Size']] = NULL
  <2>1. CASE k = Size + 1
    BY <1>1, <1>2, <2>1 DEF Linked
  <2>2. CASE k # Size + 1
    <3>1. /\ Size \in 1..Size /\ next[chain[Size]] = NULL /\ chain'[Size + 1] = chain[Size]
      BY <1>1, <1>2, <2>2, ChainProperties
    <3>2. k > 1 => k - 1 \in 1..Size /\ k - 1 # Size
      BY <1>1, <2>2
    <3> QED BY <1>1, <3>1, <3>2 DEF Linked
  <2> QED BY <2>1, <2>2
<1>8. ASSUME NEW m \in 1..Size
      PROVE  next'[chain'[m]] = chain'[m + 1] /\ prev'[chain'[m + 1]] = chain'[m]
  <2> HIDE DEF from
  <2>1. /\ \A b \in 1..Size : k > 1 /\ chain[b] = chain[k - 1] => b = k - 1
        /\ \A b \in 1..Size : k =< Size /\ chain[b] = chain[k] => b = k
        /\ \A b \in 1..Size - 1 : next[chain[b]] = chain[b + 1] /\ prev[chain[b + 1]] = chain[b]
    BY <1>1 DEF DInv, Shape
  <2>2. CASE m < k - 1
    <3>1. /\ m \in 1..Size - 1 /\ m + 1 \in 1..Size /\ m < k /\ m + 1 < k
          /\ m # k - 1 /\ m + 1 # k /\ m # k
          /\ m \in 1..Size + 1 /\ m + 1 \in 1..Size + 1
          /\ from(m) = m /\ from(m + 1) = m + 1
      BY <1>1, <2>2 DEF from
    <3>2. chain'[m] = chain[m] /\ chain'[m + 1] = chain[m + 1]
      BY <1>2, <3>1
    <3>3. next'[chain[m]] = next[chain[m]] /\ prev'[chain[m + 1]] = prev[chain[m + 1]]
      BY <1>1, <2>1, <3>1 DEF Linked
    <3> QED BY <2>1, <3>1, <3>2, <3>3
  <2>3. CASE m = k - 1
    <3>1. k > 1 /\ k # 1 /\ m + 1 = k /\ m < k /\ m \in 1..Size + 1 /\ m # k /\ from(m) = m
      BY <1>1, <2>3 DEF from
    <3>2. chain'[m] = chain[m] /\ chain'[m + 1] = a
      BY <1>2, <3>1
    <3>3. next'[chain[m]] = a /\ prev'[a] = chain[m]
      BY <1>1, <2>3, <3>1 DEF Linked
    <3> QED BY <3>2, <3>3
  <2>4. CASE m = k
    <3>1. k =< Size /\ k # Size + 1 /\ m + 1 \in 1..Size + 1 /\ m + 1 # k /\ from(m + 1) = m
      BY <1>1, <2>4 DEF from
    <3>2. chain'[m] = a /\ chain'[m + 1] = chain[k]
      BY <1>2, <2>4, <3>1
    <3>3. next'[a] = chain[k] /\ prev'[chain[k]] = a
      BY <1>1, <2>4, <3>1 DEF Linked
    <3> QED BY <3>2, <3>3
  <2>5. CASE m > k
    <3>1. /\ m - 1 \in 1..Size - 1 /\ m - 1 \in 1..Size /\ (m - 1) + 1 = m
          /\ m - 1 # k - 1 /\ m # k /\ m \in 1..Size + 1 /\ m + 1 \in 1..Size + 1 /\ m + 1 # k
          /\ from(m) = m - 1 /\ from(m + 1) = m
      BY <1>1, <2>5 DEF from
    <3>2. chain'[m] = chain[m - 1] /\ chain'[m + 1] = chain[m]
      BY <1>2, <3>1
    <3>3. next'[chain[m - 1]] = next[chain[m - 1]] /\ prev'[chain[m]] = prev[chain[m]]
      BY <1>1, <2>1, <3>1 DEF Linked
    <3>4. next[chain[m - 1]] = chain[m] /\ prev[chain[m]] = chain[m - 1]
      BY <2>1, <3>1
    <3> QED BY <3>2, <3>3, <3>4
  <2> QED BY <1>1, <2>2, <2>3, <2>4, <2>5
<1>9. chain' # <<>>
  BY <1>1, EmptySeq DEF Size
<1>10. \A m \in 1..Size' - 1 : /\ next'[chain'[m]] = chain'[m + 1]
                               /\ prev'[chain'[m + 1]] = chain'[m]
  BY <1>1, <1>8
<1> HIDE DEF from
<1> QED BY <1>3, <1>5, <1>6, <1>7, <1>9, <1>10 DEF Shape
-----------------------------------------------------------------------------
(* The content of the list. *)

LEMMA FunctionIsSeq ==
  ASSUME NEW S, NEW n \in Nat, NEW f \in [1..n -> S]
  PROVE  f \in Seq(S) /\ Len(f) = n
<1>1. f \in Seq(S)
  BY SeqDef
<1> QED BY <1>1, LenProperties

LEMMA ContentIsSeq ==
  ASSUME DInv
  PROVE  /\ Content \in Seq(Element) /\ Len(Content) = Size /\ Size \in Nat
         /\ \A k \in 1..Size : Content[k] = ElementAt(k) /\ ElementAt(k) \in Element
<1>1. Size \in Nat /\ \A k \in 1..Size : ElementAt(k) \in Element
  BY ChainProperties DEF DInv, Filled
<1>2. Content \in [1..Size -> Element]
  BY <1>1 DEF Content
<1>3. Content \in Seq(Element) /\ Len(Content) = Size
  BY <1>1, <1>2, FunctionIsSeq
<1> QED BY <1>1, <1>3 DEF Content

\* Two ways to write the same elements.
LEMMA ContentEqual ==
  ASSUME DInv, NEW s \in Seq(Element), Len(s) = Size,
         \A k \in 1..Size : ElementAt(k) = s[k]
  PROVE  Content = s
<1>1. /\ Content \in Seq(Element) /\ Len(Content) = Len(s)
      /\ \A k \in 1..Len(Content) : Content[k] = s[k]
  BY ContentIsSeq
<1> QED BY <1>1, SeqEqual

\* The elements stay with their nodes.
LEMMA LinkedElements ==
  ASSUME DInv, NEW a \in Addr \ heap, NEW e \in Element, NEW k \in 1..Size + 1,
         Linked(k, a), Allocate(a, e)
  PROVE  /\ Size' = Size + 1
         /\ \A m \in 1..Size + 1 :
              ElementAt(m)' = IF m < k THEN ElementAt(m)
                              ELSE IF m = k THEN e ELSE ElementAt(m - 1)
<1>1. /\ Size \in Nat /\ Size' = Size + 1
      /\ \A m \in 1..Size : chain[m] \in Addr /\ chain[m] # a
  BY ChainProperties DEF Linked, DInv, Shape, Size
<1>2. element'[a] = e /\ \A b \in Addr : b # a => element'[b] = element[b]
  BY DEF Allocate, DInv, TypeOK
<1>3. ASSUME NEW m \in 1..Size + 1
      PROVE  ElementAt(m)' = IF m < k THEN ElementAt(m)
                             ELSE IF m = k THEN e ELSE ElementAt(m - 1)
  <2>1. CASE m < k
    <3>1. m \in 1..Size /\ chain'[m] = chain[m]
      BY <1>1, <2>1 DEF Linked
    <3> QED BY <1>1, <1>2, <2>1, <3>1 DEF ElementAt
  <2>2. CASE m = k
    <3>1. chain'[m] = a
      BY <1>1, <2>2 DEF Linked
    <3> QED BY <1>2, <2>2, <3>1 DEF ElementAt
  <2>3. CASE m > k
    <3>1. m - 1 \in 1..Size /\ chain'[m] = chain[m - 1] /\ ~ (m < k) /\ m # k
      BY <1>1, <2>3 DEF Linked
    <3> QED BY <1>1, <1>2, <3>1 DEF ElementAt
  <2> QED BY <1>1, <2>1, <2>2, <2>3
<1> QED BY <1>1, <1>3

LEMMA LinkingKeepsInv ==
  ASSUME DInv, NEW a \in Addr \ heap, NEW e \in Element, NEW k \in 1..Size + 1,
         Linked(k, a), Allocate(a, e),
         open, UNCHANGED <<open, order, fault>>, indexed' \in BOOLEAN,
         order = "three_way" /\ ~ indexed' =>
           /\ ~ indexed
           /\ \A j \in 1..Size : (j < k => ElementAt(j) =< e) /\ (j >= k => e =< ElementAt(j))
  PROVE  DInv' /\ Content' = InsertAt(Content, k, e)
<1>1. /\ Size \in Nat /\ Size' = Size + 1
      /\ \A m \in 1..Size : ElementAt(m) \in Element
      /\ \A m \in 1..Size + 1 : ElementAt(m)' = IF m < k THEN ElementAt(m)
                                   ELSE IF m = k THEN e ELSE ElementAt(m - 1)
  BY LinkedElements, ContentIsSeq
<1>2. Shape'
  BY LinkingKeepsShape DEF Allocate
<1>3. TypeOK'
  BY DEF Linked, Allocate, DInv, TypeOK
<1>4. \A m \in 1..Size + 1 : ElementAt(m)' \in Element
  <2> SUFFICES ASSUME NEW m \in 1..Size + 1 PROVE ElementAt(m)' \in Element
    OBVIOUS
  <2>1. CASE m =< k
    BY <1>1, <2>1
  <2>2. CASE m > k
    <3>1. m - 1 \in 1..Size /\ ~ (m < k) /\ m # k
      BY <1>1, <2>2
    <3> QED BY <1>1, <3>1
  <2> QED BY <1>1, <2>1, <2>2
<1>5. Filled'
  BY <1>1, <1>4 DEF Filled
<1>6. Sorted'
  <2> SUFFICES ASSUME order = "three_way", ~ indexed',
                      NEW j \in 1..Size + 1, NEW m \in 1..Size + 1, j < m
               PROVE  ElementAt(j)' =< ElementAt(m)'
    BY <1>1 DEF Sorted
  <2>1. \A x, y \in 1..Size : x < y => ElementAt(x) =< ElementAt(y)
    BY DEF DInv, Sorted
  <2>2. \A x \in 1..Size : /\ ElementAt(x) \in Int
                           /\ (x < k => ElementAt(x) =< e) /\ (x >= k => e =< ElementAt(x))
    BY <1>1, ElementAssumption
  <2>3. j < k => j \in 1..Size /\ ElementAt(j)' = ElementAt(j)
    BY <1>1
  <2>4. j > k => j - 1 \in 1..Size /\ j - 1 >= k /\ ElementAt(j)' = ElementAt(j - 1)
    BY <1>1
  <2>5. m < k => m \in 1..Size /\ ElementAt(m)' = ElementAt(m)
    BY <1>1
  <2>6. m > k => m - 1 \in 1..Size /\ m - 1 >= k /\ ElementAt(m)' = ElementAt(m - 1)
    BY <1>1
  <2>7. (j = k => ElementAt(j)' = e) /\ (m = k => ElementAt(m)' = e) /\ e \in Int
    BY <1>1, ElementAssumption
  <2>8. CASE m =< k
    BY <1>1, <2>1, <2>2, <2>3, <2>5, <2>7, <2>8
  <2>9. CASE m > k /\ j =< k
    <3>1. j < k => j < m - 1
      BY <1>1, <2>9
    <3> QED BY <1>1, <2>1, <2>2, <2>3, <2>6, <2>7, <2>9, <3>1
  <2>10. CASE m > k /\ j > k
    <3>1. j - 1 < m - 1
      BY <1>1
    <3> QED BY <2>1, <2>4, <2>6, <2>10, <3>1
  <2> QED BY <1>1, <2>8, <2>9, <2>10
<1>7. DInv'
  BY <1>2, <1>3, <1>5, <1>6 DEF DInv
<1>8. Content' = InsertAt(Content, k, e)
  <2> DEFINE s == InsertAt(Content, k, e)
  <2>1. /\ Content \in Seq(Element) /\ Len(Content) = Size
        /\ \A m \in 1..Size : Content[m] = ElementAt(m)
    BY ContentIsSeq
  <2>2. /\ s \in Seq(Element) /\ Len(s) = Size + 1
        /\ \A m \in 1..Size + 1 :
             s[m] = IF m < k THEN Content[m] ELSE IF m = k THEN e ELSE Content[m - 1]
    <3>1. Content \in Seq(Element) /\ k \in 1..Len(Content) + 1
      BY <2>1
    <3>2. s \in Seq(Element) /\ PutIn(s, Content, k, e)
      BY <3>1, InsertAtProperties
    <3> HIDE DEF s
    <3> QED BY <2>1, <3>2 DEF PutIn
  <2> HIDE DEF s
  <2>3. ASSUME NEW m \in 1..Size + 1 PROVE ElementAt(m)' = s[m]
    <3>1. m < k => m \in 1..Size
      BY <1>1
    <3>2. m > k => m - 1 \in 1..Size
      BY <1>1
    <3> QED BY <1>1, <2>1, <2>2, <3>1, <3>2
  <2>4. /\ Content' \in Seq(Element) /\ Len(Content') = Size'
        /\ \A m \in 1..Size' : Content'[m] = ElementAt(m)'
    <3>1. Content' \in [1..Size + 1 -> Element] /\ Size + 1 \in Nat
      BY <1>1, <1>4 DEF Content
    <3>2. Content' \in Seq(Element) /\ Len(Content') = Size + 1
      BY <3>1, FunctionIsSeq
    <3> QED BY <1>1, <3>2 DEF Content
  <2>5. Content' = s
    BY <1>1, <2>2, <2>3, <2>4, SeqEqual
  <2> QED BY <2>5 DEF s
<1> QED BY <1>7, <1>8
-----------------------------------------------------------------------------
(* A node that is taken out. *)

\* What Unlink leaves in the pointers around the node it takes out.
LEMMA UnlinkProperties ==
  ASSUME DInv, NEW k \in 2..Size, Unlink(k)
  PROVE  /\ Size \in Nat /\ Size' = Size - 1 /\ chain' \in Seq(Addr)
         /\ \A m \in 1..Size - 1 : chain'[m] = IF m < k THEN chain[m] ELSE chain[m + 1]
         /\ \A m \in 1..Size : chain[m] \in Addr
         /\ \A j, m \in 1..Size : chain[j] = chain[m] => j = m
         /\ prev' \in [Addr -> Addr \cup {NULL}] /\ next' \in [Addr -> Addr \cup {NULL}]
         /\ \A m \in 1..Size :
              /\ next'[chain[m]] = IF m = k THEN NULL
                                   ELSE IF m = k - 1 THEN next[chain[k]] ELSE next[chain[m]]
              /\ prev'[chain[m]] = IF m = k THEN NULL
                                   ELSE IF m = k + 1 THEN chain[k - 1] ELSE prev[chain[m]]
         /\ next[chain[k]] = IF k = Size THEN NULL ELSE chain[k + 1]
<1>1. /\ Size \in Nat /\ k \in 1..Size /\ k - 1 \in 1..Size /\ k - 1 \in 1..Size - 1
      /\ (k - 1) + 1 = k
      /\ \A m \in 1..Size : chain[m] \in Addr
      /\ \A j, m \in 1..Size : chain[j] = chain[m] => j = m
  BY ChainProperties DEF DInv, Shape
<1>2. prev[chain[k]] = chain[k - 1]
  BY <1>1 DEF DInv, Shape
<1>3. next[chain[k]] = IF k = Size THEN NULL ELSE chain[k + 1]
  <2>1. CASE k = Size
    BY <1>1, <2>1, ChainProperties
  <2>2. CASE k # Size
    <3>1. k \in 1..Size - 1
      BY <1>1, <2>2
    <3> QED BY <2>2, <3>1 DEF DInv, Shape
  <2> QED BY <2>1, <2>2
<1>4. /\ chain' \in Seq(Addr) /\ Size' = Size - 1
      /\ \A m \in 1..Size - 1 : chain'[m] = IF m < k THEN chain[m] ELSE chain[m + 1]
  <2>1. chain \in Seq(Addr) /\ k \in 1..Len(chain) /\ chain' = RemoveAt(chain, k)
    BY <1>1 DEF Unlink, DInv, TypeOK, Size
  <2> QED BY <2>1, RemoveAtProperties DEF Size
<1>5. /\ next' = [next EXCEPT ![chain[k - 1]] = next[chain[k]], ![chain[k]] = NULL]
      /\ prev' = [n \in Addr |-> IF n = next[chain[k]] THEN chain[k - 1]
                                 ELSE IF n = chain[k] THEN NULL ELSE prev[n]]
  BY <1>2 DEF Unlink
<1>6. next' \in [Addr -> Addr \cup {NULL}] /\ prev' \in [Addr -> Addr \cup {NULL}]
  <2>1. next[chain[k]] \in Addr \cup {NULL} /\ chain[k - 1] \in Addr
    BY <1>1 DEF DInv, TypeOK
  <2> QED BY <1>5, <2>1 DEF DInv, TypeOK
<1>7. ASSUME NEW m \in 1..Size
      PROVE  /\ next'[chain[m]] = IF m = k THEN NULL
                                  ELSE IF m = k - 1 THEN next[chain[k]] ELSE next[chain[m]]
             /\ prev'[chain[m]] = IF m = k THEN NULL
                                  ELSE IF m = k + 1 THEN chain[k - 1] ELSE prev[chain[m]]
  <2>1. (chain[m] = chain[k] <=> m = k) /\ (chain[m] = chain[k - 1] <=> m = k - 1)
    BY <1>1
  <2>2. chain[m] = next[chain[k]] <=> m = k + 1
    <3>1. CASE k = Size
      BY <1>1, <1>3, <3>1, NullIsNoNode
    <3>2. CASE k # Size
      <4>1. k + 1 \in 1..Size
        BY <1>1, <3>2
      <4> QED BY <1>1, <1>3, <3>2, <4>1
    <3> QED BY <3>1, <3>2
  <2>3. k # k + 1 /\ k # k - 1
    BY <1>1
  <2>4. next \in [Addr -> Addr \cup {NULL}] /\ chain[m] \in Addr
    BY <1>1 DEF DInv, TypeOK
  <2>5. next'[chain[m]] = IF chain[m] = chain[k] THEN NULL
                          ELSE IF chain[m] = chain[k - 1] THEN next[chain[k]] ELSE next[chain[m]]
    BY <1>5, <2>4
  <2>6. prev'[chain[m]] = IF chain[m] = next[chain[k]] THEN chain[k - 1]
                          ELSE IF chain[m] = chain[k] THEN NULL ELSE prev[chain[m]]
    BY <1>5, <2>4
  <2> QED BY <2>1, <2>2, <2>3, <2>5, <2>6
<1> QED BY <1>1, <1>3, <1>4, <1>6, <1>7

LEMMA UnlinkingKeepsShape ==
  ASSUME DInv, NEW k \in 2..Size, Unlink(k)
  PROVE  Shape'
<1> DEFINE from(m) == IF m < k THEN m ELSE m + 1
<1>1. /\ Size \in Nat /\ Size' = Size - 1 /\ k \in 2..Size
      /\ \A m \in 1..Size : chain[m] \in Addr
      /\ \A j, m \in 1..Size : chain[j] = chain[m] => j = m
      /\ \A m \in 1..Size - 1 : next[chain[m]] = chain[m + 1] /\ prev[chain[m + 1]] = chain[m]
  BY UnlinkProperties DEF DInv, Shape
<1>2. \A m \in 1..Size - 1 : /\ from(m) \in 1..Size /\ from(m) # k
                             /\ chain'[m] = chain[from(m)]
  BY <1>1, UnlinkProperties
<1>3. \A m \in 1..Size :
        /\ next'[chain[m]] = IF m = k THEN NULL
                             ELSE IF m = k - 1 THEN next[chain[k]] ELSE next[chain[m]]
        /\ prev'[chain[m]] = IF m = k THEN NULL
                             ELSE IF m = k + 1 THEN chain[k - 1] ELSE prev[chain[m]]
  BY UnlinkProperties
<1>4. next[chain[k]] = IF k = Size THEN NULL ELSE chain[k + 1]
  BY UnlinkProperties
<1>5. \A j, m \in 1..Size - 1 : from(j) = from(m) => j = m
  BY <1>1
<1>6. \A m \in 1..Size : m # k => \E j \in 1..Size - 1 : from(j) = m
  <2> SUFFICES ASSUME NEW m \in 1..Size, m # k
               PROVE  \E j \in 1..Size - 1 : from(j) = m
    OBVIOUS
  <2>1. CASE m < k
    <3>1. m \in 1..Size - 1 /\ from(m) = m
      BY <1>1, <2>1
    <3> QED BY <3>1
  <2>2. CASE m > k
    <3>1. m - 1 \in 1..Size - 1 /\ from(m - 1) = m
      BY <1>1, <2>2
    <3> QED BY <3>1
  <2> QED BY <1>1, <2>1, <2>2
<1> HIDE DEF from
<1>7. \A j, m \in 1..Size' : chain'[j] = chain'[m] => j = m
  BY <1>1, <1>2, <1>5
<1>8. ChainNodes' = ChainNodes \ {chain[k]}
  <2>1. ASSUME NEW m \in 1..Size - 1 PROVE chain'[m] \in ChainNodes \ {chain[k]}
    BY <1>1, <1>2 DEF ChainNodes
  <2>2. ASSUME NEW m \in 1..Size, m # k PROVE \E j \in 1..Size - 1 : chain'[j] = chain[m]
    <3>1. PICK j \in 1..Size - 1 : from(j) = m
      BY <1>6, <2>2
    <3> QED BY <1>2, <3>1
  <2> QED BY <1>1, <2>1, <2>2 DEF ChainNodes
<1>9. heap' = ChainNodes' \cup lost' /\ ChainNodes' \cap lost' = {}
  <2>1. heap' = heap \ {chain[k]} /\ lost' = lost /\ chain[k] \in ChainNodes
    BY <1>1, ChainProperties DEF Unlink
  <2>2. heap = ChainNodes \cup lost /\ ChainNodes \cap lost = {}
    BY DEF DInv, Shape
  <2> QED BY <1>8, <2>1, <2>2
<1>10. chain' # <<>> /\ head' = chain'[1] /\ prev'[head'] = NULL
  <2>1. 1 \in 1..Size /\ 1 \in 1..Size - 1 /\ 1 # k /\ 1 # k + 1 /\ 1 < k /\ Size - 1 # 0
    BY <1>1
  <2>2. head = chain[1] /\ prev[head] = NULL /\ head' = head
    BY <1>1, ChainProperties DEF Unlink
  <2>3. chain'[1] = chain[1] /\ prev'[chain[1]] = prev[chain[1]]
    BY <1>2, <1>3, <2>1 DEF from
  <2>4. chain' # <<>>
    BY <1>1, <2>1, EmptySeq DEF Size
  <2> QED BY <2>2, <2>3, <2>4
<1>11. next'[chain'[Size']] = NULL
  <2>1. Size - 1 \in 1..Size - 1 /\ next[chain[Size]] = NULL
    BY <1>1, ChainProperties
  <2>2. CASE k = Size
    <3>1. from(Size - 1) = k - 1 /\ k - 1 \in 1..Size /\ k - 1 # k
      BY <1>1, <2>2 DEF from
    <3> QED BY <1>1, <1>2, <1>3, <1>4, <2>1, <2>2, <3>1
  <2>3. CASE k # Size
    <3>1. from(Size - 1) = Size /\ Size \in 1..Size /\ Size # k - 1
      BY <1>1, <2>3 DEF from
    <3> QED BY <1>1, <1>2, <1>3, <2>1, <2>3, <3>1
  <2> QED BY <2>2, <2>3
<1>12. ASSUME NEW m \in 1..Size - 2
       PROVE  next'[chain'[m]] = chain'[m + 1] /\ prev'[chain'[m + 1]] = chain'[m]
  <2>1. m \in 1..Size - 1 /\ m + 1 \in 1..Size - 1 /\ m + 1 \in 1..Size
    BY <1>1
  <2>2. chain'[m] = chain[from(m)] /\ chain'[m + 1] = chain[from(m + 1)]
    BY <1>2, <2>1
  <2>3. CASE m < k - 1
    <3>1. /\ from(m) = m /\ from(m + 1) = m + 1 /\ m \in 1..Size
          /\ m # k /\ m # k - 1 /\ m + 1 # k /\ m + 1 # k + 1
      BY <1>1, <2>3 DEF from
    <3> QED BY <1>1, <1>3, <2>1, <2>2, <3>1
  <2>4. CASE m = k - 1
    <3>1. /\ from(m) = k - 1 /\ from(m + 1) = k + 1 /\ k # Size
          /\ k - 1 \in 1..Size /\ k + 1 \in 1..Size /\ k - 1 # k /\ k + 1 # k
      BY <1>1, <2>4 DEF from
    <3> QED BY <1>3, <1>4, <2>2, <3>1
  <2>5. CASE m > k - 1
    <3>1. /\ from(m) = m + 1 /\ from(m + 1) = (m + 1) + 1
          /\ (m + 1) + 1 \in 1..Size /\ m + 1 # k /\ m + 1 # k - 1
          /\ (m + 1) + 1 # k /\ (m + 1) + 1 # k + 1
      BY <1>1, <2>5 DEF from
    <3>2. next[chain[m + 1]] = chain[(m + 1) + 1] /\ prev[chain[(m + 1) + 1]] = chain[m + 1]
      BY <1>1, <2>1
    <3>3. /\ next'[chain[m + 1]] = next[chain[m + 1]]
          /\ prev'[chain[(m + 1) + 1]] = prev[chain[(m + 1) + 1]]
      BY <1>3, <2>1, <3>1
    <3> QED BY <2>2, <3>1, <3>2, <3>3
  <2> QED BY <1>1, <2>3, <2>4, <2>5
<1>13. \A m \in 1..Size' - 1 : /\ next'[chain'[m]] = chain'[m + 1]
                               /\ prev'[chain'[m + 1]] = chain'[m]
  <2>1. Size' - 1 = Size - 2
    BY <1>1
  <2> QED BY <1>12, <2>1
<1> QED BY <1>7, <1>9, <1>10, <1>11, <1>13 DEF Shape

LEMMA UnlinkingKeepsInv ==
  ASSUME DInv, NEW k \in 2..Size, Unlink(k), UNCHANGED <<open, kind, ret, fault>>
  PROVE  DInv' /\ Content' = RemoveAt(Content, k)
<1>1. /\ Size \in Nat /\ Size' = Size - 1 /\ k \in 1..Size
      /\ \A m \in 1..Size : chain[m] \in Addr /\ ElementAt(m) \in Element
      /\ \A m \in 1..Size - 1 : chain'[m] = IF m < k THEN chain[m] ELSE chain[m + 1]
      /\ \A j, m \in 1..Size : chain[j] = chain[m] => j = m
  <2>1. Size \in Nat /\ k \in 1..Size
    BY ContentIsSeq
  <2>2. \A m \in 1..Size : ElementAt(m) \in Element
    BY ContentIsSeq
  <2> HIDE <2>2
  <2>3. /\ Size' = Size - 1
        /\ \A m \in 1..Size : chain[m] \in Addr
        /\ \A m \in 1..Size - 1 : chain'[m] = IF m < k THEN chain[m] ELSE chain[m + 1]
        /\ \A j, m \in 1..Size : chain[j] = chain[m] => j = m
    BY UnlinkProperties
  <2> QED BY <2>1, <2>2, <2>3
<1>2. \A m \in 1..Size - 1 :
        ElementAt(m)' = IF m < k THEN ElementAt(m) ELSE ElementAt(m + 1)
  <2>1. \A m \in 1..Size : m # k => element'[chain[m]] = element[chain[m]]
    <3>1. element' = [element EXCEPT ![chain[k]] = NULL]
      BY DEF Unlink
    <3> QED BY <1>1, <3>1 DEF DInv, TypeOK
  <2> SUFFICES ASSUME NEW m \in 1..Size - 1
               PROVE  ElementAt(m)' = IF m < k THEN ElementAt(m) ELSE ElementAt(m + 1)
    OBVIOUS
  <2>2. CASE m < k
    <3>1. m \in 1..Size /\ m # k
      BY <1>1, <2>2
    <3> QED BY <1>1, <2>1, <2>2, <3>1 DEF ElementAt
  <2>3. CASE ~ (m < k)
    <3>1. m + 1 \in 1..Size /\ m + 1 # k
      BY <1>1, <2>3
    <3> QED BY <1>1, <2>1, <2>3, <3>1 DEF ElementAt
  <2> QED BY <2>2, <2>3
<1>3. \A m \in 1..Size - 1 : m \in 1..Size /\ m + 1 \in 1..Size
  BY <1>1
<1>4. Shape' /\ TypeOK'
  <2>1. /\ prev' \in [Addr -> Addr \cup {NULL}] /\ next' \in [Addr -> Addr \cup {NULL}]
        /\ chain' \in Seq(Addr)
    BY UnlinkProperties
  <2> QED BY <2>1, UnlinkingKeepsShape DEF Unlink, DInv, TypeOK, kind
<1>5. Filled' /\ Sorted'
  <2>1. Filled'
    BY <1>1, <1>2, <1>3 DEF Filled
  <2>2. Sorted'
    <3> SUFFICES ASSUME order = "three_way", ~ indexed,
                        NEW j \in 1..Size - 1, NEW m \in 1..Size - 1, j < m
                 PROVE  ElementAt(j)' =< ElementAt(m)'
      BY <1>1 DEF Sorted, kind
    <3>1. \A x, y \in 1..Size : x < y => ElementAt(x) =< ElementAt(y)
      BY DEF DInv, Sorted
    <3>2. /\ j \in 1..Size /\ j + 1 \in 1..Size /\ m \in 1..Size /\ m + 1 \in 1..Size
          /\ j < m + 1 /\ j + 1 < m + 1 /\ (m < k => j < k)
      BY <1>1
    <3> QED BY <1>2, <3>1, <3>2
  <2> QED BY <2>1, <2>2
<1>6. DInv'
  <2>1. open
    <3>1. Size # 0
      BY <1>1
    <3> QED BY <3>1 DEF DInv
  <2> QED BY <1>4, <1>5, <2>1 DEF DInv
<1>7. Content' = RemoveAt(Content, k)
  <2> DEFINE s == RemoveAt(Content, k)
  <2>1. /\ Content \in Seq(Element) /\ Len(Content) = Size /\ k \in 1..Len(Content)
        /\ \A m \in 1..Size : Content[m] = ElementAt(m)
    BY <1>1, ContentIsSeq
  <2>2. /\ s \in Seq(Element) /\ Len(s) = Len(Content) - 1
        /\ \A m \in 1..Len(Content) - 1 : s[m] = IF m < k THEN Content[m] ELSE Content[m + 1]
    BY <2>1, RemoveAtProperties
  <2> HIDE DEF s
  <2>3. \A m \in 1..Size - 1 : ElementAt(m)' = s[m]
    BY <1>2, <1>3, <2>1, <2>2
  <2>4. /\ Content' \in Seq(Element) /\ Len(Content') = Size - 1
        /\ \A m \in 1..Size - 1 : Content'[m] = ElementAt(m)'
    <3>1. Content' \in [1..Size - 1 -> Element] /\ Size - 1 \in Nat
      BY <1>1, <1>5 DEF Content, Filled
    <3>2. Content' \in Seq(Element) /\ Len(Content') = Size - 1
      BY <3>1, FunctionIsSeq
    <3> QED BY <1>1, <3>2 DEF Content
  <2>5. Content' = s
    BY <2>1, <2>2, <2>3, <2>4, SeqEqual
  <2> QED BY <2>5 DEF s
<1> QED BY <1>6, <1>7

-----------------------------------------------------------------------------
(* The calls that change the list: each keeps the invariant, and its promise. *)

LEMMA FrameKeepsInv ==
  ASSUME DInv, UNCHANGED <<pointers, kind>>, open' \in BOOLEAN, ~ open' => Size = 0,
         fault' \in {"none", "memory", "null_deref", "assert", "endless"}
  PROVE  DInv' /\ Content' = Content
<1>1. Content' = Content /\ Size' = Size
  BY DEF pointers, Content, ElementAt, Size
<1>2. TypeOK' /\ Shape' /\ Filled' /\ Sorted'
  BY DEF DInv, TypeOK, Shape, ChainNodes, Filled, Sorted, ElementAt, Size, pointers, kind
<1> QED BY <1>1, <1>2 DEF DInv

\* A call that changes nothing but what it returns, or how the process ends.
LEMMA QuietKeepsInv ==
  ASSUME DInv, UNCHANGED <<open, pointers, kind>>,
         fault' = fault \/ (fault = "none" /\ fault' \in {"memory", "null_deref", "assert", "endless"})
  PROVE  DInv' /\ Content' = Content
BY FrameKeepsInv DEF DInv, TypeOK

LEMMA EmptyContent == ASSUME DInv, Size = 0 PROVE Content = <<>>
<1>1. Content \in Seq(Element) /\ Len(Content) = 0
  BY ContentIsSeq
<1> QED BY <1>1, EmptySeq

LEMMA HeadAndContent ==
  ASSUME DInv
  PROVE  /\ Content \in Seq(Element) /\ Len(Content) = Size /\ Size \in Nat
         /\ (head = NULL) <=> (Content = <<>>)
         /\ (head = NULL) <=> (Size = 0)
<1>1. Content \in Seq(Element) /\ Len(Content) = Size /\ Size \in Nat
  BY ContentIsSeq
<1>2. (Content = <<>>) <=> (Size = 0)
  BY <1>1, EmptySeq
<1> QED BY <1>1, <1>2, ChainProperties

LEMMA CreateCall ==
  ASSUME DInv, dpl_create
  PROVE  DInv' /\ (List!Create \/ Stops("assert"))
<1>1. CASE Fault("assert")
  BY <1>1, QuietKeepsInv DEF dpl_create, Fault, Stops
<1>2. CASE open' = TRUE /\ UNCHANGED <<pointers, kind, ret, fault>>
  <2>1. DInv' /\ Content' = Content
    BY <1>2, FrameKeepsInv DEF dpl_create
  <2>2. List!Create
    BY <1>2, <2>1 DEF dpl_create, List!Create, kind
  <2> QED BY <2>1, <2>2
<1> QED BY <1>1, <1>2 DEF dpl_create

LEMMA FreeCall ==
  ASSUME DInv, dpl_free
  PROVE  DInv' /\ (List!Free \/ (Content # <<>> /\ Stops("null_deref")))
<1>1. CASE head # NULL /\ Fault("null_deref")
  BY <1>1, QuietKeepsInv, HeadAndContent DEF dpl_free, Calling, Fault, Stops
<1>2. CASE head = NULL /\ open' = FALSE /\ UNCHANGED <<pointers, kind, ret, fault>>
  <2>1. Size = 0 /\ Content = <<>>
    BY <1>2, ChainProperties, EmptyContent
  <2>2. DInv' /\ Content' = Content
    BY <1>2, <2>1, FrameKeepsInv DEF dpl_free, Calling
  <2>3. List!Free
    BY <1>2, <2>1, <2>2 DEF dpl_free, Calling, List!Free, kind
  <2> QED BY <2>2, <2>3
<1> QED BY <1>1, <1>2 DEF dpl_free

InsertKept(e, i) ==
  \/ List!InsertElement(e, i) \/ Stops("memory")
  \/ Content = <<>> /\ i =< 0 /\ List!Query
  \/ i > 0 /\ i >= Len(Content) /\ Stops("assert")

\* An index of 0 or less puts the element first, another one before the node
\* that has it; an empty list forgets the node.
LEMMA InsertAtIndexCall ==
  ASSUME DInv, NEW e \in Element, NEW i \in Index, dpl_insert_at_index(e, i)
  PROVE  DInv' /\ InsertKept(e, i)
<1>1. CASE Fault("memory") \/ (i > 0 /\ i >= Size /\ Fault("assert"))
  BY <1>1, QuietKeepsInv, HeadAndContent
     DEF dpl_insert_at_index, Calling, Fault, Stops, InsertKept
<1>2. ASSUME NEW a \in Addr \ heap, Allocate(a, e),
             (i =< 0 /\ head = NULL /\ LinkNowhere(a)) \/ (i =< 0 /\ head # NULL /\ LinkFirst(a))
               \/ (i > 0 /\ i < Size /\ LinkBefore(a, i + 1)),
             indexed' = (indexed \/ chain' # chain), UNCHANGED <<open, order, ret, fault>>
      PROVE  DInv' /\ InsertKept(e, i)
  <2>1. /\ i \in Int /\ Size \in Nat /\ Len(Content) = Size
        /\ open /\ fault = "none" /\ indexed \in BOOLEAN
    BY ElementAssumption, ContentIsSeq DEF dpl_insert_at_index, Calling, DInv, TypeOK
  <2>2. CASE i =< 0 /\ head = NULL /\ LinkNowhere(a)
    <3>1. Size = 0 /\ UNCHANGED <<chain, head>> /\ indexed' = indexed /\ Size' = Size
      BY <1>2, <2>1, <2>2, ChainProperties DEF LinkNowhere, Size
    <3>2. /\ prev' \in [Addr -> Addr \cup {NULL}] /\ next' \in [Addr -> Addr \cup {NULL}]
          /\ element' \in [Addr -> Element \cup {NULL}]
          /\ lost' = lost \cup {a} /\ heap' = heap \cup {a}
      BY <1>2, <2>2 DEF LinkNowhere, Allocate, DInv, TypeOK
    <3>3. Shape'
      <4>1. ChainNodes' = ChainNodes /\ ChainNodes = {} /\ chain = <<>>
        BY <3>1, EmptySeq DEF ChainNodes, Size, DInv, TypeOK
      <4> QED BY <2>2, <3>1, <3>2, <4>1 DEF DInv, Shape
    <3>4. Content' = Content
      BY <3>1 DEF Content
    <3>5. DInv'
      BY <1>2, <2>1, <3>1, <3>2, <3>3 DEF DInv, TypeOK, Filled, Sorted
    <3>6. Content = <<>> /\ List!Query
      BY <1>2, <2>1, <2>2, <3>1, <3>4, EmptySeq, HeadAndContent DEF List!Query
    <3> QED BY <2>2, <3>5, <3>6 DEF InsertKept
  <2>3. ASSUME NEW k \in 1..Size + 1, Linked(k, a), List!Position(i) + 1 = k
        PROVE  DInv' /\ InsertKept(e, i)
    <3>1. indexed' = TRUE
      <4>1. Size' = Size + 1
        BY <2>3 DEF Linked, Size
      <4>2. chain' # chain
        BY <2>1, <4>1 DEF Size
      <4> QED BY <1>2, <4>2
    <3>2. DInv' /\ Content' = InsertAt(Content, k, e)
      BY <1>2, <2>1, <2>3, <3>1, LinkingKeepsInv
    <3>3. List!InsertElement(e, i)
      <4>1. (order = "three_way" /\ ~ indexed)' = FALSE
        BY <3>1
      <4>2. Content' = InsertAt(Content, List!Position(i) + 1, e)
        BY <2>3, <3>2
      <4> QED BY <1>2, <2>1, <4>1, <4>2 DEF List!InsertElement, List!InsertAt, InsertAt
    <3> QED BY <3>2, <3>3 DEF InsertKept
  <2>4. CASE i =< 0 /\ head # NULL /\ LinkFirst(a)
    <3>1. Linked(1, a) /\ 1 \in 1..Size + 1
      BY <2>1, <2>4, FirstIsLinked
    <3>2. List!Position(i) + 1 = 1
      <4>1. Size > 0
        BY <2>1, <2>4, ChainProperties
      <4> QED BY <2>1, <2>4, <4>1 DEF List!Position
    <3> QED BY <2>3, <3>1, <3>2
  <2>5. CASE i > 0 /\ i < Size /\ LinkBefore(a, i + 1)
    <3>1. i + 1 \in 2..Size /\ i + 1 \in 1..Size + 1
      BY <2>1, <2>5
    <3>2. Linked(i + 1, a)
      BY <2>5, <3>1, BeforeIsLinked
    <3>3. List!Position(i) + 1 = i + 1
      BY <2>1, <2>5 DEF List!Position
    <3> QED BY <2>3, <3>1, <3>2, <3>3
  <2> QED BY <1>2, <2>2, <2>4, <2>5
<1> QED BY <1>1, <1>2 DEF dpl_insert_at_index

SortedKept(e) ==
  \/ List!InsertSorted(e) \/ Stops("memory")
  \/ Len(Content) > 1 /\ e = Content[1] /\ Stops("null_deref")

\* An element is put where the comparisons lead, so an ordered list stays in
\* order.
LEMMA InsertSortedCall ==
  ASSUME DInv, NEW e \in Element, dpl_insert_sorted(e)
  PROVE  DInv' /\ SortedKept(e)
<1>1. CASE \/ Fault("memory")
           \/ /\ Size > 1 /\ StopsAt(e, 1) /\ Compare(e, ElementAt(1)) = 0
              /\ Fault("null_deref")
  <2>1. CASE Fault("memory")
    BY <2>1, QuietKeepsInv DEF dpl_insert_sorted, Calling, Fault, Stops, SortedKept
  <2>2. CASE Size > 1 /\ Compare(e, ElementAt(1)) = 0 /\ Fault("null_deref")
    <3>1. Len(Content) > 1 /\ e = Content[1]
      BY <2>2, HeadAndContent DEF Compare, Content
    <3> QED BY <2>2, <3>1, QuietKeepsInv DEF dpl_insert_sorted, Calling, Fault, Stops, SortedKept
  <2> QED BY <1>1, <2>1, <2>2
<1>2. ASSUME NEW a \in Addr \ heap, Allocate(a, e), UNCHANGED <<open, kind, ret, fault>>,
             NEW k \in 1..Size + 1, Linked(k, a),
             order = "three_way" /\ ~ indexed =>
               \A j \in 1..Size : (j < k => ElementAt(j) =< e) /\ (j >= k => e =< ElementAt(j))
      PROVE  DInv' /\ SortedKept(e)
  <2>1. open /\ fault = "none" /\ indexed \in BOOLEAN
    BY DEF dpl_insert_sorted, Calling, DInv, TypeOK
  <2>2. DInv' /\ Content' = InsertAt(Content, k, e)
    BY <1>2, <2>1, LinkingKeepsInv DEF kind
  <2>3. /\ Size \in Nat /\ Len(Content) = Size
        /\ k - 1 \in 0..Size /\ (k - 1) + 1 = k
    BY ContentIsSeq
  <2>4. Size' \in Nat /\ Len(Content') = Size' /\ \A m \in 1..Size' : Content'[m] = ElementAt(m)'
    <3>1. Size' = Size + 1
      BY <1>2 DEF Linked, Size
    <3>2. Content' \in [1..Size' -> Element] /\ Size' \in Nat
      BY <2>2, <2>3, <3>1 DEF Content, DInv, Filled
    <3>3. Len(Content') = Size'
      BY <3>2, FunctionIsSeq
    <3> QED BY <3>2, <3>3 DEF Content
  <2>5. order = "three_way" /\ ~ indexed => List!Ascending(Content')
    BY <1>2, <2>2, <2>4 DEF kind, DInv, Sorted, List!Ascending
  <2>6. \E j \in 0..Len(Content) : Content' = InsertAt(Content, j + 1, e)
    BY <2>2, <2>3
  <2>7. List!InsertSorted(e)
    <3>1. (order = "three_way" /\ ~ indexed)' = (order = "three_way" /\ ~ indexed)
      BY <1>2 DEF kind
    <3> QED BY <1>2, <2>1, <2>5, <2>6, <3>1 DEF List!InsertSorted, List!InsertAt, InsertAt
  <2> QED BY <2>2, <2>7 DEF SortedKept
<1>3. ASSUME NEW a \in Addr \ heap, Allocate(a, e), UNCHANGED <<open, kind, ret, fault>>,
             head = NULL, LinkOnly(a)
      PROVE  DInv' /\ SortedKept(e)
  <2>1. Linked(1, a) /\ Size = 0 /\ 1 \in 1..Size + 1
    BY <1>3, OnlyIsLinked, ChainProperties
  <2>2. \A j \in 1..Size : FALSE
    BY <2>1
  <2> QED BY <1>2, <1>3, <2>1, <2>2
<1>4. ASSUME NEW a \in Addr \ heap, Allocate(a, e), UNCHANGED <<open, kind, ret, fault>>,
             NEW k \in 1..Size, StopsAt(e, k),
             \/ k = Size /\ Compare(e, ElementAt(k)) >= 0 /\ LinkLast(a)
             \/ k = 1 /\ Compare(e, ElementAt(k)) < 0 /\ LinkFirst(a)
             \/ k > 1 /\ (k < Size \/ Compare(e, ElementAt(k)) < 0) /\ LinkBefore(a, k)
      PROVE  DInv' /\ SortedKept(e)
  <2>1. /\ Size \in Nat /\ Size > 0 /\ head # NULL /\ e \in Int
        /\ \A j \in 1..Size : ElementAt(j) \in Int
    BY ContentIsSeq, ChainProperties, ElementAssumption
  <2>2. ASSUME order = "three_way", ~ indexed
        PROVE  /\ \A j, m \in 1..Size : j < m => ElementAt(j) =< ElementAt(m)
               /\ \A j \in 1..k - 1 : ElementAt(j) < e
               /\ k # Size => e =< ElementAt(k)
               /\ Compare(e, ElementAt(k)) >= 0 => ElementAt(k) =< e
               /\ Compare(e, ElementAt(k)) < 0 => e =< ElementAt(k)
    <3>1. \A j \in 1..Size : /\ Compare(e, ElementAt(j)) > 0 => ElementAt(j) < e
                             /\ Compare(e, ElementAt(j)) =< 0 => e =< ElementAt(j)
                             /\ Compare(e, ElementAt(j)) >= 0 => ElementAt(j) =< e
                             /\ Compare(e, ElementAt(j)) < 0 => e =< ElementAt(j)
      BY <2>1, <2>2 DEF Compare
    <3>2. \A j \in 1..k - 1 : j \in 1..Size
      BY <2>1
    <3> QED BY <1>4, <2>2, <3>1, <3>2 DEF StopsAt, DInv, Sorted
  <2>3. CASE k = Size /\ Compare(e, ElementAt(k)) >= 0 /\ LinkLast(a)
    <3>1. Linked(Size + 1, a) /\ Size + 1 \in 1..Size + 1
      BY <2>1, <2>3, LastIsLinked
    <3>2. order = "three_way" /\ ~ indexed =>
            \A j \in 1..Size : (j < Size + 1 => ElementAt(j) =< e)
                              /\ (j >= Size + 1 => e =< ElementAt(j))
      <4>1. \A j \in 1..Size : (j = Size \/ j \in 1..k - 1) /\ ~ (j >= Size + 1)
        BY <2>1, <2>3
      <4> QED BY <2>1, <2>2, <2>3, <4>1
    <3> QED BY <1>2, <1>4, <3>1, <3>2
  <2>4. CASE k = 1 /\ Compare(e, ElementAt(k)) < 0 /\ LinkFirst(a)
    <3>1. Linked(1, a) /\ 1 \in 1..Size + 1
      BY <2>1, <2>4, FirstIsLinked
    <3>2. order = "three_way" /\ ~ indexed =>
            \A j \in 1..Size : (j < 1 => ElementAt(j) =< e) /\ (j >= 1 => e =< ElementAt(j))
      <4>1. \A j \in 1..Size : (j = 1 \/ 1 < j) /\ ~ (j < 1)
        BY <2>1
      <4> QED BY <2>1, <2>2, <2>4, <4>1
    <3> QED BY <1>2, <1>4, <3>1, <3>2
  <2>5. CASE k > 1 /\ (k < Size \/ Compare(e, ElementAt(k)) < 0) /\ LinkBefore(a, k)
    <3>1. k \in 2..Size /\ k \in 1..Size + 1
      BY <2>1, <2>5
    <3>2. Linked(k, a)
      BY <2>5, <3>1, BeforeIsLinked
    <3>3. order = "three_way" /\ ~ indexed =>
            \A j \in 1..Size : (j < k => ElementAt(j) =< e) /\ (j >= k => e =< ElementAt(j))
      <4>1. \A j \in 1..Size : /\ j < k => j \in 1..k - 1
                               /\ j >= k => j = k \/ k < j
        BY <2>1
      <4>2. order = "three_way" /\ ~ indexed => e =< ElementAt(k)
        BY <2>1, <2>2, <2>5
      <4> QED BY <2>1, <2>2, <4>1, <4>2
    <3> QED BY <1>2, <1>4, <3>1, <3>2, <3>3
  <2> QED BY <1>4, <2>3, <2>4, <2>5
<1> QED BY <1>1, <1>3, <1>4 DEF dpl_insert_sorted

LEMMA RemoveCall ==
  ASSUME DInv, NEW i \in Index, dpl_remove_at_index(i)
  PROVE  /\ DInv'
         /\ \/ List!RemoveElement(i)
            \/ Content # <<>> /\ ~ (0 < i /\ i < Len(Content)) /\ Stops("null_deref")
<1>1. CASE head = NULL /\ UNCHANGED vars
  <2>1. DInv' /\ Content' = Content /\ Content = <<>>
    BY <1>1, QuietKeepsInv, HeadAndContent DEF vars
  <2>2. List!RemoveElement(i)
    BY <1>1, <2>1 DEF vars, kind, dpl_remove_at_index, Calling, List!RemoveElement
  <2> QED BY <2>1, <2>2
<1>2. CASE head # NULL /\ (i =< 0 \/ i >= Size) /\ Fault("null_deref")
  <2>1. DInv' /\ Stops("null_deref")
    BY <1>2, QuietKeepsInv DEF dpl_remove_at_index, Calling, Fault, Stops
  <2>2. Content # <<>> /\ ~ (0 < i /\ i < Len(Content))
    BY <1>2, HeadAndContent, ElementAssumption
  <2> QED BY <2>1, <2>2
<1>3. CASE i > 0 /\ i < Size /\ Unlink(i + 1) /\ UNCHANGED <<open, kind, ret, fault>>
  <2>1. i \in Int /\ Size \in Nat /\ Len(Content) = Size /\ i + 1 \in 2..Size
    BY <1>3, ElementAssumption, ContentIsSeq
  <2>2. DInv' /\ Content' = RemoveAt(Content, i + 1)
    BY <1>3, <2>1, UnlinkingKeepsInv
  <2>3. List!Place(i) = i + 1 /\ Content # <<>>
    BY <1>3, <2>1, EmptySeq DEF List!Position, List!Place
  <2>4. List!RemoveElement(i)
    <3>1. (order = "three_way" /\ ~ indexed)' = (order = "three_way" /\ ~ indexed)
      BY <1>3 DEF kind
    <3> QED BY <1>3, <2>2, <2>3, <3>1 DEF dpl_remove_at_index, Calling, List!RemoveElement,
                                            List!RemoveAt, RemoveAt
  <2> QED BY <2>2, <2>4
<1> QED BY <1>1, <1>2, <1>3 DEF dpl_remove_at_index

LEMMA Changes == DInv => ChangesAsPromised
<1> SUFFICES ASSUME DInv PROVE ChangesAsPromised
  OBVIOUS
<1>1. dpl_create => List!Create \/ Stops("assert")
  BY CreateCall
<1>2. dpl_free => List!Free \/ (Content # <<>> /\ Stops("null_deref"))
  BY FreeCall
<1>3. \A e \in Element, i \in Index : dpl_insert_at_index(e, i) => InsertKept(e, i)
  BY InsertAtIndexCall
<1>4. \A e \in Element : dpl_insert_sorted(e) => SortedKept(e)
  BY InsertSortedCall
<1>5. \A i \in Index : dpl_remove_at_index(i) =>
        \/ List!RemoveElement(i)
        \/ Content # <<>> /\ ~ (0 < i /\ i < Len(Content)) /\ Stops("null_deref")
  BY RemoveCall
<1> QED BY <1>1, <1>2, <1>3, <1>4, <1>5 DEF ChangesAsPromised, InsertKept, SortedKept
-----------------------------------------------------------------------------
(* The calls that answer. *)

LEMMA ReturnIsQuery ==
  ASSUME DInv, Calling, NEW r, Return(r)
  PROVE  List!Query /\ ret' = r
<1>1. Content' = Content
  BY QuietKeepsInv DEF Return
<1> QED BY <1>1 DEF List!Query, Calling, Return, kind

LEMMA FaultStops ==
  ASSUME DInv, Calling, NEW f \in {"null_deref", "endless"}, Fault(f)
  PROVE  DInv' /\ Stops(f)
BY QuietKeepsInv DEF Calling, Fault, Stops

\* The element the first node holds, and the one an index names.
LEMMA NamedElements ==
  ASSUME DInv, NEW i \in Index, Content # <<>>
  PROVE  /\ i =< 0 => List!ElementOf(i) = element[head]
         /\ i > 0 /\ i < Size => /\ i + 1 \in 1..Size
                                 /\ List!ElementOf(i) = element[chain[i + 1]]
<1>1. /\ i \in Int /\ Size \in Nat /\ Size > 0 /\ Len(Content) = Size
      /\ head = chain[1]
  BY ElementAssumption, HeadAndContent, ChainProperties
<1>2. \A k \in 1..Size : Content[k] = element[chain[k]]
  BY DEF Content, ElementAt
<1>3. i =< 0 => List!Place(i) = 1
  BY <1>1 DEF List!Position, List!Place
<1>4. i > 0 /\ i < Size => i + 1 \in 1..Size /\ List!Place(i) = i + 1
  BY <1>1 DEF List!Position, List!Place
<1> QED BY <1>1, <1>2, <1>3, <1>4 DEF List!ElementOf

LEMMA SizeCall ==
  ASSUME DInv, dpl_size
  PROVE  List!Query /\ ret' = List!NumberOf + (IF Content = <<>> THEN 0 ELSE 1)
<1>1. List!Query /\ ret' = IF head = NULL THEN 0 ELSE Size + 1
  BY ReturnIsQuery DEF dpl_size
<1> QED BY <1>1, HeadAndContent DEF List!NumberOf

LEMMA ElementAtIndexCall ==
  ASSUME DInv, NEW i \in Index, dpl_get_element_at_index(i)
  PROVE  \/ List!Query /\ ret' = IF Content = <<>> THEN NULL ELSE List!ElementOf(i)
         \/ Content # <<>> /\ i > 0 /\ Stops("null_deref")
<1>1. Calling
  BY DEF dpl_get_element_at_index
<1>2. CASE head = NULL /\ Return(NULL)
  BY <1>1, <1>2, ReturnIsQuery, HeadAndContent
<1>3. CASE head # NULL /\ i =< 0 /\ Return(element[head])
  BY <1>1, <1>3, ReturnIsQuery, HeadAndContent, NamedElements
<1>4. CASE head # NULL /\ i > 0 /\ Fault("null_deref")
  BY <1>1, <1>4, FaultStops, HeadAndContent
<1> QED BY <1>2, <1>3, <1>4 DEF dpl_get_element_at_index

LEMMA IndexOfElementCall ==
  ASSUME DInv, NEW e \in Element, dpl_get_index_of_element(e)
  PROVE  /\ List!Query
         /\ \/ ret' = List!IndexOf(e)
            \/ Content # <<>> /\ List!IndexOf(e) = -1 /\ ret' = Len(Content)
<1> DEFINE at == {k \in 1..Len(Content) : Content[k] = e}
<1>1. Matches(e) = at
  <2>1. \A k \in 1..Size : Content[k] = ElementAt(k)
    BY DEF Content
  <2>2. Size \in Nat /\ Len(Content) = Size /\ \A k \in 1..Size : ElementAt(k) \in Int /\ e \in Int
    BY HeadAndContent, ElementAssumption DEF DInv, Filled
  <2>3. \A k \in 1..Size : Compare(e, ElementAt(k)) = 0 <=> e = ElementAt(k)
    BY <2>2 DEF Compare
  <2> QED BY <2>1, <2>2, <2>3 DEF Matches
<1>2. List!IndexOf(e) = IF Matches(e) = {} THEN -1 ELSE Min(Matches(e)) - 1
  BY <1>1 DEF List!IndexOf, List!Min, Min
<1>3. CASE head = NULL /\ Return(-1)
  <2>1. Matches(e) = {}
    BY <1>1, <1>3, HeadAndContent
  <2>2. List!Query /\ ret' = -1
    BY <1>3, ReturnIsQuery DEF dpl_get_index_of_element
  <2> QED BY <1>2, <2>1, <2>2
<1>4. CASE head # NULL /\ Return(IF Matches(e) = {} THEN Size ELSE Min(Matches(e)) - 1)
  <2>1. List!Query /\ ret' = IF Matches(e) = {} THEN Size ELSE Min(Matches(e)) - 1
    BY <1>4, ReturnIsQuery DEF dpl_get_index_of_element
  <2> QED BY <1>2, <1>4, <2>1, HeadAndContent
<1> QED BY <1>3, <1>4 DEF dpl_get_index_of_element

LEMMA ReferenceAtIndexCall ==
  ASSUME DInv, NEW i \in Index, dpl_get_reference_at_index(i)
  PROVE  /\ List!Query
         /\ \/ ret' \in heap \ lost /\ element[ret'] = List!ElementOf(i)
            \/ (Content = <<>> \/ (i > 0 /\ i >= Len(Content))) /\ ret' = NULL
<1>1. Calling /\ \A k \in 1..Size : chain[k] \in heap \ lost
  BY ChainProperties DEF dpl_get_reference_at_index, DInv, Shape
<1>2. CASE i =< 0 /\ Return(head)
  <2>1. List!Query /\ ret' = head
    BY <1>1, <1>2, ReturnIsQuery
  <2>2. CASE head = NULL
    BY <2>1, <2>2, HeadAndContent
  <2>3. CASE head # NULL
    <3>1. Content # <<>> /\ 1 \in 1..Size /\ head = chain[1]
      BY <2>3, HeadAndContent, ChainProperties
    <3> QED BY <1>1, <1>2, <2>1, <3>1, NamedElements
  <2> QED BY <2>2, <2>3
<1>3. CASE i > 0 /\ Return(IF i < Size THEN chain[i + 1] ELSE NULL)
  <2>1. List!Query /\ ret' = IF i < Size THEN chain[i + 1] ELSE NULL
    BY <1>1, <1>3, ReturnIsQuery
  <2>2. CASE i < Size
    <3>1. Content # <<>>
      BY <1>3, <2>2, HeadAndContent, ElementAssumption
    <3>2. i + 1 \in 1..Size /\ List!ElementOf(i) = element[chain[i + 1]]
      BY <1>3, <2>2, <3>1, NamedElements
    <3> QED BY <1>1, <2>1, <2>2, <3>2
  <2>3. CASE ~ (i < Size)
    BY <1>3, <2>1, <2>3, HeadAndContent, ElementAssumption
  <2> QED BY <2>2, <2>3
<1> QED BY <1>2, <1>3 DEF dpl_get_reference_at_index

LEMMA ElementAtReferenceCall ==
  ASSUME DInv, NEW r \in Addr \cup {NULL}, dpl_get_element_at_reference(r)
  PROVE  \/ List!Query /\ ret' = IF Content = <<>> THEN NULL ELSE element[r]
         \/ Content # <<>> /\ r = NULL /\ Stops("null_deref")
         \/ Content # <<>> /\ r \notin {head, NULL} /\ Stops("endless")
<1>1. Calling
  BY DEF dpl_get_element_at_reference
<1>2. CASE head = NULL /\ Return(NULL)
  BY <1>1, <1>2, ReturnIsQuery, HeadAndContent
<1>3. CASE head # NULL /\ r = head /\ Return(element[head])
  BY <1>1, <1>3, ReturnIsQuery, HeadAndContent
<1>4. CASE head # NULL /\ r = NULL /\ Fault("null_deref")
  BY <1>1, <1>4, FaultStops, HeadAndContent
<1>5. CASE head # NULL /\ r \notin {head, NULL} /\ Fault("endless")
  BY <1>1, <1>5, FaultStops, HeadAndContent
<1> QED BY <1>2, <1>3, <1>4, <1>5 DEF dpl_get_element_at_reference

LEMMA Answers == DInv => AnswersAsPromised
BY SizeCall, ElementAtIndexCall, IndexOfElementCall, ReferenceAtIndexCall,
   ElementAtReferenceCall DEF AnswersAsPromised
-----------------------------------------------------------------------------
(* The theorems. *)

LEMMA InitInv == Init => DInv /\ List!Init
<1> SUFFICES ASSUME Init PROVE DInv /\ List!Init
  OBVIOUS
<1>1. chain = <<>> /\ Size = 0
  BY EmptySeq DEF Init, Size
<1>2. TypeOK
  BY <1>1, EmptySeq DEF Init, TypeOK
<1>3. Shape
  BY <1>1 DEF Init, Shape, ChainNodes
<1>4. DInv
  BY <1>1, <1>2, <1>3 DEF DInv, Filled, Sorted
<1>5. Content = <<>>
  BY <1>1, <1>4, EmptyContent
<1>6. (order = "three_way" /\ ~ indexed) \in BOOLEAN
  OBVIOUS
<1> QED BY <1>4, <1>5, <1>6 DEF Init, List!Init

LEMMA Step == DInv /\ [Next]_vars => DInv'
<1> SUFFICES ASSUME DInv, [Next]_vars PROVE DInv'
  OBVIOUS
<1>1. CASE dpl_create
  BY <1>1, CreateCall
<1>2. CASE dpl_free
  BY <1>2, FreeCall
<1>3. ASSUME NEW e \in Element, dpl_insert_sorted(e) PROVE DInv'
  BY <1>3, InsertSortedCall
<1>4. ASSUME NEW i \in Index, NEW e \in Element, dpl_insert_at_index(e, i)
      PROVE  DInv'
  BY <1>4, InsertAtIndexCall
<1>5. ASSUME NEW i \in Index, dpl_remove_at_index(i) PROVE DInv'
  BY <1>5, RemoveCall
<1>6. CASE dpl_size \/ Stopped \/ UNCHANGED vars
  BY <1>6, QuietKeepsInv DEF dpl_size, Stopped, vars, Return
<1>7. ASSUME NEW e \in Element,
             dpl_get_index_of_element(e) \/ dpl_get_reference_of_element(e)
      PROVE  DInv'
  BY <1>7, QuietKeepsInv DEF dpl_get_index_of_element, dpl_get_reference_of_element, Return
<1>8. ASSUME NEW i \in Index,
             dpl_get_element_at_index(i) \/ dpl_get_reference_at_index(i)
      PROVE  DInv'
  BY <1>8, QuietKeepsInv DEF dpl_get_element_at_index, dpl_get_reference_at_index, Calling,
     Return, Fault
<1>9. ASSUME NEW r \in Addr \cup {NULL}, dpl_get_element_at_reference(r)
      PROVE  DInv'
  BY <1>9, QuietKeepsInv DEF dpl_get_element_at_reference, Calling, Return, Fault
<1> QED BY <1>1, <1>2, <1>3, <1>4, <1>5, <1>6, <1>7, <1>8, <1>9 DEF Next

LEMMA Invariance == Spec => []DInv
BY InitInv, Step, PTL DEF Spec

\* Every pointer is NULL or a node, every node holds an element or nothing,
\* and a call ends in one of the ways the code has.
THEOREM TypeInvariance == Spec => []TypeOK
<1>1. DInv => TypeOK
  BY DEF DInv
<1> QED BY <1>1, Invariance, PTL

\* The next and the prev pointers describe one list with no node twice and no
\* node missing, however the calls of dplist.c follow each other.
THEOREM ShapeInvariance == Spec => []Shape
<1>1. DInv => Shape
  BY DEF DInv
<1> QED BY <1>1, Invariance, PTL

\* However the calls of dplist.c follow each other, each keeps the promise that
\* dplist.h makes for it, or breaks it in the way ChangesAsPromised and
\* AnswersAsPromised name.
THEOREM Refinement == Spec => ImplementsList
<1>1. DInv /\ [Next]_vars => [ChangesAsPromised /\ AnswersAsPromised]_vars
  BY Changes, Answers
<1> QED BY <1>1, InitInv, Invariance, PTL DEF Spec, ImplementsList
=============================================================================
