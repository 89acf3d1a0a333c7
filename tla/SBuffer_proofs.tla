--------------------------- MODULE SBuffer_proofs ---------------------------
(***************************************************************************)
(* Proofs about SBuffer for every set of addresses and of readings.  IInv  *)
(* is inductive: types alone do not say that head is allocated, the list   *)
(* shape gives that, and the shape survives a removal only because no node *)
(* is linked twice.                                                        *)
(***************************************************************************)
EXTENDS SBuffer, SequenceTheorems, TLAPS

LEMMA ChainBasics ==
  ASSUME TypeOK
  PROVE  /\ Len(chain) \in Nat
         /\ DOMAIN chain = 1..Len(chain)
         /\ \A i \in 1..Len(chain) : chain[i] \in Addr
         /\ chain = <<>> <=> Len(chain) = 0
  BY DEF TypeOK

LEMMA InitEstablishes == Init => IInv
  BY NullIsNoNode DEF Init, IInv, TypeOK, NoLeak, ListShape, FreedWhenNull, NoCycle,
         ChainNodes, SUCCESS

\* What appending a fresh node does to the chain.
LEMMA AppendChain ==
  ASSUME IInv, NEW a \in Addr \ heap, chain' = Append(chain, a)
  PROVE  /\ chain' \in Seq(Addr)
         /\ Len(chain') = Len(chain) + 1
         /\ \A i \in 1..Len(chain) : chain'[i] = chain[i] /\ chain'[i] # a
         /\ chain'[Len(chain')] = a
         /\ ChainNodes' = ChainNodes \cup {a}
         /\ NoCycle'
<1>1. chain \in Seq(Addr) /\ a \in Addr /\ Len(chain) \in Nat
  BY DEF IInv, TypeOK
<1>2. /\ chain' \in Seq(Addr)
      /\ Len(chain') = Len(chain) + 1
      /\ \A i \in 1..Len(chain) : chain'[i] = chain[i]
      /\ chain'[Len(chain) + 1] = a
  BY <1>1, AppendProperties
<1>3. \A i \in 1..Len(chain) : chain[i] # a
  BY DEF IInv, NoLeak, ChainNodes
<1>4. ChainNodes' = ChainNodes \cup {a}
  <2>1. 1..Len(chain') = 1..Len(chain) \cup {Len(chain) + 1}
    BY <1>1, <1>2
  <2> QED BY <2>1, <1>2 DEF ChainNodes
<1>5. NoCycle'
  BY <1>1, <1>2, <1>3 DEF IInv, ListShape, NoCycle
<1> QED BY <1>1, <1>2, <1>3, <1>4, <1>5

\* What dropping the first node does to the chain.
LEMMA TailChain ==
  ASSUME IInv, chain # <<>>, chain' = Tail(chain)
  PROVE  /\ chain' \in Seq(Addr)
         /\ Len(chain') = Len(chain) - 1
         /\ \A i \in 1..Len(chain') : chain'[i] = chain[i + 1]
         /\ ChainNodes' = ChainNodes \ {chain[1]}
         /\ NoCycle'
<1>1. chain \in Seq(Addr) /\ Len(chain) \in Nat \ {0}
  BY DEF IInv, TypeOK
<1>2. /\ chain' \in Seq(Addr)
      /\ Len(chain') = Len(chain) - 1
      /\ \A i \in 1..Len(chain') : chain'[i] = chain[i + 1]
  BY <1>1, HeadTailProperties
<1>3. NoCycle
  BY DEF IInv, ListShape
<1>4. ChainNodes' \subseteq ChainNodes \ {chain[1]}
  BY <1>1, <1>2, <1>3 DEF ChainNodes, NoCycle
<1>5. ChainNodes \ {chain[1]} \subseteq ChainNodes'
  <2> SUFFICES ASSUME NEW j \in 1..Len(chain), chain[j] # chain[1]
               PROVE  \E i \in 1..Len(chain') : chain'[i] = chain[j]
    BY DEF ChainNodes
  <2>1. j - 1 \in 1..Len(chain') /\ chain'[j - 1] = chain[j]
    BY <1>1, <1>2
  <2> QED BY <2>1
<1>6. NoCycle'
  BY <1>1, <1>2, <1>3 DEF NoCycle
<1> QED BY <1>2, <1>4, <1>5, <1>6

\* A step that changes at most the result code.
LEMMA CodeOnlyPreserves ==
  ASSUME IInv, ret' \in {SUCCESS, FAILURE, NO_DATA},
         UNCHANGED <<buffer, head, tail, next, data, heap, out, chain>>
  PROVE  IInv'
<1>1. TypeOK'
  BY DEF IInv, TypeOK
<1>2. NoLeak' /\ FreedWhenNull'
  BY DEF IInv, NoLeak, FreedWhenNull, ChainNodes
<1>3. ListShape'
  BY DEF IInv, ListShape, NoCycle
<1> QED BY <1>1, <1>2, <1>3 DEF IInv

LEMMA ReturnPreserves ==
  ASSUME IInv, NEW c \in {SUCCESS, FAILURE, NO_DATA}, Return(c)
  PROVE  IInv'
  BY CodeOnlyPreserves DEF Return

LEMMA InsertPreserves ==
  ASSUME IInv, NEW r \in Reading, sbuffer_insert(r)
  PROVE  IInv'
<1>1. CASE Return(FAILURE)
  BY <1>1, ReturnPreserves
<1>2. CASE ~ Return(FAILURE)
  <2>1. PICK a \in Addr \ heap :
          /\ buffer = "open" /\ heap' = heap \cup {a}
          /\ data' = [data EXCEPT ![a] = r]
          /\ Link(a) /\ chain' = Append(chain, a)
          /\ ret' = SUCCESS /\ UNCHANGED <<buffer, out>>
    BY <1>2 DEF sbuffer_insert
  <2>2. /\ chain' \in Seq(Addr) /\ Len(chain') = Len(chain) + 1
        /\ \A i \in 1..Len(chain) : chain'[i] = chain[i] /\ chain'[i] # a
        /\ chain'[Len(chain')] = a
        /\ ChainNodes' = ChainNodes \cup {a}
        /\ NoCycle'
    BY <2>1, AppendChain
  <2>3. TypeOK
    BY DEF IInv
  <2>4. TypeOK'
    BY <2>1, <2>2, <2>3 DEF TypeOK, Link
  <2>5. NoLeak'
    BY <2>1, <2>2 DEF IInv, NoLeak
  <2>6. FreedWhenNull'
    BY <2>1 DEF FreedWhenNull
  <2>7. ListShape'
    <3>1. CASE tail = NULL
      <4>1. chain = <<>> /\ Len(chain) = 0
        BY <3>1, <2>1, <2>3, ChainBasics DEF IInv, ListShape
      <4>2. next' = [next EXCEPT ![a] = NULL] /\ head' = a /\ tail' = a
        BY <3>1, <2>1 DEF Link
      <4>3. next'[a] = NULL /\ a # NULL
        BY <4>2, <2>3, NullIsNoNode DEF TypeOK
      <4>4. Len(chain') = 1 /\ chain' # <<>> /\ chain'[1] = a
        BY <4>1, <2>2
      <4> QED BY <4>2, <4>3, <4>4, <2>2 DEF ListShape
    <3>2. CASE tail # NULL
      <4>1. chain # <<>> /\ Len(chain) \in Nat \ {0}
        BY <3>2, <2>1, <2>3 DEF IInv, ListShape, TypeOK
      <4>2. /\ next' = [[next EXCEPT ![tail] = a] EXCEPT ![a] = NULL]
            /\ head' = head /\ tail' = a
        BY <3>2, <2>1 DEF Link
      <4>3. /\ tail = chain[Len(chain)] /\ head = chain[1] /\ head # NULL
            /\ NoCycle
            /\ \A i \in 1..Len(chain) - 1 : next[chain[i]] = chain[i + 1]
        BY <4>1 DEF IInv, ListShape
      <4>4. a # NULL /\ tail # a /\ next'[a] = NULL /\ next'[tail] = a
        BY <4>1, <4>2, <4>3, <2>2, <2>3, NullIsNoNode DEF TypeOK
      <4>5. ASSUME NEW i \in 1..Len(chain') - 1
            PROVE  next'[chain'[i]] = chain'[i + 1]
        <5>1. i \in 1..Len(chain) /\ chain'[i] = chain[i] /\ chain[i] # a
              /\ chain[i] \in Addr
          BY <4>1, <2>2, <2>3, ChainBasics
        <5>2. CASE i = Len(chain)
          BY <5>1, <5>2, <4>3, <4>4, <2>2
        <5>3. CASE i # Len(chain)
          <6>1. i \in 1..Len(chain) - 1 /\ i + 1 \in 1..Len(chain)
            BY <5>1, <5>3, <4>1
          <6>2. chain[i] # tail
            BY <6>1, <5>1, <5>3, <4>1, <4>3 DEF NoCycle
          <6>3. next'[chain[i]] = next[chain[i]]
            BY <6>2, <5>1, <4>2, <2>3 DEF TypeOK
          <6> QED BY <6>1, <6>3, <5>1, <4>3, <2>2
        <5> QED BY <5>2, <5>3
      <4>6. chain' # <<>> /\ chain'[1] = chain[1]
        BY <4>1, <2>2
      <4> QED BY <4>2, <4>3, <4>4, <4>5, <4>6, <2>2 DEF ListShape
    <3> QED BY <3>1, <3>2
  <2> QED BY <2>4, <2>5, <2>6, <2>7 DEF IInv
<1> QED BY <1>1, <1>2

\* The first node is unlinked, by a removal or by the loop of sbuffer_free.
LEMMA DropHead ==
  ASSUME IInv, head # NULL,
         chain' = Tail(chain), heap' = heap \ {head}, next' = next,
         head' = next[head]
  PROVE  /\ chain # <<>> /\ head \in heap
         /\ chain' \in Seq(Addr) /\ head' \in Addr \cup {NULL}
         /\ NoLeak' /\ NoCycle'
         /\ chain' = <<>> <=> head' = NULL
         /\ chain' = <<>> <=> head = tail
         /\ chain' # <<>> => /\ head' = chain'[1]
                             /\ tail = chain'[Len(chain')] /\ next'[tail] = NULL
         /\ \A i \in 1..Len(chain') - 1 : next'[chain'[i]] = chain'[i + 1]
<1>1. /\ chain # <<>> /\ Len(chain) \in Nat \ {0}
      /\ head = chain[1] /\ tail = chain[Len(chain)] /\ next[tail] = NULL
      /\ NoCycle /\ TypeOK
      /\ \A i \in 1..Len(chain) - 1 : next[chain[i]] = chain[i + 1]
  BY DEF IInv, ListShape, TypeOK
<1>2. /\ chain' \in Seq(Addr) /\ Len(chain') = Len(chain) - 1
      /\ \A i \in 1..Len(chain') : chain'[i] = chain[i + 1]
      /\ ChainNodes' = ChainNodes \ {chain[1]} /\ NoCycle'
  BY <1>1, TailChain
<1>3. NoLeak' /\ head \in heap
  <2>1. heap = ChainNodes
    BY DEF IInv, NoLeak
  <2>2. head \in ChainNodes
    BY <1>1 DEF ChainNodes
  <2>3. heap' = ChainNodes'
    BY <2>1, <1>1, <1>2
  <2> QED BY <2>1, <2>2, <2>3 DEF NoLeak
<1>4. head' \in Addr \cup {NULL}
  BY <1>1, ChainBasics DEF TypeOK
<1>5. CASE Len(chain) = 1
  <2>1. Len(chain') = 0 /\ chain' = <<>>
    BY <1>5, <1>1, <1>2, EmptySeq
  <2>2. head = tail /\ head' = NULL
    BY <1>5, <1>1
  <2>3. \A i \in 1..Len(chain') - 1 : next'[chain'[i]] = chain'[i + 1]
    BY <2>1
  <2>4. /\ chain' = <<>> <=> head' = NULL
        /\ chain' = <<>> <=> head = tail
        /\ chain' # <<>> => /\ head' = chain'[1]
                            /\ tail = chain'[Len(chain')] /\ next'[tail] = NULL
    BY <2>1, <2>2, Zenon
  <2> QED BY <2>3, <2>4, <1>1, <1>2, <1>3, <1>4, Zenon
<1>6. CASE Len(chain) # 1
  <2>1. Len(chain') \in Nat \ {0} /\ chain' # <<>> /\ 1 \in 1..Len(chain) - 1
    <3>1. Len(chain') \in Nat \ {0} /\ 1 \in 1..Len(chain) - 1
      BY <1>6, <1>1, <1>2
    <3> QED BY <3>1, EmptySeq
  <2>2. head' = chain[2] /\ chain'[1] = chain[2] /\ chain[2] # NULL
    BY <2>1, <1>1, <1>2, NullIsNoNode, ChainBasics
  <2>3. head # tail
    BY <2>1, <1>1 DEF NoCycle
  <2>4. chain'[Len(chain')] = chain[Len(chain)]
    BY <2>1, <1>1, <1>2
  <2>5. \A i \in 1..Len(chain') - 1 : next'[chain'[i]] = chain'[i + 1]
    BY <2>1, <1>1, <1>2
  <2> QED BY <2>1, <2>2, <2>3, <2>4, <2>5, <1>1, <1>2, <1>3, <1>4
<1> QED BY <1>5, <1>6

LEMMA RemovePreserves ==
  ASSUME IInv, sbuffer_remove
  PROVE  IInv'
<1>1. CASE Return(FAILURE) \/ Return(NO_DATA)
  BY <1>1, ReturnPreserves
<1>2. CASE ~ (Return(FAILURE) \/ Return(NO_DATA))
  <2>1. /\ buffer = "open" /\ head # NULL /\ out' = data[head] /\ Unlink
        /\ heap' = heap \ {head} /\ chain' = Tail(chain)
        /\ ret' = SUCCESS /\ UNCHANGED <<buffer, next, data>>
    BY <1>2 DEF sbuffer_remove, CopyData, FreeHead
  <2>2. TypeOK /\ head \in Addr
    BY <2>1 DEF IInv, TypeOK
  <2>3. head' = next[head] /\ (tail' = IF head = tail THEN NULL ELSE tail)
    BY <2>1 DEF Unlink, IInv, ListShape
  <2>4. /\ chain' \in Seq(Addr) /\ head' \in Addr \cup {NULL}
        /\ NoLeak' /\ NoCycle'
        /\ chain' = <<>> <=> head' = NULL
        /\ chain' = <<>> <=> head = tail
        /\ chain' # <<>> => /\ head' = chain'[1]
                            /\ tail = chain'[Len(chain')] /\ next'[tail] = NULL
        /\ \A i \in 1..Len(chain') - 1 : next'[chain'[i]] = chain'[i + 1]
    BY <2>1, <2>3, DropHead
  <2>5. TypeOK'
    BY <2>1, <2>2, <2>3, <2>4 DEF TypeOK
  <2>6. ListShape'
    BY <2>1, <2>2, <2>3, <2>4, NullIsNoNode DEF ListShape, TypeOK
  <2>7. FreedWhenNull'
    BY <2>1 DEF FreedWhenNull
  <2> QED BY <2>4, <2>5, <2>6, <2>7 DEF IInv
<1> QED BY <1>1, <1>2

LEMMA FreePreserves ==
  ASSUME IInv, sbuffer_free \/ FreeNode \/ FreeBuffer
  PROVE  IInv'
<1>1. CASE sbuffer_free
  <2>1. CASE Return(FAILURE)
    BY <2>1, ReturnPreserves
  <2>2. CASE ~ Return(FAILURE)
    BY <1>1, <2>2 DEF sbuffer_free, IInv, TypeOK, NoLeak, ListShape, FreedWhenNull,
                      NoCycle, ChainNodes
  <2> QED BY <2>1, <2>2
<1>2. CASE FreeNode
  <2>1. /\ chain' \in Seq(Addr) /\ head' \in Addr \cup {NULL}
        /\ NoLeak' /\ NoCycle'
        /\ chain' = <<>> <=> head' = NULL
        /\ chain' # <<>> => /\ head' = chain'[1]
                            /\ tail = chain'[Len(chain')] /\ next'[tail] = NULL
        /\ \A i \in 1..Len(chain') - 1 : next'[chain'[i]] = chain'[i + 1]
    BY <1>2, DropHead DEF FreeNode, FreeHead
  <2>2. TypeOK'
    BY <1>2, <2>1 DEF FreeNode, FreeHead, IInv, TypeOK
  <2>3. ListShape'
    BY <1>2, <2>1 DEF FreeNode, ListShape
  <2> QED BY <1>2, <2>1, <2>2, <2>3 DEF FreeNode, IInv, FreedWhenNull
<1>3. CASE FreeBuffer
  <2>1. chain = <<>> /\ heap = {}
    <3>1. chain = <<>> /\ Len(chain) = 0
      BY <1>3, ChainBasics DEF FreeBuffer, IInv, ListShape
    <3> QED BY <3>1 DEF IInv, NoLeak, ChainNodes
  <2>2. TypeOK' /\ FreedWhenNull'
    BY <1>3, <2>1 DEF FreeBuffer, IInv, TypeOK, FreedWhenNull
  <2>3. NoLeak' /\ ListShape'
    BY <1>3 DEF FreeBuffer, IInv, NoLeak, ListShape, NoCycle, ChainNodes
  <2> QED BY <2>2, <2>3 DEF IInv
<1> QED BY <1>1, <1>2, <1>3

LEMMA CreatePreserves ==
  ASSUME IInv, sbuffer_init
  PROVE  IInv'
<1>1. CASE Return(FAILURE)
  BY <1>1, ReturnPreserves
<1>2. CASE ~ Return(FAILURE)
  <2>1. /\ buffer = "null" /\ buffer' = "open" /\ head' = NULL /\ tail' = NULL
        /\ ret' = SUCCESS /\ UNCHANGED <<next, data, heap, out, chain>>
    BY <1>2 DEF sbuffer_init
  <2>2. chain = <<>> /\ Len(chain) = 0
    <3>1. ChainNodes = {}
      BY <2>1 DEF IInv, NoLeak, FreedWhenNull
    <3>2. Len(chain) \in Nat /\ (chain = <<>> <=> Len(chain) = 0)
      BY ChainBasics DEF IInv
    <3> QED BY <3>1, <3>2 DEF ChainNodes
  <2>3. TypeOK' /\ NoLeak' /\ FreedWhenNull'
    BY <2>1 DEF IInv, TypeOK, NoLeak, ChainNodes, FreedWhenNull
  <2>4. ListShape'
    BY <2>1, <2>2 DEF ListShape, NoCycle
  <2> QED BY <2>3, <2>4 DEF IInv
<1> QED BY <1>1, <1>2

\* The list structure of sbuffer.c stays sound under any sequence of calls:
\* typed, leak-free, acyclic, with both ends agreeing.
THEOREM Invariance == Spec => []IInv
<1>1. IInv /\ [Next]_vars => IInv'
  <2> SUFFICES ASSUME IInv, [Next]_vars PROVE IInv'
    OBVIOUS
  <2>1. CASE sbuffer_init
    BY <2>1, CreatePreserves
  <2>2. CASE sbuffer_remove
    BY <2>2, RemovePreserves
  <2>3. CASE sbuffer_free \/ FreeNode \/ FreeBuffer
    BY <2>3, FreePreserves
  <2>4. ASSUME NEW r \in Reading, sbuffer_insert(r) PROVE IInv'
    BY <2>4, InsertPreserves
  <2>5. CASE UNCHANGED vars
    <3>1. ret' \in {SUCCESS, FAILURE, NO_DATA}
      BY <2>5 DEF vars, IInv, TypeOK
    <3> QED BY <3>1, <2>5, CodeOnlyPreserves DEF vars
  <2> QED BY <2>1, <2>2, <2>3, <2>4, <2>5 DEF Next
<1> QED BY <1>1, InitEstablishes, PTL DEF Spec

\* The nodes malloc has given out and free has not taken back are those that are
\* linked: sbuffer_remove, sbuffer_free and a failed sbuffer_insert forget none.
THEOREM LeakFree == Spec => []NoLeak
<1>1. IInv => NoLeak
  BY DEF IInv
<1> QED BY <1>1, Invariance, PTL

\* head, tail and next of sbuffer.c describe one list that ends.
THEOREM ShapeKept == Spec => []ListShape
<1>1. IInv => ListShape
  BY DEF IInv
<1> QED BY <1>1, Invariance, PTL

-----------------------------------------------------------------------------
(* SBuffer implements ReadingQueue: every call of sbuffer.c is one call on  *)
(* the queue of readings found along the list, or a step inside its freeing.*)

LEMMA MapSeq ==
  ASSUME NEW ch \in Seq(Addr), NEW d \in [Addr -> Reading],
         NEW m, m = [i \in 1..Len(ch) |-> d[ch[i]]]
  PROVE  /\ m \in Seq(Reading)
         /\ Len(m) = Len(ch)
         /\ \A i \in 1..Len(ch) : m[i] = d[ch[i]]
<1>1. Len(ch) \in Nat /\ \A i \in 1..Len(ch) : ch[i] \in Addr
  OBVIOUS
<1>2. m \in [1..Len(ch) -> Reading]
  BY <1>1
<1>3. m \in Seq(Reading)
  BY <1>1, <1>2, SeqDef
<1>4. Len(m) = Len(ch)
  BY <1>1, <1>2, <1>3, LenProperties
<1> QED BY <1>1, <1>3, <1>4

LEMMA ContentsSeq ==
  ASSUME IInv, buffer = "open"
  PROVE  /\ Contents \in Seq(Reading)
         /\ Len(Contents) = Len(chain)
         /\ \A i \in 1..Len(chain) : Contents[i] = data[chain[i]]
BY MapSeq DEF IInv, TypeOK, Contents

LEMMA ContentsSeqNext ==
  ASSUME IInv', buffer' = "open"
  PROVE  /\ Contents' \in Seq(Reading)
         /\ Len(Contents') = Len(chain')
         /\ \A i \in 1..Len(chain') : Contents'[i] = data'[chain'[i]]
<1>1. chain' \in Seq(Addr) /\ data' \in [Addr -> Reading]
  BY DEF IInv, TypeOK
<1>2. Contents' = [i \in 1..Len(chain') |-> data'[chain'[i]]]
  BY DEF Contents
<1> QED BY <1>1, <1>2, MapSeq

LEMMA InsertSimulates ==
  ASSUME IInv, IInv', NEW r \in Reading, sbuffer_insert(r)
  PROVE  Queue!Insert(r)
<1>1. CASE Return(FAILURE)
  BY <1>1 DEF sbuffer_insert, Return, Queue!Insert, Queue!FAILURE, FAILURE, Contents,
              IInv, TypeOK
<1>2. CASE ~ Return(FAILURE)
  <2>1. PICK a \in Addr \ heap :
          /\ buffer = "open" /\ data' = [data EXCEPT ![a] = r]
          /\ chain' = Append(chain, a) /\ ret' = SUCCESS
          /\ UNCHANGED <<buffer, out>>
    BY <1>2 DEF sbuffer_insert
  <2>2. /\ Len(chain') = Len(chain) + 1
        /\ \A i \in 1..Len(chain) : chain'[i] = chain[i] /\ chain'[i] # a
        /\ chain'[Len(chain')] = a
    BY <2>1, AppendChain
  <2>3. /\ Contents \in Seq(Reading) /\ Len(Contents) = Len(chain)
        /\ \A i \in 1..Len(chain) : Contents[i] = data[chain[i]]
    BY <2>1, ContentsSeq
  <2>4. /\ Contents' \in Seq(Reading) /\ Len(Contents') = Len(chain')
        /\ \A i \in 1..Len(chain') : Contents'[i] = data'[chain'[i]]
    BY <2>1, ContentsSeqNext
  <2>5. Contents' = Append(Contents, r)
    <3>1. /\ Append(Contents, r) \in Seq(Reading)
          /\ Len(Append(Contents, r)) = Len(Contents) + 1
          /\ \A i \in 1..Len(Contents) : Append(Contents, r)[i] = Contents[i]
          /\ Append(Contents, r)[Len(Contents) + 1] = r
      BY <2>3, AppendProperties
    <3>2. Len(chain) \in Nat /\ (\A i \in 1..Len(chain) : chain[i] \in Addr)
          /\ data \in [Addr -> Reading]
      BY DEF IInv, TypeOK
    <3>3. ASSUME NEW i \in 1..Len(Contents')
          PROVE  Contents'[i] = Append(Contents, r)[i]
      <4>1. CASE i = Len(chain')
        BY <4>1, <3>1, <3>2, <2>1, <2>2, <2>3, <2>4
      <4>2. CASE i # Len(chain')
        <5>1. i \in 1..Len(chain)
          BY <4>2, <3>2, <2>2, <2>4
        <5>2. data'[chain[i]] = data[chain[i]]
          BY <5>1, <3>2, <2>1, <2>2
        <5> QED BY <5>1, <5>2, <3>1, <2>2, <2>3, <2>4
      <4> QED BY <4>1, <4>2
    <3> QED BY <3>1, <3>3, <2>2, <2>3, <2>4, SeqEqual
  <2> QED BY <2>1, <2>5 DEF Queue!Insert, Queue!SUCCESS, SUCCESS
<1> QED BY <1>1, <1>2

LEMMA RemoveSimulates ==
  ASSUME IInv, IInv', sbuffer_remove
  PROVE  Queue!Remove
<1>1. CASE buffer = "null" /\ Return(FAILURE)
  BY <1>1 DEF Return, Queue!Remove, Queue!FAILURE, FAILURE, Contents
<1>2. CASE buffer = "open" /\ head = NULL /\ Return(NO_DATA)
  <2>1. chain = <<>> /\ Len(chain) = 0
    BY <1>2, ChainBasics DEF IInv, ListShape
  <2>2. Contents = <<>>
    BY <2>1, <1>2, ContentsSeq, EmptySeq
  <2> QED BY <1>2, <2>2 DEF Return, Queue!Remove, Queue!NO_DATA, NO_DATA, Contents
<1>3. CASE buffer = "open" /\ head # NULL
  <2>1. /\ buffer = "open" /\ head # NULL /\ out' = data[head] /\ Unlink
        /\ chain' = Tail(chain) /\ ret' = SUCCESS /\ UNCHANGED <<buffer, next, data>>
    BY <1>3 DEF sbuffer_remove, CopyData, FreeHead
  <2>2. chain # <<>> /\ head = chain[1] /\ Len(chain) \in Nat \ {0}
    BY <2>1 DEF IInv, ListShape, TypeOK
  <2>3. /\ Len(chain') = Len(chain) - 1
        /\ \A i \in 1..Len(chain') : chain'[i] = chain[i + 1]
    BY <2>1, <2>2, TailChain
  <2>4. /\ Contents \in Seq(Reading) /\ Len(Contents) = Len(chain)
        /\ \A i \in 1..Len(chain) : Contents[i] = data[chain[i]]
    BY <2>1, ContentsSeq
  <2>5. /\ Contents' \in Seq(Reading) /\ Len(Contents') = Len(chain')
        /\ \A i \in 1..Len(chain') : Contents'[i] = data'[chain'[i]]
    BY <2>1, ContentsSeqNext
  <2>6. Contents # <<>> /\ out' = Head(Contents)
    <3>1. Len(Contents) # 0
      BY <2>2, <2>4
    <3>2. Contents # <<>>
      BY <3>1, <2>4, EmptySeq
    <3>3. Head(Contents) = Contents[1]
      BY <3>2, <2>4, HeadTailProperties
    <3>4. Contents[1] = data[chain[1]]
      BY <2>2, <2>4
    <3> QED BY <3>2, <3>3, <3>4, <2>1, <2>2
  <2>7. Contents' = Tail(Contents)
    <3>1. /\ Tail(Contents) \in Seq(Reading)
          /\ Len(Tail(Contents)) = Len(Contents) - 1
          /\ \A i \in 1..Len(Tail(Contents)) : Tail(Contents)[i] = Contents[i + 1]
      BY <2>4, <2>6, HeadTailProperties
    <3>2. Len(chain) - 1 \in Nat /\ Len(chain') = Len(chain) - 1
      BY <2>2, <2>3
    <3>3. ASSUME NEW i \in 1..Len(chain')
          PROVE  Contents'[i] = Tail(Contents)[i]
      <4>1. i \in Nat /\ i + 1 \in 1..Len(chain) /\ i \in 1..Len(Tail(Contents))
        BY <2>2, <2>4, <3>1, <3>2
      <4>2. Contents'[i] = data[chain[i + 1]]
        BY <2>1, <2>3, <2>5
      <4>3. Tail(Contents)[i] = data[chain[i + 1]]
        BY <4>1, <3>1, <2>4
      <4> QED BY <4>2, <4>3
    <3>4. Len(Contents') = Len(Tail(Contents))
      BY <3>1, <3>2, <2>4, <2>5
    <3>5. \A i \in 1..Len(Contents') : Contents'[i] = Tail(Contents)[i]
      BY <3>3, <2>5
    <3> QED BY <3>1, <3>4, <3>5, <2>5, SeqEqual
  <2> QED BY <2>1, <2>6, <2>7 DEF Queue!Remove, Queue!SUCCESS, SUCCESS
<1> QED BY <1>1, <1>2, <1>3 DEF sbuffer_remove

LEMMA CreateSimulates ==
  ASSUME IInv, IInv', sbuffer_init
  PROVE  Queue!Create
<1>1. CASE Return(FAILURE)
  BY <1>1 DEF sbuffer_init, Return, Queue!Create, Queue!FAILURE, FAILURE, Contents
<1>2. CASE ~ Return(FAILURE)
  <2>1. /\ buffer = "null" /\ buffer' = "open" /\ ret' = SUCCESS
        /\ head' = NULL /\ UNCHANGED <<out, chain>>
    BY <1>2 DEF sbuffer_init
  <2>2. Contents = <<>>
    BY <2>1 DEF Contents
  <2>3. Contents' = <<>>
    <3>1. chain' = <<>> /\ Len(chain') = 0
      BY <2>1, EmptySeq DEF IInv, ListShape
    <3>2. chain' = <<>> /\ buffer' = "open" /\ Len(chain') = 0
      BY <2>1, <3>1
    <3>3. Contents' \in Seq(Reading) /\ Len(Contents') = 0
      BY <2>1, <3>2, ContentsSeqNext
    <3> QED BY <3>3, EmptySeq
  <2> QED BY <2>1, <2>2, <2>3 DEF Queue!Create, Queue!SUCCESS, SUCCESS
<1> QED BY <1>1, <1>2

LEMMA FreeSimulates ==
  ASSUME IInv, IInv', sbuffer_free \/ FreeNode \/ FreeBuffer
  PROVE  Queue!Destroy \/ UNCHANGED Queue!vars
<1>1. CASE sbuffer_free
  <2>1. CASE buffer = "null" /\ Return(FAILURE)
    BY <2>1 DEF Return, Queue!Destroy, Queue!FAILURE, FAILURE, Contents
  <2>2. CASE buffer = "open" /\ buffer' = "freeing" /\ UNCHANGED <<ret, out>>
    BY <2>2 DEF Queue!Destroy, Contents
  <2> QED BY <1>1, <2>1, <2>2 DEF sbuffer_free
<1>2. CASE FreeNode
  BY <1>2 DEF FreeNode, Queue!vars, Contents
<1>3. CASE FreeBuffer
  BY <1>3 DEF FreeBuffer, Queue!Destroy, Queue!SUCCESS, SUCCESS, Contents
<1> QED BY <1>1, <1>2, <1>3

\* sbuffer.c implements the FIFO queue that sbuffer.h promises, for every
\* set of addresses and readings, as long as calls do not overlap.
THEOREM Refinement == Spec => ImplementsQueue
<1>1. Init => Queue!Init
  BY DEF Init, Queue!Init, Contents, SUCCESS, Queue!SUCCESS
<1>2. IInv /\ IInv' /\ [Next]_vars => [Queue!Next]_(Queue!vars)
  <2> SUFFICES ASSUME IInv, IInv', [Next]_vars
               PROVE  Queue!Next \/ UNCHANGED Queue!vars
    OBVIOUS
  <2>1. CASE sbuffer_init
    BY <2>1, CreateSimulates DEF Queue!Next
  <2>2. CASE sbuffer_remove
    BY <2>2, RemoveSimulates DEF Queue!Next
  <2>3. CASE sbuffer_free \/ FreeNode \/ FreeBuffer
    BY <2>3, FreeSimulates DEF Queue!Next
  <2>4. ASSUME NEW r \in Reading, sbuffer_insert(r)
        PROVE  Queue!Next
    BY <2>4, InsertSimulates DEF Queue!Next
  <2>5. CASE UNCHANGED vars
    BY <2>5 DEF vars, Queue!vars, Contents
  <2> QED BY <2>1, <2>2, <2>3, <2>4, <2>5 DEF Next
<1> QED BY <1>1, <1>2, Invariance, PTL DEF Spec, ImplementsQueue, Queue!Spec
=============================================================================
