------------------------ MODULE SBufferThreads_proofs -----------------------
(***************************************************************************)
(* Proofs about SBufferThreads for any number of consumers, addresses and  *)
(* readings: what the interleaved accesses of sbuffer_insert and           *)
(* sbuffer_remove keep although no lock is taken.                          *)
(***************************************************************************)
EXTENDS SBufferThreads, Integers, SequenceTheorems, TLAPS

-----------------------------------------------------------------------------
(* Types. *)

TypeInv ==
  /\ TypeOK
  /\ inserted \in Seq(Contents) /\ got \in Seq(Contents)
  /\ Len(inserted) <= MaxReadings
  /\ pc[Producer] # "idle" => dummy[Producer] \in Addr

LEMMA ThreadFacts ==
  /\ Producer \in Threads /\ Consumers \subseteq Threads
  /\ \A c \in Consumers : c # Producer
  BY ThreadsDiffer DEF Threads

\* Thread t goes from line from to line to.
LEMMA GoTypes ==
  ASSUME TypeInv, NEW t \in Threads, NEW from, NEW to \in Lines, Go(t, from, to)
  PROVE  /\ pc' \in [Threads -> Lines] /\ pc[t] = from /\ pc'[t] = to
         /\ \A u \in Threads \ {t} : pc'[u] = pc[u]
         /\ fault = "none"
  BY DEF Go, TypeInv, TypeOK

\* The accesses that change a pointer keep its type.
LEMMA AccessTypes ==
  ASSUME TypeInv, NEW t \in Threads, NEW x \in Pointers,
         NEW from \in Lines \ {"idle"}, NEW to \in Lines,
         Load(t, from, x, to) \/ StoreHead(t, from, x, to) \/ StoreTail(t, from, x, to)
           \/ AssignedValue(t, from, x, to) \/ LoadNext(t, from, to)
  PROVE  TypeInv'
PROOF
<1>1. /\ pc' \in [Threads -> Lines] /\ fault' = fault
      /\ (pc'[Producer] # "idle" => pc[Producer] # "idle")
      /\ UNCHANGED <<next, data, heap, dummy, item, left, inserted, got,
                     drained, overlapped, used, reused>>
  <2>1. Go(t, from, to) /\ fault' = fault
        /\ UNCHANGED <<next, data, heap, dummy, item, left, inserted, got,
                     drained, overlapped, used, reused>>
    BY DEF Load, StoreHead, StoreTail, AssignedValue, LoadNext, memory, locals, record
  <2> QED BY <2>1, GoTypes, ThreadFacts
<1>2. head' \in Pointers /\ tail' \in Pointers
  BY DEF Load, StoreHead, StoreTail, AssignedValue, LoadNext, memory, TypeInv, TypeOK
<1>3. p' \in [Threads -> Pointers]
  BY DEF Load, StoreHead, StoreTail, AssignedValue, LoadNext, locals, TypeInv, TypeOK
<1>4. q' \in [Threads -> Pointers]
  <2>1. CASE LoadNext(t, from, to)
    <3>1. next[p[t]] \in Pointers /\ q' = [q EXCEPT ![t] = next[p[t]]]
      BY <2>1 DEF LoadNext, TypeInv, TypeOK
    <3> QED BY <3>1 DEF TypeInv, TypeOK
  <2>2. CASE AssignedValue(t, from, x, to)
    BY <2>2 DEF AssignedValue, TypeInv, TypeOK
  <2>3. CASE Load(t, from, x, to) \/ StoreHead(t, from, x, to) \/ StoreTail(t, from, x, to)
    BY <2>3 DEF Load, StoreHead, StoreTail, locals, TypeInv, TypeOK
  <2> QED BY <2>1, <2>2, <2>3
<1> QED BY <1>1, <1>2, <1>3, <1>4 DEF TypeInv, TypeOK

LEMMA WordTypes ==
  ASSUME TypeInv, NEW n \in 0..MaxReadings
  PROVE  /\ Reading(n) \in Contents /\ Unwritten \in Contents
         /\ Len(inserted) \in 0..MaxReadings
         /\ \A x \in Contents, w \in Words, v \in 0..MaxReadings : [x EXCEPT ![w] = v] \in Contents
PROOF
<1>1. Len(inserted) \in Nat
  BY LenProperties DEF TypeInv
<1>2. 0 \in 0..MaxReadings
  BY BoundAssumption
<1>3. Len(inserted) \in 0..MaxReadings
  BY <1>1, BoundAssumption DEF TypeInv
<1> QED BY <1>2, <1>3 DEF Reading, Unwritten, Garbage, Contents

LEMMA InsertTypes ==
  ASSUME TypeInv, sbuffer_insert(Producer) PROVE TypeInv'
PROOF
<1> DEFINE t == Producer
<1>1. t \in Threads /\ \A c \in Consumers : c # t
  BY ThreadFacts
<1> USE DEF Go, memory, locals, record
<1>2. CASE Malloc(t)
  <2>1. Len(inserted) \in Nat /\ Len(inserted) + 1 \in 0..MaxReadings
    BY <1>2, LenProperties, BoundAssumption DEF Malloc, TypeInv
  <2>2. Reading(Len(inserted) + 1) \in Contents /\ Unwritten \in Contents
    BY <2>1, WordTypes
  <2>3. inserted' \in Seq(Contents) /\ Len(inserted') <= MaxReadings
    <3>1. inserted' = Append(inserted, Reading(Len(inserted) + 1))
      BY <1>2 DEF Malloc
    <3> QED BY <2>1, <2>2, <3>1, AppendProperties DEF TypeInv
  <2>4. PICK a \in Addr \ heap, x \in Pointers :
          /\ heap' = heap \cup {a} /\ dummy' = [dummy EXCEPT ![t] = a]
          /\ next' = [next EXCEPT ![a] = x] /\ data' = [data EXCEPT ![a] = Unwritten]
          /\ used' = used \cup {a} /\ reused' = (reused \/ a \in used)
    BY <1>2 DEF Malloc
  <2>5. /\ pc' = [pc EXCEPT ![t] = "65"] /\ left' = [left EXCEPT ![t] = Words]
        /\ UNCHANGED <<head, tail, p, q, item, fault, got, drained, overlapped>>
    BY <1>2 DEF Malloc
  <2>6. dummy' \in [Threads -> Pointers] /\ dummy'[Producer] \in Addr
    BY <1>1, <2>4 DEF TypeInv, TypeOK, Pointers
  <2>7. data' \in [Addr -> Contents] /\ next' \in [Addr -> Pointers] /\ heap' \subseteq Addr
    BY <2>2, <2>4 DEF TypeInv, TypeOK
  <2>8. used' \subseteq Addr /\ reused' \in BOOLEAN
    BY <2>4 DEF TypeInv, TypeOK
  <2>9. pc' \in [Threads -> Lines] /\ left' \in [Threads -> SUBSET Words]
    BY <1>1, <2>5 DEF TypeInv, TypeOK, Lines
  <2> QED BY <2>3, <2>5, <2>6, <2>7, <2>8, <2>9 DEF TypeInv, TypeOK
<1>3. CASE MallocFails(t)
  BY <1>1, <1>3 DEF MallocFails, TypeInv, TypeOK, Lines
<1>4. CASE StoreWord(t)
  <2>1. PICK w \in left[t] :
          /\ pc' = [pc EXCEPT ![t] = IF left[t] = {w} THEN "66" ELSE "65"] /\ pc[t] = "65"
          /\ data' = [data EXCEPT ![dummy[t]] = [@ EXCEPT ![w] = Len(inserted)]]
          /\ left' = [left EXCEPT ![t] = @ \ {w}]
          /\ UNCHANGED <<head, tail, next, heap, dummy, p, q, item, fault, record>>
    BY <1>4 DEF StoreWord
  <2>2. dummy[t] \in Addr /\ w \in Words
    BY <1>1, <2>1 DEF TypeInv, TypeOK
  <2>3. [data[dummy[t]] EXCEPT ![w] = Len(inserted)] \in Contents
    BY <2>2, BoundAssumption, WordTypes DEF TypeInv, TypeOK
  <2>4. data' \in [Addr -> Contents] /\ left' \in [Threads -> SUBSET Words]
    BY <1>1, <2>1, <2>2, <2>3 DEF TypeInv, TypeOK
  <2>5. pc' \in [Threads -> Lines]
    BY <1>1, <2>1 DEF TypeInv, TypeOK, Lines
  <2> QED BY <2>1, <2>2, <2>4, <2>5 DEF TypeInv, TypeOK
<1>5. CASE ClearNext(t) \/ TestTail(t) \/ LinkBehindTail(t)
  <2>1. \E from \in Lines \ {"idle"}, to \in Lines : Go(t, from, to)
    BY <1>5 DEF ClearNext, TestTail, LinkBehindTail, Lines
  <2>2. pc' \in [Threads -> Lines] /\ pc[t] # "idle" /\ dummy[t] \in Addr
    BY <1>1, <2>1, GoTypes DEF TypeInv
  <2>3. next' \in [Addr -> Pointers]
    BY <1>5, <2>2 DEF ClearNext, TestTail, LinkBehindTail, TypeInv, TypeOK, Pointers
  <2>4. UNCHANGED <<head, tail, data, heap, locals, fault, record>>
    BY <1>5 DEF ClearNext, TestTail, LinkBehindTail
  <2> QED BY <2>2, <2>3, <2>4 DEF TypeInv, TypeOK
<1>6. /\ dummy[t] \in Pointers /\ q[t] \in Pointers /\ tail \in Pointers
  BY <1>1 DEF TypeInv, TypeOK
<1>7. CASE \/ StoreTail(t, "69a", dummy[t], "69b") \/ AssignedValue(t, "69b", dummy[t], "69c")
           \/ StoreHead(t, "69c", q[t], "idle") \/ Load(t, "71a", tail, "71b")
           \/ Load(t, "72a", tail, "72b") \/ LoadNext(t, "72b", "72c")
           \/ StoreTail(t, "72c", q[t], "idle")
  BY <1>1, <1>6, <1>7, AccessTypes DEF Lines
<1> QED BY <1>2, <1>3, <1>4, <1>5, <1>7 DEF sbuffer_insert

LEMMA RemoveTypes ==
  ASSUME TypeInv, NEW t \in Consumers, sbuffer_remove(t) PROVE TypeInv'
PROOF
<1>1. t \in Threads /\ t # Producer
  BY ThreadFacts
<1> USE DEF Go, memory, locals, record
<1>2. CASE NoData(t) \/ SomeData(t) \/ CompareTail(t) \/ FreeTwice(t)
  <2>1. pc' \in [Threads -> Lines] /\ pc'[Producer] = pc[Producer]
    BY <1>1, <1>2, ThreadFacts DEF NoData, SomeData, CompareTail, FreeTwice, TypeInv, TypeOK, Lines
  <2>2. drained' \in BOOLEAN /\ overlapped' \in BOOLEAN
    BY <1>2 DEF NoData, SomeData, CompareTail, FreeTwice, TypeInv, TypeOK
  <2>3. /\ UNCHANGED <<memory, locals, inserted, got, used, reused>>
        /\ fault' \in {"none", "null_deref", "bad_access", "bad_free"}
    BY <1>2 DEF NoData, SomeData, CompareTail, FreeTwice, TypeInv, TypeOK
  <2> QED BY <2>1, <2>2, <2>3 DEF TypeInv, TypeOK
<1>3. CASE CopyWord(t)
  <2>1. PICK w \in left[t] :
          /\ pc' = [pc EXCEPT ![t] = IF left[t] = {w} THEN "49" ELSE "48b"] /\ p[t] \in heap
          /\ item' = [item EXCEPT ![t] = [@ EXCEPT ![w] = data[p[t]][w]]]
          /\ left' = [left EXCEPT ![t] = @ \ {w}]
          /\ UNCHANGED <<memory, dummy, p, q, fault, record>>
    BY <1>3 DEF CopyWord
  <2>2. p[t] \in Addr /\ w \in Words
    BY <1>1, <2>1 DEF TypeInv, TypeOK
  <2>3. data[p[t]] \in Contents /\ data[p[t]][w] \in 0..MaxReadings
    BY <2>2 DEF TypeInv, TypeOK, Contents
  <2>4. [item[t] EXCEPT ![w] = data[p[t]][w]] \in Contents
    BY <2>2, <2>3, WordTypes DEF TypeInv, TypeOK
  <2>5. item' \in [Consumers -> Contents] /\ left' \in [Threads -> SUBSET Words]
    BY <1>1, <2>1, <2>4 DEF TypeInv, TypeOK
  <2>6. pc' \in [Threads -> Lines] /\ pc'[Producer] = pc[Producer]
    BY <1>1, <2>1, ThreadFacts DEF TypeInv, TypeOK, Lines
  <2> QED BY <2>1, <2>5, <2>6 DEF TypeInv, TypeOK
<1>4. CASE FollowHead(t)
  BY <1>1, <1>4, ThreadFacts DEF FollowHead, TypeInv, TypeOK, Lines
<1>5. CASE TakeHead(t)
  BY <1>1, <1>5, ThreadFacts DEF TakeHead, TypeInv, TypeOK, Lines
<1>6. CASE FreeNode(t)
  <2>1. got' \in Seq(Contents)
    BY <1>6, AppendProperties DEF FreeNode, TypeInv, TypeOK
  <2>2. item' \in [Consumers -> Contents]
    <3>1. Unwritten \in Contents
      BY WordTypes, BoundAssumption
    <3> QED BY <1>6, <3>1 DEF FreeNode, TypeInv, TypeOK
  <2>3. p' \in [Threads -> Pointers] /\ q' \in [Threads -> Pointers]
    BY <1>6 DEF FreeNode, TypeInv, TypeOK, Pointers
  <2> QED BY <1>1, <1>6, <2>1, <2>2, <2>3 DEF FreeNode, TypeInv, TypeOK, Lines
<1>7. /\ NULL \in Pointers /\ q[t] \in Pointers /\ head \in Pointers
  BY <1>1 DEF TypeInv, TypeOK, Pointers
<1>8. CASE \/ Load(t, "50a", head, "50b") \/ StoreTail(t, "52a", NULL, "52b")
           \/ AssignedValue(t, "52b", NULL, "52c") \/ StoreHead(t, "52c", q[t], "56")
           \/ Load(t, "54a", head, "54b") \/ LoadNext(t, "54b", "54c")
           \/ StoreHead(t, "54c", q[t], "56")
  BY <1>1, <1>7, <1>8, AccessTypes DEF Lines
<1> QED BY <1>2, <1>3, <1>4, <1>5, <1>6, <1>8 DEF sbuffer_remove

LEMMA TypeInvStep ==
  ASSUME TypeInv, [Next]_vars PROVE TypeInv'
PROOF
<1>1. ASSUME NEW t \in Threads, BadAccess(t) PROVE TypeInv'
  BY <1>1 DEF BadAccess, TypeInv, TypeOK, memory, locals, record
<1>2. CASE UNCHANGED vars
  BY <1>2 DEF vars, TypeInv, TypeOK, memory, locals, record
<1> QED BY <1>1, <1>2, InsertTypes, RemoveTypes DEF Next, Crashed

LEMMA TypeInvInit == Init => TypeInv
PROOF
<1> SUFFICES ASSUME Init PROVE TypeInv
  OBVIOUS
<1>1. inserted \in Seq(Contents) /\ got \in Seq(Contents) /\ Len(inserted) = 0
  BY EmptySeq DEF Init
<1>2. Unwritten \in Contents /\ "idle" \in Lines
  BY BoundAssumption DEF Unwritten, Garbage, Contents, Lines
<1>3. TypeOK
  BY <1>2 DEF Init, TypeOK, Pointers
<1> QED BY <1>1, <1>3, BoundAssumption, ThreadFacts DEF Init, TypeInv

\* Every variable has its type in every interleaving; in particular a
\* consumer never takes the address of a node for a reading.
THEOREM TypeInvariance == Spec => []TypeOK
<1>1. TypeInv => TypeOK
  BY DEF TypeInv
<1> QED BY <1>1, TypeInvInit, TypeInvStep, PTL DEF Spec

-----------------------------------------------------------------------------
(* Until an address is given out again, nobody reads a node before it is  *)
(* filled.                                                                 *)

\* What a pointer may lead to: a node whose insertion is past lines 65 and 66.
Built == {a \in used : pc[Producer] \in {"65", "66"} => a # dummy[Producer]} \cup {NULL}

FilledBy(a) == data[a] \in ToSet(inserted) /\ next[a] \in Built

\* What the producer has stored in the node under insertion.
NewInv ==
  /\ pc[Producer] # "idle" => dummy[Producer] \in used
  /\ pc[Producer] \in {"65", "66"} => Reading(Len(inserted)) \in ToSet(inserted)
  /\ pc[Producer] = "65" =>
       \A w \in Words \ left[Producer] : data[dummy[Producer]][w] = Len(inserted)
  /\ pc[Producer] = "66" => data[dummy[Producer]] = Reading(Len(inserted))

\* What consumer c has copied.
CopyInv(c) ==
  /\ pc[c] = "48b" => \A w \in Words \ left[c] : p[c] \in Addr /\ item[c][w] = data[p[c]][w]
  /\ pc[c] \notin {"idle", "48a", "48b"} => item[c] \in ToSet(inserted)

FillInv == ~ reused =>
  /\ head \in Built /\ tail \in Built
  /\ \A t \in Threads : p[t] \in Built /\ q[t] \in Built
  /\ \A a \in Built \ {NULL} : FilledBy(a)
  /\ NewInv
  /\ \A c \in Consumers : CopyInv(c)
  /\ ToSet(got) \subseteq ToSet(inserted)

\* What an Append adds to the members of a sequence.
Adds(t, s, e) == ToSet(t) = ToSet(s) \cup {e}

LEMMA AppendSet ==
  ASSUME NEW S, NEW s \in Seq(S), NEW e \in S
  PROVE  Adds(Append(s, e), s, e)
PROOF
<1> DEFINE t == Append(s, e)
<1>1. Len(s) \in Nat /\ DOMAIN s = 1..Len(s)
  BY LenProperties
<1>2. /\ Len(t) = Len(s) + 1 /\ DOMAIN t = 1..Len(s) + 1
      /\ \A i \in 1..Len(s) : t[i] = s[i]
      /\ t[Len(s) + 1] = e
  BY AppendProperties, LenProperties
<1> HIDE DEF t
<1>3. \A i \in 1..Len(s) + 1 : i \in 1..Len(s) \/ i = Len(s) + 1
  BY <1>1
<1>4. \A i \in 1..Len(s) : i \in 1..Len(s) + 1
  BY <1>1
<1>5. Len(s) + 1 \in 1..Len(s) + 1
  BY <1>1
<1>6. ToSet(t) = ToSet(s) \cup {e}
  BY <1>1, <1>2, <1>3, <1>4, <1>5 DEF ToSet
<1> QED BY <1>6 DEF t, Adds

\* The accesses that change a pointer.
LEMMA AccessFill ==
  ASSUME TypeInv, FillInv, ~ reused, NEW t \in Threads, NEW x \in Built,
         NEW from \in Lines \ {"idle", "65", "66", "48a", "48b"},
         NEW to \in Lines \ {"65", "66", "48b"},
         Load(t, from, x, to) \/ StoreHead(t, from, x, to) \/ StoreTail(t, from, x, to)
           \/ AssignedValue(t, from, x, to) \/ LoadNext(t, from, to)
  PROVE  FillInv'
PROOF
<1>1. Go(t, from, to) /\ UNCHANGED <<next, data, heap, dummy, item, left, inserted, got, used, reused>>
  BY DEF Load, StoreHead, StoreTail, AssignedValue, LoadNext, memory, locals, record
<1>2. /\ pc[t] = from /\ pc'[t] = to /\ \A u \in Threads \ {t} : pc'[u] = pc[u]
  BY <1>1, GoTypes
<1>3. /\ (pc'[Producer] = "65") = (pc[Producer] = "65")
      /\ (pc'[Producer] = "66") = (pc[Producer] = "66")
      /\ (pc'[Producer] # "idle" => pc[Producer] # "idle")
  BY <1>2, ThreadFacts
<1>4. Built' = Built
  BY <1>1, <1>3 DEF Built
<1>5. head' \in Built /\ tail' \in Built
  <2>1. q[t] \in Built
    BY DEF FillInv
  <2> QED BY <2>1 DEF Load, StoreHead, StoreTail, AssignedValue, LoadNext, memory, FillInv
<1>6. \A u \in Threads : p'[u] \in Built
  BY DEF Load, StoreHead, StoreTail, AssignedValue, LoadNext, locals, FillInv, TypeInv, TypeOK
<1>7. \A u \in Threads : q'[u] \in Built
  <2>1. CASE LoadNext(t, from, to)
    <3>1. p[t] \in Built \ {NULL} /\ q' = [q EXCEPT ![t] = next[p[t]]]
      BY <2>1, NullIsNoNode DEF LoadNext, FillInv, TypeInv, TypeOK
    <3>2. next[p[t]] \in Built
      BY <3>1 DEF FillInv, FilledBy
    <3> QED BY <3>1, <3>2 DEF FillInv, TypeInv, TypeOK
  <2>2. CASE AssignedValue(t, from, x, to)
    <3>1. PICK v \in {x, tail} : q' = [q EXCEPT ![t] = v]
      BY <2>2 DEF AssignedValue
    <3> QED BY <3>1 DEF FillInv, TypeInv, TypeOK
  <2>3. CASE Load(t, from, x, to) \/ StoreHead(t, from, x, to) \/ StoreTail(t, from, x, to)
    BY <2>3 DEF Load, StoreHead, StoreTail, locals, FillInv
  <2> QED BY <2>1, <2>2, <2>3
<1>8. \A a \in Built \ {NULL} : FilledBy(a)'
  BY <1>1, <1>4 DEF FillInv, FilledBy
<1>9. NewInv'
  BY <1>1, <1>3 DEF FillInv, NewInv
<1>10. ASSUME NEW c \in Consumers PROVE CopyInv(c)'
  <2>1. /\ pc'[c] = "48b" => pc[c] = "48b" /\ c # t
        /\ pc'[c] \notin {"idle", "48a", "48b"} => pc[c] \notin {"idle", "48a", "48b"}
    BY <1>2, ThreadFacts
  <2>2. c # t => p'[c] = p[c]
    BY ThreadFacts DEF Load, StoreHead, StoreTail, AssignedValue, LoadNext, locals, TypeInv, TypeOK
  <2> QED BY <1>1, <2>1, <2>2 DEF FillInv, CopyInv
<1> QED BY <1>1, <1>4, <1>5, <1>6, <1>7, <1>8, <1>9, <1>10 DEF FillInv

LEMMA InsertFill ==
  ASSUME TypeInv, FillInv, ~ reused', sbuffer_insert(Producer) PROVE FillInv'
PROOF
<1> DEFINE t == Producer
<1>1. t \in Threads /\ \A c \in Consumers : c # t /\ c \in Threads
  BY ThreadFacts
<1> USE DEF memory, locals, record
<1>2. CASE Malloc(t)
  <2>1. PICK a \in Addr \ heap, x \in Pointers :
          /\ dummy' = [dummy EXCEPT ![t] = a]
          /\ next' = [next EXCEPT ![a] = x] /\ data' = [data EXCEPT ![a] = Unwritten]
          /\ used' = used \cup {a} /\ reused' = (reused \/ a \in used)
    BY <1>2 DEF Malloc
  <2>2. ~ reused /\ a \notin used
    BY <2>1
  <2>3. /\ inserted' = Append(inserted, Reading(Len(inserted) + 1))
        /\ pc[t] = "idle" /\ pc' = [pc EXCEPT ![t] = "65"] /\ left' = [left EXCEPT ![t] = Words]
        /\ UNCHANGED <<head, tail, p, q, item, got>>
        /\ Len(inserted) < MaxReadings
    BY <1>2 DEF Malloc, Go
  <2>4. /\ pc'[t] = "65" /\ \A c \in Consumers : pc'[c] = pc[c]
        /\ dummy'[t] = a /\ left'[t] = Words /\ \A c \in Consumers : left'[c] = left[c]
    BY <1>1, <2>1, <2>3 DEF TypeInv, TypeOK
  <2>5. /\ Len(inserted') = Len(inserted) + 1
        /\ ToSet(inserted') = ToSet(inserted) \cup {Reading(Len(inserted) + 1)}
    <3>1. Len(inserted) \in Nat /\ Len(inserted) + 1 \in 0..MaxReadings
      BY <2>3, LenProperties, BoundAssumption DEF TypeInv
    <3>2. Reading(Len(inserted) + 1) \in Contents /\ inserted \in Seq(Contents)
      BY <3>1, WordTypes DEF TypeInv
    <3>3. Adds(Append(inserted, Reading(Len(inserted) + 1)), inserted, Reading(Len(inserted) + 1))
      BY <3>2, AppendSet
    <3> QED BY <2>3, <3>2, <3>3, AppendProperties DEF Adds
  <2>6. Built' = Built /\ a \notin Built
    <3>1. Built = used \cup {NULL}
      BY <2>3 DEF Built
    <3>2. Built' = {b \in used' : b # a} \cup {NULL}
      BY <2>4 DEF Built
    <3>3. a # NULL
      BY <2>1, NullIsNoNode
    <3> QED BY <2>1, <2>2, <3>1, <3>2, <3>3
  <2>7. \A b \in Built \ {NULL} : FilledBy(b)'
    <3>1. ASSUME NEW b \in Built \ {NULL} PROVE FilledBy(b)'
      <4>1. b # a /\ b \in Addr /\ FilledBy(b)
        BY <2>2, <2>6 DEF FillInv, Built, TypeInv, TypeOK
      <4>2. data'[b] = data[b] /\ next'[b] = next[b]
        BY <2>1, <4>1 DEF TypeInv, TypeOK
      <4> QED BY <2>5, <2>6, <4>1, <4>2 DEF FilledBy
    <3> QED BY <3>1
  <2>8. NewInv'
    BY <2>1, <2>4, <2>5 DEF NewInv
  <2>9. ASSUME NEW c \in Consumers PROVE CopyInv(c)'
    <3>1. CopyInv(c) /\ p[c] # a
      BY <1>1, <2>2, <2>6 DEF FillInv
    <3>2. p[c] \in Addr => data'[p[c]] = data[p[c]]
      BY <2>1, <3>1 DEF TypeInv, TypeOK
    <3> QED BY <2>3, <2>4, <2>5, <3>1, <3>2 DEF CopyInv
  <2> QED BY <2>2, <2>3, <2>5, <2>6, <2>7, <2>8, <2>9 DEF FillInv
<1>3. CASE MallocFails(t)
  <2>1. pc' = [pc EXCEPT ![t] = "idle"] /\ pc[t] = "idle" /\ UNCHANGED <<memory, locals, record>>
    BY <1>3 DEF MallocFails, Go
  <2>2. pc' = pc
    BY <1>1, <2>1 DEF TypeInv, TypeOK
  <2> QED BY <2>1, <2>2 DEF FillInv, Built, FilledBy, NewInv, CopyInv
<1>4. CASE StoreWord(t)
  <2>1. PICK w \in left[t] :
          /\ pc' = [pc EXCEPT ![t] = IF left[t] = {w} THEN "66" ELSE "65"] /\ pc[t] = "65"
          /\ data' = [data EXCEPT ![dummy[t]] = [@ EXCEPT ![w] = Len(inserted)]]
          /\ left' = [left EXCEPT ![t] = @ \ {w}]
          /\ UNCHANGED <<head, tail, next, heap, dummy, p, q, item, fault, record>>
    BY <1>4 DEF StoreWord, Go
  <2>2. /\ dummy[t] \in Addr /\ w \in Words /\ left'[t] = left[t] \ {w} /\ left[t] \subseteq Words
        /\ \A c \in Consumers : pc'[c] = pc[c] /\ left'[c] = left[c]
        /\ pc'[t] = IF left[t] = {w} THEN "66" ELSE "65"
    BY <1>1, <2>1 DEF TypeInv, TypeOK
  <2>3. Built' = Built /\ dummy[t] \notin Built /\ ~ reused
    BY <2>1, <2>2, NullIsNoNode DEF Built
  <2>4. /\ data'[dummy[t]] = [data[dummy[t]] EXCEPT ![w] = Len(inserted)]
        /\ \A b \in Addr \ {dummy[t]} : data'[b] = data[b]
    BY <2>1, <2>2 DEF TypeInv, TypeOK
  <2>5. data[dummy[t]] \in [Words -> 0..MaxReadings]
    BY <2>2 DEF TypeInv, TypeOK, Contents
  <2>6. \A b \in Built \ {NULL} : FilledBy(b)'
    <3>1. ASSUME NEW b \in Built \ {NULL} PROVE FilledBy(b)'
      <4>1. b \in Addr \ {dummy[t]} /\ FilledBy(b)
        BY <2>3 DEF FillInv, Built, TypeInv, TypeOK
      <4> QED BY <2>1, <2>3, <2>4, <4>1 DEF FilledBy
    <3> QED BY <3>1
  <2>7. \A v \in Words \ left'[t] : data'[dummy[t]][v] = Len(inserted)
    <3>1. \A v \in Words \ left[t] : data[dummy[t]][v] = Len(inserted)
      BY <2>1, <2>3 DEF FillInv, NewInv
    <3> QED BY <2>2, <2>4, <2>5, <3>1
  <2>8. left[t] = {w} => data'[dummy[t]] = Reading(Len(inserted))
    <3>1. ASSUME left[t] = {w} PROVE data'[dummy[t]] = Reading(Len(inserted))
      <4>1. \A v \in Words : data'[dummy[t]][v] = Len(inserted)
        BY <2>2, <2>7, <3>1
      <4>2. data'[dummy[t]] = [v \in Words |-> data'[dummy[t]][v]]
        BY <2>4, <2>5
      <4> QED BY <4>1, <4>2 DEF Reading
    <3> QED BY <3>1
  <2>9. NewInv'
    <3>1. dummy[t] \in used /\ Reading(Len(inserted)) \in ToSet(inserted)
      BY <2>1, <2>3 DEF FillInv, NewInv
    <3> QED BY <2>1, <2>2, <2>7, <2>8, <3>1 DEF NewInv
  <2>10. ASSUME NEW c \in Consumers PROVE CopyInv(c)'
    <3>1. CopyInv(c) /\ p[c] # dummy[t]
      BY <1>1, <2>3 DEF FillInv
    <3> QED BY <2>1, <2>2, <2>4, <3>1 DEF CopyInv
  <2> QED BY <2>1, <2>3, <2>6, <2>9, <2>10 DEF FillInv
<1>5. CASE ClearNext(t)
  <2>1. /\ next' = [next EXCEPT ![dummy[t]] = NULL]
        /\ pc' = [pc EXCEPT ![t] = "67"] /\ pc[t] = "66"
        /\ UNCHANGED <<head, tail, data, heap, locals, fault, record>>
    BY <1>5 DEF ClearNext, Go
  <2>2. dummy[t] \in Addr /\ pc'[t] = "67" /\ \A c \in Consumers : pc'[c] = pc[c]
    BY <1>1, <2>1 DEF TypeInv, TypeOK
  <2>3. ~ reused /\ Built' = Built \cup {dummy[t]}
    <3>1. ~ reused /\ dummy[t] \in used
      BY <2>1 DEF FillInv, NewInv
    <3>2. Built' = used \cup {NULL} /\ Built \cup {dummy[t]} = used \cup {NULL}
      BY <2>1, <2>2, <3>1 DEF Built
    <3> QED BY <3>1, <3>2
  <2>4. data[dummy[t]] \in ToSet(inserted)
    BY <2>1, <2>3 DEF FillInv, NewInv
  <2>5. \A b \in Built' \ {NULL} : FilledBy(b)'
    <3>1. ASSUME NEW b \in Built' \ {NULL} PROVE FilledBy(b)'
      <4>1. CASE b = dummy[t]
        <5>1. next'[b] = NULL /\ data'[b] = data[b]
          BY <2>1, <2>2, <4>1 DEF TypeInv, TypeOK
        <5> QED BY <2>1, <2>4, <4>1, <5>1 DEF FilledBy, Built
      <4>2. CASE b # dummy[t]
        <5>1. b \in Built \ {NULL} /\ b \in Addr /\ FilledBy(b)
          BY <2>3, <3>1, <4>2 DEF FillInv, Built, TypeInv, TypeOK
        <5>2. next'[b] = next[b] /\ data'[b] = data[b]
          BY <2>1, <4>2, <5>1 DEF TypeInv, TypeOK
        <5> QED BY <2>1, <2>3, <5>1, <5>2 DEF FilledBy
      <4> QED BY <4>1, <4>2
    <3> QED BY <3>1
  <2>6. NewInv'
    BY <2>1, <2>2, <2>3 DEF FillInv, NewInv
  <2>7. \A c \in Consumers : CopyInv(c)'
    BY <2>1, <2>2, <2>3 DEF FillInv, CopyInv
  <2> QED BY <2>1, <2>3, <2>5, <2>6, <2>7 DEF FillInv
<1>6. CASE TestTail(t) \/ LinkBehindTail(t)
  <2>1. /\ UNCHANGED <<head, tail, data, heap, locals, fault, record>>
        /\ pc[t] \in {"67", "71b"}
    BY <1>6 DEF TestTail, LinkBehindTail, Go
  <2>2. pc'[t] \in {"69a", "71a", "72a"} /\ \A c \in Consumers : pc'[c] = pc[c]
    <3>1. PICK to \in {"69a", "71a", "72a"} : pc' = [pc EXCEPT ![t] = to]
      BY <1>6 DEF TestTail, LinkBehindTail, Go
    <3> QED BY <1>1, <3>1 DEF TypeInv, TypeOK
  <2>3. Built' = Built /\ dummy[t] \in Built /\ ~ reused
    BY <2>1, <2>2 DEF Built, FillInv, NewInv
  <2>4. \A b \in Addr : next'[b] = next[b] \/ next'[b] = dummy[t]
    BY <1>6 DEF TestTail, LinkBehindTail, TypeInv, TypeOK
  <2>5. \A b \in Built \ {NULL} : FilledBy(b)'
    <3>1. ASSUME NEW b \in Built \ {NULL} PROVE FilledBy(b)'
      <4>1. b \in Addr /\ FilledBy(b)
        BY <2>3 DEF FillInv, Built, TypeInv, TypeOK
      <4> QED BY <2>1, <2>3, <2>4, <4>1 DEF FilledBy
    <3> QED BY <3>1
  <2>6. NewInv'
    BY <2>1, <2>2, <2>3 DEF FillInv, NewInv
  <2>7. \A c \in Consumers : CopyInv(c)'
    BY <2>1, <2>2, <2>3 DEF FillInv, CopyInv
  <2> QED BY <2>1, <2>3, <2>5, <2>6, <2>7 DEF FillInv
<1>7. CASE \/ StoreTail(t, "69a", dummy[t], "69b") \/ AssignedValue(t, "69b", dummy[t], "69c")
           \/ StoreHead(t, "69c", q[t], "idle") \/ Load(t, "71a", tail, "71b")
           \/ Load(t, "72a", tail, "72b") \/ LoadNext(t, "72b", "72c")
           \/ StoreTail(t, "72c", q[t], "idle")
  <2>1. ~ reused
    BY <1>7 DEF Load, StoreHead, StoreTail, AssignedValue, LoadNext
  <2>2. q[t] \in Built /\ tail \in Built
    BY <1>1, <2>1 DEF FillInv
  <2>3. CASE StoreTail(t, "69a", dummy[t], "69b") \/ AssignedValue(t, "69b", dummy[t], "69c")
    <3>1. dummy[t] \in Built
      BY <2>1, <2>3 DEF StoreTail, AssignedValue, Go, FillInv, NewInv, Built
    <3> QED BY <1>1, <2>1, <2>3, <3>1, AccessFill DEF Lines
  <2>4. CASE StoreHead(t, "69c", q[t], "idle") \/ StoreTail(t, "72c", q[t], "idle")
    BY <1>1, <2>1, <2>2, <2>4, AccessFill DEF Lines
  <2>5. CASE Load(t, "71a", tail, "71b") \/ Load(t, "72a", tail, "72b")
    BY <1>1, <2>1, <2>2, <2>5, AccessFill DEF Lines
  <2>6. CASE LoadNext(t, "72b", "72c")
    BY <1>1, <2>1, <2>2, <2>6, AccessFill DEF Lines
  <2> QED BY <1>7, <2>3, <2>4, <2>5, <2>6
<1> QED BY <1>2, <1>3, <1>4, <1>5, <1>6, <1>7 DEF sbuffer_insert

LEMMA RemoveFill ==
  ASSUME TypeInv, FillInv, ~ reused, NEW t \in Consumers, sbuffer_remove(t) PROVE FillInv'
PROOF
<1>1. t \in Threads /\ t # Producer /\ Producer \in Threads
  BY ThreadFacts
<1> USE DEF memory, locals, record
<1>2. CASE NoData(t) \/ SomeData(t) \/ CompareTail(t) \/ FreeTwice(t)
  <2>1. UNCHANGED <<memory, locals, inserted, got, used, reused>>
    BY <1>2 DEF NoData, SomeData, CompareTail, FreeTwice
  <2>2. /\ pc'[Producer] = pc[Producer]
        /\ \A c \in Consumers : /\ pc'[c] = "48b" => pc[c] = "48b"
                                /\ pc'[c] \notin {"idle", "48a", "48b"} =>
                                     pc[c] \notin {"idle", "48a", "48b"}
    BY <1>1, <1>2 DEF NoData, SomeData, CompareTail, FreeTwice, Go, TypeInv, TypeOK, Threads
  <2>3. Built' = Built
    BY <2>1, <2>2 DEF Built
  <2> QED BY <2>1, <2>2, <2>3 DEF FillInv, FilledBy, NewInv, CopyInv
<1>3. CASE FollowHead(t)
  <2>1. /\ pc' = [pc EXCEPT ![t] = "48b"] /\ p' = [p EXCEPT ![t] = head]
        /\ left' = [left EXCEPT ![t] = Words]
        /\ UNCHANGED <<memory, dummy, q, item, fault, record>>
    BY <1>3 DEF FollowHead, Go
  <2>2. /\ pc'[Producer] = pc[Producer] /\ left'[Producer] = left[Producer]
        /\ left'[t] = Words /\ pc'[t] = "48b"
        /\ \A u \in Threads \ {t} : pc'[u] = pc[u] /\ left'[u] = left[u] /\ p'[u] = p[u]
        /\ p'[t] = head
    BY <1>1, <2>1 DEF TypeInv, TypeOK
  <2>3. Built' = Built
    BY <2>1, <2>2 DEF Built
  <2>4. \A u \in Threads : p'[u] \in Built'
    BY <2>2, <2>3 DEF FillInv
  <2>5. \A c \in Consumers : CopyInv(c)'
    <3>1. ASSUME NEW c \in Consumers PROVE CopyInv(c)'
      <4>1. CASE c = t
        BY <2>2, <4>1 DEF CopyInv
      <4>2. CASE c # t
        BY <2>1, <2>2, <4>2, ThreadFacts DEF FillInv, CopyInv
      <4> QED BY <4>1, <4>2
    <3> QED BY <3>1
  <2> QED BY <2>1, <2>2, <2>3, <2>4, <2>5 DEF FillInv, FilledBy, NewInv
<1>4. CASE CopyWord(t)
  <2>1. PICK w \in left[t] :
          /\ pc' = [pc EXCEPT ![t] = IF left[t] = {w} THEN "49" ELSE "48b"] /\ p[t] \in heap
          /\ pc[t] = "48b"
          /\ item' = [item EXCEPT ![t] = [@ EXCEPT ![w] = data[p[t]][w]]]
          /\ left' = [left EXCEPT ![t] = @ \ {w}]
          /\ UNCHANGED <<memory, dummy, p, q, fault, record>>
    BY <1>4 DEF CopyWord, Go
  <2>2. /\ \A u \in Threads \ {t} : pc'[u] = pc[u] /\ left'[u] = left[u]
        /\ \A c \in Consumers \ {t} : item'[c] = item[c]
        /\ pc'[t] = IF left[t] = {w} THEN "49" ELSE "48b"
        /\ left'[t] = left[t] \ {w} /\ left[t] \subseteq Words /\ w \in Words
        /\ item'[t] = [item[t] EXCEPT ![w] = data[p[t]][w]]
        /\ p[t] \in Addr
    BY <1>1, <2>1 DEF TypeInv, TypeOK
  <2>3. /\ item[t] \in [Words -> 0..MaxReadings]
        /\ data[p[t]] \in [Words -> 0..MaxReadings]
    BY <2>2 DEF TypeInv, TypeOK, Contents
  <2>4. \A v \in Words \ left'[t] : item'[t][v] = data[p[t]][v]
    <3>1. \A v \in Words \ left[t] : item[t][v] = data[p[t]][v]
      BY <2>1 DEF FillInv, CopyInv
    <3> QED BY <2>2, <2>3, <3>1
  <2>5. left[t] = {w} => item'[t] \in ToSet(inserted)
    <3>1. ASSUME left[t] = {w} PROVE item'[t] \in ToSet(inserted)
      <4>1. \A v \in Words : item'[t][v] = data[p[t]][v]
        BY <2>2, <2>4, <3>1
      <4>2. /\ item'[t] = [v \in Words |-> item'[t][v]]
            /\ data[p[t]] = [v \in Words |-> data[p[t]][v]]
        BY <2>2, <2>3
      <4>3. [v \in Words |-> item'[t][v]] = [v \in Words |-> data[p[t]][v]]
        BY <4>1
      <4>4. p[t] \in Built \ {NULL}
        BY <1>1, <2>2, NullIsNoNode DEF FillInv
      <4>5. data[p[t]] \in ToSet(inserted)
        BY <4>4 DEF FillInv, FilledBy
      <4> QED BY <4>2, <4>3, <4>5
    <3> QED BY <3>1
  <2>6. Built' = Built
    BY <1>1, <2>1, <2>2 DEF Built
  <2>7. \A c \in Consumers : CopyInv(c)'
    <3>1. ASSUME NEW c \in Consumers PROVE CopyInv(c)'
      <4>1. CASE c = t
        BY <2>1, <2>2, <2>4, <2>5, <4>1 DEF CopyInv
      <4>2. CASE c # t
        BY <2>1, <2>2, <4>2, ThreadFacts DEF FillInv, CopyInv
      <4> QED BY <4>1, <4>2
    <3> QED BY <3>1
  <2> QED BY <1>1, <2>1, <2>2, <2>6, <2>7 DEF FillInv, FilledBy, NewInv
<1>5. CASE TakeHead(t)
  <2>1. /\ dummy' = [dummy EXCEPT ![t] = head] /\ pc[t] = "49"
        /\ pc' = [pc EXCEPT ![t] = "50a"]
        /\ UNCHANGED <<memory, p, q, item, left, fault, record>>
    BY <1>5 DEF TakeHead, Go
  <2>2. /\ pc'[Producer] = pc[Producer] /\ dummy'[Producer] = dummy[Producer]
        /\ \A c \in Consumers : /\ pc'[c] = "48b" => pc[c] = "48b"
                                /\ pc'[c] \notin {"idle", "48a", "48b"} =>
                                     pc[c] \notin {"idle", "48a", "48b"}
    BY <1>1, <2>1 DEF TypeInv, TypeOK, Threads
  <2>3. Built' = Built
    BY <2>1, <2>2 DEF Built
  <2> QED BY <2>1, <2>2, <2>3 DEF FillInv, FilledBy, NewInv, CopyInv
<1>6. CASE FreeNode(t)
  <2>1. /\ got' = Append(got, item[t]) /\ pc[t] = "56"
        /\ pc' = [pc EXCEPT ![t] = "idle"] /\ item' = [item EXCEPT ![t] = Unwritten]
        /\ p' = [p EXCEPT ![t] = NULL] /\ q' = [q EXCEPT ![t] = NULL]
        /\ UNCHANGED <<head, tail, next, data, dummy, left, inserted, used, reused>>
    BY <1>6 DEF FreeNode, Go
  <2>2. item[t] \in ToSet(inserted) /\ item[t] \in Contents
    BY <2>1 DEF FillInv, CopyInv, TypeInv, TypeOK
  <2>3. ToSet(got') = ToSet(got) \cup {item[t]}
    <3>1. got \in Seq(Contents)
      BY DEF TypeInv
    <3>2. Adds(Append(got, item[t]), got, item[t])
      BY <2>2, <3>1, AppendSet
    <3> QED BY <2>1, <3>2 DEF Adds
  <2>4. /\ \A u \in Threads \ {t} : pc'[u] = pc[u] /\ p'[u] = p[u] /\ q'[u] = q[u]
        /\ \A c \in Consumers \ {t} : item'[c] = item[c]
        /\ pc'[t] = "idle" /\ p'[t] = NULL /\ q'[t] = NULL
    BY <1>1, <2>1 DEF TypeInv, TypeOK
  <2>5. Built' = Built /\ NULL \in Built
    BY <1>1, <2>1, <2>4 DEF Built
  <2>6. \A u \in Threads : p'[u] \in Built' /\ q'[u] \in Built'
    BY <2>4, <2>5 DEF FillInv
  <2>7. \A c \in Consumers : CopyInv(c)'
    <3>1. ASSUME NEW c \in Consumers PROVE CopyInv(c)'
      <4>1. CASE c = t
        BY <2>4, <4>1 DEF CopyInv
      <4>2. CASE c # t
        BY <2>1, <2>4, <4>2, ThreadFacts DEF FillInv, CopyInv
      <4> QED BY <4>1, <4>2
    <3> QED BY <3>1
  <2>8. NewInv'
    BY <1>1, <2>1, <2>4 DEF FillInv, NewInv
  <2>9. \A a \in Built' \ {NULL} : FilledBy(a)'
    BY <2>1, <2>5 DEF FillInv, FilledBy
  <2>10. head' \in Built' /\ tail' \in Built' /\ ToSet(got') \subseteq ToSet(inserted')
    BY <2>1, <2>2, <2>3, <2>5 DEF FillInv
  <2> QED BY <2>6, <2>7, <2>8, <2>9, <2>10 DEF FillInv
<1>7. CASE \/ Load(t, "50a", head, "50b") \/ StoreTail(t, "52a", NULL, "52b")
           \/ AssignedValue(t, "52b", NULL, "52c") \/ StoreHead(t, "52c", q[t], "56")
           \/ Load(t, "54a", head, "54b") \/ LoadNext(t, "54b", "54c")
           \/ StoreHead(t, "54c", q[t], "56")
  <2>1. q[t] \in Built /\ head \in Built /\ NULL \in Built
    BY <1>1 DEF FillInv, Built
  <2>2. CASE Load(t, "50a", head, "50b") \/ Load(t, "54a", head, "54b")
    BY <1>1, <2>1, <2>2, AccessFill DEF Lines
  <2>3. CASE StoreTail(t, "52a", NULL, "52b") \/ AssignedValue(t, "52b", NULL, "52c")
    BY <1>1, <2>1, <2>3, AccessFill DEF Lines
  <2>4. CASE StoreHead(t, "52c", q[t], "56") \/ StoreHead(t, "54c", q[t], "56")
    BY <1>1, <2>1, <2>4, AccessFill DEF Lines
  <2>5. CASE LoadNext(t, "54b", "54c")
    BY <1>1, <2>1, <2>5, AccessFill DEF Lines
  <2> QED BY <1>7, <2>2, <2>3, <2>4, <2>5
<1> QED BY <1>2, <1>3, <1>4, <1>5, <1>6, <1>7 DEF sbuffer_remove

\* An address once given out again stays so.
LEMMA ReusedKept == ASSUME TypeInv, [Next]_vars PROVE reused => reused'
PROOF
<1> USE DEF memory, locals, record
<1>1. CASE sbuffer_insert(Producer)
  <2>1. CASE Malloc(Producer)
    <3>1. PICK a \in Addr : reused' = (reused \/ a \in used)
      BY <2>1 DEF Malloc
    <3> QED BY <3>1
  <2>2. CASE ~ Malloc(Producer)
    BY <1>1, <2>2 DEF sbuffer_insert, MallocFails, StoreWord, ClearNext, TestTail,
                      LinkBehindTail, Load, StoreHead, StoreTail, AssignedValue, LoadNext
  <2> QED BY <2>1, <2>2
<1>2. ASSUME NEW t \in Consumers, sbuffer_remove(t) PROVE reused' = reused
  BY <1>2 DEF sbuffer_remove, NoData, SomeData, FollowHead, CopyWord, TakeHead, CompareTail,
              FreeNode, FreeTwice, Load, StoreHead, StoreTail, AssignedValue, LoadNext
<1>3. ASSUME NEW t \in Threads, BadAccess(t) PROVE reused' = reused
  BY <1>3 DEF BadAccess
<1> QED BY <1>1, <1>2, <1>3 DEF Next, Crashed, vars

LEMMA FillInit == Init => FillInv
PROOF
<1> SUFFICES ASSUME Init PROVE FillInv
  OBVIOUS
<1>1. Built = {NULL} /\ ToSet(got) = {}
  BY DEF Init, Built, ToSet
<1> QED BY <1>1, ThreadFacts DEF Init, FillInv, NewInv, CopyInv

LEMMA FillStep ==
  ASSUME TypeInv, FillInv, [Next]_vars PROVE FillInv'
PROOF
<1> SUFFICES ASSUME ~ reused' PROVE FillInv'
  BY DEF FillInv
<1>1. ~ reused
  BY ReusedKept
<1>2. ASSUME UNCHANGED <<memory, pc, locals, record>> PROVE FillInv'
  BY <1>2 DEF FillInv, Built, FilledBy, NewInv, CopyInv, memory, locals, record
<1> QED BY <1>1, <1>2, InsertFill, RemoveFill DEF Next, Crashed, BadAccess, vars

\* Until malloc returns an address again, in every interleaving, also of removals
\* with each other, a successful removal returns a whole reading that was given
\* to sbuffer_insert, never what malloc left in a node: the node is filled before
\* its address can be found.
THEOREM OnlyInsertedInvariance == Spec => []OnlyInserted
<1>1. FillInv => OnlyInserted
  BY DEF FillInv, OnlyInserted
<1> QED BY <1>1, TypeInvInit, TypeInvStep, FillInit, FillStep, PTL DEF Spec

-----------------------------------------------------------------------------
(* Each thread runs its own function. *)

PlaceInv ==
  /\ pc[Producer] \in {"idle", "65", "66", "67", "69a", "69b", "69c",
                       "71a", "71b", "72a", "72b", "72c"}
  /\ \A c \in Consumers : pc[c] \in {"idle", "48a", "48b", "49", "50a", "50b", "52a", "52b",
                                     "52c", "54a", "54b", "54c", "56"}

LEMMA PlaceStep ==
  ASSUME TypeInv, PlaceInv, [Next]_vars PROVE PlaceInv'
PROOF
<1>1. CASE sbuffer_insert(Producer)
  <2>1. PICK to \in {"idle", "65", "66", "67", "69a", "69b", "69c", "71a", "71b", "72a", "72b", "72c"} :
          pc' = [pc EXCEPT ![Producer] = to]
    BY <1>1 DEF sbuffer_insert, Malloc, MallocFails, StoreWord, ClearNext, TestTail, LinkBehindTail,
                Load, StoreHead, StoreTail, AssignedValue, LoadNext, Go
  <2> QED BY <2>1, ThreadFacts DEF PlaceInv, TypeInv, TypeOK
<1>2. ASSUME NEW t \in Consumers, sbuffer_remove(t) PROVE PlaceInv'
  <2>1. CASE FreeTwice(t)
    BY <2>1 DEF FreeTwice, PlaceInv
  <2>2. CASE ~ FreeTwice(t)
    <3>1. PICK to \in {"idle", "48a", "48b", "49", "50a", "50b", "52a", "52b", "52c", "54a", "54b",
                       "54c", "56"} : pc' = [pc EXCEPT ![t] = to]
      BY <1>2, <2>2
         DEF sbuffer_remove, NoData, SomeData, FollowHead, CopyWord, TakeHead, CompareTail, FreeNode,
             Load, StoreHead, StoreTail, AssignedValue, LoadNext, Go
    <3> QED BY <3>1, ThreadFacts DEF PlaceInv, TypeInv, TypeOK
  <2> QED BY <2>1, <2>2
<1>3. CASE pc' = pc
  BY <1>3 DEF PlaceInv
<1> QED BY <1>1, <1>2, <1>3 DEF Next, Crashed, BadAccess, vars

LEMMA PlaceInit == Init => PlaceInv
  BY ThreadFacts DEF Init, PlaceInv

-----------------------------------------------------------------------------
(* Removals that do not overlap. *)

\* At most one consumer is inside sbuffer_remove.
SoloInv == ~ overlapped => \A c, d \in Consumers :
                             pc[c] # "idle" /\ pc[d] # "idle" => c = d

\* What every step keeps of the auxiliary variables and of the other threads.
LEMMA StepFacts ==
  ASSUME TypeInv, [Next]_vars
  PROVE  (drained => drained') /\ (overlapped => overlapped')
PROOF
<1> USE DEF memory, locals, record
<1>1. CASE sbuffer_insert(Producer)
  <2>1. CASE Malloc(Producer)
    BY <2>1 DEF Malloc
  <2>2. CASE ~ Malloc(Producer)
    <3>1. UNCHANGED <<drained, overlapped>>
      BY <1>1, <2>2
         DEF sbuffer_insert, MallocFails, StoreWord, ClearNext, TestTail, LinkBehindTail,
             Load, StoreHead, StoreTail, AssignedValue, LoadNext
    <3> QED BY <3>1
  <2> QED BY <2>1, <2>2
<1>2. ASSUME NEW t \in Consumers, sbuffer_remove(t)
      PROVE  (drained => drained') /\ (overlapped => overlapped')
  <2>1. CASE SomeData(t)
    BY <2>1 DEF SomeData
  <2>2. CASE CompareTail(t)
    BY <2>2 DEF CompareTail
  <2>3. CASE ~ SomeData(t) /\ ~ CompareTail(t)
    <3>1. UNCHANGED <<drained, overlapped>>
      BY <1>2, <2>3
         DEF sbuffer_remove, NoData, FollowHead, CopyWord, TakeHead, FreeNode, FreeTwice,
             Load, StoreHead, StoreTail, AssignedValue, LoadNext
    <3> QED BY <3>1
  <2> QED BY <2>1, <2>2, <2>3
<1>3. ASSUME NEW t \in Threads, BadAccess(t)
      PROVE  (drained => drained') /\ (overlapped => overlapped')
  BY <1>3 DEF BadAccess
<1> QED BY <1>1, <1>2, <1>3 DEF Next, Crashed, vars

\* The producer moves alone.
LEMMA InsertMoves ==
  ASSUME TypeInv, sbuffer_insert(Producer)
  PROVE  UNCHANGED <<overlapped, drained, got, item>> /\ \A c \in Consumers : pc'[c] = pc[c]
PROOF
<1> USE DEF memory, locals, record
<1>1. PICK to \in Lines : pc' = [pc EXCEPT ![Producer] = to]
  BY DEF sbuffer_insert, Malloc, MallocFails, StoreWord, ClearNext, TestTail, LinkBehindTail,
         Load, StoreHead, StoreTail, AssignedValue, LoadNext, Go, Lines
<1>2. UNCHANGED <<overlapped, drained, got, item>>
  BY DEF sbuffer_insert, Malloc, MallocFails, StoreWord, ClearNext, TestTail, LinkBehindTail,
         Load, StoreHead, StoreTail, AssignedValue, LoadNext
<1> QED BY <1>1, <1>2, ThreadFacts DEF TypeInv, TypeOK

\* A removal moves alone, and enters only when no other one is under way.
LEMMA RemoveMoves ==
  ASSUME TypeInv, SoloInv, NEW t \in Consumers, sbuffer_remove(t), ~ overlapped'
  PROVE  /\ pc'[t] \in Lines /\ \A u \in Threads \ {t} : pc'[u] = pc[u]
         /\ \/ \A c \in Consumers \ {t} : pc[c] = "idle"
            \/ pc' = pc /\ NoData(t)
PROOF
<1> USE DEF memory, locals, record
<1>1. pc'[t] \in Lines /\ \A u \in Threads \ {t} : pc'[u] = pc[u]
  <2>1. CASE FreeTwice(t)
    BY <2>1, ThreadFacts DEF FreeTwice, TypeInv, TypeOK
  <2>2. CASE ~ FreeTwice(t)
    <3>1. PICK to \in Lines : pc' = [pc EXCEPT ![t] = to]
      BY <2>2
         DEF sbuffer_remove, NoData, SomeData, FollowHead, CopyWord, TakeHead, CompareTail, FreeNode,
             Load, StoreHead, StoreTail, AssignedValue, LoadNext, Go, Lines
    <3> QED BY <3>1, ThreadFacts DEF TypeInv, TypeOK
  <2> QED BY <2>1, <2>2
<1>2. ASSUME ~ NoData(t) PROVE \A c \in Consumers \ {t} : pc[c] = "idle"
  <2>1. CASE SomeData(t)
    BY <2>1 DEF SomeData
  <2>2. CASE pc[t] # "idle" /\ ~ overlapped
    BY <2>2 DEF SoloInv
  <2>3. SomeData(t) \/ (pc[t] # "idle" /\ ~ overlapped)
    BY <1>2
       DEF sbuffer_remove, FollowHead, CopyWord, TakeHead, CompareTail, FreeNode, FreeTwice,
           Load, StoreHead, StoreTail, AssignedValue, LoadNext, Go
  <2> QED BY <2>1, <2>2, <2>3
<1>3. NoData(t) => pc' = pc
  BY ThreadFacts DEF NoData, Go, TypeInv, TypeOK
<1> QED BY <1>1, <1>2, <1>3, ThreadFacts DEF TypeInv, TypeOK

LEMMA SoloStep ==
  ASSUME TypeInv, SoloInv, [Next]_vars PROVE SoloInv'
PROOF
<1> SUFFICES ASSUME ~ overlapped' PROVE SoloInv'
  BY DEF SoloInv
<1>1. ~ overlapped
  BY StepFacts
<1>2. CASE sbuffer_insert(Producer)
  BY <1>1, <1>2, InsertMoves DEF SoloInv
<1>3. ASSUME NEW t \in Consumers, sbuffer_remove(t) PROVE SoloInv'
  BY <1>1, <1>3, RemoveMoves, ThreadFacts DEF SoloInv
<1>4. CASE pc' = pc /\ overlapped' = overlapped
  BY <1>4 DEF SoloInv
<1> QED BY <1>2, <1>3, <1>4 DEF Next, Crashed, BadAccess, vars, record

LEMMA SoloInit == Init => SoloInv
  BY ThreadFacts DEF Init, SoloInv

-----------------------------------------------------------------------------
(* While removals do not overlap and none took the only node, the nodes form *)
(* a chain in insertion order.                                             *)

Oldest == Len(got) + 1        \* number of the reading at the head
Newest == Len(inserted)       \* number of the last reading that got a node

\* Number of the last reading that is on the list: the producer may be busy
\* with one more.
Linked == IF pc[Producer] \in {"idle", "69b", "69c"} THEN Newest ELSE Newest - 1

\* N[i] is the node that got reading i; exactly those not returned are allocated.
Layout(N) ==
  /\ Len(N) = Newest /\ Len(got) <= Newest
  /\ heap = {N[i] : i \in Oldest..Newest}
  /\ \A i, j \in Oldest..Newest : N[i] = N[j] => i = j
  /\ \A i \in 1..Len(got) : got[i] = inserted[i]

Nodes(N) ==
  /\ \A i \in Oldest..Newest : i < Newest \/ pc[Producer] # "65" => data[N[i]] = inserted[i]
  /\ \A i \in Oldest..Newest - 1 :
       i < Linked \/ pc[Producer] \in {"72a", "72b", "72c"} => next[N[i]] = N[i + 1]
  /\ pc[Producer] = "65" => \A w \in Words \ left[Producer] : data[N[Newest]][w] = Newest
  /\ Newest >= 1 /\ pc[Producer] \notin {"65", "66"} => next[N[Newest]] = NULL

Ends(N) ==
  /\ Linked = 0 => tail = NULL /\ head = NULL /\ Len(got) = 0
  /\ Linked > 0 => Oldest <= Linked /\ tail = N[Linked]
  /\ pc[Producer] \in {"69b", "69c"} => head = NULL
  /\ Linked > 0 /\ pc[Producer] \notin {"69b", "69c"} =>
       /\ (\A c \in Consumers : pc[c] # "56") => head = N[Oldest]
       /\ \A c \in Consumers : pc[c] = "56" => head = N[Oldest + 1]

ProducerAt(N) ==
  /\ pc[Producer] \in {"65", "66"} => inserted[Newest] = Reading(Newest)
  /\ pc[Producer] # "idle" => Newest >= 1 /\ dummy[Producer] = N[Newest]
  /\ pc[Producer] \in {"69a", "69b", "69c"} => Newest = 1 /\ \A c \in Consumers : pc[c] = "idle"
  /\ pc[Producer] \in {"71a", "71b", "72a", "72b", "72c"} => Newest >= 2
  /\ pc[Producer] \in {"71b", "72b"} => p[Producer] = N[Newest - 1]
  /\ pc[Producer] \in {"69c", "72c"} => q[Producer] = N[Newest]

ConsumerAt(N, c) ==
  /\ pc[c] # "idle" => Linked > 0
  /\ pc[c] \in {"48b", "50b", "54b"} => p[c] = N[Oldest]
  /\ pc[c] = "48b" => \A w \in Words \ left[c] : item[c][w] = inserted[Oldest][w]
  /\ pc[c] \in {"49", "50a", "50b", "54a", "54b", "54c", "56"} => item[c] = inserted[Oldest]
  /\ pc[c] \in {"50a", "50b", "54a", "54b", "54c", "56"} => dummy[c] = N[Oldest]
  /\ pc[c] \notin {"52a", "52b", "52c"}
  /\ pc[c] \in {"54a", "54b", "54c", "56"} => Oldest + 1 <= Linked
  /\ pc[c] = "54c" => q[c] = N[Oldest + 1]

Chain(N) ==
  /\ fault = "none" /\ Layout(N) /\ Nodes(N) /\ Ends(N) /\ ProducerAt(N)
  /\ \A c \in Consumers : ConsumerAt(N, c)

ChainInv == ~ drained /\ ~ overlapped => \E N \in Seq(Addr) : Chain(N)

LEMMA ChainFacts ==
  ASSUME TypeInv, NEW N \in Seq(Addr), Layout(N)
  PROVE  /\ Len(N) \in Nat /\ Len(got) \in Nat /\ Len(inserted) \in Nat
         /\ Oldest \in Nat /\ Oldest >= 1 /\ Newest \in Nat /\ Linked \in Int
         /\ Linked \in {Newest, Newest - 1}
         /\ \A i \in 1..Newest : N[i] \in Addr
         /\ \A i \in Oldest..Newest : i \in 1..Newest /\ N[i] \in heap
PROOF
<1>1. Len(N) \in Nat /\ Len(got) \in Nat /\ Len(inserted) \in Nat
  BY LenProperties DEF TypeInv
<1>2. \A i \in 1..Len(N) : N[i] \in Addr
  BY ElementOfSeq
<1> QED BY <1>1, <1>2 DEF Oldest, Newest, Linked, Layout

\* A node of the chain is found by its number only.
LEMMA LayoutKept ==
  ASSUME NEW N \in Seq(Addr), Layout(N), UNCHANGED <<heap, inserted, got>>
  PROVE  Layout(N)'
  BY DEF Layout, Oldest, Newest

\* What a consumer knows outlives every step of the producer: the chain only
\* grows at its end.
LEMMA ConsumerKept ==
  ASSUME TypeInv, NEW N \in Seq(Addr), Layout(N), Ends(N),
         NEW M \in Seq(Addr), \A i \in 1..Newest : M[i] = N[i],
         \A i \in 1..Newest : inserted'[i] = inserted[i],
         Linked' \in Int, Linked' >= Linked,
         UNCHANGED <<got, item>>,
         NEW c \in Consumers, ConsumerAt(N, c),
         pc'[c] = pc[c], p'[c] = p[c], q'[c] = q[c], dummy'[c] = dummy[c], left'[c] = left[c]
  PROVE  ConsumerAt(M, c)'
PROOF
<1>1. Oldest' = Oldest
  BY DEF Oldest
<1>2. CASE pc[c] = "idle"
  BY <1>2 DEF ConsumerAt
<1>3. CASE pc[c] # "idle"
  <2>1. Linked > 0 /\ Oldest <= Linked /\ Linked <= Newest
    BY <1>3, ChainFacts DEF ConsumerAt, Ends
  <2>2. M[Oldest] = N[Oldest] /\ inserted'[Oldest] = inserted[Oldest]
    BY <2>1, ChainFacts
  <2>3. Oldest + 1 <= Linked => M[Oldest + 1] = N[Oldest + 1]
    BY <2>1, ChainFacts
  <2>4. Linked' > 0 /\ (Oldest + 1 <= Linked => Oldest + 1 <= Linked')
    BY <2>1, ChainFacts
  <2> QED BY <1>1, <2>2, <2>3, <2>4 DEF ConsumerAt
<1> QED BY <1>2, <1>3

\* sbuffer_insert takes a node: the chain gets one more.
LEMMA MallocChain ==
  ASSUME TypeInv, NEW N \in Seq(Addr), Chain(N), Malloc(Producer)
  PROVE  \E M \in Seq(Addr) : Chain(M)'
PROOF
<1>1. PICK a \in Addr \ heap, x \in Pointers :
        /\ heap' = heap \cup {a} /\ dummy' = [dummy EXCEPT ![Producer] = a]
        /\ next' = [next EXCEPT ![a] = x] /\ data' = [data EXCEPT ![a] = Unwritten]
  BY DEF Malloc
<1>2. /\ inserted' = Append(inserted, Reading(Len(inserted) + 1))
      /\ Reading(Len(inserted) + 1) \in Contents
      /\ pc[Producer] = "idle" /\ pc' = [pc EXCEPT ![Producer] = "65"]
      /\ left' = [left EXCEPT ![Producer] = Words]
      /\ UNCHANGED <<head, tail, p, q, item, fault, got, drained, overlapped>>
  <2>1. Len(inserted) \in Nat /\ Len(inserted) + 1 \in 0..MaxReadings
    BY LenProperties, BoundAssumption DEF Malloc, TypeInv
  <2> QED BY <2>1, WordTypes DEF Malloc, Go
<1>3. /\ pc'[Producer] = "65" /\ \A c \in Consumers : pc'[c] = pc[c]
      /\ dummy'[Producer] = a /\ \A c \in Consumers : dummy'[c] = dummy[c]
      /\ left'[Producer] = Words /\ \A c \in Consumers : left'[c] = left[c]
      /\ \A b \in Addr \ {a} : next'[b] = next[b] /\ data'[b] = data[b]
  BY <1>1, <1>2, ThreadFacts DEF TypeInv, TypeOK
<1>4. Layout(N) /\ Nodes(N) /\ Ends(N) /\ ProducerAt(N) /\ fault = "none"
  BY DEF Chain
<1> DEFINE M == Append(N, a)
<1>5. /\ M \in Seq(Addr) /\ Len(M) = Len(N) + 1 /\ M[Len(N) + 1] = a
      /\ \A i \in 1..Len(N) : M[i] = N[i]
  BY AppendProperties
<1>6. /\ Len(inserted') = Len(inserted) + 1 /\ inserted'[Len(inserted) + 1] = Reading(Len(inserted) + 1)
      /\ \A i \in 1..Len(inserted) : inserted'[i] = inserted[i]
  BY <1>2, AppendProperties DEF TypeInv
<1> HIDE DEF M
<1>7. /\ Newest' = Newest + 1 /\ Oldest' = Oldest /\ Newest = Len(N)
      /\ Linked = Newest /\ Linked' = Newest
  BY <1>2, <1>3, <1>4, <1>6, ChainFacts DEF Newest, Oldest, Linked, Layout
<1>8. /\ M[Newest + 1] = a /\ \A i \in 1..Newest : M[i] = N[i]
      /\ inserted'[Newest + 1] = Reading(Newest + 1) /\ \A i \in 1..Newest : inserted'[i] = inserted[i]
  BY <1>5, <1>6, <1>7 DEF Newest
<1>9. Oldest \in Nat /\ Oldest >= 1 /\ Newest \in Nat /\ Oldest <= Newest + 1
  BY <1>4, ChainFacts DEF Layout, Oldest
<1>10. \A i \in Oldest..Newest + 1 :
         \/ i \in Oldest..Newest /\ M[i] = N[i] /\ N[i] \in heap
         \/ i = Newest + 1 /\ M[i] = a
  <2>1. \A i \in Oldest..Newest : i \in 1..Newest /\ N[i] \in heap
    BY <1>4, ChainFacts
  <2>2. \A i \in Oldest..Newest + 1 : i \in Oldest..Newest \/ i = Newest + 1
    BY <1>9
  <2>3. \A i \in Oldest..Newest : M[i] = N[i]
    BY <1>8, <2>1
  <2> TAKE i \in Oldest..Newest + 1
  <2>4. CASE i \in Oldest..Newest
    BY <2>1, <2>3, <2>4
  <2>5. CASE i = Newest + 1
    BY <1>8, <2>5
  <2> QED BY <2>2, <2>4, <2>5
<1>11. Layout(M)'
  <2>1. heap' = {M[i] : i \in Oldest..Newest + 1}
    BY <1>1, <1>4, <1>8, <1>9, <1>10 DEF Layout
  <2>2. \A i, j \in Oldest..Newest + 1 : M[i] = M[j] => i = j
    BY <1>1, <1>4, <1>10 DEF Layout
  <2>3. \A i \in 1..Len(got) : got[i] = inserted'[i]
    BY <1>4, <1>8, ChainFacts DEF Layout
  <2>4. Len(M) = Newest + 1 /\ Len(got) <= Newest + 1
    BY <1>5, <1>7, <1>9 DEF Oldest
  <2> QED BY <1>2, <1>7, <2>1, <2>2, <2>3, <2>4 DEF Layout
<1>12. Nodes(M)'
  <2>0. \A i \in Oldest..Newest : data'[N[i]] = data[N[i]] /\ next'[N[i]] = next[N[i]]
    <3>1. \A i \in Oldest..Newest : N[i] \in Addr \ {a}
      BY <1>1, <1>4, <1>10, ChainFacts
    <3> QED BY <1>3, <3>1
  <2>1. \A i \in Oldest..Newest : data'[N[i]] = inserted[i]
    BY <1>2, <1>4, <2>0 DEF Nodes
  <2>2. \A i \in Oldest..Newest - 1 : next'[N[i]] = N[i + 1]
    <3>1. \A i \in Oldest..Newest - 1 : i \in Oldest..Newest
      BY <1>9
    <3> QED BY <1>2, <1>4, <1>7, <2>0, <3>1 DEF Nodes
  <2>3. \A i \in Oldest..Newest + 1 : i < Newest + 1 => data'[M[i]] = inserted'[i]
    <3>1. \A i \in Oldest..Newest + 1 : i < Newest + 1 => i \in Oldest..Newest /\ i \in 1..Newest
      BY <1>9
    <3> QED BY <1>2, <1>8, <2>1, <3>1
  <2>4. \A i \in Oldest..Newest : i < Newest => next'[M[i]] = M[i + 1]
    <3>1. \A i \in Oldest..Newest : i < Newest =>
            i \in Oldest..Newest - 1 /\ i \in 1..Newest /\ i + 1 \in 1..Newest
      BY <1>9
    <3> QED BY <1>2, <1>8, <2>2, <3>1
  <2> QED BY <1>3, <1>7, <1>9, <2>3, <2>4 DEF Nodes
<1>13. Ends(M)'
  <2>1. Linked > 0 => M[Linked] = N[Linked] /\ M[Oldest] = N[Oldest]
    BY <1>4, <1>7, <1>8, <1>9 DEF Ends
  <2>2. ASSUME NEW c \in Consumers, pc[c] = "56"
        PROVE  Oldest + 1 <= Newest /\ M[Oldest + 1] = N[Oldest + 1]
    BY <1>7, <1>8, <1>9, <2>2 DEF Chain, ConsumerAt
  <2> QED BY <1>2, <1>3, <1>4, <1>7, <2>1, <2>2 DEF Ends
<1>14. ProducerAt(M)'
  BY <1>3, <1>7, <1>8, <1>9 DEF ProducerAt
<1>15. ASSUME NEW c \in Consumers PROVE ConsumerAt(M, c)'
  <2>1. ConsumerAt(N, c)
    BY DEF Chain
  <2>2. /\ UNCHANGED <<got, item>> /\ pc'[c] = pc[c] /\ p'[c] = p[c] /\ q'[c] = q[c]
        /\ dummy'[c] = dummy[c] /\ left'[c] = left[c]
        /\ Linked' \in Int /\ Linked' >= Linked
    BY <1>2, <1>3, <1>7, <1>9
  <2>3. /\ \A i \in 1..Newest : M[i] = N[i]
        /\ \A i \in 1..Newest : inserted'[i] = inserted[i]
        /\ M \in Seq(Addr)
    BY <1>5, <1>8
  <2> QED BY <1>4, <2>1, <2>2, <2>3, ConsumerKept
<1> QED BY <1>2, <1>4, <1>5, <1>11, <1>12, <1>13, <1>14, <1>15 DEF Chain

\* A step of the producer that takes no node: the chain keeps its nodes.
LEMMA InsertFrame ==
  ASSUME TypeInv, NEW N \in Seq(Addr), Chain(N),
         UNCHANGED <<heap, inserted, got, item, fault>>,
         \A c \in Consumers : pc'[c] = pc[c] /\ p'[c] = p[c] /\ q'[c] = q[c] /\ dummy'[c] = dummy[c]
                             /\ left'[c] = left[c],
         Linked' >= Linked, Nodes(N)', Ends(N)', ProducerAt(N)'
  PROVE  Chain(N)'
PROOF
<1>1. Layout(N) /\ Ends(N) /\ fault = "none"
  BY DEF Chain
<1>2. Layout(N)'
  BY <1>1, LayoutKept
<1>3. Linked' \in Int
  BY <1>1, ChainFacts DEF Linked, Newest
<1>4. ASSUME NEW c \in Consumers PROVE ConsumerAt(N, c)'
  <2>1. ConsumerAt(N, c)
    BY DEF Chain
  <2>2. \A i \in 1..Newest : inserted'[i] = inserted[i]
    OBVIOUS
  <2> QED BY <1>1, <1>3, <2>1, <2>2, ConsumerKept
<1> QED BY <1>1, <1>2, <1>4 DEF Chain

LEMMA InsertChain ==
  ASSUME TypeInv, NEW N \in Seq(Addr), Chain(N), sbuffer_insert(Producer), ~ Malloc(Producer)
  PROVE  Chain(N)'
PROOF
<1> DEFINE t == Producer
<1>1. t \in Threads /\ \A c \in Consumers : c # t /\ c \in Threads
  BY ThreadFacts
<1>2. Layout(N) /\ Nodes(N) /\ Ends(N) /\ ProducerAt(N) /\ fault = "none"
  BY DEF Chain
<1>3. /\ Oldest \in Nat /\ Oldest >= 1 /\ Newest \in Nat /\ Linked \in {Newest, Newest - 1}
      /\ \A i \in 1..Newest : N[i] \in Addr /\ N[i] # NULL
      /\ \A i \in Oldest..Newest : i \in 1..Newest /\ N[i] \in heap
  BY <1>2, ChainFacts, NullIsNoNode
<1>4. \A i, j \in Oldest..Newest : N[i] = N[j] => i = j
  BY <1>2 DEF Layout
<1>5. \A c \in Consumers : pc[c] # "idle" => Linked > 0
  BY DEF Chain, ConsumerAt
<1> USE DEF memory, locals, record, Go
<1>6. CASE MallocFails(t)
  <2>1. pc' = pc /\ UNCHANGED <<memory, locals, fault, inserted, got>> /\ pc[t] = "idle"
    BY <1>1, <1>6 DEF MallocFails, TypeInv, TypeOK
  <2>2. Oldest' = Oldest /\ Newest' = Newest /\ Linked' = Linked
    BY <2>1 DEF Oldest, Newest, Linked
  <2>3. Nodes(N)' /\ Ends(N)' /\ ProducerAt(N)'
    BY <1>2, <2>1, <2>2 DEF Nodes, Ends, ProducerAt
  <2> QED BY <1>3, <2>1, <2>2, <2>3, InsertFrame
<1>7. CASE StoreWord(t)
  <2>1. PICK w \in left[t] :
          /\ pc' = [pc EXCEPT ![t] = IF left[t] = {w} THEN "66" ELSE "65"] /\ pc[t] = "65"
          /\ data' = [data EXCEPT ![dummy[t]] = [@ EXCEPT ![w] = Len(inserted)]]
          /\ left' = [left EXCEPT ![t] = @ \ {w}]
          /\ UNCHANGED <<head, tail, next, heap, dummy, p, q, item, fault, record>>
    BY <1>7 DEF StoreWord
  <2>2. /\ pc'[t] = (IF left[t] = {w} THEN "66" ELSE "65") /\ left'[t] = left[t] \ {w}
        /\ \A c \in Consumers : pc'[c] = pc[c] /\ left'[c] = left[c]
        /\ left[t] \subseteq Words /\ w \in Words
    BY <1>1, <2>1 DEF TypeInv, TypeOK
  <2>3. Oldest' = Oldest /\ Newest' = Newest /\ Linked' = Linked /\ Linked = Newest - 1
    BY <2>1, <2>2 DEF Oldest, Newest, Linked
  <2>4. /\ Newest >= 1 /\ dummy[t] = N[Newest] /\ inserted[Newest] = Reading(Newest)
        /\ N[Newest] \in Addr
    BY <1>2, <1>3, <2>1 DEF ProducerAt
  <2>5. /\ data'[N[Newest]] = [data[N[Newest]] EXCEPT ![w] = Newest]
        /\ \A b \in Addr \ {N[Newest]} : data'[b] = data[b]
    BY <2>1, <2>4 DEF TypeInv, TypeOK, Newest
  <2>6. data[N[Newest]] \in [Words -> 0..MaxReadings]
    BY <2>4 DEF TypeInv, TypeOK, Contents
  <2>7. \A v \in Words \ left'[t] : data'[N[Newest]][v] = Newest
    <3>1. \A v \in Words \ left[t] : data[N[Newest]][v] = Newest
      BY <1>2, <2>1 DEF Nodes
    <3> QED BY <2>2, <2>5, <2>6, <3>1
  <2>8. left[t] = {w} => data'[N[Newest]] = inserted[Newest]
    <3>1. ASSUME left[t] = {w} PROVE data'[N[Newest]] = Reading(Newest)
      <4>1. \A v \in Words : data'[N[Newest]][v] = Newest
        BY <2>2, <2>7, <3>1
      <4>2. data'[N[Newest]] = [v \in Words |-> data'[N[Newest]][v]]
        BY <2>5, <2>6
      <4> QED BY <4>1, <4>2 DEF Reading
    <3> QED BY <2>4, <3>1
  <2>9. \A i \in Oldest..Newest : i < Newest => data'[N[i]] = data[N[i]]
    <3>1. \A i \in Oldest..Newest : i < Newest => N[i] # N[Newest] /\ N[i] \in Addr
      BY <1>3, <1>4
    <3> QED BY <2>5, <3>1
  <2>10. Nodes(N)'
    <3>1. \A i \in Oldest..Newest : i < Newest \/ pc'[t] # "65" => data'[N[i]] = inserted[i]
      <4>1. \A i \in Oldest..Newest : i < Newest \/ i = Newest
        BY <1>3
      <4>2. \A i \in Oldest..Newest : i < Newest => data[N[i]] = inserted[i]
        BY <1>2 DEF Nodes
      <4> QED BY <2>2, <2>8, <2>9, <4>1, <4>2
    <3> QED BY <1>2, <2>1, <2>2, <2>3, <2>7, <3>1 DEF Nodes
  <2>11. Ends(N)' /\ ProducerAt(N)'
    BY <1>2, <2>1, <2>2, <2>3 DEF Ends, ProducerAt
  <2>12. Linked' >= Linked
    BY <1>3, <2>3
  <2> QED BY <2>1, <2>2, <2>10, <2>11, <2>12, InsertFrame
<1>14. CASE ClearNext(t)
  <2>1. /\ pc[t] = "66" /\ pc'[t] = "67" /\ \A c \in Consumers : pc'[c] = pc[c]
        /\ next' = [next EXCEPT ![dummy[t]] = NULL]
        /\ UNCHANGED <<head, tail, data, heap, locals, fault, record>>
    BY <1>1, <1>14 DEF ClearNext, TypeInv, TypeOK
  <2>2. Oldest' = Oldest /\ Newest' = Newest /\ Linked' = Linked /\ Linked = Newest - 1
    BY <2>1 DEF Oldest, Newest, Linked
  <2>3. Newest >= 1 /\ dummy[t] = N[Newest] /\ N[Newest] \in Addr
    BY <1>2, <1>3, <2>1 DEF ProducerAt
  <2>4. next'[N[Newest]] = NULL
    BY <2>1, <2>3 DEF TypeInv, TypeOK
  <2>5. \A i \in Oldest..Newest : i < Newest => next'[N[i]] = next[N[i]]
    <3>1. \A i \in Oldest..Newest : i < Newest => N[i] # N[Newest] /\ N[i] \in Addr
      BY <1>3, <1>4
    <3> QED BY <2>1, <2>3, <3>1 DEF TypeInv, TypeOK
  <2>6. Nodes(N)'
    BY <1>2, <1>3, <2>1, <2>2, <2>4, <2>5 DEF Nodes
  <2>7. Ends(N)' /\ ProducerAt(N)'
    BY <1>2, <2>1, <2>2 DEF Ends, ProducerAt
  <2> QED BY <1>3, <2>1, <2>2, <2>6, <2>7, InsertFrame
<1>8. CASE TestTail(t)
  <2>1. /\ pc[t] = "67" /\ pc'[t] = (IF tail = NULL THEN "69a" ELSE "71a")
        /\ \A c \in Consumers : pc'[c] = pc[c]
        /\ UNCHANGED <<memory, locals, fault, record>>
    BY <1>1, <1>8 DEF TestTail, TypeInv, TypeOK
  <2>2. Oldest' = Oldest /\ Newest' = Newest /\ Linked' = Linked /\ Linked = Newest - 1
    BY <2>1 DEF Oldest, Newest, Linked
  <2>3. Newest >= 1 /\ dummy[t] = N[Newest]
    BY <1>2, <2>1 DEF ProducerAt
  <2>4. (tail = NULL) = (Linked = 0)
    BY <1>2, <1>3, <2>2, <2>3 DEF Ends
  <2>5. Nodes(N)'
    BY <1>2, <2>1, <2>2 DEF Nodes
  <2>6. Ends(N)'
    BY <1>2, <2>1, <2>2 DEF Ends
  <2>7. ProducerAt(N)'
    BY <1>3, <1>5, <2>1, <2>2, <2>3, <2>4 DEF ProducerAt
  <2> QED BY <1>3, <2>1, <2>2, <2>5, <2>6, <2>7, InsertFrame
<1>9. CASE \/ StoreTail(t, "69a", dummy[t], "69b") \/ AssignedValue(t, "69b", dummy[t], "69c")
           \/ StoreHead(t, "69c", q[t], "idle")
  <2>1. /\ pc[t] \in {"69a", "69b", "69c"} /\ \A c \in Consumers : pc'[c] = pc[c] /\ q'[c] = q[c]
        /\ UNCHANGED <<next, data, heap, dummy, p, item, left, fault, record>>
    BY <1>1, <1>9 DEF StoreTail, AssignedValue, StoreHead, TypeInv, TypeOK
  <2>2. /\ Oldest' = Oldest /\ Newest' = Newest /\ Newest = 1 /\ dummy[t] = N[1]
        /\ \A c \in Consumers : pc[c] = "idle"
    BY <1>2, <2>1 DEF Oldest, Newest, ProducerAt
  <2>3. Oldest = 1
    BY <1>2, <1>3, <2>2 DEF Ends, Oldest
  <2>4. /\ pc'[t] \in {"69b", "69c", "idle"} /\ Linked' = 1
        /\ (pc[t] = "69a" => Linked = 0) /\ (pc[t] # "69a" => Linked = 1)
    BY <1>1, <1>9, <2>1, <2>2 DEF StoreTail, AssignedValue, StoreHead, TypeInv, TypeOK, Linked
  <2>5. tail' = N[1]
    BY <1>2, <1>9, <2>1, <2>2, <2>4 DEF StoreTail, AssignedValue, StoreHead, Ends
  <2>6. pc'[t] = "69c" => q'[t] = N[1]
    <3>1. pc'[t] = "69c" => AssignedValue(t, "69b", dummy[t], "69c")
      BY <1>1, <1>9 DEF StoreTail, AssignedValue, StoreHead, TypeInv, TypeOK
    <3>2. pc'[t] = "69c" => tail = N[1]
      BY <2>5, <3>1 DEF AssignedValue
    <3> QED BY <1>1, <2>2, <3>1, <3>2 DEF AssignedValue, TypeInv, TypeOK
  <2>7. IF pc'[t] = "idle" THEN head' = N[1] ELSE head' = NULL
    BY <1>1, <1>2, <1>9, <2>1, <2>2, <2>4
       DEF StoreTail, AssignedValue, StoreHead, TypeInv, TypeOK, Ends, ProducerAt
  <2>8. Nodes(N)'
    BY <1>2, <2>1, <2>2, <2>3, <2>4 DEF Nodes
  <2>9. Ends(N)'
    BY <1>2, <2>1, <2>2, <2>3, <2>4, <2>5, <2>7 DEF Ends, Oldest
  <2>10. ProducerAt(N)'
    BY <2>1, <2>2, <2>4, <2>6 DEF ProducerAt
  <2>11. Linked' >= Linked
    BY <2>4
  <2> QED BY <2>1, <2>8, <2>9, <2>10, <2>11, InsertFrame
<1>10. CASE Load(t, "71a", tail, "71b") \/ Load(t, "72a", tail, "72b")
  <2>1. /\ \/ pc[t] = "71a" /\ pc'[t] = "71b"
           \/ pc[t] = "72a" /\ pc'[t] = "72b"
        /\ \A c \in Consumers : pc'[c] = pc[c] /\ p'[c] = p[c]
        /\ p'[t] = tail
        /\ UNCHANGED <<memory, dummy, q, item, left, fault, record>>
    BY <1>1, <1>10 DEF Load, TypeInv, TypeOK
  <2>2. Oldest' = Oldest /\ Newest' = Newest /\ Linked' = Linked /\ Linked = Newest - 1
    BY <2>1 DEF Oldest, Newest, Linked
  <2>3. Newest >= 2 /\ tail = N[Newest - 1]
    BY <1>2, <1>3, <2>1, <2>2 DEF ProducerAt, Ends
  <2>4. Nodes(N)'
    BY <1>2, <2>1, <2>2 DEF Nodes
  <2>5. Ends(N)'
    BY <1>2, <2>1, <2>2 DEF Ends
  <2>6. ProducerAt(N)'
    BY <1>2, <2>1, <2>2, <2>3 DEF ProducerAt
  <2> QED BY <1>3, <2>1, <2>2, <2>4, <2>5, <2>6, InsertFrame
<1>11. CASE LinkBehindTail(t)
  <2>1. /\ pc[t] = "71b" /\ pc'[t] = "72a" /\ \A c \in Consumers : pc'[c] = pc[c]
        /\ next' = [next EXCEPT ![p[t]] = dummy[t]]
        /\ UNCHANGED <<head, tail, data, heap, locals, fault, record>>
    BY <1>1, <1>11 DEF LinkBehindTail, TypeInv, TypeOK
  <2>2. Oldest' = Oldest /\ Newest' = Newest /\ Linked' = Linked /\ Linked = Newest - 1
    BY <2>1 DEF Oldest, Newest, Linked
  <2>3. Newest >= 2 /\ p[t] = N[Newest - 1] /\ dummy[t] = N[Newest] /\ Oldest <= Newest - 1
    BY <1>2, <1>3, <2>1, <2>2 DEF ProducerAt, Ends
  <2>4. next'[N[Newest - 1]] = N[Newest]
    BY <1>3, <2>1, <2>3 DEF TypeInv, TypeOK
  <2>5. \A i \in Oldest..Newest : i # Newest - 1 => next'[N[i]] = next[N[i]]
    <3>1. \A i \in Oldest..Newest : i # Newest - 1 => N[i] # N[Newest - 1] /\ N[i] \in Addr
      BY <1>3, <1>4, <2>3
    <3> QED BY <2>1, <2>3, <3>1 DEF TypeInv, TypeOK
  <2>6. Nodes(N)'
    <3>1. \A i \in Oldest..Newest - 1 : next'[N[i]] = N[i + 1]
      <4>1. \A i \in Oldest..Newest - 1 : i \in Oldest..Newest /\ (i < Linked \/ i = Newest - 1)
        BY <1>3, <2>2
      <4>2. \A i \in Oldest..Newest - 1 : i < Linked => next[N[i]] = N[i + 1]
        BY <1>2 DEF Nodes
      <4>3. (Newest - 1) + 1 = Newest
        BY <1>3
      <4> TAKE i \in Oldest..Newest - 1
      <4>4. CASE i = Newest - 1
        BY <2>4, <4>3, <4>4
      <4>5. CASE i # Newest - 1
        BY <2>5, <4>1, <4>2, <4>5
      <4> QED BY <4>4, <4>5
    <3>2. next'[N[Newest]] = NULL
      <4>1. Newest \in Oldest..Newest /\ Newest # Newest - 1 /\ Newest >= 1
        BY <1>3, <2>3
      <4>2. next[N[Newest]] = NULL
        BY <1>2, <2>1, <4>1 DEF Nodes
      <4> QED BY <2>5, <4>1, <4>2
    <3>3. \A i \in Oldest..Newest : data'[N[i]] = inserted'[i]
      BY <1>2, <2>1 DEF Nodes
    <3> QED BY <2>1, <2>2, <3>1, <3>2, <3>3 DEF Nodes
  <2>7. Ends(N)'
    BY <1>2, <2>1, <2>2 DEF Ends
  <2>8. ProducerAt(N)'
    BY <1>2, <2>1, <2>2 DEF ProducerAt
  <2> QED BY <1>3, <2>1, <2>2, <2>6, <2>7, <2>8, InsertFrame
<1>12. CASE LoadNext(t, "72b", "72c")
  <2>1. /\ pc[t] = "72b" /\ pc'[t] = "72c"
        /\ \A c \in Consumers : pc'[c] = pc[c] /\ q'[c] = q[c]
        /\ q'[t] = next[p[t]]
        /\ UNCHANGED <<memory, dummy, p, item, left, fault, record>>
    BY <1>1, <1>12 DEF LoadNext, TypeInv, TypeOK
  <2>2. Oldest' = Oldest /\ Newest' = Newest /\ Linked' = Linked /\ Linked = Newest - 1
    BY <2>1 DEF Oldest, Newest, Linked
  <2>3. Newest >= 2 /\ p[t] = N[Newest - 1] /\ Oldest <= Newest - 1
    BY <1>2, <1>3, <2>1, <2>2 DEF ProducerAt, Ends
  <2>4. next[N[Newest - 1]] = N[Newest]
    <3>1. Newest - 1 \in Oldest..Newest - 1 /\ (Newest - 1) + 1 = Newest
      BY <1>3, <2>3
    <3> QED BY <1>2, <2>1, <3>1 DEF Nodes
  <2>5. Nodes(N)'
    BY <1>2, <2>1, <2>2 DEF Nodes
  <2>6. Ends(N)'
    BY <1>2, <2>1, <2>2 DEF Ends
  <2>7. ProducerAt(N)'
    BY <1>2, <2>1, <2>2, <2>3, <2>4 DEF ProducerAt
  <2> QED BY <1>3, <2>1, <2>2, <2>5, <2>6, <2>7, InsertFrame
<1>13. CASE StoreTail(t, "72c", q[t], "idle")
  <2>1. /\ pc[t] = "72c" /\ pc'[t] = "idle" /\ \A c \in Consumers : pc'[c] = pc[c]
        /\ tail' = q[t]
        /\ UNCHANGED <<head, next, data, heap, locals, fault, record>>
    BY <1>1, <1>13 DEF StoreTail, TypeInv, TypeOK
  <2>2. Oldest' = Oldest /\ Newest' = Newest /\ Linked' = Newest /\ Linked = Newest - 1
    BY <2>1 DEF Oldest, Newest, Linked
  <2>3. Newest >= 2 /\ q[t] = N[Newest] /\ Oldest <= Newest - 1
    BY <1>2, <1>3, <2>1, <2>2 DEF ProducerAt, Ends
  <2>4. Nodes(N)'
    BY <1>2, <2>1, <2>2, <2>3 DEF Nodes
  <2>5. Ends(N)'
    BY <1>2, <1>3, <2>1, <2>2, <2>3 DEF Ends
  <2>6. ProducerAt(N)'
    BY <2>1 DEF ProducerAt
  <2> QED BY <1>3, <2>1, <2>2, <2>4, <2>5, <2>6, InsertFrame
<1> QED BY <1>6, <1>7, <1>8, <1>9, <1>10, <1>11, <1>12, <1>13, <1>14 DEF sbuffer_insert

\* A step of the only removal under way that frees nothing: what is left to show
\* is where head points and what the consumer knows.
LEMMA RemoveFrame ==
  ASSUME TypeInv, NEW N \in Seq(Addr), Chain(N), NEW t \in Consumers,
         UNCHANGED <<tail, next, data, heap, inserted, got, fault>>,
         pc'[Producer] = pc[Producer], p'[Producer] = p[Producer],
         q'[Producer] = q[Producer], dummy'[Producer] = dummy[Producer],
         left'[Producer] = left[Producer],
         \A c \in Consumers \ {t} : pc[c] = "idle" /\ pc'[c] = "idle",
         pc[Producer] \notin {"69a", "69b", "69c"}, Linked > 0,
         head' = IF pc'[t] = "56" THEN N[Oldest + 1] ELSE N[Oldest],
         ConsumerAt(N, t)'
  PROVE  Chain(N)'
PROOF
<1>1. Layout(N) /\ Nodes(N) /\ Ends(N) /\ ProducerAt(N) /\ fault = "none"
  BY DEF Chain
<1>2. Oldest' = Oldest /\ Newest' = Newest /\ Linked' = Linked
  BY DEF Oldest, Newest, Linked
<1>3. Layout(N)'
  BY <1>1, LayoutKept
<1>4. Nodes(N)'
  BY <1>1, <1>2 DEF Nodes
<1>5. Ends(N)'
  <2>1. Linked # 0
    BY <1>1, ChainFacts
  <2>2. Oldest <= Linked /\ tail = N[Linked]
    BY <1>1 DEF Ends
  <2>3. (\A c \in Consumers : pc'[c] # "56") => head' = N[Oldest]
    OBVIOUS
  <2>4. \A c \in Consumers : pc'[c] = "56" => head' = N[Oldest + 1]
    OBVIOUS
  <2> QED BY <1>2, <2>1, <2>2, <2>3, <2>4 DEF Ends
<1>6. ProducerAt(N)'
  BY <1>1, <1>2 DEF ProducerAt
<1>7. ASSUME NEW c \in Consumers PROVE ConsumerAt(N, c)'
  <2>1. c # t => pc'[c] = "idle"
    OBVIOUS
  <2> QED BY <2>1 DEF ConsumerAt
<1> QED BY <1>1, <1>3, <1>4, <1>5, <1>6, <1>7 DEF Chain

\* A removal that does not free: the accesses of lines 44 to 54.
LEMMA RemoveChain ==
  ASSUME TypeInv, SoloInv, NEW N \in Seq(Addr), Chain(N), ~ drained', ~ overlapped',
         NEW t \in Consumers, sbuffer_remove(t), ~ FreeNode(t)
  PROVE  Chain(N)'
PROOF
<1>1. t \in Threads /\ t # Producer /\ Producer \in Threads
  BY ThreadFacts
<1>2. Layout(N) /\ Nodes(N) /\ Ends(N) /\ ProducerAt(N) /\ fault = "none" /\ ConsumerAt(N, t)
  BY DEF Chain
<1>3. /\ Oldest \in Nat /\ Oldest >= 1 /\ Newest \in Nat /\ Linked \in {Newest, Newest - 1}
      /\ \A i \in 1..Newest : N[i] \in Addr /\ N[i] # NULL
      /\ \A i \in Oldest..Newest : i \in 1..Newest /\ N[i] \in heap
  BY <1>2, ChainFacts, NullIsNoNode
<1> USE DEF memory, locals, record, Go
<1>4. CASE NoData(t)
  <2>1. pc' = pc /\ UNCHANGED <<memory, locals, fault, record>>
    BY <1>1, <1>4 DEF NoData, TypeInv, TypeOK
  <2> QED BY <2>1 DEF Chain, Layout, Nodes, Ends, ProducerAt, ConsumerAt, Oldest, Newest, Linked
<1>5. CASE ~ NoData(t)
  <2>1. \A c \in Consumers \ {t} : pc[c] = "idle" /\ pc'[c] = "idle"
    BY <1>5, RemoveMoves, ThreadFacts
  <2>2. pc'[Producer] = pc[Producer]
    BY <1>1, RemoveMoves
  <2>3. Oldest' = Oldest /\ Newest' = Newest /\ Linked' = Linked
    <3>1. UNCHANGED <<inserted, got>>
      BY DEF sbuffer_remove, NoData, SomeData, FollowHead, CopyWord, TakeHead, CompareTail, FreeTwice,
             Load, StoreHead, StoreTail, AssignedValue, LoadNext
    <3> QED BY <2>2, <3>1 DEF Oldest, Newest, Linked
  <2>4. ~ FreeTwice(t)
    <3>1. pc[t] = "56" => dummy[t] = N[Oldest] /\ Oldest \in Oldest..Newest
      BY <1>2, <1>3 DEF ConsumerAt
    <3> QED BY <1>3, <3>1 DEF FreeTwice
  <2>5. pc[t] \notin {"52a", "52b", "52c"}
    BY <1>2 DEF ConsumerAt
  <2>6. pc[t] # "idle" => pc[Producer] \notin {"69a", "69b", "69c"} /\ Linked > 0
    BY <1>2 DEF ProducerAt, ConsumerAt
  <2>7. pc[t] # "idle" /\ pc[t] # "56" => head = N[Oldest]
    BY <1>2, <2>1, <2>6 DEF Ends
  <2>8. Linked > 0 => Oldest <= Linked /\ Oldest \in Oldest..Newest /\ N[Oldest] \in heap
    BY <1>2, <1>3 DEF Ends
  <2>9. CASE SomeData(t)
    <3>1. /\ pc[t] = "idle" /\ pc'[t] = "48a" /\ head # NULL
          /\ UNCHANGED <<memory, locals, fault, inserted, got>>
      BY <1>1, <2>9 DEF SomeData, TypeInv, TypeOK
    <3>2. Linked # 0 /\ pc[Producer] \notin {"69b", "69c"}
      BY <1>2, <3>1 DEF Ends
    <3>3. pc[Producer] # "69a"
      BY <1>2, <3>2 DEF ProducerAt, Linked
    <3>4. Linked > 0
      <4>1. pc[Producer] # "idle" => Newest >= 1
        BY <1>2 DEF ProducerAt
      <4> QED BY <1>3, <3>2, <4>1 DEF Linked
    <3>5. head' = N[Oldest]
      BY <1>2, <2>1, <3>1, <3>2, <3>4 DEF Ends
    <3>6. ConsumerAt(N, t)'
      BY <2>3, <3>1, <3>4 DEF ConsumerAt
    <3> QED BY <2>1, <2>2, <3>1, <3>2, <3>3, <3>4, <3>5, <3>6, RemoveFrame
  <2>10. CASE Load(t, "50a", head, "50b") \/ Load(t, "54a", head, "54b")
    <3>1. /\ \/ pc[t] = "50a" /\ pc'[t] = "50b"
             \/ pc[t] = "54a" /\ pc'[t] = "54b"
          /\ p'[t] = head /\ p'[Producer] = p[Producer]
          /\ UNCHANGED <<memory, dummy, q, item, left, fault, record>>
      BY <1>1, <2>10 DEF Load, TypeInv, TypeOK
    <3>2. ConsumerAt(N, t)'
      BY <1>2, <2>3, <2>6, <2>7, <3>1 DEF ConsumerAt
    <3> QED BY <2>1, <2>2, <2>6, <2>7, <3>1, <3>2, RemoveFrame
  <2>17. CASE FollowHead(t)
    <3>1. /\ pc[t] = "48a" /\ pc'[t] = "48b" /\ left'[t] = Words /\ left'[Producer] = left[Producer]
          /\ p'[t] = head /\ p'[Producer] = p[Producer]
          /\ UNCHANGED <<memory, dummy, q, item, fault, record>>
      BY <1>1, <2>17 DEF FollowHead, TypeInv, TypeOK
    <3>2. ConsumerAt(N, t)'
      BY <1>2, <2>3, <2>6, <2>7, <3>1 DEF ConsumerAt
    <3> QED BY <2>1, <2>2, <2>6, <2>7, <3>1, <3>2, RemoveFrame
  <2>11. CASE CopyWord(t)
    <3>1. PICK w \in left[t] :
            /\ pc' = [pc EXCEPT ![t] = IF left[t] = {w} THEN "49" ELSE "48b"] /\ pc[t] = "48b"
            /\ item' = [item EXCEPT ![t] = [@ EXCEPT ![w] = data[p[t]][w]]]
            /\ left' = [left EXCEPT ![t] = @ \ {w}]
            /\ UNCHANGED <<memory, dummy, p, q, fault, record>>
      BY <2>11 DEF CopyWord
    <3>2. /\ pc'[t] = (IF left[t] = {w} THEN "49" ELSE "48b") /\ left'[t] = left[t] \ {w}
          /\ left'[Producer] = left[Producer] /\ left[t] \subseteq Words /\ w \in Words
          /\ item'[t] = [item[t] EXCEPT ![w] = data[p[t]][w]]
          /\ item[t] \in [Words -> 0..MaxReadings]
      BY <1>1, <3>1 DEF TypeInv, TypeOK, Contents
    <3>3. p[t] = N[Oldest] /\ data[N[Oldest]] = inserted[Oldest]
      <4>1. Oldest < Newest \/ pc[Producer] # "65"
        BY <1>3, <2>6, <2>8, <3>1 DEF Linked
      <4> QED BY <1>2, <2>6, <2>8, <3>1, <4>1 DEF Nodes, ConsumerAt
    <3>4. \A v \in Words \ left'[t] : item'[t][v] = inserted[Oldest][v]
      <4>1. \A v \in Words \ left[t] : item[t][v] = inserted[Oldest][v]
        BY <1>2, <3>1 DEF ConsumerAt
      <4> QED BY <3>2, <3>3, <4>1
    <3>5. left[t] = {w} => item'[t] = inserted[Oldest]
      <4>1. ASSUME left[t] = {w} PROVE item'[t] = inserted[Oldest]
        <5>1. \A v \in Words : item'[t][v] = inserted[Oldest][v]
          BY <3>2, <3>4, <4>1
        <5>2. inserted[Oldest] \in [Words -> 0..MaxReadings]
          <6>1. N[Oldest] \in Addr
            BY <1>3, <2>6, <2>8, <3>1
          <6> QED BY <3>3, <6>1 DEF TypeInv, TypeOK, Contents
        <5>3. /\ item'[t] = [v \in Words |-> item'[t][v]]
              /\ inserted[Oldest] = [v \in Words |-> inserted[Oldest][v]]
          BY <3>2, <5>2
        <5>4. [v \in Words |-> item'[t][v]] = [v \in Words |-> inserted[Oldest][v]]
          BY <5>1
        <5> QED BY <5>3, <5>4
      <4> QED BY <4>1
    <3>6. ConsumerAt(N, t)'
      BY <1>2, <2>3, <2>6, <3>1, <3>2, <3>4, <3>5 DEF ConsumerAt
    <3>7. pc'[t] # "56"
      BY <3>2
    <3> QED BY <2>1, <2>2, <2>6, <2>7, <3>1, <3>2, <3>6, <3>7, RemoveFrame
  <2>12. CASE TakeHead(t)
    <3>1. /\ pc[t] = "49" /\ pc'[t] = "50a" /\ dummy'[t] = head
          /\ dummy'[Producer] = dummy[Producer]
          /\ UNCHANGED <<memory, p, q, item, left, fault, record>>
      BY <1>1, <2>12 DEF TakeHead, TypeInv, TypeOK
    <3>2. ConsumerAt(N, t)'
      BY <1>2, <2>3, <2>6, <2>7, <3>1 DEF ConsumerAt
    <3> QED BY <2>1, <2>2, <2>6, <2>7, <3>1, <3>2, RemoveFrame
  <2>13. CASE CompareTail(t)
    <3>1. /\ pc[t] = "50b" /\ pc'[t] = "54a" /\ p[t] # tail
          /\ UNCHANGED <<memory, locals, fault, inserted, got>>
      BY <1>1, <2>13 DEF CompareTail, TypeInv, TypeOK
    <3>2. p[t] = N[Oldest] /\ tail = N[Linked]
      BY <1>2, <2>6, <3>1 DEF ConsumerAt, Ends
    <3>3. Oldest # Linked
      BY <3>1, <3>2
    <3>4. Oldest + 1 <= Linked
      BY <1>3, <2>6, <2>8, <3>1, <3>3
    <3>5. ConsumerAt(N, t)'
      BY <1>2, <2>3, <2>6, <3>1, <3>4 DEF ConsumerAt
    <3> QED BY <2>1, <2>2, <2>6, <2>7, <3>1, <3>5, RemoveFrame
  <2>14. CASE LoadNext(t, "54b", "54c")
    <3>1. /\ pc[t] = "54b" /\ pc'[t] = "54c" /\ q'[t] = next[p[t]] /\ q'[Producer] = q[Producer]
          /\ UNCHANGED <<memory, dummy, p, item, left, fault, record>>
      BY <1>1, <2>14 DEF LoadNext, TypeInv, TypeOK
    <3>2. p[t] = N[Oldest] /\ Oldest + 1 <= Linked
      BY <1>2, <3>1 DEF ConsumerAt
    <3>3. next[N[Oldest]] = N[Oldest + 1]
      <4>1. Oldest \in Oldest..Newest - 1 /\ Oldest < Linked
        BY <1>3, <3>2
      <4> QED BY <1>2, <4>1 DEF Nodes
    <3>4. ConsumerAt(N, t)'
      BY <1>2, <2>3, <2>6, <3>1, <3>2, <3>3 DEF ConsumerAt
    <3> QED BY <2>1, <2>2, <2>6, <2>7, <3>1, <3>4, RemoveFrame
  <2>15. CASE StoreHead(t, "54c", q[t], "56")
    <3>1. /\ pc[t] = "54c" /\ pc'[t] = "56" /\ head' = q[t]
          /\ UNCHANGED <<tail, next, data, heap, locals, fault, record>>
      BY <1>1, <2>15 DEF StoreHead, TypeInv, TypeOK
    <3>2. q[t] = N[Oldest + 1]
      BY <1>2, <3>1 DEF ConsumerAt
    <3>3. ConsumerAt(N, t)'
      BY <1>2, <2>3, <2>6, <3>1 DEF ConsumerAt
    <3> QED BY <2>1, <2>2, <2>6, <3>1, <3>2, <3>3, RemoveFrame
  <2>16. ~ StoreTail(t, "52a", NULL, "52b") /\ ~ AssignedValue(t, "52b", NULL, "52c")
         /\ ~ StoreHead(t, "52c", q[t], "56")
    BY <2>5 DEF StoreTail, AssignedValue, StoreHead
  <2> QED BY <1>5, <2>4, <2>9, <2>10, <2>11, <2>12, <2>13, <2>14, <2>15, <2>16, <2>17 DEF sbuffer_remove
<1> QED BY <1>4, <1>5

\* The removal frees the first node of the chain and returns its reading.
LEMMA FreeChain ==
  ASSUME TypeInv, SoloInv, NEW N \in Seq(Addr), Chain(N), ~ overlapped',
         NEW t \in Consumers, FreeNode(t)
  PROVE  Chain(N)'
PROOF
<1>1. t \in Threads /\ t # Producer /\ Producer \in Threads
  BY ThreadFacts
<1>2. Layout(N) /\ Nodes(N) /\ Ends(N) /\ ProducerAt(N) /\ fault = "none" /\ ConsumerAt(N, t)
  BY DEF Chain
<1>3. /\ Oldest \in Nat /\ Oldest >= 1 /\ Newest \in Nat /\ Linked \in {Newest, Newest - 1}
      /\ Len(got) \in Nat
  BY <1>2, ChainFacts
<1>4. /\ pc[t] = "56" /\ pc'[t] = "idle" /\ heap' = heap \ {dummy[t]}
      /\ got' = Append(got, item[t])
      /\ p'[Producer] = p[Producer] /\ q'[Producer] = q[Producer]
      /\ UNCHANGED <<head, tail, next, data, dummy, left, fault, inserted>>
  BY <1>1 DEF FreeNode, Go, TypeInv, TypeOK
<1>5. \A c \in Consumers \ {t} : pc[c] = "idle" /\ pc'[c] = "idle"
  <2>1. sbuffer_remove(t) /\ ~ NoData(t)
    BY <1>4 DEF sbuffer_remove, NoData, Go
  <2> QED BY <2>1, RemoveMoves, ThreadFacts
<1>6. pc'[Producer] = pc[Producer]
  BY <1>1 DEF FreeNode, Go, TypeInv, TypeOK
<1>7. /\ dummy[t] = N[Oldest] /\ item[t] = inserted[Oldest] /\ Oldest + 1 <= Linked
      /\ pc[Producer] \notin {"69a", "69b", "69c"} /\ Linked > 0
  BY <1>2, <1>4 DEF ConsumerAt, ProducerAt
<1>8. /\ Len(got') = Len(got) + 1 /\ got'[Len(got) + 1] = item[t]
      /\ \A i \in 1..Len(got) : got'[i] = got[i]
  BY <1>1, <1>4, AppendProperties DEF TypeInv, TypeOK
<1>9. Oldest' = Oldest + 1 /\ Newest' = Newest /\ Linked' = Linked /\ Oldest' = Len(got')  + 1
  BY <1>3, <1>4, <1>6, <1>8 DEF Oldest, Newest, Linked
<1>10. \A i \in Oldest + 1..Newest : i \in Oldest..Newest /\ i # Oldest
  BY <1>3
<1>11. \A i \in Oldest..Newest : i = Oldest \/ i \in Oldest + 1..Newest
  BY <1>3
<1>12. Oldest \in Oldest..Newest
  BY <1>3, <1>7
<1>13. Layout(N)'
  <2>1. heap' = {N[i] : i \in Oldest + 1..Newest}
    <3>1. \A i \in Oldest + 1..Newest : N[i] # N[Oldest]
      BY <1>2, <1>10, <1>12 DEF Layout
    <3>2. heap = {N[i] : i \in Oldest..Newest} /\ heap' = heap \ {N[Oldest]}
      BY <1>2, <1>4, <1>7 DEF Layout
    <3> QED BY <1>10, <1>11, <3>1, <3>2
  <2>2. \A i, j \in Oldest + 1..Newest : N[i] = N[j] => i = j
    BY <1>2, <1>10 DEF Layout
  <2>3. \A i \in 1..Len(got) + 1 : got'[i] = inserted[i]
    <3>1. \A i \in 1..Len(got) + 1 : i \in 1..Len(got) \/ i = Len(got) + 1
      BY <1>3
    <3>2. \A i \in 1..Len(got) : got'[i] = inserted[i]
      BY <1>2, <1>8 DEF Layout
    <3>3. got'[Len(got) + 1] = inserted[Len(got) + 1]
      BY <1>7, <1>8 DEF Oldest
    <3> QED BY <3>1, <3>2, <3>3
  <2>4. Len(got) + 1 <= Newest
    BY <1>3, <1>7 DEF Oldest
  <2> QED BY <1>2, <1>4, <1>8, <1>9, <2>1, <2>2, <2>3, <2>4 DEF Layout
<1>14. Nodes(N)'
  <2>1. \A i \in Oldest + 1..Newest - 1 : i \in Oldest..Newest - 1
    BY <1>3
  <2> QED BY <1>2, <1>4, <1>6, <1>9, <1>10, <2>1 DEF Nodes
<1>15. Ends(N)'
  <2>1. head = N[Oldest + 1] /\ tail = N[Linked]
    BY <1>2, <1>4, <1>7 DEF Ends
  <2>2. \A c \in Consumers : pc'[c] # "56"
    BY <1>4, <1>5
  <2> QED BY <1>4, <1>6, <1>7, <1>9, <2>1, <2>2 DEF Ends
<1>16. ProducerAt(N)'
  BY <1>2, <1>4, <1>6, <1>7, <1>9 DEF ProducerAt
<1>17. ASSUME NEW c \in Consumers PROVE ConsumerAt(N, c)'
  <2>1. pc'[c] = "idle"
    BY <1>4, <1>5
  <2> QED BY <2>1 DEF ConsumerAt
<1> QED BY <1>2, <1>4, <1>13, <1>14, <1>15, <1>16, <1>17 DEF Chain

\* No thread of a chain follows a bad pointer.
LEMMA ChainSafe ==
  ASSUME TypeInv, PlaceInv, NEW N \in Seq(Addr), Chain(N), NEW t \in Threads
  PROVE  ~ BadAccess(t)
PROOF
<1>1. Layout(N) /\ Ends(N) /\ ProducerAt(N)
  BY DEF Chain
<1>2. /\ Oldest \in Nat /\ Newest \in Nat /\ Linked \in {Newest, Newest - 1}
      /\ \A i \in Oldest..Newest : N[i] \in heap
  BY <1>1, ChainFacts
<1>3. Linked > 0 => Oldest \in Oldest..Newest /\ Oldest <= Linked
  BY <1>1, <1>2 DEF Ends
<1>4. CASE t = Producer
  <2>1. pc[t] \in {"71b", "72b"} => Linked = Newest - 1 /\ Newest >= 2 /\ p[t] = N[Newest - 1]
    BY <1>1, <1>4 DEF ProducerAt, Linked
  <2>2. pc[t] \in {"71b", "72b"} => Newest - 1 \in Oldest..Newest
    BY <1>2, <1>3, <2>1
  <2>3. pc[t] \notin {"48b", "54b"}
    BY <1>4 DEF PlaceInv
  <2>4. ASSUME pc[t] \in {"65", "66"} PROVE dummy[t] \in heap
    <3>1. Linked = Newest - 1 /\ Newest >= 1 /\ dummy[t] = N[Newest]
      BY <1>1, <1>4, <2>4 DEF ProducerAt, Linked
    <3>2. Newest \in Oldest..Newest
      BY <1>1, <1>2, <1>3, <3>1 DEF Ends, Oldest
    <3> QED BY <1>2, <3>1, <3>2
  <2> QED BY <1>2, <2>1, <2>2, <2>3, <2>4 DEF BadAccess, Followed
<1>5. CASE t \in Consumers
  <2>1. pc[t] \in {"48b", "54b"} => Linked > 0 /\ p[t] = N[Oldest]
    BY <1>5 DEF Chain, ConsumerAt
  <2>2. pc[t] \notin {"65", "66", "71b", "72b"}
    BY <1>5 DEF PlaceInv
  <2> QED BY <1>2, <1>3, <2>1, <2>2 DEF BadAccess, Followed
<1> QED BY <1>4, <1>5 DEF Threads

LEMMA ChainStep ==
  ASSUME TypeInv, PlaceInv, SoloInv, ChainInv, [Next]_vars PROVE ChainInv'
PROOF
<1> SUFFICES ASSUME ~ drained', ~ overlapped' PROVE \E N \in Seq(Addr) : Chain(N)'
  BY DEF ChainInv
<1>1. PICK N \in Seq(Addr) : Chain(N)
  BY StepFacts DEF ChainInv
<1>2. CASE sbuffer_insert(Producer)
  BY <1>1, <1>2, MallocChain, InsertChain
<1>3. ASSUME NEW t \in Consumers, sbuffer_remove(t) PROVE Chain(N)'
  BY <1>1, <1>3, RemoveChain, FreeChain
<1>4. ASSUME NEW t \in Threads, BadAccess(t) PROVE FALSE
  BY <1>1, <1>4, ChainSafe
<1>5. CASE UNCHANGED vars
  <2>1. Chain(N)'
    BY <1>1, <1>5 DEF vars, memory, locals, record, Chain, Layout, Nodes, Ends, ProducerAt,
                      ConsumerAt, Oldest, Newest, Linked
  <2> QED BY <2>1
<1> QED BY <1>2, <1>3, <1>4, <1>5 DEF Next, Crashed

LEMMA ChainInit == Init => ChainInv
PROOF
<1> SUFFICES ASSUME Init PROVE \E N \in Seq(Addr) : Chain(N)
  BY DEF ChainInv
<1>1. <<>> \in Seq(Addr) /\ Len(<<>>) = 0
  BY EmptySeq
<1>2. Oldest = 1 /\ Newest = 0 /\ Linked = 0 /\ Len(got) = 0
  BY ThreadFacts, <1>1 DEF Init, Oldest, Newest, Linked
<1>3. Layout(<<>>)
  BY <1>1, <1>2 DEF Init, Layout
<1>4. Nodes(<<>>) /\ Ends(<<>>)
  BY <1>2, ThreadFacts DEF Init, Nodes, Ends
<1>5. ProducerAt(<<>>) /\ \A c \in Consumers : ConsumerAt(<<>>, c)
  BY <1>2, ThreadFacts DEF Init, ProducerAt, ConsumerAt
<1> QED BY <1>1, <1>3, <1>4, <1>5 DEF Chain, Init

\* A chain between calls is a list that holds what is not returned yet.
LEMMA ChainHolds ==
  ASSUME TypeInv, NEW N \in Seq(Addr), Chain(N), Quiet
  PROVE  Holds(SubSeq(inserted, Len(got) + 1, Len(inserted)))
PROOF
<1> DEFINE s == SubSeq(inserted, Oldest, Newest)
<1> DEFINE at == [i \in 1..Len(s) |-> N[i + Len(got)]]
<1>1. Layout(N) /\ Nodes(N) /\ Ends(N)
  BY DEF Chain
<1>2. /\ Oldest \in Nat /\ Oldest >= 1 /\ Newest \in Nat /\ Linked = Newest /\ Len(got) \in Nat
      /\ pc[Producer] = "idle" /\ Oldest <= Newest + 1 /\ Oldest = Len(got) + 1
      /\ \A i \in 1..Newest : N[i] \in Addr
  BY <1>1, ChainFacts, ThreadFacts DEF Quiet, Linked, Oldest, Layout
<1>3. /\ Len(s) = Newest - Len(got)
      /\ \A i \in 1..Newest - Len(got) : s[i] = inserted[i + Len(got)]
  <2>1. \A i \in Oldest..Newest : inserted[i] \in Contents
    <3>1. \A i \in Oldest..Newest : i \in 1..Len(inserted)
      BY <1>2 DEF Newest
    <3> QED BY <3>1, ElementOfSeq DEF TypeInv
  <2>2. /\ Len(s) = IF Oldest <= Newest THEN Newest - Oldest + 1 ELSE 0
        /\ \A i \in 1..Newest - Oldest + 1 : s[i] = inserted[Oldest + i - 1]
    BY <1>2, <2>1, SubSeqProperties
  <2> QED BY <1>2, <2>2
<1> HIDE DEF s
<1>4. \A i \in 1..Len(s) : /\ at[i] = N[i + Len(got)]
                           /\ i + Len(got) \in Oldest..Newest /\ i + Len(got) \in 1..Newest
  BY <1>2, <1>3
<1>5. at \in [1..Len(s) -> Addr]
  BY <1>2, <1>4
<1>6. head = IF s = <<>> THEN NULL ELSE at[1]
  <2>1. CASE Linked = 0
    <3>1. Len(s) = 0 /\ head = NULL
      <4>1. head = NULL /\ Len(got) = 0
        BY <1>1, <2>1 DEF Ends
      <4> QED BY <1>2, <1>3, <2>1, <4>1
    <3> QED BY <3>1
  <2>2. CASE Linked # 0
    <3>1. head = N[Oldest] /\ Oldest <= Newest
      BY <1>1, <1>2, <2>2, ThreadFacts DEF Ends, Quiet
    <3>2. Len(s) >= 1 /\ s # <<>> /\ at[1] = N[Oldest]
      BY <1>2, <1>3, <1>4, <3>1
    <3> QED BY <3>1, <3>2
  <2> QED BY <2>1, <2>2
<1>7. ASSUME NEW i \in 1..Len(s)
      PROVE  /\ data[at[i]] = s[i]
             /\ next[at[i]] = IF i = Len(s) THEN NULL ELSE at[i + 1]
  <2>1. data[at[i]] = s[i]
    BY <1>1, <1>2, <1>3, <1>4 DEF Nodes
  <2>2. CASE i = Len(s)
    <3>1. i + Len(got) = Newest /\ Newest >= 1
      BY <1>2, <1>3, <2>2
    <3> QED BY <1>1, <1>2, <1>4, <2>1, <2>2, <3>1 DEF Nodes
  <2>3. CASE i # Len(s)
    <3>1. i + Len(got) \in Oldest..Newest - 1 /\ i + Len(got) < Linked /\ i + 1 \in 1..Len(s)
      <4>1. Len(s) \in Int /\ i \in Int /\ 1 <= i /\ i + 1 <= Len(s)
        <5>1. Len(s) \in Int
          BY <1>2, <1>3
        <5> QED BY <2>3, <5>1
      <4>2. i + Len(got) <= Newest - 1 /\ Oldest <= i + Len(got)
        BY <1>2, <1>3, <4>1
      <4> QED BY <1>2, <4>1, <4>2
    <3>2. next[N[i + Len(got)]] = N[(i + Len(got)) + 1]
      BY <1>1, <3>1 DEF Nodes
    <3>3. at[i + 1] = N[(i + Len(got)) + 1]
      <4>1. (i + 1) + Len(got) = (i + Len(got)) + 1
        BY <1>2, <1>3
      <4> QED BY <1>4, <3>1, <4>1
    <3> QED BY <1>4, <2>1, <2>3, <3>2, <3>3
  <2> QED BY <2>2, <2>3
<1> HIDE DEF at
<1>8. Holds(s)
  BY <1>5, <1>6, <1>7 DEF Holds
<1> QED BY <1>8 DEF s, Oldest, Newest

LEMMA ChainPrefix ==
  ASSUME TypeInv, NEW N \in Seq(Addr), Chain(N) PROVE IsPrefix(got, inserted)
PROOF
<1>1. /\ Len(got) \in Nat /\ Len(inserted) \in Nat /\ Len(got) <= Len(inserted)
      /\ \A i \in 1..Len(got) : got[i] = inserted[i]
  BY ChainFacts DEF Chain, Layout, Newest
<1>2. \A i \in 1..Len(got) : got[i] \in Contents /\ inserted[i] \in Contents
  BY <1>1, ElementOfSeq DEF TypeInv
<1> DEFINE g == SubSeq(got, 1, Len(got))
<1> DEFINE h == SubSeq(inserted, 1, Len(got))
<1>3. /\ g \in Seq(Contents) /\ Len(g) = (IF 1 <= Len(got) THEN Len(got) - 1 + 1 ELSE 0)
      /\ \A i \in 1..Len(got) - 1 + 1 : g[i] = got[1 + i - 1]
  BY <1>1, <1>2, SubSeqProperties
<1>4. /\ h \in Seq(Contents) /\ Len(h) = (IF 1 <= Len(got) THEN Len(got) - 1 + 1 ELSE 0)
      /\ \A i \in 1..Len(got) - 1 + 1 : h[i] = inserted[1 + i - 1]
  BY <1>1, <1>2, SubSeqProperties
<1> HIDE DEF g, h
<1>5. Len(g) = Len(h) /\ \A i \in 1..Len(g) : g[i] = h[i]
  BY <1>1, <1>3, <1>4
<1>6. g = h
  BY <1>3, <1>4, <1>5, SeqEqual
<1> QED BY <1>1, <1>6 DEF IsPrefix, g, h

\* While removals do not overlap and none took the only node, an unlocked
\* producer beside them is harmless: no thread follows a bad pointer, the
\* readings come out in the order they went in, and between calls the list
\* holds exactly the others.
THEOREM SafeInvariance == Spec => []SafeWhileNotDrained
<1>1. TypeInv /\ ChainInv => SafeWhileNotDrained
  <2> SUFFICES ASSUME TypeInv, ChainInv, ~ drained, ~ overlapped
               PROVE  /\ fault = "none" /\ IsPrefix(got, inserted)
                      /\ Quiet => Holds(SubSeq(inserted, Len(got) + 1, Len(inserted)))
    BY DEF SafeWhileNotDrained
  <2>1. PICK N \in Seq(Addr) : Chain(N)
    BY DEF ChainInv
  <2>2. fault = "none"
    BY <2>1 DEF Chain
  <2> QED BY <2>1, <2>2, ChainPrefix, ChainHolds
<1> QED BY <1>1, TypeInvInit, TypeInvStep, PlaceInit, PlaceStep, SoloInit, SoloStep,
           ChainInit, ChainStep, PTL DEF Spec

-----------------------------------------------------------------------------
(* Removals that do not overlap free each node once, also when one of them *)
(* takes the only node while the producer appends: the two may then leave  *)
(* the list broken and crash, but a removal that has copied the data at    *)
(* head finds an allocated node there and keeps it allocated until free.   *)

New == dummy[Producer]                             \* the node under insertion
Opening == pc[Producer] \in {"69a", "69b", "69c"}  \* it becomes the only node
Linking == pc[Producer] \in {"71a", "71b", "72a", "72b", "72c"}
Clearing == \E c \in Consumers : pc[c] \in {"52b", "52c"}

\* No node follows the head: tail says empty, or is about to say so.
Fresh == tail = NULL \/ Opening

\* A removal may have emptied the list since the producer read tail, so each
\* pointer it holds is the node it means or the list is empty.
ProducerSafe ==
  /\ pc[Producer] = "69a" => tail = NULL
  /\ Opening => tail \in {NULL, New}
  /\ pc[Producer] = "69c" => q[Producer] \in {NULL, New} /\ (q[Producer] = NULL => tail = NULL)
  /\ pc[Producer] = "67" \/ Opening => next[New] = NULL
  /\ pc[Producer] = "71b" => tail \in {NULL, p[Producer]}
  /\ pc[Producer] = "72a" => /\ p[Producer] \in Addr /\ tail \in {NULL, p[Producer]}
                             /\ next[p[Producer]] = New
  /\ pc[Producer] = "72b" /\ p[Producer] # NULL => next[p[Producer]] = New
  /\ pc[Producer] = "72c" => q[Producer] = New

\* Where head leads when no removal is between emptying tail and head.
HeadSafe == ~ Clearing =>
  /\ tail = NULL /\ (Linking \/ pc[Producer] \in {"69b", "69c"}) => head = NULL
  /\ Fresh /\ head # NULL => next[head] = NULL
  /\ pc[Producer] \in {"65", "66", "67"} /\ New \notin heap /\ tail = NULL => head = NULL
  /\ Opening /\ New \notin heap => head \in {NULL, New}

ConsumerSafe(c) ==
  /\ pc[c] = "52c" => (tail = NULL => q[c] = NULL) /\ (Opening => q[c] \in {NULL, New})
  /\ Fresh /\ pc[c] = "54b" /\ p[c] # NULL => next[p[c]] = NULL
  /\ Fresh /\ pc[c] = "54c" => q[c] = NULL
  /\ pc[c] \in {"48a", "48b", "49", "50a", "50b", "52a", "54a", "54b", "54c"} => head # NULL
  /\ pc[c] = "56" /\ dummy[c] = New =>
       /\ pc[Producer] \in {"65", "66", "67"} /\ tail = NULL => head = NULL
       /\ Opening => head \in {NULL, New}
  /\ Opening /\ New \notin heap =>
       /\ pc[c] \in {"idle", "48a", "48b", "52b", "52c", "56"}
       /\ pc[c] = "48b" => p[c] = New
  /\ pc[c] = "48b" => head = p[c] \/ head \in heap
  /\ pc[c] = "49" => head \in heap
  /\ pc[c] \in {"50a", "50b", "52a", "52b", "52c", "54a", "54b", "54c", "56"} => dummy[c] \in heap

FreeSafe == ProducerSafe /\ HeadSafe /\ \A c \in Consumers : ConsumerSafe(c)

FreeInv == ~ reused /\ ~ overlapped => fault # "bad_free" /\ (fault = "none" => FreeSafe)

LEMMA InsertSafe ==
  ASSUME TypeInv, PlaceInv, SoloInv, FillInv, FreeSafe, ~ overlapped, ~ reused',
         sbuffer_insert(Producer)
  PROVE  FreeSafe'
PROOF
<1> DEFINE t == Producer
<1>1. t \in Threads /\ \A c \in Consumers : c # t /\ c \in Threads
  BY ThreadFacts
<1>2. /\ head \in Pointers /\ tail \in Pointers /\ next \in [Addr -> Pointers] /\ heap \subseteq Addr
      /\ pc \in [Threads -> Lines] /\ p \in [Threads -> Pointers] /\ q \in [Threads -> Pointers]
      /\ dummy \in [Threads -> Pointers] /\ NULL \notin Addr
      /\ (pc[t] # "idle" => New \in Addr)
  BY NullIsNoNode DEF TypeInv, TypeOK, Pointers, New
<1>3. \A c, d \in Consumers : pc[c] # "idle" /\ pc[d] # "idle" => c = d
  BY DEF SoloInv
<1>4. ProducerSafe /\ HeadSafe /\ \A c \in Consumers : ConsumerSafe(c)
  BY DEF FreeSafe
<1>5. \A c \in Consumers : pc'[c] = pc[c]
  BY InsertMoves
<1>6. Clearing' = Clearing
  BY <1>5 DEF Clearing
<1>7. \A c \in Consumers : pc[c] # "idle" => (Clearing <=> pc[c] \in {"52b", "52c"})
  <2>1. ASSUME NEW c \in Consumers, pc[c] # "idle", Clearing PROVE pc[c] \in {"52b", "52c"}
    <3>1. PICK d \in Consumers : pc[d] \in {"52b", "52c"}
      BY <2>1 DEF Clearing
    <3>2. pc[d] # "idle"
      BY <3>1
    <3>3. c = d
      BY <1>3, <2>1, <3>2
    <3> QED BY <3>1, <3>3
  <2> QED BY <2>1 DEF Clearing
<1> USE DEF memory, locals, record, Go
<1>8. CASE Malloc(t)
  <2>1. PICK a \in Addr \ heap, x \in Pointers :
          /\ heap' = heap \cup {a} /\ dummy' = [dummy EXCEPT ![t] = a]
          /\ next' = [next EXCEPT ![a] = x] /\ reused' = (reused \/ a \in used)
    BY <1>8 DEF Malloc
  <2>2. /\ pc[t] = "idle" /\ pc'[t] = "65" /\ New' = a /\ \A c \in Consumers : dummy'[c] = dummy[c]
        /\ UNCHANGED <<head, tail, p, q>>
    BY <1>1, <1>2, <1>8, <2>1 DEF Malloc, New
  <2>3. \A b \in Pointers \ {a} : b # NULL /\ b \in Addr => next'[b] = next[b]
    BY <1>2, <2>1
  <2>4. head # a /\ \A c \in Consumers : p[c] # a
    <3>1. a \notin Built
      BY <2>1, NullIsNoNode DEF Built
    <3>2. ~ reused
      BY <2>1
    <3> QED BY <1>1, <3>1, <3>2 DEF FillInv
  <2>5. head \in Built /\ Built \subseteq Addr \cup {NULL} /\ \A c \in Consumers : p[c] \in Built
    BY <1>1, <2>1 DEF FillInv, Built, TypeInv, TypeOK
  <2>6. ProducerSafe'
    BY <2>2 DEF ProducerSafe, Opening
  <2>7. HeadSafe'
    BY <1>2, <1>4, <1>6, <2>1, <2>2, <2>3, <2>4, <2>5 DEF HeadSafe, Opening, Linking, Fresh
  <2>8. ASSUME NEW c \in Consumers PROVE ConsumerSafe(c)'
    <3>1. p[c] # NULL => next'[p[c]] = next[p[c]]
      BY <1>1, <1>2, <2>3, <2>4, <2>5
    <3> QED BY <1>4, <1>5, <2>1, <2>2, <3>1 DEF ConsumerSafe, Opening, Fresh
  <2> QED BY <2>6, <2>7, <2>8 DEF FreeSafe
<1>9. CASE MallocFails(t)
  <2>1. pc' = pc /\ UNCHANGED <<memory, locals>>
    BY <1>1, <1>2, <1>9 DEF MallocFails
  <2> QED BY <1>4, <2>1 DEF FreeSafe, ProducerSafe, HeadSafe, ConsumerSafe, New, Opening, Linking,
                            Clearing, Fresh
<1>10. CASE StoreWord(t)
  <2>1. /\ pc[t] = "65" /\ pc'[t] \in {"65", "66"} /\ New' = New
        /\ UNCHANGED <<head, tail, next, heap, dummy, p, q>>
    BY <1>1, <1>2, <1>10 DEF StoreWord, New
  <2>2. ProducerSafe'
    BY <2>1 DEF ProducerSafe, Opening
  <2>3. HeadSafe'
    BY <1>4, <1>6, <2>1 DEF HeadSafe, Opening, Linking, Fresh
  <2>4. ASSUME NEW c \in Consumers PROVE ConsumerSafe(c)'
    BY <1>4, <1>5, <2>1 DEF ConsumerSafe, Opening, Fresh
  <2> QED BY <2>2, <2>3, <2>4 DEF FreeSafe
<1>19. CASE ClearNext(t)
  <2>1. /\ pc[t] = "66" /\ pc'[t] = "67" /\ New' = New
        /\ next' = [next EXCEPT ![New] = NULL]
        /\ UNCHANGED <<head, tail, heap, dummy, p, q>>
    BY <1>1, <1>2, <1>19 DEF ClearNext, New
  <2>2. next'[New] = NULL /\ \A b \in Addr : next[b] = NULL => next'[b] = NULL
    BY <1>2, <2>1
  <2>3. ProducerSafe'
    BY <2>1, <2>2 DEF ProducerSafe, Opening
  <2>4. HeadSafe'
    BY <1>2, <1>4, <1>6, <2>1, <2>2 DEF HeadSafe, Opening, Linking, Fresh, Pointers
  <2>5. ASSUME NEW c \in Consumers PROVE ConsumerSafe(c)'
    <3>1. p[c] \in Pointers
      BY <1>1, <1>2
    <3> QED BY <1>2, <1>4, <1>5, <2>1, <2>2, <3>1 DEF ConsumerSafe, Opening, Fresh, Pointers
  <2> QED BY <2>3, <2>4, <2>5 DEF FreeSafe
<1>11. CASE TestTail(t)
  <2>1. /\ pc[t] = "67" /\ pc'[t] = (IF tail = NULL THEN "69a" ELSE "71a") /\ New' = New
        /\ UNCHANGED <<head, tail, next, heap, dummy, p, q>>
    BY <1>1, <1>2, <1>11 DEF TestTail, New
  <2>2. ProducerSafe'
    BY <1>4, <2>1 DEF ProducerSafe, Opening
  <2>3. HeadSafe'
    BY <1>4, <1>6, <2>1 DEF HeadSafe, Opening, Linking, Fresh
  <2>4. ASSUME NEW c \in Consumers PROVE ConsumerSafe(c)'
    <3>1. CASE pc[c] = "idle"
      BY <1>5, <3>1 DEF ConsumerSafe
    <3>2. CASE pc[c] # "idle"
      <4>1. Clearing <=> pc[c] \in {"52b", "52c"}
        BY <1>7, <3>2
      <4>2. /\ pc[c] \in {"idle", "48a", "48b", "49", "50a", "50b", "52a", "52b", "52c",
                         "54a", "54b", "54c", "56"}
        BY DEF PlaceInv
      <4> QED BY <1>4, <1>5, <2>1, <4>1, <4>2 DEF ConsumerSafe, HeadSafe, Opening, Fresh
    <3> QED BY <3>1, <3>2
  <2> QED BY <2>2, <2>3, <2>4 DEF FreeSafe
<1>12. CASE StoreTail(t, "69a", dummy[t], "69b")
  <2>1. /\ pc[t] = "69a" /\ pc'[t] = "69b" /\ New' = New /\ tail' = New
        /\ UNCHANGED <<head, next, heap, dummy, p, q>>
    BY <1>1, <1>2, <1>12 DEF StoreTail, New
  <2>2. ProducerSafe'
    BY <1>2, <1>4, <2>1 DEF ProducerSafe, Opening
  <2>3. HeadSafe'
    BY <1>2, <1>4, <1>6, <2>1 DEF HeadSafe, Opening, Linking, Fresh
  <2>4. ASSUME NEW c \in Consumers PROVE ConsumerSafe(c)'
    BY <1>2, <1>4, <1>5, <2>1 DEF ConsumerSafe, Opening, Fresh
  <2> QED BY <2>2, <2>3, <2>4 DEF FreeSafe
<1>13. CASE AssignedValue(t, "69b", dummy[t], "69c")
  <2>1. /\ pc[t] = "69b" /\ pc'[t] = "69c" /\ New' = New /\ q'[t] \in {New, tail}
        /\ UNCHANGED <<head, tail, next, heap, dummy, p>> /\ \A c \in Consumers : q'[c] = q[c]
    BY <1>1, <1>2, <1>13 DEF AssignedValue, New
  <2>2. ProducerSafe'
    BY <1>2, <1>4, <2>1 DEF ProducerSafe, Opening
  <2>3. HeadSafe'
    BY <1>4, <1>6, <2>1 DEF HeadSafe, Opening, Linking, Fresh
  <2>4. ASSUME NEW c \in Consumers PROVE ConsumerSafe(c)'
    BY <1>4, <1>5, <2>1 DEF ConsumerSafe, Opening, Fresh
  <2> QED BY <2>2, <2>3, <2>4 DEF FreeSafe
<1>14. CASE StoreHead(t, "69c", q[t], "idle")
  <2>1. /\ pc[t] = "69c" /\ pc'[t] = "idle" /\ New' = New /\ head' = q[t]
        /\ UNCHANGED <<tail, next, heap, dummy, p, q>>
    BY <1>1, <1>2, <1>14 DEF StoreHead, New
  <2>2. ProducerSafe'
    BY <2>1 DEF ProducerSafe, Opening
  <2>3. HeadSafe'
    BY <1>4, <1>6, <2>1 DEF HeadSafe, ProducerSafe, Opening, Linking, Fresh
  <2>4. ASSUME NEW c \in Consumers PROVE ConsumerSafe(c)'
    <3>1. CASE pc[c] = "idle"
      BY <1>5, <3>1 DEF ConsumerSafe
    <3>2. CASE pc[c] # "idle"
      <4>1. Clearing <=> pc[c] \in {"52b", "52c"}
        BY <1>7, <3>2
      <4>2. q[t] \in {NULL, New} /\ (q[t] = NULL => tail = NULL)
        BY <1>4, <2>1 DEF ProducerSafe
      <4>3. ASSUME pc[c] \in {"48a", "48b", "49", "50a", "50b", "52a", "54a", "54b", "54c"}
            PROVE  head' # NULL
        BY <1>2, <1>4, <2>1, <4>1, <4>2, <4>3 DEF ConsumerSafe, HeadSafe
      <4> QED BY <1>4, <1>5, <2>1, <4>2, <4>3 DEF ConsumerSafe, Opening, Fresh
    <3> QED BY <3>1, <3>2
  <2> QED BY <2>2, <2>3, <2>4 DEF FreeSafe
<1>15. CASE Load(t, "71a", tail, "71b") \/ Load(t, "72a", tail, "72b")
  <2>1. /\ \/ pc[t] = "71a" /\ pc'[t] = "71b"
           \/ pc[t] = "72a" /\ pc'[t] = "72b"
        /\ New' = New /\ p'[t] = tail
        /\ UNCHANGED <<head, tail, next, heap, dummy, q>> /\ \A c \in Consumers : p'[c] = p[c]
    BY <1>1, <1>2, <1>15 DEF Load, New
  <2>2. ProducerSafe'
    BY <1>4, <2>1 DEF ProducerSafe, Opening
  <2>3. HeadSafe'
    BY <1>4, <1>6, <2>1 DEF HeadSafe, Opening, Linking, Fresh
  <2>4. ASSUME NEW c \in Consumers PROVE ConsumerSafe(c)'
    BY <1>4, <1>5, <2>1 DEF ConsumerSafe, Opening, Fresh
  <2> QED BY <2>2, <2>3, <2>4 DEF FreeSafe
<1>16. CASE LinkBehindTail(t)
  <2>1. /\ pc[t] = "71b" /\ pc'[t] = "72a" /\ New' = New /\ p[t] \in heap
        /\ next' = [next EXCEPT ![p[t]] = New]
        /\ UNCHANGED <<head, tail, heap, dummy, p, q>>
    BY <1>1, <1>2, <1>16 DEF LinkBehindTail, New
  <2>2. next'[p[t]] = New
    BY <1>2, <2>1
  <2>3. ProducerSafe'
    BY <1>2, <1>4, <2>1, <2>2 DEF ProducerSafe, Opening
  <2>4. HeadSafe'
    BY <1>4, <1>6, <2>1 DEF HeadSafe, Opening, Linking, Fresh
  <2>5. ASSUME NEW c \in Consumers PROVE ConsumerSafe(c)'
    <3>1. CASE pc[c] = "idle"
      BY <1>5, <3>1 DEF ConsumerSafe
    <3>2. CASE pc[c] # "idle"
      <4>1. Clearing <=> pc[c] \in {"52b", "52c"}
        BY <1>7, <3>2
      <4>2. pc[c] = "54b" => tail # NULL
        BY <1>4, <2>1, <4>1 DEF ConsumerSafe, HeadSafe, Linking
      <4> QED BY <1>4, <1>5, <2>1, <4>2 DEF ConsumerSafe, Opening, Fresh
    <3> QED BY <3>1, <3>2
  <2> QED BY <2>3, <2>4, <2>5 DEF FreeSafe
<1>17. CASE LoadNext(t, "72b", "72c")
  <2>1. /\ pc[t] = "72b" /\ pc'[t] = "72c" /\ New' = New /\ p[t] \in heap /\ q'[t] = next[p[t]]
        /\ UNCHANGED <<head, tail, next, heap, dummy, p>> /\ \A c \in Consumers : q'[c] = q[c]
    BY <1>1, <1>2, <1>17 DEF LoadNext, New
  <2>2. q'[t] = New
    BY <1>2, <1>4, <2>1 DEF ProducerSafe
  <2>3. ProducerSafe'
    BY <2>1, <2>2 DEF ProducerSafe, Opening
  <2>4. HeadSafe'
    BY <1>4, <1>6, <2>1 DEF HeadSafe, Opening, Linking, Fresh
  <2>5. ASSUME NEW c \in Consumers PROVE ConsumerSafe(c)'
    BY <1>4, <1>5, <2>1 DEF ConsumerSafe, Opening, Fresh
  <2> QED BY <2>3, <2>4, <2>5 DEF FreeSafe
<1>18. CASE StoreTail(t, "72c", q[t], "idle")
  <2>1. /\ pc[t] = "72c" /\ pc'[t] = "idle" /\ New' = New /\ tail' = q[t]
        /\ UNCHANGED <<head, next, heap, dummy, p, q>>
    BY <1>1, <1>2, <1>18 DEF StoreTail, New
  <2>2. tail' # NULL
    BY <1>2, <1>4, <2>1 DEF ProducerSafe
  <2>3. ProducerSafe'
    BY <2>1 DEF ProducerSafe, Opening
  <2>4. HeadSafe'
    BY <1>6, <2>1, <2>2 DEF HeadSafe, Opening, Linking, Fresh
  <2>5. ASSUME NEW c \in Consumers PROVE ConsumerSafe(c)'
    BY <1>4, <1>5, <2>1, <2>2 DEF ConsumerSafe, Opening, Fresh
  <2> QED BY <2>3, <2>4, <2>5 DEF FreeSafe
<1> QED BY <1>8, <1>9, <1>10, <1>11, <1>12, <1>13, <1>14, <1>15, <1>16, <1>17, <1>18, <1>19
        DEF sbuffer_insert

LEMMA RemoveSafe ==
  ASSUME TypeInv, PlaceInv, SoloInv, FreeSafe, ~ overlapped', NEW t \in Consumers, sbuffer_remove(t)
  PROVE  FreeSafe' /\ ~ FreeTwice(t)
PROOF
<1>1. t \in Threads /\ Producer \in Threads /\ t # Producer /\ \A c \in Consumers : c \in Threads
  BY ThreadFacts
<1>2. /\ head \in Pointers /\ tail \in Pointers /\ next \in [Addr -> Pointers] /\ heap \subseteq Addr
      /\ pc \in [Threads -> Lines] /\ p \in [Threads -> Pointers] /\ q \in [Threads -> Pointers]
      /\ dummy \in [Threads -> Pointers] /\ NULL \notin Addr
      /\ (pc[Producer] # "idle" => New \in Addr)
  BY NullIsNoNode DEF TypeInv, TypeOK, Pointers, New
<1>3. ProducerSafe /\ HeadSafe /\ ConsumerSafe(t)
  BY DEF FreeSafe
<1> USE DEF memory, locals, record, Go
<1>4. CASE NoData(t)
  <2>1. pc' = pc /\ UNCHANGED <<memory, locals, fault>>
    BY <1>1, <1>2, <1>4 DEF NoData
  <2>2. FreeSafe'
    BY <2>1 DEF FreeSafe, ProducerSafe, HeadSafe, ConsumerSafe, New, Opening, Linking, Clearing, Fresh
  <2> QED BY <1>4, <2>2 DEF NoData, FreeTwice
<1>5. CASE ~ NoData(t)
  <2>1. \A c \in Consumers \ {t} : pc[c] = "idle" /\ pc'[c] = "idle"
    BY <1>5, RemoveMoves, ThreadFacts
  <2>2. pc'[Producer] = pc[Producer]
    BY <1>1, RemoveMoves
  <2>3. /\ Clearing <=> pc[t] \in {"52b", "52c"}
        /\ Clearing' <=> pc'[t] \in {"52b", "52c"}
    BY <2>1 DEF Clearing
  <2>4. \A c \in Consumers \ {t} : ConsumerSafe(c)'
    <3>1. ASSUME NEW c \in Consumers \ {t} PROVE ConsumerSafe(c)'
      BY <2>1 DEF ConsumerSafe
    <3> QED BY <3>1
  <2>5. ~ FreeTwice(t)
    BY <1>3 DEF ConsumerSafe, FreeTwice
  <2>6. ASSUME ProducerSafe', HeadSafe', ConsumerSafe(t)' PROVE FreeSafe'
    BY <2>4, <2>6 DEF FreeSafe
  <2>7. CASE SomeData(t)
    <3>1. /\ pc[t] = "idle" /\ pc'[t] = "48a" /\ head # NULL /\ New' = New
          /\ UNCHANGED <<memory, dummy, p, q>>
      BY <1>1, <1>2, <2>7 DEF SomeData, New
    <3>2. ProducerSafe'
      BY <1>3, <2>2, <3>1 DEF ProducerSafe, Opening
    <3>3. HeadSafe'
      BY <1>3, <2>2, <2>3, <3>1 DEF HeadSafe, Opening, Linking, Fresh
    <3>4. ConsumerSafe(t)'
      BY <3>1 DEF ConsumerSafe, Opening, Fresh
    <3> QED BY <2>5, <2>6, <3>2, <3>3, <3>4
  <2>8. CASE FollowHead(t) \/ Load(t, "50a", head, "50b") \/ Load(t, "54a", head, "54b")
    <3>1. /\ \/ pc[t] = "48a" /\ pc'[t] = "48b"
             \/ pc[t] = "50a" /\ pc'[t] = "50b"
             \/ pc[t] = "54a" /\ pc'[t] = "54b"
          /\ New' = New /\ p'[t] = head /\ p'[Producer] = p[Producer]
          /\ UNCHANGED <<memory, dummy, q>>
      BY <1>1, <1>2, <2>8 DEF FollowHead, Load, New
    <3>2. ProducerSafe'
      BY <1>3, <2>2, <3>1 DEF ProducerSafe, Opening
    <3>3. HeadSafe'
      BY <1>3, <2>2, <2>3, <3>1 DEF HeadSafe, Opening, Linking, Fresh
    <3>4. ConsumerSafe(t)'
      BY <1>3, <2>2, <2>3, <3>1 DEF ConsumerSafe, HeadSafe, Opening, Fresh
    <3> QED BY <2>5, <2>6, <3>2, <3>3, <3>4
  <2>9. CASE CopyWord(t)
    <3>1. /\ pc[t] = "48b" /\ pc'[t] \in {"48b", "49"} /\ p[t] \in heap /\ New' = New
          /\ UNCHANGED <<memory, dummy, p, q>>
      BY <1>1, <1>2, <2>9 DEF CopyWord, New
    <3>2. ProducerSafe'
      BY <1>3, <2>2, <3>1 DEF ProducerSafe, Opening
    <3>3. HeadSafe'
      BY <1>3, <2>2, <2>3, <3>1 DEF HeadSafe, Opening, Linking, Fresh
    <3>4. ConsumerSafe(t)'
      BY <1>3, <2>2, <3>1 DEF ConsumerSafe, Opening, Fresh
    <3> QED BY <2>5, <2>6, <3>2, <3>3, <3>4
  <2>10. CASE TakeHead(t)
    <3>1. /\ pc[t] = "49" /\ pc'[t] = "50a" /\ dummy'[t] = head /\ New' = New
          /\ UNCHANGED <<memory, p, q>>
      BY <1>1, <1>2, <2>10 DEF TakeHead, New
    <3>2. ProducerSafe'
      BY <1>3, <2>2, <3>1 DEF ProducerSafe, Opening
    <3>3. HeadSafe'
      BY <1>3, <2>2, <2>3, <3>1 DEF HeadSafe, Opening, Linking, Fresh
    <3>4. ConsumerSafe(t)'
      BY <1>3, <2>2, <3>1 DEF ConsumerSafe, Opening, Fresh
    <3> QED BY <2>5, <2>6, <3>2, <3>3, <3>4
  <2>11. CASE CompareTail(t)
    <3>1. /\ pc[t] = "50b" /\ pc'[t] \in {"52a", "54a"} /\ New' = New
          /\ UNCHANGED <<memory, dummy, p, q>>
      BY <1>1, <1>2, <2>11 DEF CompareTail, New
    <3>2. ProducerSafe'
      BY <1>3, <2>2, <3>1 DEF ProducerSafe, Opening
    <3>3. HeadSafe'
      BY <1>3, <2>2, <2>3, <3>1 DEF HeadSafe, Opening, Linking, Fresh
    <3>4. ConsumerSafe(t)'
      BY <1>3, <2>2, <3>1 DEF ConsumerSafe, Opening, Fresh
    <3> QED BY <2>5, <2>6, <3>2, <3>3, <3>4
  <2>12. CASE StoreTail(t, "52a", NULL, "52b")
    <3>1. /\ pc[t] = "52a" /\ pc'[t] = "52b" /\ tail' = NULL /\ New' = New
          /\ UNCHANGED <<head, next, heap, dummy, p, q>>
      BY <1>1, <1>2, <2>12 DEF StoreTail, New
    <3>2. ProducerSafe'
      BY <1>3, <2>2, <3>1 DEF ProducerSafe, Opening
    <3>3. HeadSafe'
      BY <2>3, <3>1 DEF HeadSafe
    <3>4. ConsumerSafe(t)'
      BY <1>3, <2>2, <3>1 DEF ConsumerSafe, Opening, Fresh
    <3> QED BY <2>5, <2>6, <3>2, <3>3, <3>4
  <2>13. CASE AssignedValue(t, "52b", NULL, "52c")
    <3>1. /\ pc[t] = "52b" /\ pc'[t] = "52c" /\ q'[t] \in {NULL, tail} /\ New' = New
          /\ q'[Producer] = q[Producer]
          /\ UNCHANGED <<memory, dummy, p>>
      BY <1>1, <1>2, <2>13 DEF AssignedValue, New
    <3>2. ProducerSafe'
      BY <1>3, <2>2, <3>1 DEF ProducerSafe, Opening
    <3>3. HeadSafe'
      BY <2>3, <3>1 DEF HeadSafe
    <3>4. ConsumerSafe(t)'
      BY <1>3, <2>2, <3>1 DEF ConsumerSafe, ProducerSafe, Opening, Fresh
    <3> QED BY <2>5, <2>6, <3>2, <3>3, <3>4
  <2>14. CASE StoreHead(t, "52c", q[t], "56") \/ StoreHead(t, "54c", q[t], "56")
    <3>1. /\ pc[t] \in {"52c", "54c"} /\ pc'[t] = "56" /\ head' = q[t] /\ New' = New
          /\ UNCHANGED <<tail, next, heap, dummy, p, q>>
      BY <1>1, <1>2, <2>14 DEF StoreHead, New
    <3>2. /\ tail = NULL => head' = NULL
          /\ Opening => head' \in {NULL, New}
      BY <1>3, <3>1 DEF ConsumerSafe, Fresh
    <3>3. ProducerSafe'
      BY <1>3, <2>2, <3>1 DEF ProducerSafe, Opening
    <3>4. HeadSafe'
      BY <1>3, <2>2, <3>1, <3>2 DEF HeadSafe, ProducerSafe, Opening, Linking, Fresh
    <3>5. ConsumerSafe(t)'
      BY <1>3, <2>2, <3>1, <3>2 DEF ConsumerSafe, Opening, Fresh
    <3> QED BY <2>5, <2>6, <3>3, <3>4, <3>5
  <2>15. CASE LoadNext(t, "54b", "54c")
    <3>1. /\ pc[t] = "54b" /\ pc'[t] = "54c" /\ p[t] \in heap /\ q'[t] = next[p[t]] /\ New' = New
          /\ q'[Producer] = q[Producer]
          /\ UNCHANGED <<memory, dummy, p>>
      BY <1>1, <1>2, <2>15 DEF LoadNext, New
    <3>2. ProducerSafe'
      BY <1>3, <2>2, <3>1 DEF ProducerSafe, Opening
    <3>3. HeadSafe'
      BY <1>3, <2>2, <2>3, <3>1 DEF HeadSafe, Opening, Linking, Fresh
    <3>4. p[t] # NULL
      BY <1>2, <3>1
    <3>5. ConsumerSafe(t)'
      BY <1>3, <2>2, <3>1, <3>4 DEF ConsumerSafe, Opening, Fresh
    <3> QED BY <2>5, <2>6, <3>2, <3>3, <3>5
  <2>16. CASE FreeNode(t)
    <3>1. /\ pc[t] = "56" /\ pc'[t] = "idle" /\ heap' = heap \ {dummy[t]} /\ New' = New
          /\ p'[Producer] = p[Producer] /\ q'[Producer] = q[Producer]
          /\ UNCHANGED <<head, tail, next, dummy>>
      BY <1>1, <1>2, <2>16 DEF FreeNode, New
    <3>2. ProducerSafe'
      BY <1>3, <2>2, <3>1 DEF ProducerSafe, Opening
    <3>3. New \notin heap' => New \notin heap \/ dummy[t] = New
      BY <3>1
    <3>4. HeadSafe'
      BY <1>3, <2>2, <2>3, <3>1, <3>3 DEF HeadSafe, ConsumerSafe, Opening, Linking, Fresh
    <3>5. ConsumerSafe(t)'
      BY <3>1 DEF ConsumerSafe
    <3> QED BY <2>5, <2>6, <3>2, <3>4, <3>5
  <2> QED BY <1>5, <2>5, <2>7, <2>8, <2>9, <2>10, <2>11, <2>12, <2>13, <2>14, <2>15, <2>16
          DEF sbuffer_remove
<1> QED BY <1>4, <1>5

\* Until malloc returns an address again, a removal that runs beside an insertion,
\* but not beside another removal, never frees a node twice, whatever else the
\* missing lock breaks: the node it took from head is still allocated when it
\* gets to free.
THEOREM NoDoubleFreeInvariance == Spec => []NoDoubleFree
<1>1. Init => FreeInv
  <2> SUFFICES ASSUME Init PROVE fault # "bad_free" /\ FreeSafe
    BY DEF FreeInv
  <2>1. /\ pc[Producer] = "idle" /\ \A c \in Consumers : pc[c] = "idle"
        /\ head = NULL /\ fault = "none"
    BY ThreadFacts DEF Init
  <2> QED BY <2>1 DEF FreeSafe, ProducerSafe, HeadSafe, ConsumerSafe, Opening, Linking
<1>2. ASSUME TypeInv, PlaceInv, SoloInv, FillInv, FreeInv, [Next]_vars PROVE FreeInv'
  <2> SUFFICES ASSUME ~ reused', ~ overlapped'
               PROVE  fault' # "bad_free" /\ (fault' = "none" => FreeSafe')
    BY DEF FreeInv
  <2>1. ~ overlapped /\ fault # "bad_free" /\ (fault = "none" => FreeSafe)
    BY <1>2, StepFacts, ReusedKept DEF FreeInv
  <2>2. CASE sbuffer_insert(Producer)
    <3>1. fault = "none" /\ fault' = "none"
      BY <2>2 DEF sbuffer_insert, Malloc, MallocFails, StoreWord, ClearNext, TestTail, LinkBehindTail,
                  Load, StoreHead, StoreTail, AssignedValue, LoadNext, Go, memory, locals, record
    <3> QED BY <1>2, <2>1, <2>2, <3>1, InsertSafe
  <2>3. ASSUME NEW t \in Consumers, sbuffer_remove(t)
        PROVE  fault' # "bad_free" /\ (fault' = "none" => FreeSafe')
    <3>1. fault = "none"
      BY <2>3 DEF sbuffer_remove, NoData, SomeData, FollowHead, CopyWord, TakeHead, CompareTail, FreeNode,
                  FreeTwice, Load, StoreHead, StoreTail, AssignedValue, LoadNext, Go
    <3>2. FreeSafe' /\ ~ FreeTwice(t)
      BY <1>2, <2>1, <2>3, <3>1, RemoveSafe
    <3>3. fault' = fault
      BY <2>3, <3>2
         DEF sbuffer_remove, NoData, SomeData, FollowHead, CopyWord, TakeHead, CompareTail, FreeNode,
             Load, StoreHead, StoreTail, AssignedValue, LoadNext, memory, locals, record
    <3> QED BY <3>1, <3>2, <3>3
  <2>4. ASSUME NEW t \in Threads, BadAccess(t)
        PROVE  fault' # "bad_free" /\ (fault' = "none" => FreeSafe')
    BY <2>4 DEF BadAccess
  <2>5. CASE UNCHANGED vars
    <3>1. UNCHANGED <<head, tail, next, heap, pc, dummy, p, q, fault>>
      BY <2>5 DEF vars, memory, locals
    <3> QED BY <2>1, <3>1 DEF FreeSafe, ProducerSafe, HeadSafe, ConsumerSafe, New, Opening, Linking,
                              Clearing, Fresh
  <2> QED BY <1>2, <2>2, <2>3, <2>4, <2>5 DEF Next, Crashed
<1>3. FreeInv => NoDoubleFree
  BY DEF FreeInv, NoDoubleFree
<1> QED BY <1>1, <1>2, <1>3, TypeInvInit, TypeInvStep, PlaceInit, PlaceStep, SoloInit, SoloStep,
           FillInit, FillStep, PTL DEF Spec
=============================================================================
