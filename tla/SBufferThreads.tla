--------------------------- MODULE SBufferThreads ---------------------------
(***************************************************************************)
(* sbuffer_insert and sbuffer_remove (Project/sbuffer.c) as the threads of *)
(* Project/main.c run them: the connection manager inserts, the data and   *)
(* storage managers remove, and nothing in sbuffer.c takes a lock.         *)
(*                                                                         *)
(* Every load or store of head, tail or a node is a step of its own; a     *)
(* program counter value names the line of sbuffer.c it stands on, with a, *)
(* b, c for the accesses of one line.  The value of the inner assignment   *)
(* in head = tail = x is x or a fresh read of tail: C leaves it to the     *)
(* compiler.  Steps interleave in one order for all threads.  The first    *)
(* access to NULL or to a freed node ends the run, as does a second free.  *)
(*                                                                         *)
(* A reading is copied in several accesses (id, value and timestamp), one  *)
(* per member of Words, in any order.  What malloc returns is              *)
(* indeterminate: the words hold Garbage, which stands for any content, as *)
(* no branch depends on it, and next is any pointer.                       *)
(***************************************************************************)
EXTENDS Naturals, SequencesExt

CONSTANTS Consumers,     \* threads that call sbuffer_remove
          Producer,      \* the thread that calls sbuffer_insert
          Addr, NULL,    \* node addresses, and the null pointer
          Wild,          \* a pointer to nothing, as found in fresh memory
          Words,         \* what one access copies of a sensor_data_t
          MaxReadings    \* bound: so many insertions get a node

ASSUME ThreadsDiffer == Producer \notin Consumers
ASSUME NullIsNoNode == NULL \notin Addr
ASSUME WildIsNoNode == Wild \notin Addr \cup {NULL}
ASSUME WordsAssumption == Words # {}
ASSUME BoundAssumption == MaxReadings \in Nat

Threads == Consumers \cup {Producer}
Pointers == Addr \cup {NULL, Wild}
Garbage == 0             \* content of memory nobody has written yet
Contents == [Words -> 0..MaxReadings]
Unwritten == [w \in Words |-> Garbage]
Reading(n) == [w \in Words |-> n]    \* the n-th reading that gets a node

VARIABLES
  head, tail,    \* the two ends of the buffer
  next, data,    \* the fields of the node at each address
  heap,          \* addresses of the nodes that are allocated
  pc,            \* where each thread stands; "idle" is outside sbuffer.c
  dummy,         \* the local variable of both functions
  p, q,          \* registers: a pointer to follow, a value to store
  item,          \* *data of each consumer
  left,          \* the words a copy under way has still to make
  fault,         \* "none", or what ended the process
  inserted,      \* auxiliary: readings that got a node, in order
  got,           \* auxiliary: readings returned with SUCCESS, in order
  drained,       \* auxiliary: a removal has taken the only-node branch
  overlapped,    \* auxiliary: two removals have been under way at once
  used,          \* auxiliary: the addresses malloc has returned so far
  reused         \* auxiliary: malloc has returned one of them again

memory == <<head, tail, next, data, heap>>
locals == <<dummy, p, q, item, left>>
record == <<inserted, got, drained, overlapped, used, reused>>
vars == <<memory, pc, locals, fault, record>>

Init ==
  /\ head = NULL /\ tail = NULL
  /\ next = [a \in Addr |-> Wild] /\ data = [a \in Addr |-> Unwritten]
  /\ heap = {}
  /\ pc = [t \in Threads |-> "idle"]
  /\ dummy = [t \in Threads |-> NULL]
  /\ p = [t \in Threads |-> NULL] /\ q = [t \in Threads |-> NULL]
  /\ item = [c \in Consumers |-> Unwritten] /\ left = [t \in Threads |-> {}]
  /\ fault = "none"
  /\ inserted = <<>> /\ got = <<>> /\ drained = FALSE /\ overlapped = FALSE
  /\ used = {} /\ reused = FALSE

-----------------------------------------------------------------------------
(* Single accesses, shared by the two functions. *)

Go(t, from, to) == /\ fault = "none" /\ pc[t] = from
                   /\ pc' = [pc EXCEPT ![t] = to]

\* Load the pointer x.
Load(t, from, x, to) ==
  /\ Go(t, from, to) /\ p' = [p EXCEPT ![t] = x]
  /\ UNCHANGED <<memory, dummy, q, item, left, fault, record>>

StoreHead(t, from, x, to) ==
  /\ Go(t, from, to) /\ head' = x
  /\ UNCHANGED <<tail, next, data, heap, locals, fault, record>>

StoreTail(t, from, x, to) ==
  /\ Go(t, from, to) /\ tail' = x
  /\ UNCHANGED <<head, next, data, heap, locals, fault, record>>

\* The value of the inner assignment "tail = x".
AssignedValue(t, from, x, to) ==
  /\ Go(t, from, to) /\ \E v \in {x, tail} : q' = [q EXCEPT ![t] = v]
  /\ UNCHANGED <<memory, dummy, p, item, left, fault, record>>

\* Load the next field of the node p points to.
LoadNext(t, from, to) ==
  /\ Go(t, from, to) /\ p[t] \in heap
  /\ q' = [q EXCEPT ![t] = next[p[t]]]
  /\ UNCHANGED <<memory, dummy, p, item, left, fault, record>>

\* The pointer a line follows, and what happens when it points to no node.
Followed(t) == IF pc[t] \in {"65", "66"} THEN {dummy[t]}
               ELSE IF pc[t] \in {"71b", "72b", "48b", "54b"} THEN {p[t]} ELSE {}
BadAccess(t) ==
  /\ fault = "none"
  /\ \E x \in Followed(t) \ heap :
       fault' = IF x = NULL THEN "null_deref" ELSE "bad_access"
  /\ UNCHANGED <<memory, pc, locals, record>>

-----------------------------------------------------------------------------
(* sbuffer_insert. *)

Malloc(t) ==
  /\ Go(t, "idle", "65") /\ Len(inserted) < MaxReadings
  /\ \E a \in Addr \ heap, x \in Pointers :
       /\ heap' = heap \cup {a} /\ dummy' = [dummy EXCEPT ![t] = a]
       /\ next' = [next EXCEPT ![a] = x] /\ data' = [data EXCEPT ![a] = Unwritten]
       /\ used' = used \cup {a} /\ reused' = (reused \/ a \in used)
  /\ left' = [left EXCEPT ![t] = Words]
  /\ inserted' = Append(inserted, Reading(Len(inserted) + 1))
  /\ UNCHANGED <<head, tail, p, q, item, fault, got, drained, overlapped>>

\* SBUFFER_FAILURE: the reading is not inserted.
MallocFails(t) == Go(t, "idle", "idle") /\ UNCHANGED <<memory, locals, fault, record>>

\* Slip: one word is stored, the others keep what malloc left.
StoreWord_One(t) ==
  \E w \in left[t] :
    /\ Go(t, "65", "66") /\ dummy[t] \in heap
    /\ data' = [data EXCEPT ![dummy[t]] = [@ EXCEPT ![w] = Len(inserted)]]
    /\ left' = [left EXCEPT ![t] = {}]
    /\ UNCHANGED <<head, tail, next, heap, dummy, p, q, item, fault, record>>

\* One access of dummy->data = *data.
StoreWord(t) ==
  \E w \in left[t] :
    /\ Go(t, "65", IF left[t] = {w} THEN "66" ELSE "65") /\ dummy[t] \in heap
    /\ data' = [data EXCEPT ![dummy[t]] = [@ EXCEPT ![w] = Len(inserted)]]
    /\ left' = [left EXCEPT ![t] = @ \ {w}]
    /\ UNCHANGED <<head, tail, next, heap, dummy, p, q, item, fault, record>>

ClearNext(t) ==
  /\ Go(t, "66", "67") /\ dummy[t] \in heap
  /\ next' = [next EXCEPT ![dummy[t]] = NULL]
  /\ UNCHANGED <<head, tail, data, heap, locals, fault, record>>

TestTail(t) ==
  /\ Go(t, "67", IF tail = NULL THEN "69a" ELSE "71a")
  /\ UNCHANGED <<memory, locals, fault, record>>

\* Slip: the tail moves, the node before it is not linked.
LinkBehindTail_Unlinked(t) ==
  /\ Go(t, "71b", "72a") /\ p[t] \in heap
  /\ tail' = dummy[t]
  /\ UNCHANGED <<head, next, data, heap, locals, fault, record>>

LinkBehindTail(t) ==
  /\ Go(t, "71b", "72a") /\ p[t] \in heap
  /\ next' = [next EXCEPT ![p[t]] = dummy[t]]
  /\ UNCHANGED <<head, tail, data, heap, locals, fault, record>>

sbuffer_insert(t) ==
  \/ Malloc(t) \/ MallocFails(t) \/ StoreWord(t) \/ ClearNext(t) \/ TestTail(t)
  \/ StoreTail(t, "69a", dummy[t], "69b")        \* the buffer was empty
  \/ AssignedValue(t, "69b", dummy[t], "69c")
  \/ StoreHead(t, "69c", q[t], "idle")
  \/ Load(t, "71a", tail, "71b")                 \* it was not
  \/ LinkBehindTail(t)
  \/ Load(t, "72a", tail, "72b")
  \/ LoadNext(t, "72b", "72c")
  \/ StoreTail(t, "72c", q[t], "idle")

-----------------------------------------------------------------------------
(* sbuffer_remove. *)

NoData(t) ==
  /\ Go(t, "idle", "idle") /\ head = NULL
  /\ UNCHANGED <<memory, locals, fault, record>>

SomeData(t) ==
  /\ Go(t, "idle", "48a") /\ head # NULL
  /\ overlapped' = (overlapped \/ \E c \in Consumers : pc[c] # "idle")
  /\ UNCHANGED <<memory, locals, fault, inserted, got, drained, used, reused>>

\* buffer->head->data: load head, then the words one by one.
FollowHead(t) ==
  /\ Go(t, "48a", "48b") /\ p' = [p EXCEPT ![t] = head]
  /\ left' = [left EXCEPT ![t] = Words]
  /\ UNCHANGED <<memory, dummy, q, item, fault, record>>

\* Slip: the address of the node is copied.
CopyWord_Node(t) ==
  \E w \in left[t] :
    /\ Go(t, "48b", IF left[t] = {w} THEN "49" ELSE "48b") /\ p[t] \in heap
    /\ item' = [item EXCEPT ![t] = [@ EXCEPT ![w] = p[t]]]
    /\ left' = [left EXCEPT ![t] = @ \ {w}]
    /\ UNCHANGED <<memory, dummy, p, q, fault, record>>

CopyWord(t) ==
  \E w \in left[t] :
    /\ Go(t, "48b", IF left[t] = {w} THEN "49" ELSE "48b") /\ p[t] \in heap
    /\ item' = [item EXCEPT ![t] = [@ EXCEPT ![w] = data[p[t]][w]]]
    /\ left' = [left EXCEPT ![t] = @ \ {w}]
    /\ UNCHANGED <<memory, dummy, p, q, fault, record>>

\* Slip: dummy keeps the node of an earlier call.
TakeHead_Once(t) ==
  /\ Go(t, "49", "50a")
  /\ dummy' = [dummy EXCEPT ![t] = IF @ = NULL THEN head ELSE @]
  /\ UNCHANGED <<memory, p, q, item, left, fault, record>>

TakeHead(t) ==
  /\ Go(t, "49", "50a") /\ dummy' = [dummy EXCEPT ![t] = head]
  /\ UNCHANGED <<memory, p, q, item, left, fault, record>>

CompareTail(t) ==
  /\ Go(t, "50b", IF p[t] = tail THEN "52a" ELSE "54a")
  /\ drained' = (drained \/ p[t] = tail)
  /\ UNCHANGED <<memory, locals, fault, inserted, got, overlapped, used, reused>>

\* free(dummy), where free(NULL) does nothing, and return SUCCESS with *data.
\* The registers are of no use to a later call.
FreeNode(t) ==
  /\ dummy[t] \in heap \cup {NULL}
  /\ Go(t, "56", "idle")
  /\ heap' = heap \ {dummy[t]}
  /\ got' = Append(got, item[t])
  /\ item' = [item EXCEPT ![t] = Unwritten]
  /\ p' = [p EXCEPT ![t] = NULL] /\ q' = [q EXCEPT ![t] = NULL]
  /\ UNCHANGED <<head, tail, next, data, dummy, left, fault, inserted,
                 drained, overlapped, used, reused>>

FreeTwice(t) ==
  /\ fault = "none" /\ pc[t] = "56" /\ dummy[t] \notin heap \cup {NULL}
  /\ fault' = "bad_free"
  /\ UNCHANGED <<memory, pc, locals, record>>

sbuffer_remove(t) ==
  \/ NoData(t) \/ SomeData(t)
  \/ FollowHead(t) \/ CopyWord(t)
  \/ TakeHead(t)
  \/ Load(t, "50a", head, "50b") \/ CompareTail(t)
  \/ StoreTail(t, "52a", NULL, "52b")            \* the only node
  \/ AssignedValue(t, "52b", NULL, "52c")
  \/ StoreHead(t, "52c", q[t], "56")
  \/ Load(t, "54a", head, "54b")                 \* one of several
  \/ LoadNext(t, "54b", "54c")
  \/ StoreHead(t, "54c", q[t], "56")
  \/ FreeNode(t) \/ FreeTwice(t)

-----------------------------------------------------------------------------
\* The process is gone: nothing more happens.
Crashed == fault # "none" /\ UNCHANGED vars

Next == \/ sbuffer_insert(Producer)
        \/ \E c \in Consumers : sbuffer_remove(c)
        \/ \E t \in Threads : BadAccess(t)
        \/ Crashed

Spec == Init /\ [][Next]_vars

-----------------------------------------------------------------------------
(* Properties. *)

Lines == {"idle", "65", "66", "67", "69a", "69b", "69c", "71a", "71b", "72a", "72b",
          "72c", "48a", "48b", "49", "50a", "50b", "52a", "52b", "52c", "54a",
          "54b", "54c", "56"}

TypeOK ==
  /\ {head, tail} \subseteq Pointers
  /\ next \in [Addr -> Pointers] /\ data \in [Addr -> Contents]
  /\ heap \subseteq Addr
  /\ pc \in [Threads -> Lines]
  /\ dummy \in [Threads -> Pointers]
  /\ p \in [Threads -> Pointers] /\ q \in [Threads -> Pointers]
  /\ item \in [Consumers -> Contents] /\ left \in [Threads -> SUBSET Words]
  /\ fault \in {"none", "null_deref", "bad_access", "bad_free"}
  /\ {drained, overlapped, reused} \subseteq BOOLEAN /\ used \subseteq Addr

\* From head on, the list holds the readings of sequence s and ends there.
Holds(s) == \E at \in [1..Len(s) -> Addr] :
  /\ head = IF s = <<>> THEN NULL ELSE at[1]
  /\ \A i \in 1..Len(s) :
       /\ data[at[i]] = s[i]
       /\ next[at[i]] = IF i = Len(s) THEN NULL ELSE at[i + 1]

Quiet == fault = "none" /\ \A t \in Threads : pc[t] = "idle"

\* As long as removals do not overlap, a removing and the inserting thread meet
\* only where the list has one node.  While no removal took the only node, the
\* process does not crash, what came out is a prefix of what went in, and
\* between calls the rest is on the list.
SafeWhileNotDrained ==
  ~ drained /\ ~ overlapped => /\ fault = "none"
                               /\ IsPrefix(got, inserted)
                               /\ Quiet => Holds(SubSeq(inserted, Len(got) + 1, Len(inserted)))

\* Until malloc returns an address for the second time, a successful removal
\* returns a whole reading that was inserted: no interleaving, crash aside,
\* makes a consumer read a node before lines 65 and 66 have filled it.
OnlyInserted == ~ reused => ToSet(got) \subseteq ToSet(inserted)

\* Until then, removals that do not overlap never free a node twice, whatever
\* the producer does meanwhile.
NoDoubleFree == ~ reused /\ ~ overlapped => fault # "bad_free"

\* sbuffer.h:32: removal says SBUFFER_NO_DATA (head is NULL) "If 'buffer' is
\* empty".  Once every call has returned, nothing inserted is still in it.
NoDataOnlyWhenEmpty == Quiet /\ head = NULL => ToSet(inserted) \subseteq ToSet(got)
=============================================================================
