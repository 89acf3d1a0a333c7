------------------------------ MODULE SBuffer -------------------------------
(***************************************************************************)
(* Project/sbuffer.c: the linked list behind the shared buffer, at the     *)
(* level of its head, tail and next pointers and of the nodes malloc hands *)
(* out, for calls that do not overlap.  SBufferThreads takes the same      *)
(* calls apart and lets threads interleave them.                           *)
(*                                                                         *)
(* Each call is one action; the loop of sbuffer_free is one action per     *)
(* iteration.  malloc returns any free address, or NULL at any time.  The  *)
(* variable chain is auxiliary: no action reads it to decide anything; it  *)
(* records the linked nodes in order for the properties to speak about.    *)
(*                                                                         *)
(* In this and the other modules an operator introduced as a "Slip" is no  *)
(* part of the specification: it is a plausible mistake in the definition  *)
(* after it, kept to show which property would notice.                     *)
(***************************************************************************)
EXTENDS Naturals, Sequences

CONSTANTS Addr,         \* addresses malloc can return for a node
          Reading,      \* the values of sensor_data_t
          NULL,         \* the null pointer
          NoReading     \* content of *data before anything was copied to it

ASSUME NullIsNoNode == NULL \notin Addr

VARIABLES
  buffer,     \* *buffer: "null", "open", or "freeing" inside sbuffer_free
  head, tail, \* (*buffer)->head and (*buffer)->tail
  next, data, \* the fields of the node at each address
  heap,       \* addresses of the nodes that are allocated
  ret,        \* result code of the last finished call
  out,        \* *data of the caller of sbuffer_remove
  chain       \* auxiliary: the linked nodes, first to last

vars == <<buffer, head, tail, next, data, heap, ret, out, chain>>

SUCCESS == "SBUFFER_SUCCESS"
FAILURE == "SBUFFER_FAILURE"
NO_DATA == "SBUFFER_NO_DATA"

Init ==
  /\ buffer = "null" /\ head = NULL /\ tail = NULL
  /\ next = [a \in Addr |-> NULL]
  /\ data \in [Addr -> Reading]
  /\ heap = {} /\ chain = <<>>
  /\ ret = SUCCESS /\ out = NoReading

\* The call returns code c and changes nothing.
Return(c) ==
  /\ ret' = c
  /\ UNCHANGED <<buffer, head, tail, next, data, heap, out, chain>>

sbuffer_init ==
  /\ buffer = "null"
  /\ \/ Return(FAILURE)
     \/ /\ buffer' = "open" /\ head' = NULL /\ tail' = NULL
        /\ ret' = SUCCESS
        /\ UNCHANGED <<next, data, heap, out, chain>>

\* Slip: the node goes to the head.
Link_AtHead(a) ==
  /\ next' = [next EXCEPT ![a] = head] /\ head' = a
  /\ tail' = IF tail = NULL THEN a ELSE tail

\* Links node a behind the current tail, or as the only node.
Link(a) ==
  /\ next' = [IF tail = NULL THEN next ELSE [next EXCEPT ![tail] = a]
               EXCEPT ![a] = NULL]
  /\ head' = IF tail = NULL THEN a ELSE head
  /\ tail' = a

sbuffer_insert(r) ==
  /\ buffer # "freeing"
  /\ \/ Return(FAILURE)                      \* no buffer, or malloc failed
     \/ /\ buffer = "open"
        /\ \E a \in Addr \ heap :
             /\ heap' = heap \cup {a}
             /\ data' = [data EXCEPT ![a] = r]
             /\ Link(a)
             /\ chain' = Append(chain, a)
        /\ ret' = SUCCESS
        /\ UNCHANGED <<buffer, out>>

\* Slip: the tail pointer is left on the node that goes.
Unlink_TailStays ==
  head' = (IF head = tail THEN NULL ELSE next[head]) /\ tail' = tail

\* Unlinks the first node; the last node takes the tail pointer with it.
Unlink ==
  /\ head' = IF head = tail THEN NULL ELSE next[head]
  /\ tail' = IF head = tail THEN NULL ELSE tail

CopyData == out' = data[head]

\* Slip: the node is unlinked and never freed.
FreeHead_Leak == heap' = heap /\ chain' = Tail(chain)

\* free(dummy), where dummy is the node that was the head.
FreeHead == heap' = heap \ {head} /\ chain' = Tail(chain)

sbuffer_remove ==
  \/ buffer = "null" /\ Return(FAILURE)
  \/ buffer = "open" /\ head = NULL /\ Return(NO_DATA)
  \/ /\ buffer = "open" /\ head # NULL
     /\ CopyData /\ Unlink /\ FreeHead
     /\ ret' = SUCCESS
     /\ UNCHANGED <<buffer, next, data>>

sbuffer_free ==
  \/ buffer = "null" /\ Return(FAILURE)
  \/ /\ buffer = "open" /\ buffer' = "freeing"
     /\ UNCHANGED <<head, tail, next, data, heap, ret, out, chain>>

\* One iteration of the loop of sbuffer_free, and the end of the call.  The
\* tail pointer is left behind: it goes with the buffer.
FreeNode ==
  /\ buffer = "freeing" /\ head # NULL
  /\ head' = next[head] /\ FreeHead
  /\ UNCHANGED <<buffer, tail, next, data, ret, out>>

FreeBuffer ==
  /\ buffer = "freeing" /\ head = NULL
  /\ buffer' = "null" /\ ret' = SUCCESS
  /\ UNCHANGED <<head, tail, next, data, heap, out, chain>>

Next == \/ sbuffer_init \/ sbuffer_remove
        \/ sbuffer_free \/ FreeNode \/ FreeBuffer
        \/ \E r \in Reading : sbuffer_insert(r)

Spec == Init /\ [][Next]_vars

-----------------------------------------------------------------------------
(* Properties. *)

\* Every variable has its type.
TypeOK ==
  /\ buffer \in {"null", "open", "freeing"}
  /\ head \in Addr \cup {NULL} /\ tail \in Addr \cup {NULL}
  /\ next \in [Addr -> Addr \cup {NULL}]
  /\ data \in [Addr -> Reading]
  /\ heap \in SUBSET Addr
  /\ ret \in {SUCCESS, FAILURE, NO_DATA}
  /\ out \in Reading \cup {NoReading}
  /\ chain \in Seq(Addr)

ChainNodes == {chain[i] : i \in 1..Len(chain)}

\* No node is linked twice.
NoCycle == \A i, j \in 1..Len(chain) : chain[i] = chain[j] => i = j

\* Every malloc of sbuffer_insert is freed once: the allocated nodes are the
\* linked ones, so no call leaks a node and none is freed while still linked.
NoLeak == heap = ChainNodes

\* While calls are accepted, head, the next pointers and tail describe one
\* list; an empty list has both ends NULL (sbuffer.c:67 relies on it).
ListShape ==
  /\ NoCycle
  /\ (chain = <<>>) <=> (head = NULL)
  /\ buffer = "open" => (head = NULL <=> tail = NULL)
  /\ chain # <<>> => /\ head = chain[1] /\ tail = chain[Len(chain)]
                     /\ next[tail] = NULL
  /\ \A i \in 1..Len(chain) - 1 : next[chain[i]] = chain[i + 1]

\* When *buffer is NULL again nothing of it is left on the heap.
FreedWhenNull == buffer = "null" => heap = {}

\* The conjunction is inductive.
IInv == TypeOK /\ NoLeak /\ ListShape /\ FreedWhenNull

\* The readings in the buffer, oldest first; none while it is being freed.
Contents == IF buffer = "open" THEN [i \in 1..Len(chain) |-> data[chain[i]]]
                               ELSE <<>>

Queue == INSTANCE ReadingQueue WITH
           status <- IF buffer = "freeing" THEN "closing" ELSE buffer,
           queue <- Contents

\* sbuffer.h: the list behaves as a queue, results and error codes included.
ImplementsQueue == Queue!Spec
=============================================================================
