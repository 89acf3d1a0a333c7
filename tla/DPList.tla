------------------------------- MODULE DPList -------------------------------
(***************************************************************************)
(* Project/lib/dplist.c: a doubly linked list, at the level of its head,   *)
(* prev and next pointers and of the nodes malloc hands out.               *)
(*                                                                         *)
(* Each call is one action.  The auxiliary variable chain holds the linked *)
(* nodes in order; the loops that only read are described by the nodes of  *)
(* chain they stand on when they stop, and Shape says that chain is where  *)
(* the pointers lead.  An element is a value; copying it does not change   *)
(* it.  A call that follows NULL, fails an assert or loops for ever ends   *)
(* the run and leaves in fault how.                                        *)
(***************************************************************************)
EXTENDS Integers, SequencesExt

CONSTANTS Addr,         \* addresses malloc can return for a node
          NULL,         \* the null pointer
          Element,      \* the elements callers insert, numbers
          Index         \* the indices callers use

ASSUME NullIsNoNode == NULL \notin Addr
ASSUME ElementAssumption == Element \subseteq Int /\ Index \subseteq Int

VARIABLES
  open,          \* whether there is a list
  head,          \* list->head
  prev, next,    \* the pointers of the node at each address
  element,       \* its element
  heap,          \* addresses of the nodes that are allocated
  order,         \* what element_compare is, "three_way" or "equality"
  ret,           \* result of the last call that returns one
  fault,         \* "none", "memory", "null_deref", "assert" or "endless"
  chain,         \* auxiliary: the linked nodes, first to last
  lost,          \* auxiliary: allocated nodes that are in no list
  indexed        \* auxiliary: an element was inserted at an index

pointers == <<head, prev, next, element, heap, chain, lost>>
kind == <<order, indexed>>
vars == <<open, pointers, kind, ret, fault>>

Init ==
  /\ open = FALSE /\ head = NULL /\ heap = {} /\ chain = <<>> /\ lost = {}
  /\ prev = [a \in Addr |-> NULL] /\ next = [a \in Addr |-> NULL]
  /\ element = [a \in Addr |-> NULL]
  /\ order \in {"three_way", "equality"} /\ indexed = FALSE
  /\ ret = NULL /\ fault = "none"

\* The comparison of dplist.h:27, and the one connmgr.c and datamgr.c supply.
Compare(x, y) == IF x = y THEN 0 ELSE IF order = "three_way" /\ x > y THEN 1 ELSE -1

Size == Len(chain)
ElementAt(k) == element[chain[k]]
Calling == open /\ fault = "none"

Fault(f) == fault' = f /\ UNCHANGED <<open, pointers, kind, ret>>
Return(r) == ret' = r /\ UNCHANGED <<open, pointers, kind, fault>>

dpl_create ==
  /\ ~ open /\ fault = "none"
  /\ \/ open' = TRUE /\ UNCHANGED <<pointers, kind, ret, fault>>
     \/ Fault("assert")

-----------------------------------------------------------------------------
(* Linking the node a, which holds e. *)

\* Slip: the node points to itself where its element should be.
Allocate_Node(a, e) == heap' = heap \cup {a} /\ element' = [element EXCEPT ![a] = a]
Allocate(a, e) == heap' = heap \cup {a} /\ element' = [element EXCEPT ![a] = e]

\* The list is empty: the node becomes its only one.
LinkOnly(a) ==
  /\ head' = a /\ chain' = <<a>>
  /\ prev' = [prev EXCEPT ![a] = NULL] /\ next' = [next EXCEPT ![a] = NULL]
  /\ UNCHANGED lost

LinkFirst(a) ==
  /\ head' = a /\ chain' = <<a>> \o chain
  /\ prev' = [prev EXCEPT ![head] = a, ![a] = NULL]
  /\ next' = [next EXCEPT ![a] = head]
  /\ UNCHANGED lost

LinkLast(a) ==
  /\ chain' = Append(chain, a)
  /\ prev' = [prev EXCEPT ![a] = chain[Size]]
  /\ next' = [next EXCEPT ![chain[Size]] = a, ![a] = NULL]
  /\ UNCHANGED <<head, lost>>

\* Slip: pt->prev is not set.
LinkBefore_NoPrev(a, k) ==
  /\ chain' = InsertAt(chain, k, a)
  /\ prev' = [prev EXCEPT ![a] = prev[chain[k]]]
  /\ next' = [next EXCEPT ![a] = chain[k], ![prev[chain[k]]] = a]
  /\ UNCHANGED <<head, lost>>

\* Before the node chain[k], which is not the first.
LinkBefore(a, k) ==
  /\ chain' = InsertAt(chain, k, a)
  /\ prev' = [prev EXCEPT ![a] = prev[chain[k]], ![chain[k]] = a]
  /\ next' = [next EXCEPT ![a] = chain[k], ![prev[chain[k]]] = a]
  /\ UNCHANGED <<head, lost>>

\* An index in an empty list: head is compared with the node, not set to it.
LinkNowhere(a) ==
  /\ lost' = lost \cup {a}
  /\ prev' = [prev EXCEPT ![a] = NULL] /\ next' = [next EXCEPT ![a] = NULL]
  /\ UNCHANGED <<head, chain>>

-----------------------------------------------------------------------------
(* The calls. *)

\* The insert_copy argument is overwritten; no index beyond the list is found.
dpl_insert_at_index(e, i) ==
  /\ Calling
  /\ \/ Fault("memory")
     \/ i > 0 /\ i >= Size /\ Fault("assert")
     \/ \E a \in Addr \ heap :
          /\ Allocate(a, e)
          /\ \/ i =< 0 /\ head = NULL /\ LinkNowhere(a)
             \/ i =< 0 /\ head # NULL /\ LinkFirst(a)
             \/ i > 0 /\ i < Size /\ LinkBefore(a, i + 1)
          /\ indexed' = (indexed \/ chain' # chain)
          /\ UNCHANGED <<open, order, ret, fault>>

\* Slip: the comparison is the wrong way round.
StopsAt_Reversed(e, k) == /\ k = Size \/ Compare(ElementAt(k), e) =< 0
                          /\ \A j \in 1..k - 1 : Compare(ElementAt(j), e) > 0

\* The loop of dpl_insert_sorted stops at the k-th node.
StopsAt(e, k) == /\ k = Size \/ Compare(e, ElementAt(k)) =< 0
                 /\ \A j \in 1..k - 1 : Compare(e, ElementAt(j)) > 0

\* An element equal to the first of several is put before the first node by
\* way of that node's prev.
dpl_insert_sorted(e) ==
  /\ Calling
  /\ \/ Fault("memory")
     \/ /\ Size > 1 /\ StopsAt(e, 1) /\ Compare(e, ElementAt(1)) = 0
        /\ Fault("null_deref")
     \/ \E a \in Addr \ heap :
          /\ Allocate(a, e)
          /\ \/ head = NULL /\ LinkOnly(a)
             \/ \E k \in 1..Size :
                  /\ StopsAt(e, k)
                  /\ LET c == Compare(e, ElementAt(k))
                     IN  \/ k = Size /\ c >= 0 /\ LinkLast(a)
                         \/ k = 1 /\ c < 0 /\ LinkFirst(a)
                         \/ k > 1 /\ (k < Size \/ c < 0) /\ LinkBefore(a, k)
          /\ UNCHANGED <<open, kind, ret, fault>>

\* Takes chain[k] out, not the first, and frees it.
Unlink(k) ==
  LET a == chain[k] IN
  /\ next' = [next EXCEPT ![prev[a]] = next[a], ![a] = NULL]
  /\ prev' = [n \in Addr |-> IF n = next[a] THEN prev[a]
                             ELSE IF n = a THEN NULL ELSE prev[n]]
  /\ element' = [element EXCEPT ![a] = NULL]
  /\ heap' = heap \ {a} /\ chain' = RemoveAt(chain, k)
  /\ UNCHANGED <<head, lost>>

\* The test for a single node assigns NULL to head->next and then follows it.
dpl_remove_at_index(i) ==
  /\ Calling
  /\ \/ head = NULL /\ UNCHANGED vars
     \/ head # NULL /\ (i =< 0 \/ i >= Size) /\ Fault("null_deref")
     \/ head # NULL /\ i > 0 /\ i < Size /\ Unlink(i + 1)
        /\ UNCHANGED <<open, kind, ret, fault>>

\* Removes index 0 until the list is empty.
dpl_free ==
  /\ Calling
  /\ \/ head # NULL /\ Fault("null_deref")
     \/ head = NULL /\ open' = FALSE /\ UNCHANGED <<pointers, kind, ret, fault>>

dpl_size == Calling /\ Return(IF head = NULL THEN 0 ELSE Size + 1)

dpl_get_element_at_index(i) ==
  /\ Calling
  /\ \/ head = NULL /\ Return(NULL)
     \/ head # NULL /\ i =< 0 /\ Return(element[head])
     \/ head # NULL /\ i > 0 /\ Fault("null_deref")

Matches(e) == {k \in 1..Size : Compare(e, ElementAt(k)) = 0}

dpl_get_index_of_element(e) ==
  /\ Calling
  /\ \/ head = NULL /\ Return(-1)
     \/ /\ head # NULL
        /\ Return(IF Matches(e) = {} THEN Size ELSE Min(Matches(e)) - 1)

dpl_get_reference_at_index(i) ==
  /\ Calling
  /\ \/ i =< 0 /\ Return(head)
     \/ i > 0 /\ Return(IF i < Size THEN chain[i + 1] ELSE NULL)

\* The loop that looks for the reference never moves on.
dpl_get_element_at_reference(r) ==
  /\ Calling
  /\ \/ head = NULL /\ Return(NULL)
     \/ head # NULL /\ r = NULL /\ Fault("null_deref")
     \/ head # NULL /\ r = head /\ Return(element[head])
     \/ head # NULL /\ r \notin {head, NULL} /\ Fault("endless")

dpl_get_reference_of_element(e) ==
  Calling /\ Return(IF Matches(e) = {} THEN NULL ELSE chain[Min(Matches(e))])

\* The process is gone: nothing more happens.
Stopped == fault # "none" /\ UNCHANGED vars

Next == \/ dpl_create \/ dpl_free \/ dpl_size \/ Stopped
        \/ \E e \in Element : \/ dpl_insert_sorted(e) \/ dpl_get_index_of_element(e)
                              \/ dpl_get_reference_of_element(e)
        \/ \E i \in Index : \/ \E e \in Element : dpl_insert_at_index(e, i)
                            \/ dpl_remove_at_index(i) \/ dpl_get_element_at_index(i)
                            \/ dpl_get_reference_at_index(i)
        \/ \E r \in Addr \cup {NULL} : dpl_get_element_at_reference(r)

Spec == Init /\ [][Next]_vars

-----------------------------------------------------------------------------
(* Properties. *)

TypeOK ==
  /\ open \in BOOLEAN /\ head \in Addr \cup {NULL} /\ heap \subseteq Addr
  /\ prev \in [Addr -> Addr \cup {NULL}] /\ next \in [Addr -> Addr \cup {NULL}]
  /\ element \in [Addr -> Element \cup {NULL}]
  /\ order \in {"three_way", "equality"}
  /\ fault \in {"none", "memory", "null_deref", "assert", "endless"}
  /\ chain \in Seq(Addr) /\ lost \subseteq Addr /\ indexed \in BOOLEAN

ChainNodes == {chain[k] : k \in 1..Size}

\* No sequence of calls makes the next and the prev pointers describe
\* different lists, links a node twice, or keeps a node that is in no list,
\* save the ones an insertion at an index into an empty list forgets.
Shape ==
  /\ \A j, k \in 1..Size : chain[j] = chain[k] => j = k
  /\ heap = ChainNodes \cup lost /\ ChainNodes \cap lost = {}
  /\ IF chain = <<>> THEN head = NULL
     ELSE head = chain[1] /\ prev[head] = NULL /\ next[chain[Size]] = NULL
  /\ \A k \in 1..Size - 1 : /\ next[chain[k]] = chain[k + 1]
                            /\ prev[chain[k + 1]] = chain[k]

Content == [k \in 1..Size |-> ElementAt(k)]

List == INSTANCE ElementList WITH
          status <- IF fault # "none" THEN "stopped" ELSE IF open THEN "open" ELSE "null",
          content <- Content,
          ordered <- order = "three_way" /\ ~ indexed

\* The process stops at the call.
Stops(f) == fault' = f /\ Content' = Content

\* Each call that changes the list changes its content as dplist.h says, save
\* that insertion at an index loses the first element (dplist.h:54) and fails
\* past the end (dplist.h:55), that removal and dpl_free crash at the first
\* element or past the end (dplist.h:67-68, 36-37), and that an element equal
\* to the first of several cannot be inserted by comparison.
ChangesAsPromised ==
  /\ dpl_create => List!Create \/ Stops("assert")
  /\ dpl_free => List!Free \/ (Content # <<>> /\ Stops("null_deref"))
  /\ \A e \in Element, i \in Index : dpl_insert_at_index(e, i) =>
       \/ List!InsertElement(e, i) \/ Stops("memory")
       \/ Content = <<>> /\ i =< 0 /\ List!Query
       \/ i > 0 /\ i >= Len(Content) /\ Stops("assert")
  /\ \A e \in Element : dpl_insert_sorted(e) =>
       \/ List!InsertSorted(e) \/ Stops("memory")
       \/ Len(Content) > 1 /\ e = Content[1] /\ Stops("null_deref")
  /\ \A i \in Index : dpl_remove_at_index(i) =>
       \/ List!RemoveElement(i)
       \/ Content # <<>> /\ ~ (0 < i /\ i < Len(Content)) /\ Stops("null_deref")

\* Each other call leaves the content alone and answers as dplist.h says, save
\* that the size of a list that is not empty is one too big (dplist.h:45), a
\* missing element has the size for its index (dplist.h:104), an index past the
\* end has no reference (dplist.h:80), and the element at an index other than
\* the first (dplist.h:89) or at a reference other than the first node's
\* (dplist.h:112-116) is not answered at all.
AnswersAsPromised ==
  /\ dpl_size => List!Query /\ ret' = List!NumberOf + (IF Content = <<>> THEN 0 ELSE 1)
  /\ \A i \in Index : dpl_get_element_at_index(i) =>
       \/ List!Query /\ ret' = IF Content = <<>> THEN NULL ELSE List!ElementOf(i)
       \/ Content # <<>> /\ i > 0 /\ Stops("null_deref")
  /\ \A e \in Element : dpl_get_index_of_element(e) =>
       /\ List!Query
       /\ \/ ret' = List!IndexOf(e)
          \/ Content # <<>> /\ List!IndexOf(e) = -1 /\ ret' = Len(Content)
  /\ \A i \in Index : dpl_get_reference_at_index(i) =>
       /\ List!Query
       /\ \/ ret' \in heap \ lost /\ element[ret'] = List!ElementOf(i)
          \/ (Content = <<>> \/ (i > 0 /\ i >= Len(Content))) /\ ret' = NULL
  /\ \A r \in Addr \cup {NULL} : dpl_get_element_at_reference(r) =>
       \/ List!Query /\ ret' = IF Content = <<>> THEN NULL ELSE element[r]
       \/ Content # <<>> /\ r = NULL /\ Stops("null_deref")
       \/ Content # <<>> /\ r \notin {head, NULL} /\ Stops("endless")

\* However the calls follow each other, each keeps the promise dplist.h makes
\* for it or breaks it in the way named above; a list filled by insertions
\* that compare is in order.
ImplementsList == List!Init /\ [][ChangesAsPromised /\ AnswersAsPromised]_vars
=============================================================================
