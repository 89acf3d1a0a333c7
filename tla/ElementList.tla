----------------------------- MODULE ElementList ----------------------------
(***************************************************************************)
(* What dplist.h promises: a list is a sequence of elements, a call that   *)
(* changes it does so by the insertion or removal it names, and the other  *)
(* calls tell about the content what the operators at the end say.  DPList *)
(* says of each call of dplist.c when it keeps this.                       *)
(***************************************************************************)
EXTENDS Integers, SequencesExt

VARIABLES status,       \* "null" or "open"; "stopped" when the process is gone
          content,      \* the elements, first to last
          ordered       \* the comparison function orders elements, and
                        \* all of them were inserted by comparison

Init == status = "null" /\ content = <<>> /\ ordered \in BOOLEAN

Ascending(s) == \A i, j \in 1..Len(s) : i < j => s[i] =< s[j]

\* "If 'index' is 0 or negative, the list node is inserted at the start",
\* "bigger than the number of elements in the list, [...] at the end".
Position(i) == IF i < 0 THEN 0 ELSE IF i > Len(content) THEN Len(content) ELSE i

\* The element an index names: 0 or less the first, past the end the last.
Place(i) == IF Position(i) = Len(content) THEN Len(content) ELSE Position(i) + 1

Create == status = "null" /\ status' = "open" /\ UNCHANGED <<content, ordered>>

InsertElement(e, i) ==
  /\ status = "open" /\ content' = InsertAt(content, Position(i) + 1, e)
  /\ ordered' = FALSE /\ UNCHANGED status

\* Somewhere, but so that an ordered list stays in order.
InsertSorted(e) ==
  /\ status = "open"
  /\ \E i \in 0..Len(content) : content' = InsertAt(content, i + 1, e)
  /\ ordered => Ascending(content')
  /\ UNCHANGED <<status, ordered>>

\* "If the list is empty, return the unmodified list."
RemoveElement(i) ==
  /\ status = "open"
  /\ content' = IF content = <<>> THEN <<>> ELSE RemoveAt(content, Place(i))
  /\ UNCHANGED <<status, ordered>>

Free == /\ status = "open" /\ status' = "null" /\ content' = <<>>
        /\ UNCHANGED ordered

Query == status = "open" /\ UNCHANGED <<status, content, ordered>>

\* The answers: "the number of elements", "the list element contained in the
\* list node with index 'index'", "an index to the first list node [...]
\* containing 'element'" or -1.
NumberOf == Len(content)
ElementOf(i) == content[Place(i)]
IndexOf(e) == LET at == {k \in 1..Len(content) : content[k] = e}
              IN  IF at = {} THEN -1 ELSE Min(at) - 1
=============================================================================
