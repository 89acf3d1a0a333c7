---------------------------- MODULE ReadingQueue ----------------------------
(***************************************************************************)
(* What sbuffer.h promises of the shared buffer, one call at a time: a     *)
(* first-in first-out queue of sensor readings that can be created, filled *)
(* at the tail, emptied at the head and destroyed.  SBuffer implements it. *)
(***************************************************************************)
EXTENDS Sequences

CONSTANTS Reading,      \* the values of sensor_data_t
          NoReading     \* content of *data before anything was copied to it

VARIABLES status,       \* "null", "open", or "closing" while it is being freed
          queue,        \* the readings in the buffer, oldest first
          ret,          \* result code of the last finished call
          out           \* *data: what the last successful removal returned

vars == <<status, queue, ret, out>>

SUCCESS == "SBUFFER_SUCCESS"
FAILURE == "SBUFFER_FAILURE"
NO_DATA == "SBUFFER_NO_DATA"

Init == status = "null" /\ queue = <<>> /\ ret = SUCCESS /\ out = NoReading

\* sbuffer.h:16-21: allocate an empty buffer; the allocation may fail.
Create ==
  /\ status = "null"
  /\ \/ status' = "open" /\ ret' = SUCCESS
     \/ UNCHANGED status /\ ret' = FAILURE
  /\ UNCHANGED <<queue, out>>

\* sbuffer.h:41-46: add at the end, or fail and leave the buffer as it was.
Insert(r) ==
  /\ status # "closing"
  /\ \/ status = "open" /\ queue' = Append(queue, r) /\ ret' = SUCCESS
     \/ UNCHANGED queue /\ ret' = FAILURE
  /\ UNCHANGED <<status, out>>

\* sbuffer.h:30-37: take the oldest reading, or say that there is none.
Remove ==
  \/ /\ status = "open" /\ queue # <<>>
     /\ out' = Head(queue) /\ queue' = Tail(queue) /\ ret' = SUCCESS
     /\ UNCHANGED status
  \/ /\ status = "open" /\ queue = <<>> /\ ret' = NO_DATA
     /\ UNCHANGED <<status, queue, out>>
  \/ /\ status = "null" /\ ret' = FAILURE
     /\ UNCHANGED <<status, queue, out>>

\* sbuffer.h:23-28: free everything; a buffer that is NULL is an error.
Destroy ==
  \/ /\ status = "open" /\ status' = "closing" /\ queue' = <<>>
     /\ UNCHANGED <<ret, out>>
  \/ /\ status = "closing" /\ status' = "null" /\ ret' = SUCCESS
     /\ UNCHANGED <<queue, out>>
  \/ /\ status = "null" /\ ret' = FAILURE
     /\ UNCHANGED <<status, queue, out>>

Next == Create \/ Remove \/ Destroy \/ \E r \in Reading : Insert(r)

Spec == Init /\ [][Next]_vars
=============================================================================
