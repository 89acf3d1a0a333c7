------------------------------ MODULE StorageMgr ----------------------------
(***************************************************************************)
(* Project/sensor_db.c: the storage manager's connection to its database,  *)
(* the readings it moves from the shared buffer into the table, the import *)
(* of a file, the five queries, and the end of the process at any moment,  *)
(* after which another one finds the database as it was left.              *)
(*                                                                         *)
(* SQLite is external: each statement takes effect wholly or not at all.   *)
(* A reading is its number, and so is a row, whose id is its place in the  *)
(* table.  Log messages are left to LogPipe, the attempts of main.c to     *)
(* Gateway, which only ever calls init_connection(1).                      *)
(*                                                                         *)
(* The calls of sbuffer.c take no lock.  As long as no two of them overlap *)
(* the buffer is a queue (SBuffer); what overlapping calls do to it is     *)
(* shown in SBufferThreads, and here they may return anything.             *)
(***************************************************************************)
EXTENDS Integers, SequencesExt

CONSTANTS MaxSent,      \* bound: readings that reach the buffer
          MaxRecorded,  \* bound: readings in a file of sensor data
          Value, Ts,    \* value and timestamp of each reading
          QueryValue,   \* values callers look for
          EDigits,      \* significant digits %e prints: 7
          GDigits,      \* significant digits %g prints: 6
          MaxRows,      \* rows there is room for
          MaxLeaked     \* bound: connections a process forgets

Sent == 1..MaxSent
Recorded == (MaxSent + 1)..(MaxSent + MaxRecorded)
Junk == 0               \* a sensor_data_t nobody sent: as it was before the first
                        \* reading, or as overlapping calls put it together
Reading == {Junk} \cup Sent \cup Recorded
Torn == -1              \* a record that ends after its first field

ASSUME BoundAssumption == /\ MaxSent \in Nat /\ MaxRecorded \in Nat
                          /\ MaxRows \in Nat /\ MaxLeaked \in Nat
ASSUME ReadingAssumption == /\ Value \in [Reading -> 0..999999]
                            /\ QueryValue \subseteq 0..999999
                            /\ Ts \in [Reading -> Nat]
ASSUME DigitAssumption == EDigits \in Nat \ {0} /\ GDigits \in 1..EDigits

VARIABLES
  \* the database file
  table,        \* whether SensorData exists
  rows,         \* its rows, in the order of their ids
  \* the shared buffer
  sent,         \* number of readings that have reached it
  buffer,       \* those that are in it, as long as it is a queue
  raced,        \* auxiliary: two calls of the buffer have overlapped
  \* the storage manager
  pc,           \* "idle" between two calls, or what it does next
  clear,        \* the clear_up_flag of the init_connection under way
  conn,         \* whether its caller has a connection
  leaked,       \* connections that are open and that nobody knows
  data,         \* the reading of storagemgr_parse_sensor_data
  file,         \* what insert_sensor_from_file has not yet read
  found         \* the rows the last query has passed to its callback, and
                \* whether these were all

database == <<table, rows>>
queue == <<sent, buffer, raced>>
volatile == <<pc, clear, conn, leaked, data, file, found>>
vars == <<database, queue, volatile>>

Nothing == [rows |-> <<>>, ok |-> FALSE]

Init ==
  /\ table = FALSE /\ rows = <<>> /\ sent = 0 /\ buffer = <<>>
  /\ pc = "idle" /\ clear = FALSE /\ conn = FALSE /\ leaked = 0
  /\ raced = FALSE /\ data = Junk /\ file = <<>> /\ found = Nothing

\* A call of the storage manager: it has a connection and does nothing else.
Call == pc = "idle" /\ conn
Goto(p) == pc' = p /\ found' = Nothing

-----------------------------------------------------------------------------
(* The rest of the gateway. *)

\* The connection manager inserts a reading into the buffer.
Arrive ==
  /\ sent < MaxSent /\ sent' = sent + 1
  /\ buffer' = IF raced THEN buffer ELSE Append(buffer, sent')
  /\ UNCHANGED <<database, raced, volatile>>

\* The data manager takes the oldest one.
DataMgrRemove ==
  /\ buffer # <<>> /\ buffer' = Tail(buffer)
  /\ UNCHANGED <<database, sent, raced, volatile>>

\* Two threads are in calls of the buffer at the same time.
Overlap ==
  /\ ~ raced /\ raced' = TRUE /\ buffer' = <<>>
  /\ UNCHANGED <<database, sent, volatile>>

\* The process ends, with everything it had in memory, and is started again.
Restart ==
  /\ Goto("idle") /\ conn' = FALSE /\ leaked' = 0 /\ clear' = FALSE
  /\ data' = Junk /\ file' = <<>> /\ buffer' = <<>>
  /\ UNCHANGED <<database, sent, raced>>

-----------------------------------------------------------------------------
(* The connection. *)

\* Slip: the flag is not looked at.
FirstStatement_Clear(flag) == "drop"
\* The SQL text of init_connection: DROP TABLE IF EXISTS and CREATE TABLE, or
\* CREATE TABLE IF NOT EXISTS.
FirstStatement(flag) == IF flag THEN "drop" ELSE "create"

\* init_connection; when sqlite3_open fails nothing is left behind.
init_connection(flag) ==
  /\ pc = "idle" /\ ~ conn /\ leaked < MaxLeaked
  /\ \/ Goto("idle") /\ UNCHANGED clear
     \/ Goto(FirstStatement(flag)) /\ clear' = flag
  /\ UNCHANGED <<database, queue, conn, leaked, data, file>>

DropTable ==
  /\ pc = "drop" /\ Goto("create")
  /\ table' = FALSE /\ rows' = <<>>
  /\ UNCHANGED <<queue, clear, conn, leaked, data, file>>

CreateTable ==
  /\ pc = "create" /\ Goto("idle")
  /\ table' = TRUE /\ conn' = TRUE
  /\ UNCHANGED <<rows, queue, clear, leaked, data, file>>

\* Slip: the handle is returned although there may be no table.
StatementFails_Kept ==
  /\ pc \in {"drop", "create"} /\ Goto("idle") /\ conn' = TRUE
  /\ UNCHANGED <<database, queue, clear, leaked, data, file>>

\* The handle is forgotten without sqlite3_close.
StatementFails ==
  /\ pc \in {"drop", "create"} /\ Goto("idle") /\ leaked' = leaked + 1
  /\ UNCHANGED <<database, queue, clear, conn, data, file>>

\* sqlite3_close fails when the database is busy; the caller gives up either way.
disconnect ==
  /\ Call /\ Goto("idle") /\ conn' = FALSE
  /\ leaked' \in {leaked, leaked + 1} /\ leaked' =< MaxLeaked
  /\ UNCHANGED <<database, queue, clear, data, file>>

-----------------------------------------------------------------------------
(* Inserting rows. *)

\* Slip: the reading is copied but stays in the buffer.
TakeOldest_Peek == data' = Head(buffer) /\ UNCHANGED buffer
TakeOldest == data' = Head(buffer) /\ buffer' = Tail(buffer)

\* On an empty buffer SBUFFER_NO_DATA, and data as it was; once calls have
\* overlapped, that or any reading that arrived, or none of them.
sbuffer_remove ==
  /\ \/ ~ raced /\ buffer # <<>> /\ TakeOldest
     \/ buffer = <<>> /\ UNCHANGED <<data, buffer>>
     \/ raced /\ data' \in 0..sent /\ UNCHANGED buffer
  /\ UNCHANGED raced

\* A pass of the loop of storagemgr_parse_sensor_data: only SBUFFER_FAILURE, for
\* a buffer that is NULL, would end it, so the process does nothing else any more.
storagemgr_parse_sensor_data ==
  /\ Call \/ pc = "remove"
  /\ Goto("insert") /\ sbuffer_remove
  /\ UNCHANGED <<database, sent, clear, conn, leaked, file>>

\* insert_sensor(n).  After an error the message goes through a pointer that was
\* never set: the process goes on or is gone.
insert_sensor(n, next) ==
  \/ /\ Len(rows) < MaxRows /\ rows' = Append(rows, n) /\ next
     /\ UNCHANGED <<table, queue>>
  \/ next /\ UNCHANGED <<database, queue>>
  \/ Restart

InsertReading ==
  /\ pc = "insert"
  /\ insert_sensor(data, Goto("remove") /\ UNCHANGED <<clear, conn, leaked, data, file>>)

\* The records of a file: whole ones, the last one perhaps cut off.
OpenFile ==
  /\ Call /\ Goto("file")
  /\ \E k \in 0..MaxRecorded, end \in {<<>>, <<Torn>>} :
       file' = [j \in 1..k |-> MaxSent + j] \o end
  /\ UNCHANGED <<database, queue, clear, conn, leaked, data>>

\* insert_sensor_from_file asserts that a record it has begun is whole.
insert_sensor_from_file ==
  /\ pc = "file"
  /\ \/ file = <<>> /\ Goto("idle")
        /\ UNCHANGED <<database, queue, clear, conn, leaked, data, file>>
     \/ file # <<>> /\ Head(file) = Torn /\ Restart
     \/ file # <<>> /\ Head(file) # Torn
        /\ insert_sensor(Head(file), /\ file' = Tail(file) /\ Goto("file")
                                     /\ UNCHANGED <<clear, conn, leaked, data>>)

-----------------------------------------------------------------------------
(* The queries. *)

\* What printf makes of v with d significant digits, and SQLite of the text: v
\* rounded to a multiple of a power of ten.
Printed(v, d) ==
  LET unit == Min({10^k : k \in {j \in 0..6 : v < 10^(j + d)}})
  IN  ((v + unit \div 2) \div unit) * unit

Stored(n) == Printed(Value[n], EDigits)

\* sqlite3_exec calls back for each row of the answer, until the callback or an
\* error ends it.
Answer(answer) ==
  /\ Call
  /\ \E k \in 0..Len(answer) :
       found' = [rows |-> SubSeq(answer, 1, k), ok |-> k = Len(answer)]
  /\ UNCHANGED <<database, queue, pc, clear, conn, leaked, data, file>>

find_sensor_all == Answer(rows)
\* Slip: >= where the code has =.
find_sensor_by_value_OrMore(v) == Answer(SelectSeq(rows, LAMBDA n : Stored(n) >= Printed(v, GDigits)))
find_sensor_by_value(v) == Answer(SelectSeq(rows, LAMBDA n : Stored(n) = Printed(v, GDigits)))
find_sensor_exceed_value(v) == Answer(SelectSeq(rows, LAMBDA n : Stored(n) > Printed(v, GDigits)))
find_sensor_by_timestamp(t) == Answer(SelectSeq(rows, LAMBDA n : Ts[n] = t))
find_sensor_after_timestamp(t) == Answer(SelectSeq(rows, LAMBDA n : Ts[n] > t))

QueryTs == {Ts[n] : n \in Reading}

Query ==
  \/ find_sensor_all
  \/ \E v \in QueryValue : find_sensor_by_value(v) \/ find_sensor_exceed_value(v)
  \/ \E t \in QueryTs : find_sensor_by_timestamp(t) \/ find_sensor_after_timestamp(t)

-----------------------------------------------------------------------------
Next == \/ Arrive \/ DataMgrRemove \/ Overlap \/ Restart
        \/ \E flag \in BOOLEAN : init_connection(flag)
        \/ DropTable \/ CreateTable \/ StatementFails \/ disconnect
        \/ storagemgr_parse_sensor_data \/ InsertReading
        \/ OpenFile \/ insert_sensor_from_file \/ Query

Spec == Init /\ [][Next]_vars

-----------------------------------------------------------------------------
(* Properties. *)

TypeOK ==
  /\ table \in BOOLEAN /\ rows \in Seq(Reading) /\ Len(rows) =< MaxRows
  /\ sent \in 0..MaxSent /\ buffer \in Seq(Sent) /\ raced \in BOOLEAN
  /\ pc \in {"idle", "drop", "create", "remove", "insert", "file"}
  /\ clear \in BOOLEAN /\ conn \in BOOLEAN /\ leaked \in 0..MaxLeaked
  /\ data \in {Junk} \cup Sent /\ file \in Seq(Recorded \cup {Torn})

\* init_connection is several statements, each of which may fail or be the last
\* of its process: a caller that is given a connection finds the table.
ConnHasTable == conn => table

\* Statements of init_connection are executed before its caller has the
\* connection; this makes ConnHasTable inductive.
Connecting ==
  /\ pc \in {"drop", "create"} => ~ conn /\ leaked < MaxLeaked
  /\ pc \in {"insert", "remove", "file"} => conn
  /\ pc = "drop" => clear

\* The loop takes SBUFFER_NO_DATA for data and stores its last reading again, yet
\* over all processes readings are stored in the order they arrived, after they
\* have left the buffer, with nothing between the first and the last row of a
\* reading but rows a file or a process without readings has put there: so until
\* the first time that two of the threads are in calls of the buffer at once.
RowsFollowBuffer ==
  ~ raced =>
    \A k \in 1..Len(rows) : rows[k] \in Sent =>
      /\ \A j \in 1..k : rows[j] \in Sent => rows[j] =< rows[k]
      /\ \A m \in 1..Len(buffer) : rows[k] < buffer[m]

\* The reading that is stored next is not older than a stored one, and what is
\* in the buffer is newer than both; this makes RowsFollowBuffer inductive.
BufferOrdered ==
  ~ raced =>
    /\ \A m \in 1..Len(buffer) : buffer[m] =< sent
    /\ \A l, m \in 1..Len(buffer) : l < m => buffer[l] < buffer[m]
    /\ data =< sent /\ \A m \in 1..Len(buffer) : data < buffer[m]
    /\ \A k \in 1..Len(rows) : rows[k] \in Sent =>
         rows[k] =< sent /\ (data # Junk => rows[k] =< data)

\* A row that has been stored stays where it is through failures and restarts,
\* until init_connection is asked to clear the table (sensor_db.h: "clear up the
\* existing data when clear_up_flag is set to 1").
RowsDurable == [][rows' # rows => IsPrefix(rows, rows') \/ (clear /\ pc = "drop")]_vars

\* The digits %e leaves of v are no more than %g prints.
Short(v) == Printed(Printed(v, EDigits), GDigits) = Printed(v, EDigits)

\* insert_sensor prints values with other digits (sensor_db.c:97) than the queries
\* do (sensor_db.c:166, 191).  So a query by the very value that was stored, when
\* it passes all its rows, has the row just when the value as stored has no more
\* digits than %g prints; and one for larger values has it too when %g rounds
\* the value down.
FoundByOwnValue ==
  [][found'.ok => \A n \in ToSet(rows) :
       /\ find_sensor_by_value(Value[n]) =>
            (n \in ToSet(found'.rows) <=> Short(Value[n]))
       /\ find_sensor_exceed_value(Value[n]) =>
            (n \in ToSet(found'.rows) <=>
               ~ Short(Value[n]) /\ Printed(Value[n], GDigits) < Value[n])]_vars
=============================================================================
