-------------------------- MODULE StorageMgr_proofs -------------------------
(***************************************************************************)
(* Proofs about StorageMgr for any number of readings, records and rows.   *)
(***************************************************************************)
EXTENDS StorageMgr, SequenceTheorems, TLAPS

\* The whole effect of a query on what the proofs look at.
LEMMA QueryReads ==
  ASSUME Query
  PROVE  Call /\ UNCHANGED <<database, queue, pc, clear, conn, leaked, data, file>>
  BY DEF Query, find_sensor_all, find_sensor_by_value, find_sensor_exceed_value,
         find_sensor_by_timestamp, find_sensor_after_timestamp, Answer

-----------------------------------------------------------------------------
(* A caller that is given a connection finds the table. *)

TableInv == ConnHasTable /\ Connecting

LEMMA TableInvStep ==
  ASSUME TableInv, [Next]_vars PROVE TableInv'
PROOF
<1> USE DEF TableInv, ConnHasTable, Connecting, Goto, Call, database, queue
<1>1. CASE Arrive \/ DataMgrRemove \/ Overlap \/ Restart
  BY <1>1 DEF Arrive, DataMgrRemove, Overlap, Restart, volatile
<1>2. ASSUME NEW flag \in BOOLEAN, init_connection(flag) PROVE TableInv'
  BY <1>2 DEF init_connection, FirstStatement
<1>3. CASE DropTable \/ CreateTable \/ StatementFails \/ disconnect
  BY <1>3 DEF DropTable, CreateTable, StatementFails, disconnect
<1>4. CASE storagemgr_parse_sensor_data
  BY <1>4 DEF storagemgr_parse_sensor_data
<1>5. CASE InsertReading
  BY <1>5 DEF InsertReading, insert_sensor, Restart
<1>6. CASE OpenFile
  BY <1>6 DEF OpenFile
<1>7. CASE insert_sensor_from_file
  BY <1>7 DEF insert_sensor_from_file, insert_sensor, Restart
<1>8. CASE Query
  BY <1>8, QueryReads
<1>9. CASE UNCHANGED vars
  BY <1>9 DEF vars, volatile
<1> QED BY <1>1, <1>2, <1>3, <1>4, <1>5, <1>6, <1>7, <1>8, <1>9 DEF Next

\* Whichever statement of init_connection fails, and wherever the process ends
\* and starts again, nobody holds a connection to a database without SensorData.
THEOREM TableInvariance == Spec => []ConnHasTable
<1>1. Init => TableInv
  BY DEF Init, TableInv, ConnHasTable, Connecting
<1>2. TableInv => ConnHasTable
  BY DEF TableInv
<1> QED BY <1>1, <1>2, TableInvStep, PTL DEF Spec

-----------------------------------------------------------------------------
(* Types. *)

LEMMA Sets ==
  /\ Sent \subseteq Nat \ {0} /\ Junk = 0 /\ Torn \notin Recorded
  /\ Sent \subseteq Reading /\ Recorded \subseteq Reading /\ Junk \in Reading
  /\ Sent \cap Recorded = {} /\ Junk \notin Sent
  BY BoundAssumption DEF Sent, Junk, Torn, Recorded, Reading

LEMMA SeqFacts ==
  ASSUME NEW S
  PROVE  /\ <<>> \in Seq(S) /\ Len(<<>>) = 0
         /\ \A s \in Seq(S) : s # <<>> => Head(s) \in S /\ Tail(s) \in Seq(S)
         /\ \A s \in Seq(S), e \in S : /\ Append(s, e) \in Seq(S)
                                       /\ Len(Append(s, e)) = Len(s) + 1
         /\ \A s \in Seq(S) : Len(s) \in Nat
  BY HeadTailProperties, AppendProperties, EmptySeq

FlagTypes == table \in BOOLEAN /\ clear \in BOOLEAN /\ conn \in BOOLEAN

ScalarTypes ==
  /\ pc \in {"idle", "drop", "create", "remove", "insert", "file"}
  /\ leaked \in 0..MaxLeaked

SeqTypes ==
  /\ rows \in Seq(Reading) /\ Len(rows) =< MaxRows
  /\ sent \in 0..MaxSent /\ buffer \in Seq(Sent) /\ raced \in BOOLEAN
  /\ data \in {Junk} \cup Sent /\ file \in Seq(Recorded \cup {Torn})

LEMMA SplitTypes == TypeOK <=> FlagTypes /\ ScalarTypes /\ SeqTypes
  BY DEF TypeOK, FlagTypes, ScalarTypes, SeqTypes

LEMMA FlagTypesStep ==
  ASSUME FlagTypes, TableInv, [Next]_vars PROVE FlagTypes'
PROOF
<1> USE DEF FlagTypes, Goto, Call, database, queue
<1>1. CASE Arrive \/ DataMgrRemove \/ Overlap \/ Restart
  BY <1>1 DEF Arrive, DataMgrRemove, Overlap, Restart, volatile
<1>2. ASSUME NEW flag \in BOOLEAN, init_connection(flag) PROVE FlagTypes'
  BY <1>2 DEF init_connection, FirstStatement
<1>3. CASE DropTable \/ CreateTable \/ disconnect
  BY <1>3 DEF DropTable, CreateTable, disconnect
<1>4. CASE StatementFails
  BY <1>4 DEF StatementFails, TableInv, Connecting
<1>5. CASE storagemgr_parse_sensor_data
  BY <1>5 DEF storagemgr_parse_sensor_data
<1>6. CASE InsertReading
  BY <1>6 DEF InsertReading, insert_sensor, Restart
<1>7. CASE OpenFile
  BY <1>7 DEF OpenFile
<1>8. CASE insert_sensor_from_file
  BY <1>8 DEF insert_sensor_from_file, insert_sensor, Restart
<1>9. CASE Query
  BY <1>9, QueryReads
<1>10. CASE UNCHANGED vars
  BY <1>10 DEF vars, volatile
<1> QED BY <1>1, <1>2, <1>3, <1>4, <1>5, <1>6, <1>7, <1>8, <1>9, <1>10 DEF Next

LEMMA ScalarTypesStep ==
  ASSUME ScalarTypes, TableInv, [Next]_vars PROVE ScalarTypes'
PROOF
<1> USE BoundAssumption DEF ScalarTypes, Goto, Call, database, queue
<1>1. CASE Arrive \/ DataMgrRemove \/ Overlap \/ Restart
  BY <1>1 DEF Arrive, DataMgrRemove, Overlap, Restart, volatile
<1>2. ASSUME NEW flag \in BOOLEAN, init_connection(flag) PROVE ScalarTypes'
  BY <1>2 DEF init_connection, FirstStatement
<1>3. CASE DropTable \/ CreateTable \/ disconnect
  BY <1>3 DEF DropTable, CreateTable, disconnect
<1>4. CASE StatementFails
  BY <1>4 DEF StatementFails, TableInv, Connecting
<1>5. CASE storagemgr_parse_sensor_data
  BY <1>5 DEF storagemgr_parse_sensor_data
<1>6. CASE InsertReading
  BY <1>6 DEF InsertReading, insert_sensor, Restart
<1>7. CASE OpenFile
  BY <1>7 DEF OpenFile
<1>8. CASE insert_sensor_from_file
  BY <1>8 DEF insert_sensor_from_file, insert_sensor, Restart
<1>9. CASE Query
  BY <1>9, QueryReads
<1>10. CASE UNCHANGED vars
  BY <1>10 DEF vars, volatile
<1> QED BY <1>1, <1>2, <1>3, <1>4, <1>5, <1>6, <1>7, <1>8, <1>9, <1>10 DEF Next

-----------------------------------------------------------------------------
(* What a step may do to readings: twelve ways, whatever action takes it.   *)

Same(s) == s' = s
Arrives == /\ ~ raced /\ sent' = sent + 1 /\ sent < MaxSent /\ buffer' = Append(buffer, sent')
           /\ Same(rows) /\ Same(data) /\ Same(file) /\ Same(raced)
ArrivesRaced == /\ raced /\ sent' = sent + 1 /\ sent < MaxSent
                /\ Same(buffer) /\ Same(rows) /\ Same(data) /\ Same(file) /\ Same(raced)
Races == raced' = TRUE /\ buffer' = <<>> /\ Same(rows) /\ Same(data) /\ Same(sent) /\ Same(file)
TakesRaced == /\ raced /\ data' \in 0..sent
              /\ Same(raced) /\ Same(buffer) /\ Same(rows) /\ Same(sent) /\ Same(file)
LeavesBuffer == /\ buffer # <<>> /\ buffer' = Tail(buffer) /\ data' \in {data, Head(buffer)}
                /\ Same(rows) /\ Same(sent) /\ Same(file) /\ Same(raced)
Forgets == /\ buffer' = <<>> /\ data' = Junk /\ file' = <<>>
           /\ Same(rows) /\ Same(sent) /\ Same(raced)
Clears == /\ rows' = <<>> /\ clear /\ pc = "drop"
          /\ Same(buffer) /\ Same(data) /\ Same(sent) /\ Same(file) /\ Same(raced)
Inserts(n) == /\ Len(rows) < MaxRows /\ rows' = Append(rows, n)
              /\ Same(buffer) /\ Same(data) /\ Same(sent) /\ Same(raced)
InsertsData == Inserts(data) /\ Same(file)
InsertsRecord == file # <<>> /\ Head(file) # Torn /\ Inserts(Head(file)) /\ file' = Tail(file)
SkipsRecord == /\ file # <<>> /\ file' = Tail(file)
               /\ Same(rows) /\ Same(buffer) /\ Same(data) /\ Same(sent) /\ Same(raced)
Opens == /\ file' \in Seq(Recorded \cup {Torn})
         /\ Same(rows) /\ Same(buffer) /\ Same(data) /\ Same(sent) /\ Same(raced)
Rests == Same(rows) /\ Same(buffer) /\ Same(data) /\ Same(sent) /\ Same(file) /\ Same(raced)

Effect == \/ Arrives \/ ArrivesRaced \/ Races \/ TakesRaced \/ LeavesBuffer \/ Forgets \/ Clears \/ InsertsData \/ InsertsRecord
          \/ SkipsRecord \/ Opens \/ Rests

LEMMA StepEffect ==
  ASSUME TableInv, [Next]_vars PROVE Effect
PROOF
<1> USE DEF Effect, Same, Goto, Call, database, queue
<1>1. CASE Arrive
  BY <1>1 DEF Arrive, Arrives, ArrivesRaced, volatile
<1>13. CASE Overlap
  BY <1>13 DEF Overlap, Races, volatile
<1>2. CASE DataMgrRemove
  BY <1>2 DEF DataMgrRemove, LeavesBuffer, volatile
<1>3. CASE Restart
  BY <1>3 DEF Restart, Forgets
<1>4. ASSUME NEW flag \in BOOLEAN, init_connection(flag) PROVE Effect
  BY <1>4 DEF init_connection, Rests
<1>5. CASE DropTable
  BY <1>5 DEF DropTable, Clears, TableInv, Connecting
<1>6. CASE CreateTable \/ StatementFails \/ disconnect
  BY <1>6 DEF CreateTable, StatementFails, disconnect, Rests
<1>7. CASE storagemgr_parse_sensor_data
  BY <1>7 DEF storagemgr_parse_sensor_data, sbuffer_remove, TakeOldest, LeavesBuffer,
              TakesRaced, Rests
<1>8. CASE InsertReading
  BY <1>8 DEF InsertReading, insert_sensor, Restart, InsertsData, Inserts, Forgets, Rests
<1>9. CASE OpenFile
  <2>1. PICK k \in 0..MaxRecorded, end \in {<<>>, <<Torn>>} :
          file' = [j \in 1..k |-> MaxSent + j] \o end
    BY <1>9 DEF OpenFile
  <2>2. [j \in 1..k |-> MaxSent + j] \in Seq(Recorded \cup {Torn})
    BY <2>1, BoundAssumption DEF Recorded
  <2>3. end \in Seq(Recorded \cup {Torn})
    <3>1. <<Torn>> \in Seq(Recorded \cup {Torn})
      OBVIOUS
    <3>2. <<>> \in Seq(Recorded \cup {Torn})
      BY EmptySeq
    <3> QED BY <2>1, <3>1, <3>2
  <2>4. file' \in Seq(Recorded \cup {Torn})
    BY <2>1, <2>2, <2>3, ConcatProperties
  <2> QED BY <1>9, <2>4 DEF OpenFile, Opens
<1>10. CASE insert_sensor_from_file
  BY <1>10 DEF insert_sensor_from_file, insert_sensor, Restart, InsertsRecord, Inserts,
               SkipsRecord, Forgets, Rests
<1>11. CASE Query
  BY <1>11, QueryReads DEF Rests
<1>12. CASE UNCHANGED vars
  BY <1>12 DEF vars, volatile, Rests
<1> QED BY <1>1, <1>2, <1>3, <1>4, <1>5, <1>6, <1>7, <1>8, <1>9, <1>10, <1>11, <1>12, <1>13 DEF Next

LEMMA SeqTypesStep ==
  ASSUME SeqTypes, Effect PROVE SeqTypes'
PROOF
<1> USE BoundAssumption DEF SeqTypes, Same
<1>1. CASE Arrives
  <2>1. sent' \in Sent /\ sent' \in 0..MaxSent
    BY <1>1 DEF Arrives, Sent
  <2> QED BY <1>1, <2>1, SeqFacts DEF Arrives
<1>2. CASE LeavesBuffer
  BY <1>2, SeqFacts DEF LeavesBuffer
<1>3. CASE Forgets
  BY <1>3, SeqFacts DEF Forgets
<1>4. CASE Clears
  BY <1>4, SeqFacts DEF Clears
<1>5. CASE InsertsData
  <2>1. data \in Reading
    BY Sets
  <2>2. rows' \in Seq(Reading) /\ Len(rows') =< MaxRows
    BY <1>5, <2>1, SeqFacts DEF InsertsData, Inserts
  <2> QED BY <1>5, <2>2 DEF InsertsData, Inserts
<1>6. CASE InsertsRecord
  <2>1. Head(file) \in Recorded /\ Tail(file) \in Seq(Recorded \cup {Torn})
    BY <1>6, SeqFacts DEF InsertsRecord
  <2>2. Head(file) \in Reading
    BY <2>1, Sets
  <2>3. rows' \in Seq(Reading) /\ Len(rows') =< MaxRows
    <3>1. rows' = Append(rows, Head(file)) /\ Len(rows) < MaxRows
      BY <1>6 DEF InsertsRecord, Inserts
    <3> HIDE DEF Same
    <3> QED BY <2>2, <3>1, AppendProperties
  <2> QED BY <1>6, <2>1, <2>3 DEF InsertsRecord, Inserts
<1>7. CASE SkipsRecord
  BY <1>7, SeqFacts DEF SkipsRecord
<1>8. CASE Opens \/ Rests
  BY <1>8 DEF Opens, Rests
<1>9. CASE ArrivesRaced \/ Races
  <2>1. buffer' \in Seq(Sent)
    BY <1>9, EmptySeq DEF ArrivesRaced, Races
  <2>2. sent' \in 0..MaxSent
    BY <1>9 DEF ArrivesRaced, Races
  <2>3. UNCHANGED <<rows, data, file>> /\ raced' = TRUE
    BY <1>9 DEF ArrivesRaced, Races
  <2> HIDE DEF Same
  <2> QED BY <2>1, <2>2, <2>3
<1>10. CASE TakesRaced
  <2>1. data' \in {Junk} \cup Sent
    BY <1>10 DEF TakesRaced, Junk, Sent
  <2> QED BY <1>10, <2>1 DEF TakesRaced
<1> QED BY <1>1, <1>2, <1>3, <1>4, <1>5, <1>6, <1>7, <1>8, <1>9, <1>10 DEF Effect

\* Every variable keeps its type, and no step goes beyond the bounds.
THEOREM TypeInvariance == Spec => []TypeOK /\ []TableInv
<1>1. Init => TypeOK /\ TableInv
  <2>1. Init => TableInv
    BY DEF Init, TableInv, ConnHasTable, Connecting
  <2>2. Init => TypeOK
    <3>1. <<>> \in Seq(Reading) /\ <<>> \in Seq(Sent) /\ <<>> \in Seq(Recorded \cup {Torn})
      BY EmptySeq
    <3>2. Init => FlagTypes
      BY DEF Init, FlagTypes
    <3>3. Init => ScalarTypes
      BY BoundAssumption DEF Init, ScalarTypes
    <3>4. Init => SeqTypes
      <4> SUFFICES ASSUME Init PROVE SeqTypes
        OBVIOUS
      <4>1. rows = <<>> /\ buffer = <<>> /\ file = <<>> /\ sent = 0 /\ data = Junk
          /\ raced = FALSE
        BY DEF Init
      <4>2. Len(<<>>) =< MaxRows /\ 0 \in 0..MaxSent
        BY EmptySeq, BoundAssumption
      <4> QED BY <3>1, <4>1, <4>2 DEF SeqTypes
    <3> QED BY <3>2, <3>3, <3>4, SplitTypes
  <2> QED BY <2>1, <2>2
<1>2. TypeOK /\ TableInv /\ [Next]_vars => TypeOK' /\ TableInv'
  <2> SUFFICES ASSUME TypeOK, TableInv, [Next]_vars PROVE FlagTypes' /\ ScalarTypes' /\ SeqTypes' /\ TableInv'
    BY SplitTypes DEF TypeOK, FlagTypes, ScalarTypes, SeqTypes
  <2> QED BY TableInvStep, FlagTypesStep, ScalarTypesStep, SeqTypesStep, StepEffect, SplitTypes
<1> QED BY <1>1, <1>2, PTL DEF Spec

-----------------------------------------------------------------------------
(* Stored readings keep the order in which they left the buffer, as long as *)
(* that is a queue.                                                         *)

OrderInv == RowsFollowBuffer /\ BufferOrdered

\* The same, with the parts of both invariants by name.
NotAfterSent == data =< sent /\ \A m \in 1..Len(buffer) : buffer[m] =< sent
Increasing == \A l, m \in 1..Len(buffer) : l < m => buffer[l] < buffer[m]
DataBeforeBuffer == \A m \in 1..Len(buffer) : data < buffer[m]
RowsNotAfter == \A k \in 1..Len(rows) : rows[k] \in Sent =>
                  rows[k] =< sent /\ (data # Junk => rows[k] =< data)
RowsInOrder == \A k \in 1..Len(rows) : rows[k] \in Sent =>
                 \A j \in 1..k : rows[j] \in Sent => rows[j] =< rows[k]
RowsBeforeBuffer == \A k \in 1..Len(rows), m \in 1..Len(buffer) :
                      rows[k] \in Sent => rows[k] < buffer[m]
Parts == /\ NotAfterSent /\ Increasing /\ DataBeforeBuffer
         /\ RowsNotAfter /\ RowsInOrder /\ RowsBeforeBuffer

LEMMA OrderParts == OrderInv <=> (~ raced => Parts)
  BY DEF OrderInv, RowsFollowBuffer, BufferOrdered, Parts, NotAfterSent, Increasing,
         DataBeforeBuffer, RowsNotAfter, RowsInOrder, RowsBeforeBuffer

Numbers ==
  /\ Len(buffer) \in Nat /\ Len(rows) \in Nat /\ sent \in Nat /\ data \in Nat
  /\ \A m \in 1..Len(buffer) : buffer[m] \in Nat
  /\ \A k \in 1..Len(rows) : rows[k] \in Nat

LEMMA AreNumbers == ASSUME SeqTypes PROVE Numbers
<1>1. Reading \subseteq Nat /\ Sent \subseteq Nat
  BY BoundAssumption DEF Reading, Sent, Recorded, Junk
<1>2. \A s \in Seq(Reading) : Len(s) \in Nat /\ \A k \in 1..Len(s) : s[k] \in Nat
  BY <1>1, ElementOfSeq, LenProperties
<1>3. \A s \in Seq(Sent) : Len(s) \in Nat /\ \A k \in 1..Len(s) : s[k] \in Nat
  BY <1>1, ElementOfSeq, LenProperties
<1>4. sent \in Nat /\ data \in Nat
  BY <1>1, Sets, BoundAssumption DEF SeqTypes
<1> QED BY <1>2, <1>3, <1>4 DEF SeqTypes, Numbers

LEMMA ArrivesKeepsOrder == ASSUME SeqTypes, Parts, Arrives PROVE Parts'
<1>1. sent' = sent + 1 /\ rows' = rows /\ data' = data
  BY DEF Arrives, Same
<1>2. sent' \in Sent
  BY BoundAssumption DEF Arrives, SeqTypes, Sent
<1>3. /\ Len(buffer') = Len(buffer) + 1 /\ buffer'[Len(buffer) + 1] = sent'
      /\ \A m \in 1..Len(buffer) : buffer'[m] = buffer[m]
  BY <1>2, AppendProperties DEF Arrives, SeqTypes
<1>4. \A m \in 1..Len(buffer') : m \in 1..Len(buffer) \/ m = Len(buffer) + 1
  BY <1>3, AreNumbers DEF Numbers
<1> HIDE DEF Arrives
<1>5. NotAfterSent' /\ DataBeforeBuffer'
  BY <1>1, <1>3, <1>4, AreNumbers DEF Parts, NotAfterSent, DataBeforeBuffer, Numbers
<1>6. Increasing'
  <2> SUFFICES ASSUME NEW l \in 1..Len(buffer'), NEW m \in 1..Len(buffer'), l < m
               PROVE  buffer'[l] < buffer'[m]
    BY DEF Increasing
  <2>1. l \in 1..Len(buffer)
    BY <1>3, AreNumbers DEF Numbers
  <2>2. CASE m \in 1..Len(buffer)
    BY <1>3, <2>1, <2>2 DEF Parts, Increasing
  <2>3. CASE m = Len(buffer) + 1
    BY <1>1, <1>3, <2>1, <2>3, AreNumbers DEF Parts, NotAfterSent, Numbers
  <2> QED BY <1>4, <2>2, <2>3
<1>7. RowsNotAfter' /\ RowsInOrder'
  BY <1>1, AreNumbers DEF Parts, RowsNotAfter, RowsInOrder, Numbers
<1>8. RowsBeforeBuffer'
  BY <1>1, <1>3, <1>4, AreNumbers DEF Parts, RowsNotAfter, RowsBeforeBuffer, Numbers
<1> QED BY <1>5, <1>6, <1>7, <1>8 DEF Parts

LEMMA LeavesKeepsOrder == ASSUME SeqTypes, Parts, LeavesBuffer PROVE Parts'
<1>1. sent' = sent /\ rows' = rows
  BY DEF LeavesBuffer, Same
<1>2. /\ Len(buffer') = Len(buffer) - 1 /\ 1 \in 1..Len(buffer)
      /\ \A m \in 1..Len(buffer') : /\ m + 1 \in 1..Len(buffer)
                                    /\ 1 < m + 1 /\ buffer'[m] = buffer[m + 1]
  BY AreNumbers, EmptySeq, HeadTailProperties DEF LeavesBuffer, SeqTypes, Numbers
<1>3. data' = data \/ data' = buffer[1]
  BY <1>2 DEF LeavesBuffer, SeqTypes
<1> HIDE DEF LeavesBuffer
<1>4. NotAfterSent' /\ DataBeforeBuffer'
  BY <1>1, <1>2, <1>3, AreNumbers DEF Parts, NotAfterSent, DataBeforeBuffer, Increasing, Numbers
<1>5. Increasing'
  <2> SUFFICES ASSUME NEW l \in 1..Len(buffer'), NEW m \in 1..Len(buffer'), l < m
               PROVE  buffer'[l] < buffer'[m]
    BY DEF Increasing
  <2>1. l + 1 < m + 1
    BY <1>2, AreNumbers DEF Numbers
  <2> QED BY <1>2, <2>1 DEF Parts, Increasing
<1>6. RowsNotAfter'
  BY <1>1, <1>2, <1>3, AreNumbers DEF Parts, RowsNotAfter, RowsBeforeBuffer, Numbers
<1>7. RowsInOrder' /\ RowsBeforeBuffer'
  BY <1>1, <1>2, AreNumbers DEF Parts, RowsInOrder, RowsBeforeBuffer, Numbers
<1> QED BY <1>4, <1>5, <1>6, <1>7 DEF Parts

LEMMA InsertsKeepsOrder ==
  ASSUME SeqTypes, Parts, NEW n \in Reading, Inserts(n), n = data \/ n \in Recorded
  PROVE  Parts'
<1>1. buffer' = buffer /\ data' = data /\ sent' = sent
  BY DEF Inserts, Same
<1>2. /\ Len(rows') = Len(rows) + 1 /\ rows'[Len(rows) + 1] = n
      /\ \A k \in 1..Len(rows) : rows'[k] = rows[k]
  BY AppendProperties DEF Inserts, SeqTypes
<1>3. n \in Sent => n = data /\ data # Junk
  BY Sets
<1>4. \A k \in 1..Len(rows') : k \in 1..Len(rows) \/ k = Len(rows) + 1
  BY <1>2, AreNumbers DEF Numbers
<1>5. NotAfterSent' /\ Increasing' /\ DataBeforeBuffer'
  BY <1>1 DEF Parts, NotAfterSent, Increasing, DataBeforeBuffer
<1>6. RowsNotAfter'
  BY <1>1, <1>2, <1>3, <1>4, AreNumbers DEF Parts, NotAfterSent, RowsNotAfter, Numbers
<1>7. RowsInOrder'
  <2> SUFFICES ASSUME NEW k \in 1..Len(rows'), rows'[k] \in Sent,
                      NEW j \in 1..k, rows'[j] \in Sent
               PROVE  rows'[j] =< rows'[k]
    BY DEF RowsInOrder
  <2>1. j \in 1..Len(rows')
    BY <1>2, AreNumbers DEF Numbers
  <2>2. CASE k \in 1..Len(rows)
    <3>1. j \in 1..Len(rows)
      BY <2>2, AreNumbers DEF Numbers
    <3> QED BY <1>2, <2>2, <3>1 DEF Parts, RowsInOrder
  <2>3. CASE k = Len(rows) + 1 /\ j \in 1..Len(rows)
    BY <1>2, <1>3, <2>3 DEF Parts, RowsNotAfter
  <2>4. CASE k = Len(rows) + 1 /\ j = Len(rows) + 1
    BY <1>2, <1>3, <2>4, AreNumbers DEF Numbers
  <2> QED BY <1>4, <2>1, <2>2, <2>3, <2>4
<1>8. RowsBeforeBuffer'
  BY <1>1, <1>2, <1>3, <1>4 DEF Parts, DataBeforeBuffer, RowsBeforeBuffer
<1> QED BY <1>5, <1>6, <1>7, <1>8 DEF Parts

LEMMA OrderStep ==
  ASSUME SeqTypes, Parts, Effect, ~ raced, ~ raced' PROVE Parts'
PROOF
<1> USE DEF Parts, NotAfterSent, Increasing, DataBeforeBuffer, RowsNotAfter, RowsInOrder,
            RowsBeforeBuffer, Same
<1>1. CASE Forgets
  <2>1. Len(buffer') = 0 /\ data' = 0 /\ Junk = 0 /\ sent' = sent /\ rows' = rows
    BY <1>1, EmptySeq DEF Forgets, Junk
  <2> QED BY <2>1, AreNumbers DEF Numbers
<1>2. CASE Clears
  <2>1. Len(rows') = 0
    BY <1>2, EmptySeq DEF Clears
  <2> QED BY <1>2, <2>1 DEF Clears
<1>3. CASE InsertsData
  <2>1. data \in Reading
    BY Sets DEF SeqTypes
  <2> QED BY InsertsKeepsOrder, <1>3, <2>1 DEF InsertsData
<1>4. CASE InsertsRecord
  <2>1. Head(file) \in Recorded
    BY <1>4, HeadTailProperties DEF InsertsRecord, SeqTypes
  <2> QED BY InsertsKeepsOrder, <1>4, <2>1, Sets DEF InsertsRecord
<1>5. CASE SkipsRecord \/ Opens \/ Rests
  BY <1>5 DEF SkipsRecord, Opens, Rests
<1>6. ~ (ArrivesRaced \/ Races \/ TakesRaced)
  BY DEF ArrivesRaced, Races, TakesRaced
<1> QED BY <1>1, <1>2, <1>3, <1>4, <1>5, <1>6, ArrivesKeepsOrder, LeavesKeepsOrder DEF Effect

\* Once two calls of the buffer have overlapped, there is no queue any more.
LEMMA RacedForGood == ASSUME Effect, raced PROVE raced'
  BY DEF Effect, Arrives, ArrivesRaced, Races, TakesRaced, LeavesBuffer, Forgets, Clears,
         InsertsData, InsertsRecord, Inserts, SkipsRecord, Opens, Rests, Same

\* storagemgr_parse_sensor_data stores a reading again when the buffer is empty,
\* but never an older one after a newer one, through any number of processes, as
\* long as no two of the threads are in calls of the buffer at once.
THEOREM OrderKept == Spec => []RowsFollowBuffer
<1>1. Init => OrderInv
  BY EmptySeq, BoundAssumption DEF Init, OrderInv, RowsFollowBuffer, BufferOrdered, Junk
<1>2. TypeOK /\ TableInv /\ OrderInv /\ [Next]_vars => OrderInv'
  <2> SUFFICES ASSUME TypeOK, TableInv, OrderInv, [Next]_vars, ~ raced' PROVE Parts'
    BY DEF OrderInv, RowsFollowBuffer, BufferOrdered, Parts, NotAfterSent, Increasing,
           DataBeforeBuffer, RowsNotAfter, RowsInOrder, RowsBeforeBuffer
  <2>1. Effect /\ SeqTypes
    BY StepEffect, SplitTypes
  <2>2. ~ raced
    BY <2>1, RacedForGood
  <2> QED BY <2>1, <2>2, OrderParts, OrderStep
<1>3. OrderInv => RowsFollowBuffer
  BY DEF OrderInv
<1> QED BY <1>1, <1>2, <1>3, TypeInvariance, PTL DEF Spec

\* A stored row stays where it is unless a caller of init_connection asks for an
\* empty table.
THEOREM Durable == Spec => RowsDurable
<1>1. TypeOK /\ TableInv /\ [Next]_vars =>
        [rows' # rows => IsPrefix(rows, rows') \/ (clear /\ pc = "drop")]_vars
  <2> SUFFICES ASSUME TypeOK, TableInv, [Next]_vars, rows' # rows, ~ (clear /\ pc = "drop")
               PROVE  IsPrefix(rows, rows')
    OBVIOUS
  <2>1. PICK n \in Reading : rows' = Append(rows, n)
    <3>1. Effect /\ SeqTypes
      BY StepEffect, SplitTypes
    <3>2. CASE InsertsData
      BY <3>1, <3>2, Sets DEF InsertsData, Inserts, SeqTypes
    <3>3. CASE InsertsRecord
      <4>1. Head(file) \in Recorded
        BY <3>1, <3>3, HeadTailProperties DEF InsertsRecord, SeqTypes
      <4> QED BY <3>3, <4>1, Sets DEF InsertsRecord, Inserts
    <3> QED BY <3>1, <3>2, <3>3 DEF Effect, Arrives, ArrivesRaced, Races, TakesRaced, LeavesBuffer, Forgets, Clears, SkipsRecord,
                                   Opens, Rests, Same
  <2>2. /\ rows \in Seq(Reading) /\ Len(rows') = Len(rows) + 1
        /\ \A k \in 1..Len(rows) : rows'[k] = rows[k]
    BY <2>1, AppendProperties DEF TypeOK
  <2>3. SubSeq(rows, 1, Len(rows)) = SubSeq(rows', 1, Len(rows))
    BY <2>2
  <2> QED BY <2>2, <2>3 DEF IsPrefix
<1> QED BY <1>1, TypeInvariance, PTL DEF Spec, RowsDurable
=============================================================================
