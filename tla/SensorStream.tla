----------------------------- MODULE SensorStream ---------------------------
(***************************************************************************)
(* One connection: the loop of Project/sensor_node.c that sends a reading  *)
(* as three fields with tcp_send, and the three calls of tcp_receive with  *)
(* which connmgr_listen (Project/connmgr.c) puts it together again.        *)
(*                                                                         *)
(* The connection carries units, not messages; Size says how many a field  *)
(* has.  recv returns what is there, up to what was asked for; neither     *)
(* tcp_receive nor its caller compares the two.  The connection manager    *)
(* keeps one sensor_data_t for all readings and overwrites it field by     *)
(* field.  A client that was inactive for TIMEOUT seconds is not read any  *)
(* more and closed; stop signals are left to ConnMgr.                      *)
(*                                                                         *)
(* TcpSock has the other functions of tcpsock.c; the names of the two are  *)
(* kept apart so that one module can extend both.                          *)
(***************************************************************************)
EXTENDS Integers, SequencesExt

CONSTANTS Size,         \* units in each field of sensor_data_t
          LOOPS,        \* as in the Makefile: readings a sensor node sends
          Capacity      \* units the two sockets buffer

Fields == {"id", "value", "ts"}

ASSUME SizeAssumption == Size \in [Fields -> Nat \ {0}]
ASSUME LoopsAssumption == LOOPS \in Nat \ {0} /\ Capacity \in Nat
ASSUME FieldsFit == \A f \in Fields : Size[f] =< Capacity

VARIABLES
  \* the sensor node
  node,       \* the field it sends next, "sleep", or "done"
  msg,        \* number of the reading it sends
  sent,       \* auxiliary: readings it has sent whole
  \* the connection
  stream,     \* units sent and not yet received
  link,       \* "up", "fin" (closed by the node), "rst" (broken off), or
              \* "dead" (broken off, and a call of recv has said so)
  \* the connection manager
  conn,       \* "poll", the field it receives next, "test", or
              \* "lost" (closed as lost) or "timeout" (closed as inactive)
  tcp_ret,    \* result of the last tcp_receive, and
  size_ret,   \* its size
  data,       \* the sensor_data_t: of each field its units
  inserted,   \* the values given to sbuffer_insert, in order
  inactive,   \* TIMEOUT seconds have passed since client->last_active
  short       \* auxiliary: a recv has returned less than was asked for

node_vars == <<node, msg, sent>>
conn_vars == <<conn, tcp_ret, size_ret, data, inserted, inactive, short>>
stream_vars == <<node_vars, stream, link, conn_vars>>

\* Field f of reading n, and a whole reading.
Field(n, f) == [k \in 1..Size[f] |-> <<n, f, k>>]
Reading(n) == [f \in Fields |-> Field(n, f)]

StreamInit ==
  /\ node = "id" /\ msg = 1 /\ sent = 0 /\ stream = <<>> /\ link = "up"
  /\ conn = "poll" /\ tcp_ret = "NO_ERROR" /\ size_ret = 0
  /\ data = Reading(0) /\ inserted = <<>> /\ inactive = FALSE /\ short = FALSE

-----------------------------------------------------------------------------
(* The sensor node. *)

AfterSend == [id |-> "value", value |-> "ts", ts |-> "sleep"]

\* tcp_send: the call returns when the whole field is in the socket's buffer.
tcp_send ==
  /\ node \in Fields /\ link = "up" /\ Len(stream) + Size[node] =< Capacity
  /\ stream' = stream \o Field(msg, node)
  /\ node' = AfterSend[node]
  /\ sent' = IF node' = "sleep" THEN msg ELSE sent
  /\ UNCHANGED <<msg, link, conn_vars>>

\* No connection any more: tcp_send says so and the node exits.
SendFails ==
  /\ node \in Fields /\ link # "up" /\ node' = "done"
  /\ UNCHANGED <<msg, sent, stream, link, conn_vars>>

\* The end of a pass of the loop.
Sleep ==
  /\ node = "sleep" /\ msg < LOOPS
  /\ msg' = msg + 1 /\ node' = "id"
  /\ UNCHANGED <<sent, stream, link, conn_vars>>

\* After the last reading the node closes the connection.
Close ==
  /\ node = "sleep" /\ msg = LOOPS /\ node' = "done"
  /\ link' = IF link = "up" THEN "fin" ELSE link
  /\ UNCHANGED <<msg, sent, stream, conn_vars>>

\* The node's process is killed: the kernel closes the connection.
Killed ==
  /\ node # "done" /\ node' = "done"
  /\ link' = IF link = "up" THEN "fin" ELSE link
  /\ UNCHANGED <<msg, sent, stream, conn_vars>>

\* The connection is reset; what is on its way is gone.
ConnectionReset ==
  /\ link \in {"up", "fin"} /\ link' = "rst"
  /\ \E n \in 0..Len(stream) : stream' = SubSeq(stream, 1, n)
  /\ UNCHANGED <<node_vars, conn_vars>>

-----------------------------------------------------------------------------
(* The connection manager. *)

\* poll finds the client readable; one that was inactive is not read.
Poll ==
  /\ conn = "poll" /\ ~ inactive /\ (stream # <<>> \/ link # "up")
  /\ conn' = "id"
  /\ UNCHANGED <<node_vars, stream, link, tcp_ret, size_ret, data, inserted, inactive, short>>

\* A scan comes by when TIMEOUT is over: the client is closed, what it has sent
\* since is not read.
TimeOut ==
  /\ conn = "poll" /\ inactive
  /\ conn' = "timeout" /\ link' = "rst" /\ stream' = <<>>
  /\ UNCHANGED <<node_vars, tcp_ret, size_ret, data, inserted, inactive, short>>

\* The clock reaches last_active + TIMEOUT.
TimePasses ==
  /\ ~ inactive /\ inactive' = TRUE
  /\ UNCHANGED <<node_vars, stream, link, conn, tcp_ret, size_ret, data, inserted, short>>

\* Slip: the next reading is received before this one is tested.
AfterReceive_NoTest == [id |-> "value", value |-> "ts", ts |-> "id"]
AfterReceive == [id |-> "value", value |-> "ts", ts |-> "test"]

\* Slip: the field shrinks to what was received.
Overwrite_Shrink(f, n) == [data EXCEPT ![f] = SubSeq(stream, 1, n)]
\* The first n units of field f are overwritten by those of the stream.
Overwrite(f, n) ==
  [data EXCEPT ![f] = [k \in 1..Size[f] |-> IF k =< n THEN stream[k] ELSE @[k]]]

\* tcp_receive with something to receive.
tcp_receive ==
  /\ conn \in Fields
  /\ \E n \in 1..Size[conn] :
       /\ n =< Len(stream)
       /\ data' = Overwrite(conn, n) /\ size_ret' = n
       /\ stream' = SubSeq(stream, n + 1, Len(stream))
       /\ short' = (short \/ n < Size[conn])
  /\ tcp_ret' = "NO_ERROR" /\ conn' = AfterReceive[conn]
  /\ UNCHANGED <<node_vars, link, inserted, inactive>>

\* The node has closed the connection: recv returns 0, and so it does once a
\* reset was reported.
Ended == stream = <<>> /\ link \in {"fin", "dead"}

ReceiveClosed ==
  /\ conn \in Fields /\ Ended
  /\ tcp_ret' = "CONNECTION_CLOSED" /\ size_ret' = 0 /\ conn' = AfterReceive[conn]
  /\ UNCHANGED <<node_vars, stream, link, data, inserted, inactive, short>>

\* The connection was reset: the first recv after it fails.
ReceiveFails ==
  /\ conn \in Fields /\ stream = <<>> /\ link = "rst"
  /\ tcp_ret' = "SOCKOP_ERROR" /\ size_ret' = -1
  /\ link' = "dead" /\ conn' = AfterReceive[conn]
  /\ UNCHANGED <<node_vars, stream, data, inserted, inactive, short>>

\* Slip: every result but a closed connection counts as success.
Complete_AnySize == tcp_ret # "CONNECTION_CLOSED"
Complete == tcp_ret = "NO_ERROR" /\ size_ret # 0

\* The test of the last result decides over the whole reading.
Insert ==
  /\ conn = "test" /\ Complete
  /\ inserted' = Append(inserted, data) /\ conn' = "poll"
  /\ inactive' = FALSE
  /\ UNCHANGED <<node_vars, stream, link, tcp_ret, size_ret, data, short>>

\* Slip: a closed connection is taken out of poll before what it sent is read.
Discard_Unread ==
  /\ \/ conn = "test" /\ ~ Complete
     \/ conn = "poll" /\ link # "up"
  /\ conn' = "lost"
  /\ UNCHANGED <<node_vars, stream, link, tcp_ret, size_ret, data, inserted, inactive, short>>

\* A closed connection is taken out of poll; so is one whose revents has
\* POLLHUP, the sign of a reset, in the next pass at the latest.
Discard ==
  /\ conn = "test" /\ ~ Complete /\ conn' = "lost"
  /\ UNCHANGED <<node_vars, stream, link, tcp_ret, size_ret, data, inserted, inactive, short>>

SensorNode == tcp_send \/ SendFails \/ Sleep \/ Close
ConnMgr == Poll \/ tcp_receive \/ ReceiveClosed \/ ReceiveFails \/ Insert \/ Discard

StreamNext == SensorNode \/ Killed \/ ConnectionReset \/ ConnMgr \/ TimeOut \/ TimePasses

StreamSpec == StreamInit /\ [][StreamNext]_stream_vars

\* The connection manager runs.  Nothing is assumed of the node, which may stop
\* anywhere and leave the connection as it is.
FairStreamSpec == StreamSpec /\ WF_stream_vars(ConnMgr)

-----------------------------------------------------------------------------
(* Properties. *)

UnitOk(u) == \E n \in 0..LOOPS, f \in Fields : u \in ToSet(Field(n, f))

StreamTypeOK ==
  /\ node \in Fields \cup {"sleep", "done"} /\ msg \in 1..LOOPS
  /\ sent \in 0..LOOPS /\ inactive \in BOOLEAN
  /\ \A k \in 1..Len(stream) : UnitOk(stream[k])
  /\ Len(stream) =< Capacity
  /\ link \in {"up", "fin", "rst", "dead"}
  /\ conn \in Fields \cup {"poll", "test", "lost", "timeout"}
  /\ tcp_ret \in {"NO_ERROR", "CONNECTION_CLOSED", "SOCKOP_ERROR"}
  /\ DOMAIN data = Fields /\ size_ret \in Nat \cup {-1} /\ short \in BOOLEAN
  /\ \A f \in Fields : Len(data[f]) = Size[f] /\ \A k \in 1..Size[f] : UnitOk(data[f][k])

\* Three results are looked at as one, yet wherever the node stops or the
\* connection breaks between the sends or between the receives: as long as recv
\* returns whole fields, the readings inserted are the first ones sent, each
\* complete, in order and once.
IntactUnlessShort ==
  ~ short => \A n \in 1..Len(inserted) : inserted[n] = Reading(n)

\* A closed connection is noticed neither too early nor too late: when it is
\* given up, exactly the readings the node sent whole before it closed it or was
\* killed have been inserted, the last one too, and no part of another.  Not so
\* when the connection was reset or the client closed as inactive.
AllInserted ==
  conn = "lost" /\ link = "fin" /\ ~ short => Len(inserted) = sent

\* However the receives and failures fall, the connection manager leaves
\* tcp_receive again and again, unless a node that has sent part of a reading
\* sends no more and keeps the connection: then recv holds it for ever.
ReceiveReturns ==
  []<>(conn \notin Fields) \/ <>[](stream = <<>> /\ link = "up")
=============================================================================
