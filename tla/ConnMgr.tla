------------------------------- MODULE ConnMgr ------------------------------
(***************************************************************************)
(* Project/connmgr.c: the loop of connmgr_listen over poll, with the stop  *)
(* signal the data manager (Project/datamgr.c) sends it under a mutex, and *)
(* the sensor nodes that connect, send, hang up or break off at any time.  *)
(*                                                                         *)
(* A descriptor stands for its connection, and for the client whose socket *)
(* it is.  A failed accept may leave a client without a socket: its sd is  *)
(* whatever number memory held.  A reading arrives whole; the values in it *)
(* do not matter, its sensor id does.  Ages count ticks since last_active  *)
(* and stop at TIMEOUT + 1, where both comparisons of the code are         *)
(* settled.  Log messages are left to LogPipe, the buffer to SBuffer.      *)
(***************************************************************************)
EXTENDS Naturals, FiniteSets, SequencesExt

CONSTANTS Fd,             \* descriptors accept can return
          Stray,          \* clients without a socket; as many as there are, a bound
          NoFd,           \* a number that is no accepted connection's
          NULL,           \* no client
          Sensor,         \* the values of sensor_id_t; 0 is one of them
          MAX_CONN,       \* as in the Makefile: most connections polled
          TIMEOUT,        \* as in the Makefile: seconds of silence allowed
          MaxBacklog,     \* bound: connections waiting to be accepted
          MaxInbox        \* bound: readings waiting in one socket

ASSUME ClientAssumption == Stray \cap Fd = {} /\ NULL \notin Fd \cup Stray /\ NoFd \notin Fd
ASSUME SensorAssumption == 0 \in Sensor /\ Sensor \subseteq Nat
ASSUME TimeoutAssumption == TIMEOUT \in Nat \ {0}
ASSUME BoundAssumption == MAX_CONN \in Nat /\ MaxBacklog \in Nat /\ MaxInbox \in Nat

VARIABLES
  \* the kernel and the sensor nodes
  backlog,    \* number of connections waiting to be accepted
  link,       \* of each descriptor: "free", "up", "fin" (closed by the
              \* sensor node, data may be left), "rst" (broken off) or
              \* "leaked" (open, its socket was freed by a failed accept)
  inbox,      \* of each descriptor: readings not yet received
  \* the connection manager
  pc,         \* where it stands
  i, poll_ret,
  poll_fd,    \* poll_fd[1..counter]; counter is its length
  client,     \* the client the scan has found
  sock_list,  \* the clients in the list
  sd,         \* of each client without a socket: its descriptor field
  age,        \* of each client: ticks since last_active
  sensor,     \* of each client: its sensor field, 0 until the first reading
  \* the stop signal
  owner,      \* who holds connmgr_stopconn_mutex
  stopsig,    \* *connmgr_sensor_stopsig, 0 when there is none
  \* the data manager
  dm,         \* where it stands
  want,       \* the sensor it asks to stop
  closed      \* auxiliary: the "Close connection" branch has been taken

env == <<backlog, link, inbox>>
loop == <<pc, i, poll_ret, poll_fd, client>>
clients == <<sock_list, sd, age, sensor>>
signal == <<owner, stopsig>>
data_mgr == <<dm, want>>
vars == <<env, loop, clients, signal, data_mgr, closed>>

Client == Fd \cup Stray
Number == Fd \cup {NoFd}       \* what a descriptor field can hold
Sd(c) == IF c \in Fd THEN c ELSE sd[c]

Counter == Len(poll_fd)
ThisFd == poll_fd[i].fd
PolledFds == {poll_fd[k].fd : k \in 1..Counter}

Init ==
  /\ backlog = 0
  /\ link = [f \in Fd |-> "free"] /\ inbox = [f \in Fd |-> 0]
  /\ pc = "listen" /\ i = 1 /\ poll_ret = 0 /\ poll_fd = <<>> /\ client = NULL
  /\ sock_list = {} /\ sd = [c \in Stray |-> NoFd]
  /\ age = [c \in Client |-> 0] /\ sensor = [c \in Client |-> 0]
  /\ owner = "none" /\ stopsig = 0
  /\ dm = "idle" /\ want = 0
  /\ closed = FALSE

-----------------------------------------------------------------------------
(* Sensor nodes and the clock. *)

\* Before the port is open a connection is refused.
Connect ==
  /\ pc # "listen" /\ backlog < MaxBacklog /\ backlog' = backlog + 1
  /\ UNCHANGED <<link, inbox, loop, clients, signal, data_mgr, closed>>

Send(f) ==
  /\ link[f] = "up" /\ inbox[f] < MaxInbox
  /\ inbox' = [inbox EXCEPT ![f] = @ + 1]
  /\ UNCHANGED <<backlog, link, loop, clients, signal, data_mgr, closed>>

HangUp(f) ==
  /\ link[f] = "up" /\ link' = [link EXCEPT ![f] = "fin"]
  /\ UNCHANGED <<backlog, inbox, loop, clients, signal, data_mgr, closed>>

\* What has arrived can still be received, what was under way is lost.
BreakOff(f) ==
  /\ link[f] \in {"up", "fin"} /\ link' = [link EXCEPT ![f] = "rst"]
  /\ \E n \in 0..inbox[f] : inbox' = [inbox EXCEPT ![f] = n]
  /\ UNCHANGED <<backlog, loop, clients, signal, data_mgr, closed>>

Tick ==
  /\ \E c \in sock_list : age[c] =< TIMEOUT
  /\ age' = [c \in Client |-> IF c \in sock_list /\ age[c] =< TIMEOUT
                              THEN age[c] + 1 ELSE age[c]]
  /\ UNCHANGED <<env, loop, sock_list, sd, sensor, signal, data_mgr, closed>>

-----------------------------------------------------------------------------
(* connmgr_listen. *)

\* The lists are made and the port is opened; main has looked at its number.
Listen ==
  /\ pc = "listen" /\ pc' = "poll"
  /\ UNCHANGED <<env, i, poll_ret, poll_fd, client, clients, signal, data_mgr, closed>>

\* tcp_passive_open fails: the code writes through retval, which is NULL.
ListenCrash ==
  /\ pc = "listen" /\ pc' = "listen_crash"
  /\ UNCHANGED <<env, i, poll_ret, poll_fd, client, clients, signal, data_mgr, closed>>

\* revents of the descriptor n: whether POLLIN is in it, POLLHUP, and whether
\* poll counts it.  A closed number is counted (POLLNVAL), a negative one is not,
\* and what else NoFd or a leaked connection says is open.
Readable(f) == inbox[f] > 0 \/ link[f] \in {"fin", "rst"}
Event(in, hup, some) == [in |-> in, hup |-> hup, some |-> some]
AnyEvent == [in : BOOLEAN, hup : BOOLEAN, some : {TRUE}] \cup {Event(FALSE, FALSE, FALSE)}
Events(n) ==
  IF n = NoFd \/ link[n] = "leaked" THEN AnyEvent
  ELSE {Event(Readable(n), link[n] = "rst", Readable(n) \/ link[n] = "free")}

\* An entry of poll_fd: fresh when revents was never set by poll, lost when
\* events is -1.
Entry(f, in, hup, fresh) ==
  [fd |-> f, in |-> in, hup |-> hup, lost |-> FALSE, fresh |-> fresh]

\* poll returns events: a connection to accept, clients to look at, or both.
Poll ==
  /\ pc = "poll"
  /\ \E ev \in [1..Counter -> AnyEvent] :
       /\ \A k \in 1..Counter : ev[k] \in Events(poll_fd[k].fd)
       /\ poll_ret' = Cardinality({k \in 1..Counter : ev[k].some})
                       + (IF backlog > 0 THEN 1 ELSE 0)
       /\ poll_fd' = [k \in 1..Counter |-> Entry(poll_fd[k].fd, ev[k].in, ev[k].hup, FALSE)]
  /\ poll_ret' > 0
  /\ pc' = IF backlog > 0 /\ Counter < MAX_CONN THEN "accept" ELSE "scan"
  /\ i' = 1
  /\ UNCHANGED <<env, client, clients, signal, data_mgr, closed>>

\* No event is due: poll can wait until its timeout.
Quiet == backlog = 0 /\ \A k \in 1..Counter : \E e \in Events(poll_fd[k].fd) : ~ e.some

\* Slip: the loop never looks at counter.
PollTimeout_Forever ==
  /\ pc = "poll" /\ Quiet /\ UNCHANGED vars

\* poll returns 0.  The loop goes on while it has clients; it looks at none.
PollTimeout ==
  /\ pc = "poll" /\ Quiet
  /\ pc' = IF Counter > 0 THEN "poll" ELSE "free"
  /\ UNCHANGED <<env, i, poll_ret, poll_fd, client, clients, signal, data_mgr, closed>>

PollError ==
  /\ pc = "poll" /\ pc' = "free"
  /\ UNCHANGED <<env, i, poll_ret, poll_fd, client, clients, signal, data_mgr, closed>>

\* counter++, and a client c whose descriptor field is n at the end of both
\* lists.  The new entry's revents is whatever realloc left there.
AddClient(c, n) ==
  /\ \E in, hup \in BOOLEAN : poll_fd' = Append(poll_fd, Entry(n, in, hup, TRUE))
  /\ sock_list' = sock_list \cup {c}
  /\ age' = [age EXCEPT ![c] = 0] /\ sensor' = [sensor EXCEPT ![c] = 0]
  /\ poll_ret' = poll_ret - 1 /\ pc' = "scan"

Accept(f) ==
  /\ pc = "accept" /\ link[f] = "free"
  /\ backlog' = backlog - 1 /\ link' = [link EXCEPT ![f] = "up"]
  /\ AddClient(f, f)
  /\ UNCHANGED <<inbox, i, client, sd, signal, data_mgr, closed>>

\* tcp_wait_for_connection fails: before accept, in it, or after it, for want of
\* memory, and then the descriptor is left open.  Line 82 compares its result
\* with the uninitialised tcp_conn_ret, and where the two differ the code goes
\* on: tcp_get_sd finds no socket and sets no descriptor, and the client gets
\* the number realloc left in the new entry, which can be that of another one.
FailedAccept(c) ==
  /\ pc = "accept" /\ c \in Stray \ sock_list
  /\ \/ backlog' \in {backlog, backlog - 1} /\ UNCHANGED link
     \/ /\ backlog' = backlog - 1
        /\ \E f \in Fd : link[f] = "free" /\ link' = [link EXCEPT ![f] = "leaked"]
  /\ \E n \in Number : AddClient(c, n) /\ sd' = [sd EXCEPT ![c] = n]
  /\ UNCHANGED <<inbox, i, client, signal, data_mgr, closed>>

\* tcp_conn_ret happens to equal the result, and the code writes through a NULL
\* retval; or the unset socket is no NULL and is followed; or the client has the
\* descriptor of another one and dpl_insert_sorted follows a NULL prev.
AcceptCrash ==
  /\ pc = "accept" /\ pc' = "accept_crash"
  /\ UNCHANGED <<env, i, poll_ret, poll_fd, client, clients, signal, data_mgr, closed>>

InScan == i =< Counter /\ poll_ret > 0

\* Head of the for loop, the client of the entry and the test before reading.
\* Of two clients with one descriptor the list has either before the other.
Found == {c \in sock_list : Sd(c) = ThisFd}
Scan ==
  /\ pc = "scan" /\ InScan
  /\ client' \in IF Found = {} THEN {NULL} ELSE Found
  /\ pc' = IF client' # NULL /\ age[client'] < TIMEOUT /\ poll_fd[i].in
           THEN "receive" ELSE "lock"
  /\ UNCHANGED <<env, i, poll_ret, poll_fd, clients, signal, data_mgr, closed>>

\* The for loop ends; what poll is about to overwrite is forgotten.
ScanEnd ==
  /\ pc = "scan" /\ ~ InScan
  /\ pc' = "poll" /\ i' = 1 /\ poll_ret' = 0
  /\ poll_fd' = [k \in 1..Counter |-> Entry(poll_fd[k].fd, FALSE, FALSE, FALSE)]
  /\ UNCHANGED <<env, client, clients, signal, data_mgr, closed>>

\* Slip: a receive of no bytes counts as a reading.
Receive_Nothing(s) ==
  /\ pc = "receive" /\ client \in Fd
  /\ inbox' = [inbox EXCEPT ![client] = @ - 1]
  /\ age' = [age EXCEPT ![client] = 0] /\ pc' = "lock"
  /\ UNCHANGED <<backlog, link, i, poll_ret, poll_fd, client, sock_list, sd, sensor,
                 signal, data_mgr, closed>>

\* tcp_receive: a reading for the buffer, which may have no memory for it.
Receive(s) ==
  /\ pc = "receive" /\ client \in Fd /\ inbox[client] > 0
  /\ inbox' = [inbox EXCEPT ![client] = @ - 1]
  /\ age' = [age EXCEPT ![client] = 0]
  /\ sensor' = [sensor EXCEPT ![client] = IF @ = 0 THEN s ELSE @]
  /\ pc' = "lock"
  /\ UNCHANGED <<backlog, link, i, poll_ret, poll_fd, client, sock_list, sd, signal,
                 data_mgr, closed>>

\* The connection is closed, or recv fails, which no branch handles; after it
\* has failed once a broken connection counts as closed.
ReceiveEnd ==
  /\ pc = "receive" /\ client \in Fd /\ inbox[client] = 0 /\ link[client] \in {"fin", "rst"}
  /\ \E lost \in BOOLEAN :
       /\ link[client] = "fin" => lost
       /\ poll_fd' = [poll_fd EXCEPT ![i].lost = lost]
  /\ pc' = "lock"
  /\ UNCHANGED <<env, i, poll_ret, client, clients, signal, data_mgr, closed>>

\* The client has no socket (TCP_SOCKET_ERROR), which no branch handles.
ReceiveFails ==
  /\ pc = "receive" /\ client \in Stray /\ pc' = "lock"
  /\ UNCHANGED <<env, i, poll_ret, poll_fd, client, clients, signal, data_mgr, closed>>

Lock ==
  /\ pc = "lock" /\ owner = "none"
  /\ owner' = "connmgr" /\ pc' = "check"
  /\ UNCHANGED <<env, i, poll_ret, poll_fd, client, clients, stopsig, data_mgr, closed>>

IsClient == client # NULL
\* Slip: any signal will do.
Signalled_Any == IsClient /\ stopsig # 0
\* Slip: only a client that has sent something is compared.
Signalled_Heard == IsClient /\ sensor[client] = stopsig /\ poll_fd[i].in
Signalled == IsClient /\ sensor[client] = stopsig

\* Slip: =< where the code has <.
Gone_Early == (IsClient /\ age[client] >= TIMEOUT) \/ poll_fd[i].hup \/ poll_fd[i].lost
Gone == (IsClient /\ age[client] > TIMEOUT) \/ poll_fd[i].hup \/ poll_fd[i].lost

Unlock == owner' = "none"

\* Slip: the copying loop does not skip entry i.
DropEntry_Last == poll_fd' = SubSeq(poll_fd, 1, Counter - 1)
\* poll_fd without entry i; the loop then stands on the entry after it.
DropEntry == poll_fd' = RemoveAt(poll_fd, i)

\* The next entry looks its client up anew.
NextEntry == pc' = "scan" /\ client' = NULL
\* What poll said of an entry is of no use once the scan has passed it.
PassEntry == poll_fd' = [poll_fd EXCEPT ![i] = Entry(ThisFd, FALSE, FALSE, FALSE)]

\* Slip: the last else has no unlock either.
Keep_Locked ==
  /\ pc = "check" /\ ~ Signalled /\ ~ Gone
  /\ i' = i + 1 /\ PassEntry /\ NextEntry
  /\ UNCHANGED <<env, poll_ret, clients, signal, data_mgr, closed>>

\* Neither signalled nor gone: the connection stays.
Keep ==
  /\ pc = "check" /\ ~ Signalled /\ ~ Gone
  /\ Unlock /\ i' = i + 1 /\ PassEntry /\ NextEntry
  /\ UNCHANGED <<env, poll_ret, clients, stopsig, data_mgr, closed>>

\* Stop connection by signal: it is polled no more, but stays open and listed.
Stop ==
  /\ pc = "check" /\ Signalled
  /\ stopsig' = 0 /\ Unlock
  /\ DropEntry /\ NextEntry
  /\ UNCHANGED <<env, i, poll_ret, clients, data_mgr, closed>>

\* tcp_close: a socket that was reset cannot be shut down, and is not closed.
tcp_close(f) ==
  /\ link' = [link EXCEPT ![f] = IF @ = "rst" THEN @ ELSE "free"]
  /\ inbox' = [inbox EXCEPT ![f] = 0]

\* The client leaves the list and is freed, with its socket if it has one.
dpl_remove_node(c) ==
  /\ IF c \in Fd THEN tcp_close(c) /\ UNCHANGED sd
     ELSE sd' = [sd EXCEPT ![c] = NoFd] /\ UNCHANGED <<link, inbox>>
  /\ sock_list' = sock_list \ {c}
  /\ age' = [age EXCEPT ![c] = 0] /\ sensor' = [sensor EXCEPT ![c] = 0]

\* Close connection.  A client's branch has no unlock.
Close ==
  /\ pc = "check" /\ ~ Signalled /\ Gone
  /\ IF IsClient
       THEN dpl_remove_node(client) /\ closed' = TRUE /\ UNCHANGED owner
       ELSE Unlock /\ UNCHANGED <<link, inbox, clients, closed>>
  /\ DropEntry /\ NextEntry
  /\ UNCHANGED <<backlog, i, poll_ret, stopsig, data_mgr>>

\* Freeing a list that is not empty follows a NULL pointer (dplist.c:129-133)
\* after it has closed the first client.
connmgr_free ==
  /\ pc = "free"
  /\ pc' = IF sock_list = {} THEN "exit" ELSE "free_crash"
  /\ UNCHANGED <<env, i, poll_ret, poll_fd, client, clients, signal, data_mgr, closed>>

-----------------------------------------------------------------------------
(* datamgr.c, with a room_sensor.map without lines: every sensor is in no   *)
(* room.  With a line in it the first lookup crashes the process instead.   *)

\* The id is that of a reading, of the last one again when the buffer is empty
\* (SBUFFER_NO_DATA does not end the loop), or what the variable held before
\* the first one: any.
UnknownSensor(s) ==
  /\ dm = "idle"
  /\ dm' = "lock" /\ want' = s
  /\ UNCHANGED <<env, loop, clients, signal, closed>>

\* Slip: the data manager writes without the mutex.
DataMgrLock_Skipped ==
  /\ dm = "lock" /\ dm' = "set"
  /\ UNCHANGED <<env, loop, clients, signal, want, closed>>

DataMgrLock ==
  /\ dm = "lock" /\ owner = "none"
  /\ owner' = "datamgr" /\ dm' = "set"
  /\ UNCHANGED <<env, loop, clients, stopsig, want, closed>>

DataMgrSignal ==
  /\ dm = "set" /\ stopsig' = want /\ dm' = "unlock"
  /\ UNCHANGED <<env, loop, clients, owner, want, closed>>

DataMgrUnlock ==
  /\ dm = "unlock" /\ Unlock /\ dm' = "idle" /\ want' = 0
  /\ UNCHANGED <<env, loop, clients, stopsig, closed>>

-----------------------------------------------------------------------------
ConnMgrStep == \/ Listen \/ Poll \/ PollTimeout
               \/ \E f \in Fd : Accept(f)
               \/ Scan \/ ScanEnd \/ ReceiveEnd \/ ReceiveFails \/ \E s \in Sensor : Receive(s)
               \/ Lock \/ Keep \/ Stop \/ Close \/ connmgr_free

DataMgrStep == \/ \E s \in Sensor : UnknownSensor(s)
               \/ DataMgrLock \/ DataMgrSignal \/ DataMgrUnlock

Environment == \/ Connect \/ Tick
               \/ \E f \in Fd : Send(f) \/ HangUp(f) \/ BreakOff(f)

Crashed == pc \in {"listen_crash", "accept_crash", "free_crash"}

\* A crash takes the data manager's thread with it; a return does not.
Next == \/ ConnMgrStep \/ PollError \/ ListenCrash \/ AcceptCrash
        \/ \E c \in Stray : FailedAccept(c)
        \/ ~ Crashed /\ DataMgrStep
        \/ ~ Crashed /\ pc # "exit" /\ Environment

Spec == Init /\ [][Next]_vars

\* Both threads are scheduled, a holder of the mutex goes on, and a thread
\* that finds the mutex free again and again gets it.  Nothing is assumed of
\* the sensor nodes or the clock, and poll and accept need not fail.
FairSpec == /\ Spec /\ WF_vars(ConnMgrStep) /\ SF_vars(Lock)
            /\ WF_vars(~ Crashed /\ (DataMgrSignal \/ DataMgrUnlock))
            /\ SF_vars(~ Crashed /\ DataMgrLock)

-----------------------------------------------------------------------------
(* Properties. *)

TypeOK ==
  /\ backlog \in 0..MaxBacklog
  /\ link \in [Fd -> {"free", "up", "fin", "rst", "leaked"}]
  /\ inbox \in [Fd -> 0..MaxInbox]
  /\ pc \in {"listen", "poll", "accept", "scan", "receive", "lock", "check",
             "free", "exit", "listen_crash", "accept_crash", "free_crash"}
  /\ i \in 1..MAX_CONN + 1 /\ poll_ret \in 0..MAX_CONN + 1
  /\ poll_fd \in Seq([fd : Number, in : BOOLEAN, hup : BOOLEAN, lost : BOOLEAN,
                      fresh : BOOLEAN])
  /\ Counter =< MAX_CONN
  /\ client \in Client \cup {NULL} /\ sock_list \subseteq Client /\ sd \in [Stray -> Number]
  /\ age \in [Client -> 0..TIMEOUT + 1] /\ sensor \in [Client -> Sensor]
  /\ owner \in {"none", "connmgr", "datamgr"} /\ stopsig \in Sensor
  /\ dm \in {"idle", "lock", "set", "unlock"} /\ want \in Sensor
  /\ closed \in BOOLEAN

OpenFds == {f \in Fd : link[f] # "free"}

\* The two lists of connections stay consistent through accepts, failed ones
\* too, stops and closes in the middle of a scan: every polled entry has a
\* client of its own, each client's socket is open, and a socket that is in no
\* list was broken off before tcp_close saw it or never got a client.
ListsAgree ==
  /\ \E own \in Injection(1..Counter, sock_list) :
       \A k \in 1..Counter : Sd(own[k]) = poll_fd[k].fd
  /\ sock_list \cap Fd \subseteq OpenFds
  /\ \A f \in OpenFds : link[f] = "leaked" => f \notin sock_list
  /\ \A f \in OpenFds \ sock_list : link[f] \in {"rst", "leaked"}

\* connmgr_stopconn_mutex: each thread is in its critical section only as the
\* owner, and the connection manager owns the mutex outside of it only if it
\* has closed a connection before (connmgr.c:147-150).
LockDiscipline ==
  /\ pc = "check" => owner = "connmgr"
  /\ dm \in {"set", "unlock"} <=> owner = "datamgr"
  /\ owner = "connmgr" /\ pc # "check" => closed

\* *connmgr_sensor_stopsig has no unprotected writer: whoever changes it owns
\* the mutex.
StopsigUnderLock ==
  [][stopsig' # stopsig => owner = IF dm' # dm THEN "datamgr" ELSE "connmgr"]_vars

\* A client with a socket is closed only when it is silent for longer than
\* TIMEOUT, when its sensor node is gone, or on the revents of an entry poll has
\* not filled yet.
CloseJustified ==
  [][\A f \in Fd \cap (sock_list \ sock_list') :
       \/ age[f] > TIMEOUT \/ link[f] \in {"fin", "rst"}
       \/ poll_fd[i].fd = f /\ poll_fd[i].fresh]_vars

\* "Loop until no connection" (connmgr.c:74): once the last connection is gone
\* and no other comes, connmgr_listen returns.
LoopEnds == <>[](poll_fd = <<>> /\ backlog = 0) => <>(pc \in {"free", "exit"} \/ Crashed)

\* As long as no connection has been closed, the data manager gets the mutex
\* it waits for.
DataMgrServed == dm = "lock" ~> (dm = "set" \/ closed \/ Crashed)

\* A client whose entry is polled no more but that stays in the list, where
\* connmgr_free will trip over it, has been stopped by the signal for its sensor,
\* which is then used up; or it has no sensor id yet (0) and there is no signal
\* (0 as well), the two being compared all the same (connmgr.c:136).  And a
\* signal is lost in no other way than to a newer one.
Stopped == Counter' < Counter /\ sock_list' = sock_list
SensorOf(c) == IF c \in sock_list THEN sensor[c] ELSE NoFd
SignalStopsOne ==
  [][/\ Stopped => /\ stopsig' = 0
                   /\ \/ stopsig # 0 /\ SensorOf(client) = stopsig
                      \/ stopsig = 0 /\ SensorOf(client) = 0
     /\ stopsig \notin {0, stopsig'} /\ dm' = dm => Stopped /\ SensorOf(client) = stopsig]_vars

\* The connection manager waits for the network: in poll, or in tcp_receive for
\* an entry that poll has not filled.
Waiting ==
  \/ pc = "poll" /\ Quiet
  \/ pc = "receive" /\ client \in Fd /\ ~ Readable(client)

\* A polled client that no other one hides, and a signal for it.
SignalPending(c) ==
  /\ stopsig # 0 /\ c \in sock_list /\ sensor[c] = stopsig
  /\ Sd(c) \in PolledFds /\ \A d \in sock_list : Sd(d) = Sd(c) => d = c

\* A signal for a client that is polled is acted upon, or replaced, before the
\* connection manager waits again, however often the data manager competes for
\* the mutex; unless the mutex was kept by the close of a connection.
SignalServed ==
  \A c \in Client : SignalPending(c) ~> (~ SignalPending(c) \/ Waiting \/ closed \/ Crashed)

\* connmgr.c:74 "Loop until no connection": the loop does not wait for itself.
NoSelfDeadlock == ~ (pc = "lock" /\ owner = "connmgr")
=============================================================================
