# Verification of the sensor gateway

This directory models the sensor monitoring program under `src/Project`: sensor
nodes send temperature readings over TCP to a gateway process, whose three
threads receive them, watch them and store them, and which logs to a second
process through a pipe. The modules are TLA+; TLC checks them on small
instances, and TLAPS proves what they state of safety for every instance, with one
exception (section 4).

All line numbers below are those of files under `src/Project` unless a path says
otherwise.

## 1. The system

| Component | Code | State it keeps | Operations |
|---|---|---|---|
| Shared buffer | `sbuffer.c` | `head`, `tail`, nodes; no lock | init, free, insert, remove |
| Connection manager (thread) | `connmgr.c` | client list `sock_list`, array `poll_fd`, `counter`, the listening socket | `connmgr_listen` (poll, accept, receive, stop, close), `connmgr_free` |
| Data manager (thread) | `datamgr.c` | list of sensors with room and last values | read the map, the loop over the buffer, `datamgr_free`, getters |
| Storage manager (thread) | `sensor_db.c`, `main.c:40-76` | a database connection, the last reading, the number of attempts; the table on disk | connect, insert, disconnect, import of a file, queries |
| Gateway process | `main.c:95-172` | the buffer's pointer, two mutexes, a pipe | fork, create, join, clean up |
| Log messages | `config.h:50-56` | `pipe_mutex`, the pipe | `write_pipe` |
| Log process | `main.c:117-148` | sequence number, `recv_buf` | read, number, write to gateway.log |
| Sensor node (process) | `sensor_node.c` | the reading it sends | connect, three sends per reading, close |
| Doubly linked list | `lib/dplist.c` | `head`, `prev`, `next`, elements | insert, remove, search, free |
| TCP sockets | `lib/tcpsock.c` | per socket: cookie, descriptor, address, port; the kernel's table of descriptors | open, accept, send, receive, ask, close |
| Exercises | `src/B1`, `src/B2` | none shared with the gateway | short programs on fork, signals, threads |

How they interact: a sensor node's bytes reach the connection manager, which
inserts readings into the shared buffer; the data manager and the storage
manager both remove from it, so each reading reaches one of them. The data
manager answers a reading from an unknown sensor by writing its id to
`*connmgr_sensor_stopsig` under `connmgr_stopconn_mutex`; the connection manager
compares that slot with each client it looks at, under the same mutex. All
threads of the gateway write log messages under `pipe_mutex`. `main` joins the
three threads, closes its end of the pipe and waits for the log process. When
the database cannot be opened, the storage manager cleans up for everybody and
exits the process.

What is hard here, by component:

* **Shared buffer.** Insert and two removers run without a lock. One at a time it
  must be a FIFO queue; together they can lose a reading, deliver one twice,
  free a node twice or leave a list that is not reachable from `head`.
* **Connection manager.** The scan index, the compaction of `poll_fd`, the client
  list and the lock all change in the middle of a loop that takes new clients,
  stop signals, timeouts, hangups and resets in any order.
* **Stop signal.** One slot, two threads, the value 0 both for "no signal" and
  for "no reading yet".
* **Readings on the wire.** Three sends and three receives, one test.
* **Log.** Messages of several threads in a byte stream with partial reads, a
  pipe that fills up, and an end that depends on every write end being closed.
* **Storage.** A connection is made by two statements that may fail one by one, rows
  are stored one by one by a loop that takes an empty buffer for a reading, values
  are printed with more digits than they are looked for, and the process may end
  between any two of these steps and find the file as it left it.
* **Sockets.** Every call of the library makes several calls of the system, each of
  which may fail after the one before has taken something.
* **List.** Two pointers to keep for each link, head and tail as special cases.
* **Start and end.** Frees of the statics of three managers by a thread that is
  not their owner, `exit` under running threads, joins that may never return.

`PROJECT.json` lists each of these hazards at its line with the properties that
watch it.

### How the source is read

The tree does not compile as it stands, so the models follow one rule. Text that
is valid C keeps its C meaning, however odd: `list->head->next = NULL` in a
condition assigns (`lib/dplist.c:129`), `list->head == pt;` does nothing
(`lib/dplist.c:92`), `compare_sensor` compares addresses (`datamgr.c:193`). A name
that resolves to nothing is read as the declared entity it stands for. A call of
a function that exists nowhere is external, with the contract its use implies
(`dpl_remove_node(list, node, free)`, `dpl_get_element_of_reference(node)`).

| File | Readings |
|---|---|
| `main.c` | `connmgr_drop_conn_mutex` is `connmgr_stopconn_mutex`; `connmgr_sensor_to_drop` and the undeclared `connmgr_sensor_stopsig` are one static `sensor_id_t`, 0 at start; `&sbuffer` is `buffer`; `conn_mgr_*` is `connmgr_*`; `fp_sensor_map` in the log process is `log_file`; `sequence` is `seq_num`; `port_num` is `sv_port` |
| `connmgr.c` | `arg->retval` is `status`; `last_alive` is `last_active`; `conn_counter` is `counter`; `sock_dum` is `sockdum`; `sizeof(struct pollfd *(counter+1))` is `sizeof(struct pollfd) * (counter+1)` |
| `datamgr.c` | `coppy_sensor` is `copy_sensor`; `node.data_list = 0` is dropped; `last_modified` is `sensor.ts`; `MAX_TEMP` is `SET_MAX_TEMP`; `dpl_get_element_of_index` is `dpl_get_element_at_index` |
| `sensor_db.c` | `SQLITE_OPEN` is `SQLITE_OK`; the buffer parameter is a `sbuffer_t **`, as its use and its caller have it |
| `lib/dplist.c` | `id` in `dpl_remove_at_index` is `pos`; `dplist_note_t` is `dplist_node_t`; `element_commpare` is `element_compare` |

One place departs from the rule, and everything about processes depends on it:
`main.c:116` reads `if (sensorGw = 0)`. Taken literally the branch is never
entered and both processes return 0: there is no gateway to speak of. The models
read it as `if (sensorGw >= 0)`, the form the repository's own exercises use
(`src/B1/Process/Fork/main.c:13`, `src/B2/Process/BT1_SIGCHILD/main.c:18`), which the
nested test in `main.c:117` needs.

The build uses gcc without optimisation (`Makefile`, `FLAGS`), so every statement
of the racing functions is its loads and stores in program order; the models
interleave them sequentially consistently.

## 2. Modules

The order is the one they were built in: the data path first, then who drives it,
then what surrounds it.

| Module | Models | Role |
|---|---|---|
| `ReadingQueue` | what `sbuffer.h` promises | abstract: a FIFO queue |
| `SBuffer` | `sbuffer.c`, one call at a time, failures of malloc included | implements `ReadingQueue` |
| `SBuffer_proofs` | | its inductive invariant and the refinement |
| `SBufferThreads` | `sbuffer_insert` and `sbuffer_remove` access by access, one inserting and several removing threads | the race |
| `SBufferThreads_proofs` | | how far the race does no harm |
| `ConnMgr` | `connmgr_listen` from the opening of its socket on, `connmgr_free`, the stop signal in `datamgr.c:54-67`, sensor nodes, the clock | composition of two threads and the network |
| `ConnMgr_proofs` | | the lock, the two lists, why a client is stopped or closed |
| `LogPipe` | `write_pipe`, the pipe, the log process, the end of the gateway | two processes |
| `LogPipe_proofs` | | what a line of the log holds, and the end of the log |
| `ElementList` | what `lib/dplist.h` promises of a list's content | abstract |
| `DPList` | every function of `lib/dplist.c` on pointers and nodes | implements `ElementList` |
| `DPList_proofs` | | the shape of the list and the refinement |
| `SensorStream` | `tcp_send`, `tcp_receive`, the loop of `sensor_node.c`, `connmgr.c:113-133` | one connection |
| `Gateway` | `main.c`, the threads' start and end, `connmgr_free`, `datamgr_free`, `sbuffer_free` on shared statics | the process |
| `Gateway_proofs` | | what the clean-up may meet, and when the process ends |
| `StorageMgr` | `sensor_db.c`: connection, rows, import, queries, restarts | the database |
| `StorageMgr_proofs` | | the table, the order and the durability of rows |
| `TcpSock` | `lib/tcpsock.c` but for send and receive, on a table of descriptors | the sockets of one process |
| `TcpSock_proofs` | | ownership of descriptors, ports, leaks; what one connection carries (`SensorStream`) |
| `MC*` | | instances for TLC |

How state and actions correspond to the code:

* **SBuffer.** A node is an address; `head`, `tail`, `next` and `data` are the C
  fields, `heap` the addresses malloc has given out. `sbuffer_free` is a loop and
  therefore several actions (`FreeNode`, `FreeBuffer`) under one `pc`; the other
  functions are one action each. The linked nodes in order are an auxiliary
  variable, `chain`, tied to the pointers by `ListShape`, so that no recursion is
  needed in the proofs. `DPList` does the same; in `SBufferThreads`, where the list is
  broken most of the time, `Holds(s)` says instead that the readings `s` are linked
  from `head`.
* **SBufferThreads.** One action per access to shared memory, and `pc` of each
  thread names the access it stands before. Freed memory may be read: `BadAccess`
  marks that it was. After it nothing more is asked of the run. A reading is copied
  word by word, at line 48 and at line 65, and the words may be copied in any order.
  What malloc returns is indeterminate: the words of the node hold `Garbage` and its
  `next` any pointer, `Wild` ones included, until lines 65 and 66 store theirs. `reused`
  records that malloc has returned an address for the second time.
* **ConnMgr.** A descriptor stands for its connection. An entry of `poll_fd` holds
  the descriptor, the two bits of `revents` the code looks at, whether it was lost
  (`events == -1`) and whether poll has ever filled it. Ages are in ticks and stop
  where both comparisons of the code are settled. A reading arrives whole here;
  `SensorStream` takes it apart.
  The port is opened in the first step; that it may fail is `ListenCrash`, which
  writes through a `retval` nobody sets. Line 82 compares the result of accept with a
  `tcp_conn_ret` nobody sets either. After a failure the code therefore writes through
  `retval` (`AcceptCrash`) or goes on with a client that has no socket
  (`FailedAccept`): `tcp_get_sd` sets nothing, so its descriptor is whatever number
  the entry `realloc` returned holds, which can be that of another client. `Stray` are
  such clients; `sd` is their number, a client with a socket is its descriptor. An
  accept that fails after `accept(2)` leaves its descriptor open (`"leaked"`).
* **LogPipe.** A message is a sequence of units and a NUL; the pipe and `recv_buf`
  are sequences of units, `PIPE_SIZE` and the pipe's capacity are constants.
  What `recv_buf` holds behind the bytes just read is junk or an earlier read, and
  `%s` prints up to the first NUL. `Init` has three cases: a pipe and both processes;
  no pipe, which is printed only (`main.c:110`), so that writes and reads fail; no
  child, so that nothing starts. `alone` holds the texts of the messages that found
  the pipe empty, which are those the reader cannot lose.
* **DPList.** One action per function. Loops that only read are described by the
  node they stop at; a call that follows NULL, fails an assert or never returns
  ends the run, and `fault` says how. `ElementList` has one operation per promise of
  `dplist.h` and operators for the answers. `ImplementsList` says of each call of `DPList`
  that it is the operation promised for it and returns the answer promised, or
  differs in one of the ways it names, each with the line of `dplist.h` it contradicts:
  no other disagreement passes.
* **SensorStream.** Its initial states, next-state relation and specification are
  `StreamInit`, `StreamNext` and `StreamSpec`, so that a module can extend it together
  with `TcpSock`, the other half of the same file. The stream carries the units of the
  fields; `recv` returns any positive number of those there, up to the size asked for,
  or fails and leaves -1 for the size. `inactive` says that TIMEOUT seconds have passed
  since the last reading: such a client is not read any more (`connmgr.c:113`), and the
  scan after that closes it (`TimeOut`), whatever it has sent since. `sent` counts the
  readings the node has sent whole.
* **Gateway.** One `pc` per thread; of each static only whether it is NULL, live,
  freed, empty or not. `dplist` is empty or has rooms; `sock_list` is empty or has
  clients.
* **StorageMgr.** A reading is its number and a row is the number of the reading it
  holds, so `rows` shows order and repetition at once; value and timestamp are
  functions of the number. `pc` is the statement or call that comes next, and each
  SQL statement is one action that takes effect wholly or fails. `Restart` is the
  end of the process at any point, the failed `assert` of `insert_sensor_from_file`
  included: what was in memory is gone, `table` and `rows` stay. After an error the
  code writes its message through a pointer nobody set, so an error goes on or ends
  the process. The buffer is a queue only until two of the threads are in its calls at
  the same time (`Overlap`): after that `sbuffer_remove` returns any reading that has
  arrived, one put together from several, or none, as `SBufferThreads` shows of
  calls without a lock. What `printf` and SQLite make of a value is `Printed`: the value
  rounded to 7 digits (`%e`) when it is stored and to 6 (`%g`) when it is looked for.
* **TcpSock.** `sock` is what each variable of a caller points to, `desc` the kernel's
  entry for each descriptor: its kind, its port, its peer's port, and whether the
  peer has broken the connection off. A port number is an `int` to the library and
  the number modulo `PortSpace` to `bind`. One action per function; a call of the
  system that fails is a disjunct in it, and leaves `desc` as the code leaves it.

## 3. Runs

| Run | Instance | What it shows |
|---|---|---|
| `sbuffer` | 3 addresses, 2 readings | One call at a time the list keeps its shape, leaks no node and is a FIFO queue with the codes of `sbuffer.h`. |
| `threads` | 1 producer of 4 readings of 2 words, 2 consumers, 3 addresses | The race does no harm while removals do not overlap and the buffer never runs empty (`SafeWhileNotDrained`). Until malloc returns an address again, no reading is made up or torn (`OnlyInserted`), and nodes are freed twice only by overlapping removals (`NoDoubleFree`). |
| `threads_nodata` | 1 producer of 3 readings of 2 words, 1 consumer, 3 addresses | **violation**: `SBUFFER_NO_DATA` from a buffer that is not empty. |
| `connmgr_safety` | 2 descriptors, 1 client without a socket, 2 polled entries, sensors 0 and 1, TIMEOUT 1, one reading per socket | The two lists agree, failed accepts included; the mutex is used as it should be but for the close branch; the signal is written under it and lost only to a newer one; a client is stopped by the signal for its sensor, or by none when it has no sensor yet; clients are closed for a reason. |
| `connmgr_live` | 1 descriptor, 1 client without a socket, 1 polled entry | The loop ends after the last connection; while nothing was closed the data manager gets the mutex, and a signal for a polled client is acted upon or replaced before the loop waits for the network again. |
| `connmgr_deadlock` | as `connmgr_safety`, without `TwoClients` | **violation**: the loop waits for a mutex it holds. |
| `logpipe` | 2 writing threads, 4 messages, pipe and reads that cut messages | Only text just read is printed, in order, and in the end each message that found the pipe empty, wherever the gateway stopped; the log process ends after the gateway and never blocks it for ever. |
| `dplist` | 4 addresses, 3 elements, indices -1 to 4, both kinds of comparison | No sequence of calls breaks the links; each call changes the content and answers as `dplist.h` says, or in a way that is named. |
| `stream` | 3 readings, fields of 1, 2 and 2 units, room for 7 units | With whole receives the readings inserted are those sent, in order, whole and once, wherever the connection ends; when the node has closed and the client is given up as lost, exactly what was sent whole has been inserted; a receive waits for ever only for a node that stalls inside a reading. |
| `gateway` | 4 attempts, as in `main.c` | Shared statics are used after their end only once the storage manager has given up; giving up ends the process; a regular end needs a buffer that was never made. |
| `storage` | 3 readings through the buffer, files of up to 2 records, 4 rows, values of up to 3 digits printed with 2 and 1 | A caller with a connection finds the table; rows stay until a caller asks to clear them and, until calls of the buffer overlap, keep the order of arrival over all processes and repeat only the last reading; a query by the very value that was stored finds its row just when the value has no more digits than `%g` prints. |
| `tcpsock` | 3 variables, 3 descriptors, ports 1 to 3, callers that ask for 1 to 5 | A usable socket has an open descriptor of its own and tells its true address and port; a descriptor is lost only by a call that reports an error or at the close of a connection that was reset. |

Why the bounds are enough. *SBuffer*: three nodes give a head, an inner node and a
tail, and one more insert fails for want of memory; values are only copied, so two
tell order and duplication apart. *Threads*: three addresses give a list with an
inner node, and with four readings a freed node is used again while the list has
others; two words are what a torn reading needs. The constraint `Asked` leaves out
what lies behind states in which removals have overlapped and malloc has returned an
address again as well: no property but `TypeOK` says anything of such a state, and
`TypeInvariance` proves that one for all. *ConnMgr*: two
entries are what the compaction and the index can confuse (a first and a last
one), one more connection waits; TIMEOUT 1 gives ages below, on and above the
limit. One waiting reading per socket is enough because the scan takes one per
pass. One client without a socket can have the number of another client or one that
is nobody's. The constraint `TwoClients` bounds the list, where stopped clients stay
for good, and the descriptors a failed accept left open, to two members together,
which is what two polled entries can be confused with. The liveness run polls one
entry at a time, of either kind of client. *LogPipe*: the sizes
make a message fit a read, cross two reads, and share one. *DPList*: four nodes
have two inner neighbours. *SensorStream*: one unit can only arrive whole, two can
arrive in parts; three readings give a first, a middle and a last one. *Gateway* is
finite as it is. *StorageMgr*: three readings give one that is stored again, one the
data manager takes away and one that is still in the buffer; with two records in a
file its middle and its end differ, and four rows hold a reading twice beside
them; of the values two print as they are with either number of digits, one is
rounded to the same by both, and of two `%e` prints a digit more than `%g`, which
rounds one of them down and the other up. *TcpSock*: three descriptors give a listening socket,
one it accepted and one that was leaked or reused; the asked ports are one the
library refuses as too small, two real ones of which the kernel also gives one out
by itself, the first that `bind` takes for 0, and one that is too large.

Symmetry is used in safety runs only, over addresses, descriptors, consumers, the words
of a reading or the variables of the callers of `tcpsock.c`; none of the properties there names one of them. Deadlock is
checked except where a run may stop: a crash or the regular end of a process
(`connmgr_*`, `logpipe`, `stream`, `gateway`); the other models end in a stuttering
step where the process is gone, or have no end.

### Fairness

* `ConnMgr`: weak fairness of the connection manager's own steps (a running thread
  goes on; a `poll` with something to report returns, one without returns after
  TIMEOUT) and of the data manager inside its critical section, and strong fairness
  of the lock for both: each finds the mutex free again and again, and the scheduler
  does not wake a thread only while the other holds it. Nothing is assumed of
  sensor nodes and clock; `poll` and `accept` need not fail.
* `LogPipe`: weak fairness of both processes' steps; strong fairness of taking
  `pipe_mutex`.
* `SensorStream`: weak fairness of the connection manager's own steps. Nothing is
  assumed of the node, which may stall between two sends for ever and keep the
  connection; nothing of the clock. `ReceiveReturns` names that node as its exception.
* `Gateway`: weak fairness of the storage manager's thread only.
* `StorageMgr` and `TcpSock` state none: what they promise is safety, and their callers
  need not call.

### Disagreements found

Two runs show the code doing something else than its own text says; they are
the findings in `PROJECT.json`:

1. `sbuffer.c:52` against `sbuffer.h:32`: an insert that meets the removal of the
   only node leaves a buffer that answers `SBUFFER_NO_DATA` with readings in it.
2. `connmgr.c:147-150`: closing a client leaves without the unlock the two sibling
   branches have; the loop then waits for itself.

Others are in the models but have no run of their own:

* `connmgr.c:141`: `sensor` 0 (no reading yet) equals `*connmgr_sensor_stopsig` 0 (no
  signal): a new client can be stopped "by signal". `connmgr_free` crashes when
  clients are left in the list.
* `connmgr.c:82`: `==` where an assignment is meant, so that a failed accept may go on as
  if it had succeeded.
* `connmgr.c:116`: a node that stalls inside a reading holds the connection manager in
  `recv` for ever, and with it all other nodes.
* `sbuffer.c`: once malloc returns the address of a freed node, the lock that is missing
  lets a removal that meets an insertion free that node again, or return what it held
  before it was filled, even with one consumer: a removal of the only node leaves
  `head` on it for a moment.
* `lib/dplist.c` against `lib/dplist.h`, all named in `ImplementsList`: the index of a missing
  element is the number of elements, not -1 (line 104; `datamgr.c:57` tests for -1);
  `dpl_size` counts one too many (line 45); an insertion at an index into an empty list
  is lost (line 54), past the end fails an assert (line 55); removal of the first or past
  the last element, and `dpl_free` of a list with elements, crash (lines 36, 67, 68).
* Between the two stores of `sbuffer.c:69` `head` and `tail` disagree, where the
  comment in line 67 expects them to agree; each reading goes to one of the two
  managers.
* `lib/tcpsock.c:139-145`: a descriptor whose connection was reset is not closed, where
  `lib/tcpsock.h` promises that resources are freed. It is the one exception in
  `NoSilentLeak`, and one of the two ways `ListsAgree` allows a socket to be open in no
  list; the other is an accept that fails after `accept(2)`. Every error after `socket` or `accept` leaves a descriptor open as well, but says
  that something failed (`lib/tcpsock.c:79`, `107`, `119`, `173`).
* `lib/tcpsock.c:66`: port 65536 passes the check and becomes 0; the socket listens
  somewhere, and `tcp_get_port` says 65536.
* `sensor_db.c:22`: an empty buffer makes the loop store its last reading again, or
  what `data` held before the first one.
* `sensor_db.c:97` prints values with `%e`, lines 166 and 191 with `%g`: a query by the
  very value that was stored can miss its row.
* `sensor_db.c:65`: the handle of a connection whose table could not be made is
  forgotten open.
* `main.c:52` makes four attempts where line 72 says three, in a branch that is never
  reached; a log line may be cut, or lose what follows a NUL, when messages share a
  read (`main.c:131-134`).

## 4. Proofs

All theorems hold for every value of the constants under the named assumptions of
the modules. TLC has checked the properties below on the instances above first, and
the less obvious strengthenings too. Every invariant, refinement and property of steps
that a passing run checks is a theorem, but for `FoundByOwnValue`.

**The buffer.**

* `SBuffer_proofs`, **Invariance**: `Spec => []IInv` with `IInv` the conjunction of
  `TypeOK`, `NoLeak`, `ListShape` and `FreedWhenNull`. `ListShape` alone is not
  inductive: that unlinking the head leaves the rest of the list needs each node to
  be linked once and allocated (`NoLeak`), and the free loop needs to know what is
  already freed (`FreedWhenNull`). The proof has a step per function. **LeakFree** and
  **ShapeKept** state the two parts the run `sbuffer` checks; the other two are proved
  only.
* `SBuffer_proofs`, **Refinement**: `Spec => ImplementsQueue`. Initial states map to
  initial states, and each function maps to the queue operation of the same name or
  to a stutter, under the refinement mapping that reads the queue off the list.
* `SBufferThreads_proofs`, **TypeInvariance** and **OnlyInsertedInvariance** hold in every
  interleaving, of removals with each other too. The second is about runs in which
  malloc has not yet returned an address for the second time: there a node is filled
  before its address is stored anywhere but in the producer's `dummy`, and what was
  filled once stays, so every pointer of every thread leads to a whole reading or to
  NULL (`FillInv`), and the words a consumer has copied so far are those of one
  reading (`CopyInv`). The hypothesis is needed, even with one consumer: a dangling
  `head` and a node used again give a reading that was not inserted.
* `SBufferThreads_proofs`, **SafeInvariance**: `Spec => []SafeWhileNotDrained`. While no
  removal took the only node and none overlapped another, there is a sequence of
  nodes (`ChainInv`) that is linked from `head` to `tail`, holds what was inserted and
  not removed in order, and at each access of an insertion or a removal stands in
  one relation to the pointers it has read so far. `Layout`, `Nodes`, `Ends`, `ProducerAt`
  and `ConsumerAt` are its parts; four lemmas carry it over the access that allocates
  a node, the others of the producer, the others of a removal, and the free.
* `SBufferThreads_proofs`, **NoDoubleFreeInvariance**: `Spec => []NoDoubleFree`, under the
  same hypothesis on malloc, which is needed as well. Here the
  buffer may run empty under an insertion, after which no such sequence need exist.
  `FreeInv` says of each pointer the producer holds only that it is the node it means
  or that the list is empty, and where `head` may lead then; it follows that a removal
  that has read the data at `head` has an allocated node, which stays so until its
  free. The two may still break the list or read freed memory elsewhere. Both
  invariants need that at most one removal is under way (`SoloInv`) and which function
  each thread is in (`PlaceInv`).

**The connection manager.**

* `ConnMgr_proofs`, **LockInvariance**: `Spec => []LockDiscipline`, which is
  inductive by itself; **StopsigProtected** follows from it action by action.
* `ConnMgr_proofs`, **ListsInvariance**: `Spec => []ListsAgree`. Two entries may hold one
  number, when a failed accept has left a client with that of another one, so the
  lists agree when the entries can be given clients of their own (`Owns`). The
  strengthening `ListInv` adds the types of the two lists and that the client the scan
  looks at is in the list with the number of the entry the index stands on, without
  which the removal of entry `i` and of that client says nothing. The lemmas are one
  per way a step changes the lists: flags only, a new entry and client with or without
  a socket, one entry less, a client closed, a socket that ends.
* `ConnMgr_proofs`, **StoppedBySignal**: `Spec => SignalStopsOne`. Only the branches under
  the mutex take an entry out of `poll_fd` (`OnlyCheckDrops`), and the one that leaves the
  list as it was is the stop: there the client's sensor equals the slot, both 0 or the
  signal that is then used up.
* `ConnMgr_proofs`, **ClosedForAReason**: `Spec => CloseJustified`. A close follows what
  the flags of an entry say, which may have been set passes ago; `FlagInv` says that
  they still agree with the socket, because a socket that has ended stays so.
  **TypeInvariance** needs in addition that `accept` is reached only with a connection
  waiting and room for it (`AcceptPossible`).

**The log.**

* `LogPipe_proofs`, **TypeInvariance** counts the messages begun
  and not yet written (`Pending`), which bounds the number of the next one.
* `LogPipe_proofs`, **LogInOrderInvariance** and **TerminatedInvariance**. `PipeInv` follows
  each unit from `write_pipe` to the line it is printed in: what is in the pipe is a
  run of the stream of messages that ends with one (`StreamInv`), what was read and
  not yet logged is a run before it (`BufInv`), and each line is a run of one message
  before both and after the earlier lines (`LineInv`). No read misses a NUL because any
  `PIPE_SIZE` units in a row of the stream hold one, or the end of the pipe does.
* `LogPipe_proofs`, **WrittenIsLoggedInvariance**: `Spec => []WrittenIsLogged`. A message that
  finds the pipe empty is at the head of the pipe until a read takes it whole, then
  at the head of `recv_buf`, then a line (`AloneInv`); and reading ends without an error
  only when the pipe is empty and no write end is open (`EndInv`).

**List, sockets, connection.**

* `DPList_proofs`, **ShapeInvariance**, **TypeInvariance** and **Refinement**
  (`Spec => ImplementsList`), all from `DInv`: types, `Shape`, that linked nodes hold
  elements (`Filled`), that a list that is not open has none, and that one filled by
  three-way comparisons alone is in order (`Sorted`).
  Each call is shown to keep `DInv`, to change the content as the operation of
  `ElementList` promised for it and to return the answer promised, or to differ in the
  way named (`Changes`, `Answers`). The ways of linking a node are reduced to one (`Linked`)
  and so are those of unlinking.
* `TcpSock_proofs`, **Ownership**: `Spec => []DescriptorsOwned`, inductive together with
  the types, because a call only takes descriptors that are not open and only closes
  its own. Every call is reduced to one of five effects (`NextEffect`): nothing, a
  descriptor lost with an error, a socket given to a caller, a close, a reset.
  **PortsHold**: `Spec => []PortTold` needs in addition that no two sockets listen at
  one port, which holds because `bind` refuses a port in use and a listening socket
  is never broken off (`PortsApart`). **LeaksAreTold**: `Spec => NoSilentLeak`, again
  effect by effect.
* `TcpSock_proofs` also holds the proofs about the other half of `lib/tcpsock.c`,
  `SensorStream`, which it extends as well: **WireTypeInvariance**, **IntactInvariance**
  (`IntactUnlessShort`) and **NothingLeftBehind** (`AllInserted`). Every unit has a number,
  its place in all the readings the node has to send. While no receive of a
  reading has failed, the units on their way are those from `Received + 1` on
  (`OrderInv`), and none is missing between what was received and what was sent
  (`AmountInv`). When one has failed there is nothing to receive any more, so the
  last of the three fails as well (`ResultInv`): that is why one test suffices. A
  client that is closed as inactive is not given up as lost, and `AllInserted` says
  nothing of what it sent.

**Gateway and storage.**

* `Gateway_proofs`, **CleanUp**: `Spec => []CleanUpIsSafe`. See its strengthening
  there: what each static holds as long as nobody has given up, depending on where
  its owner stands, and that the attempts are counted. **NoRegularEnd**:
  `Spec => []EndsOnlyWithoutBuffer`, from the invariant that with a buffer the data
  manager never leaves its loop and main never gets past the joins.
  **TypeInvariance** adds the types.
* `StorageMgr_proofs`, **TableInvariance**: `Spec => []ConnHasTable`. The strengthening
  `Connecting` says that no connection exists while the statements of
  `init_connection` are executed: otherwise dropping the table could pull it from
  under one. **TypeInvariance** adds the types, in three groups.
* `StorageMgr_proofs`, **OrderKept**: `Spec => []RowsFollowBuffer`, which is about histories in
  which no two calls of the buffer have overlapped. A row may be stored
  long after its reading has left the buffer, and again and again, so the invariant
  must also order the reading in hand against rows and buffer (`BufferOrdered`). It
  is split into parts that talk of one pair of rows, buffer and `data` each, and each
  action is reduced to one of twelve effects on these (`StepEffect`) first.
  **Durable**: `Spec => RowsDurable`, an action property that follows from the same
  effects.

Only model-checked: liveness and everything that rests on fairness (`LoopEnds`,
`DataMgrServed`, `SignalServed`, `LogEnds`, `WritersGoOn`, `ReceiveReturns`, `GivingUpEnds`),
which is beyond the prover; and `FoundByOwnValue`: which rows a condition selects is an
induction over `SelectSeq`, and how a value that was rounded once is rounded again is
another one, over powers of ten with the digits as parameters. The two violations are counterexamples of TLC.

## 5. Not modelled

* The data manager's window of values and running average, and its getters: with a
  room in the map the first lookup passes the sensor's id as a pointer and crashes
  (`datamgr.c:56`, dereferenced in line 191), without one there is no window. No run
  of the program gets to `datamgr.c:69-109`.
* The inside of SQLite: a statement takes effect wholly or not at all, and a row that
  is stored is on disk. Two processes on one database at a time.
* Names and addresses beyond "a valid one, a text that is none, NULL"; the length of
  the kernel's queue of waiting connections, which `ConnMgr` has as a bound; the
  check of the arguments in `main`.
* Hardware reordering of memory accesses; overlapping `pthread_create` failures.
* A file that gets the number `write_pipe` writes to when `pipe()` has failed.
* Wording and layout of log messages; `file_creator.c`, pure output.
* The exercises under `src/B1` and `src/B2`: teaching programs of their own on fork,
  signals and threads. They share no code or state with the gateway, most are
  straight-line, and nothing says what a run of them should show.

## 6. Plan

Done: the shared buffer alone and under threads, the connection manager with the
stop signal, the log pipe, the list, the stream, the gateway process, the storage
manager with its database, the sockets; proofs of the safety properties of all of
them but `FoundByOwnValue`.

Next:

1. How far `SBufferThreads` implements `ReadingQueue`: under the hypothesis of
   `SafeWhileNotDrained`, with one access of each call as the point where it takes
   effect.
2. The auxiliary invariants that so far stand only in the proofs (`FlagInv` of `ConnMgr`,
   `SoloInv` and `FillInv` of `SBufferThreads`) say something of the code themselves;
   those a reader would ask about belong in the modules, with runs that check them.
