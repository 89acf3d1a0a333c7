------------------------------- MODULE Gateway ------------------------------
(***************************************************************************)
(* Project/main.c: the sensor gateway process from the creation of the     *)
(* shared buffer to its end: main, which creates three threads, joins them *)
(* and cleans up; the thread of each manager; and the statics of           *)
(* connmgr.c, datamgr.c and main.c they share.                             *)
(*                                                                         *)
(* Of the loops of the managers there is what touches those statics or     *)
(* ends the loop; ConnMgr and SBufferThreads have the rest, and LogPipe    *)
(* the messages.  The use of freed memory, a failed assert and the use of  *)
(* a pointer that is NULL or was never set end the run; status says which. *)
(***************************************************************************)
EXTENDS Naturals

CONSTANT Attempts       \* attempts to connect to the database: 4 in main.c

ASSUME AttemptsAssumption == Attempts \in Nat \ {0}

VARIABLES
  status,       \* "running", or how the process has ended
  pc,           \* where each thread stands
  attempt,      \* attempts of the storage manager that have failed
  buffer,       \* what main.c's buffer points to: "null", "live" or "freed"
  made,         \* auxiliary: sbuffer_init has made one
  sv, poll_fd, sock_list,   \* statics of connmgr.c: the listening socket, the
                            \* array for poll, and the list: "null", "empty"
                            \* or "clients"
  held,         \* the connection manager keeps connmgr_stopconn_mutex
  dplist        \* static of datamgr.c: "null", "empty" or "rooms"

Thread == {"main", "conn", "data", "stor"}

connmgr_vars == <<sv, poll_fd, sock_list, held>>
shared == <<attempt, buffer, made, connmgr_vars, dplist>>
vars == <<status, pc, shared>>

Init ==
  /\ status = "running" /\ attempt = 0
  /\ pc = [t \in Thread |-> IF t = "main" THEN "init" ELSE "none"]
  /\ buffer = "null" /\ made = FALSE
  /\ sv = "null" /\ poll_fd = "null" /\ sock_list = "null" /\ held = FALSE
  /\ dplist = "null"

At(t, p) == status = "running" /\ pc[t] = p
Goto(t, p) == pc' = [pc EXCEPT ![t] = p] /\ UNCHANGED status
End(s) == status' = s /\ UNCHANGED <<pc, shared>>

-----------------------------------------------------------------------------
(* connmgr_free, which the connection manager and, after its last attempt,  *)
(* the storage manager call; next is what the caller does then.             *)

CloseListener(t) ==
  /\ At(t, "close_sv") /\ sv' = "null" /\ Goto(t, "free_poll")
  /\ UNCHANGED <<attempt, buffer, made, poll_fd, sock_list, held, dplist>>

\* poll_fd keeps its value when it is freed.
FreePollFd(t) ==
  /\ At(t, "free_poll")
  /\ \/ poll_fd = "freed" /\ End("misuse")
     \/ /\ poll_fd # "freed" /\ Goto(t, "free_list")
        /\ poll_fd' = IF poll_fd = "live" THEN "freed" ELSE poll_fd
        /\ UNCHANGED <<attempt, buffer, made, sv, sock_list, held, dplist>>

\* dpl_free of a list that is not empty follows NULL (dplist.c:129-133).
FreeClients(t, next) ==
  /\ At(t, "free_list")
  /\ \/ sock_list = "clients" /\ End("crash")
     \/ /\ sock_list # "clients" /\ sock_list' = "null" /\ Goto(t, next)
        /\ UNCHANGED <<attempt, buffer, made, sv, poll_fd, held, dplist>>

\* datamgr_free.
FreeRooms(t, next) ==
  /\ At(t, "datamgr_free")
  /\ \/ dplist = "null" /\ End("assert")
     \/ dplist = "rooms" /\ End("crash")
     \/ /\ dplist = "empty" /\ dplist' = "null" /\ Goto(t, next)
        /\ UNCHANGED <<attempt, buffer, made, connmgr_vars>>

-----------------------------------------------------------------------------
(* The connection manager. *)

\* connmgr_listen up to its loop.  When the port cannot be opened it writes
\* through retval, which is NULL.
Listen ==
  /\ At("conn", "listen")
  /\ \/ End("crash")
     \/ /\ sv' = "open" /\ poll_fd' = "live" /\ sock_list' = "empty"
        /\ Goto("conn", "loop")
        /\ UNCHANGED <<attempt, buffer, made, held, dplist>>

\* poll, and a new connection in it.
PollConnection ==
  /\ At("conn", "loop")
  /\ \/ poll_fd = "freed" /\ End("misuse")
     \/ /\ poll_fd = "live" /\ sv = "open" /\ Goto("conn", "accept")
        /\ UNCHANGED shared

\* The connection is accepted and listed, or accept fails (see ConnMgr), or the
\* storage manager has freed what it needs.  A reading needs a client, and with
\* one in the list the storage manager's clean-up does not get to the buffer.
Accept ==
  /\ At("conn", "accept")
  /\ \/ End("crash")
     \/ poll_fd = "freed" /\ End("misuse")
     \/ sock_list = "null" /\ End("assert")
     \/ /\ sv = "open" /\ poll_fd = "live" /\ sock_list # "null"
        /\ sock_list' = "clients" /\ Goto("conn", "loop")
        /\ UNCHANGED <<attempt, buffer, made, sv, poll_fd, held, dplist>>

\* A client is closed: the mutex stays locked.
CloseClient ==
  /\ At("conn", "loop") /\ sock_list = "clients" /\ ~ held
  /\ held' = TRUE /\ sock_list' \in {"clients", "empty"}
  /\ UNCHANGED <<status, pc, attempt, buffer, made, sv, poll_fd, dplist>>

\* Another look at a client: the thread waits for the mutex it holds.
LockAgain ==
  /\ At("conn", "loop") /\ held
  /\ Goto("conn", "stuck") /\ UNCHANGED shared

\* A timeout without a polled connection, or a poll that fails.
LoopEnds ==
  /\ At("conn", "loop") /\ poll_fd = "live"
  /\ Goto("conn", "close_sv") /\ UNCHANGED shared

conn_mgr ==
  \/ Listen \/ PollConnection \/ Accept \/ CloseClient
  \/ LockAgain \/ LoopEnds
  \/ CloseListener("conn") \/ FreePollFd("conn") \/ FreeClients("conn", "ended")

-----------------------------------------------------------------------------
(* The data manager. *)

OpenMap ==
  /\ At("data", "fopen")
  /\ \/ End("failure")
     \/ Goto("data", "create") /\ UNCHANGED shared

\* The list of the rooms, one for each line of the map.
ReadMap ==
  /\ At("data", "create")
  /\ dplist' \in {"empty", "rooms"} /\ Goto("data", "remove")
  /\ UNCHANGED <<attempt, buffer, made, connmgr_vars>>

\* Slip: the loop goes on only while sbuffer_remove succeeds, and so ends on an
\* empty buffer.
RemoveFails_OnEmpty(isnull) == TRUE
\* The loops of both managers end when sbuffer_remove answers SBUFFER_FAILURE,
\* as it does for a NULL buffer only.
RemoveFails(isnull) == isnull

\* The thread has the buffer's address since its start.  In a list with rooms
\* the lookup uses the sensor's id as a pointer.
DataRemove ==
  /\ At("data", "remove")
  /\ \/ RemoveFails(~ made) /\ Goto("data", "datamgr_free") /\ UNCHANGED shared
     \/ ~ RemoveFails(~ made) /\ buffer # "live" /\ End("misuse")
     \/ /\ ~ RemoveFails(~ made) /\ buffer = "live"
        /\ \/ dplist = "null" /\ End("assert")
           \/ dplist = "rooms" /\ End("crash")
           \/ dplist = "empty" /\ Goto("data", "signal") /\ UNCHANGED shared

\* The stop signal is set under the mutex.
SignalStop ==
  /\ At("data", "signal") /\ ~ held
  /\ Goto("data", "remove") /\ UNCHANGED shared

data_mgr ==
  OpenMap \/ ReadMap \/ DataRemove \/ SignalStop \/ FreeRooms("data", "ended")

-----------------------------------------------------------------------------
(* The storage manager. *)

Connected ==
  /\ At("stor", "connect") /\ Goto("stor", "remove") /\ UNCHANGED shared

\* Slip: the last attempt is not the last.
ConnectFails_Again ==
  /\ At("stor", "connect")
  /\ attempt' = attempt + 1
  /\ Goto("stor", IF attempt = Attempts THEN "close_sv" ELSE "connect")
  /\ UNCHANGED <<buffer, made, connmgr_vars, dplist>>

\* init_connection fails, to open the database or to make the table.
ConnectFails ==
  /\ At("stor", "connect")
  /\ attempt' = attempt + 1
  /\ Goto("stor", IF attempt' = Attempts THEN "close_sv" ELSE "connect")
  /\ UNCHANGED <<buffer, made, connmgr_vars, dplist>>

\* The loop ends; every other pass of it inserts a row and changes nothing here.
StorRemove ==
  /\ At("stor", "remove") /\ RemoveFails(buffer = "null")
  /\ Goto("stor", "ended") /\ UNCHANGED shared

\* sbuffer_free frees the buffer and then forgets it.
FreeBuffer ==
  /\ At("stor", "sbuffer_free")
  /\ \/ buffer = "null" /\ Goto("stor", "exit") /\ UNCHANGED buffer
     \/ buffer = "live" /\ buffer' = "freed" /\ UNCHANGED <<status, pc>>
     \/ buffer = "freed" /\ buffer' = "null" /\ Goto("stor", "exit")
  /\ UNCHANGED <<attempt, made, connmgr_vars, dplist>>

\* Slip: only the thread ends.
Exit_Thread == At("stor", "exit") /\ Goto("stor", "ended") /\ UNCHANGED shared
Exit == At("stor", "exit") /\ End("failure")

stor_mgr ==
  \/ Connected \/ ConnectFails \/ StorRemove
  \/ CloseListener("stor") \/ FreePollFd("stor") \/ FreeClients("stor", "datamgr_free")
  \/ FreeRooms("stor", "sbuffer_free") \/ FreeBuffer \/ Exit

-----------------------------------------------------------------------------
(* main. *)

\* malloc may fail: its result is not looked at.
InitBuffer ==
  /\ At("main", "init")
  /\ made' \in BOOLEAN /\ buffer' = IF made' THEN "live" ELSE "null"
  /\ Goto("main", "conn") /\ UNCHANGED <<attempt, connmgr_vars, dplist>>

\* The three threads, in this order.
Create(t, first, next) ==
  /\ At("main", t)
  /\ pc' = [pc EXCEPT ![t] = first, !["main"] = next] /\ UNCHANGED <<status, shared>>

\* Slip: the loop stops after the first thread.
Joined_First == pc["conn"] = "ended"
Joined == \A t \in Thread \ {"main"} : pc[t] = "ended"

\* Nothing happens to the statics between one join and the next.
Join == At("main", "join") /\ Joined /\ Goto("main", "free") /\ UNCHANGED shared

\* After the log process has ended.
FreeShared ==
  /\ At("main", "free") /\ buffer' = "null" /\ Goto("main", "exit")
  /\ UNCHANGED <<attempt, made, connmgr_vars, dplist>>

ExitSuccess == At("main", "exit") /\ End("success")

main ==
  \/ InitBuffer \/ Create("conn", "listen", "data") \/ Create("data", "fopen", "stor")
  \/ Create("stor", "connect", "join") \/ Join \/ FreeShared \/ ExitSuccess

-----------------------------------------------------------------------------
Next == main \/ conn_mgr \/ data_mgr \/ stor_mgr

Spec == Init /\ [][Next]_vars

\* The storage manager's thread is scheduled; the other threads may stay away.
FairSpec == Spec /\ WF_vars(stor_mgr)

-----------------------------------------------------------------------------
(* Properties. *)

TypeOK ==
  /\ status \in {"running", "success", "failure", "misuse", "assert", "crash"}
  /\ DOMAIN pc = Thread /\ attempt \in 0..Attempts
  /\ buffer \in {"null", "live", "freed"} /\ made \in BOOLEAN
  /\ sv \in {"null", "open"} /\ poll_fd \in {"null", "live", "freed"}
  /\ sock_list \in {"null", "empty", "clients"} /\ held \in BOOLEAN
  /\ dplist \in {"null", "empty", "rooms"}

\* Nothing is used after it was freed, freed twice or asserted in vain, unless
\* the storage manager has given up and cleans up for threads that still run
\* (main.c:56-62).
CleanUpIsSafe == status \in {"misuse", "assert"} => attempt = Attempts

\* The clean-up of main (main.c:162-168) is reached only when there was no
\* memory for the buffer: with a buffer the managers never leave their loops.
EndsOnlyWithoutBuffer == status = "success" => ~ made

\* "Close the sensor_gateway" (main.c:61): once the storage manager has given
\* up the process ends, whatever the clean-up runs into on its way.
GivingUpEnds == attempt = Attempts ~> status # "running"
=============================================================================
