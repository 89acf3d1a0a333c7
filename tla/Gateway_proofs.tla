--------------------------- MODULE Gateway_proofs ---------------------------
(***************************************************************************)
(* The clean-up of the gateway meets no running thread unless the storage  *)
(* manager has given up.  A thread's place tells what the statics of its   *)
(* manager hold, as long as no other thread has cleaned them up.           *)
(***************************************************************************)
EXTENDS Gateway, TLAPS

Place == {"init", "conn", "data", "stor", "join", "free", "exit", "none", "ended",
          "listen", "loop", "accept", "stuck", "close_sv", "free_poll", "free_list",
          "fopen", "create", "remove", "signal", "datamgr_free",
          "connect", "sbuffer_free"}

GaveUp == attempt = Attempts

\* The storage manager cleans up after its last attempt and not before.
AttemptsCounted ==
  /\ attempt \in 0..Attempts
  /\ pc["stor"] \in {"none", "connect"} => attempt < Attempts
  /\ pc["stor"] \in {"close_sv", "free_poll", "free_list", "datamgr_free",
                     "sbuffer_free", "exit"} => GaveUp

\* main creates each thread once and frees the buffer when all have ended.
ThreadsCreated ==
  /\ pc["main"] \in {"init", "conn"} => pc["conn"] = "none"
  /\ pc["main"] \in {"init", "conn", "data", "stor"} => pc["stor"] = "none"
  /\ pc["main"] \in {"free", "exit"} => pc["data"] = "ended"
  /\ pc["main"] = "init" => pc["data"] = "none"

\* The statics, as their owners left them.
StaticsKept ==
  /\ pc["conn"] \in {"loop", "accept", "stuck", "close_sv", "free_poll"} =>
       poll_fd = "live" /\ sock_list # "null"
  /\ poll_fd = "freed" => pc["conn"] \in {"free_list", "ended"}
  /\ pc["data"] \in {"remove", "signal", "datamgr_free"} => dplist # "null"
  /\ made => buffer = "live" \/ pc["main"] = "exit"

GInv ==
  /\ pc \in [Thread -> Place]
  /\ AttemptsCounted /\ ThreadsCreated
  /\ ~ GaveUp => StaticsKept
  /\ CleanUpIsSafe

LEMMA InitInv == Init => GInv
<1> SUFFICES ASSUME Init PROVE GInv
  OBVIOUS
<1> USE DEF Init
<1>1. /\ pc["main"] = "init" /\ pc["conn"] = "none"
      /\ pc["data"] = "none" /\ pc["stor"] = "none"
  BY DEF Thread
<1>2. pc \in [Thread -> Place]
  BY DEF Place
<1>3. AttemptsCounted
  BY <1>1, AttemptsAssumption DEF AttemptsCounted
<1>4. ThreadsCreated
  BY <1>1 DEF ThreadsCreated
<1>5. StaticsKept
  BY <1>1 DEF StaticsKept
<1> QED BY <1>2, <1>3, <1>4, <1>5 DEF GInv, CleanUpIsSafe

\* Each action of a thread keeps the invariant: those of the connection manager,
LEMMA ConnKeepsInv == GInv /\ conn_mgr => GInv'
<1> SUFFICES ASSUME GInv, conn_mgr PROVE GInv'
  OBVIOUS
<1> USE AttemptsAssumption
        DEF GInv, AttemptsCounted, ThreadsCreated, StaticsKept, CleanUpIsSafe, GaveUp,
            At, Goto, End, connmgr_vars, shared, Thread, Place
<1>1. CASE Listen
  BY <1>1 DEF Listen
<1>2. CASE PollConnection
  BY <1>2 DEF PollConnection
<1>3. CASE Accept
  BY <1>3 DEF Accept
<1>4. CASE CloseClient
  BY <1>4 DEF CloseClient
<1>5. CASE LockAgain
  BY <1>5 DEF LockAgain
<1>6. CASE LoopEnds
  BY <1>6 DEF LoopEnds
<1>7. CASE CloseListener("conn")
  BY <1>7 DEF CloseListener
<1>8. CASE FreePollFd("conn")
  BY <1>8 DEF FreePollFd
<1>9. CASE FreeClients("conn", "ended")
  BY <1>9 DEF FreeClients
<1> QED BY <1>1, <1>2, <1>3, <1>4, <1>5, <1>6, <1>7, <1>8, <1>9 DEF conn_mgr

\* of the data manager,
LEMMA DataKeepsInv == GInv /\ data_mgr => GInv'
<1> SUFFICES ASSUME GInv, data_mgr PROVE GInv'
  OBVIOUS
<1> USE AttemptsAssumption
        DEF GInv, AttemptsCounted, ThreadsCreated, StaticsKept, CleanUpIsSafe, GaveUp,
            At, Goto, End, connmgr_vars, shared, Thread, Place
<1>1. CASE OpenMap
  BY <1>1 DEF OpenMap
<1>2. CASE ReadMap
  BY <1>2 DEF ReadMap
<1>3. CASE DataRemove
  BY <1>3 DEF DataRemove, RemoveFails
<1>4. CASE SignalStop
  BY <1>4 DEF SignalStop
<1>5. CASE FreeRooms("data", "ended")
  BY <1>5 DEF FreeRooms
<1> QED BY <1>1, <1>2, <1>3, <1>4, <1>5 DEF data_mgr

\* of the storage manager, whose last failure ends what StaticsKept promises,
LEMMA StorKeepsInv == GInv /\ stor_mgr => GInv'
<1> SUFFICES ASSUME GInv, stor_mgr PROVE GInv'
  OBVIOUS
<1> USE AttemptsAssumption
        DEF GInv, AttemptsCounted, ThreadsCreated, StaticsKept, CleanUpIsSafe, GaveUp,
            At, Goto, End, connmgr_vars, shared, Thread, Place
<1>1. CASE Connected
  BY <1>1 DEF Connected
<1>2. CASE ConnectFails
  BY <1>2 DEF ConnectFails
<1>3. CASE StorRemove
  BY <1>3 DEF StorRemove, RemoveFails
<1>4. CASE CloseListener("stor")
  BY <1>4 DEF CloseListener
<1>5. CASE FreePollFd("stor")
  BY <1>5 DEF FreePollFd
<1>6. CASE FreeClients("stor", "datamgr_free")
  BY <1>6 DEF FreeClients
<1>7. CASE FreeRooms("stor", "sbuffer_free")
  BY <1>7 DEF FreeRooms
<1>8. CASE FreeBuffer
  BY <1>8 DEF FreeBuffer
<1>9. CASE Exit
  BY <1>9 DEF Exit
<1> QED BY <1>1, <1>2, <1>3, <1>4, <1>5, <1>6, <1>7, <1>8, <1>9 DEF stor_mgr

\* and of main, which frees the buffer when the data manager has ended.
LEMMA MainKeepsInv == GInv /\ main => GInv'
<1> SUFFICES ASSUME GInv, main PROVE GInv'
  OBVIOUS
<1> USE AttemptsAssumption
        DEF GInv, AttemptsCounted, ThreadsCreated, StaticsKept, CleanUpIsSafe, GaveUp,
            At, Goto, End, connmgr_vars, shared, Thread, Place
<1>1. CASE InitBuffer
  BY <1>1 DEF InitBuffer
<1>2. CASE Create("conn", "listen", "data")
  BY <1>2 DEF Create
<1>3. CASE Create("data", "fopen", "stor")
  BY <1>3 DEF Create
<1>4. CASE Create("stor", "connect", "join")
  BY <1>4 DEF Create
<1>5. CASE Join
  BY <1>5 DEF Join, Joined
<1>6. CASE FreeShared
  BY <1>6 DEF FreeShared
<1>7. CASE ExitSuccess
  BY <1>7 DEF ExitSuccess
<1> QED BY <1>1, <1>2, <1>3, <1>4, <1>5, <1>6, <1>7 DEF main


LEMMA GInvariance == Spec => []GInv
<1>1. GInv /\ UNCHANGED vars => GInv'
  BY DEF GInv, vars, shared, connmgr_vars, AttemptsCounted, ThreadsCreated, StaticsKept,
         CleanUpIsSafe, GaveUp
<1>2. GInv /\ [Next]_vars => GInv'
  BY <1>1, ConnKeepsInv, DataKeepsInv, StorKeepsInv, MainKeepsInv DEF Next
<1> QED BY <1>2, InitInv, PTL DEF Spec

\* The shared statics are used after their end, and asserted in vain, only when
\* the storage manager has made all its attempts (main.c:52-64, 160-168).
THEOREM CleanUp == Spec => []CleanUpIsSafe
<1>1. GInv => CleanUpIsSafe
  BY DEF GInv
<1> QED BY <1>1, GInvariance, PTL

\* Each static is in one of the states the code distinguishes, and no more
\* attempts are made than main.c:52 allows.
THEOREM TypeInvariance == Spec => []TypeOK
<1>1. Init => TypeOK
  <2> SUFFICES ASSUME Init PROVE TypeOK
    OBVIOUS
  <2>1. attempt \in 0..Attempts /\ pc \in [Thread -> Place]
    BY InitInv DEF GInv, AttemptsCounted
  <2> QED BY <2>1 DEF Init, TypeOK
<1>2. TypeOK /\ GInv /\ GInv' /\ [Next]_vars => TypeOK'
  <2> SUFFICES ASSUME TypeOK, GInv, GInv', [Next]_vars PROVE TypeOK'
    OBVIOUS
  <2>1. attempt' \in 0..Attempts /\ DOMAIN pc' = Thread
    BY DEF GInv, AttemptsCounted
  <2> USE <2>1 DEF TypeOK, At, Goto, End, connmgr_vars, shared
  <2>2. CASE conn_mgr
    BY <2>2 DEF conn_mgr, Listen, PollConnection, Accept, CloseClient, LockAgain,
                LoopEnds, CloseListener, FreePollFd, FreeClients
  <2>3. CASE data_mgr
    BY <2>3 DEF data_mgr, OpenMap, ReadMap, DataRemove, SignalStop, FreeRooms
  <2>4. CASE stor_mgr
    BY <2>4 DEF stor_mgr, Connected, ConnectFails, StorRemove, CloseListener, FreePollFd,
                FreeClients, FreeRooms, FreeBuffer, Exit
  <2>5. CASE main
    BY <2>5 DEF main, InitBuffer, Create, Join, FreeShared, ExitSuccess
  <2>6. CASE UNCHANGED vars
    BY <2>6 DEF vars
  <2> QED BY <2>2, <2>3, <2>4, <2>5, <2>6 DEF Next
<1> QED BY <1>1, <1>2, GInvariance, PTL DEF Spec

-----------------------------------------------------------------------------
\* With a buffer the data manager never leaves its loop, so main never gets
\* past the joins.
NeverJoined ==
  /\ pc \in [Thread -> Place] /\ made \in BOOLEAN
  /\ pc["main"] = "init" => pc["data"] = "none"
  /\ made => /\ pc["data"] \notin {"datamgr_free", "ended"}
             /\ pc["main"] \notin {"free", "exit"}
             /\ status # "success"

\* A regular end of the gateway needs a buffer that was never made: the loops of
\* the managers end on SBUFFER_FAILURE only (datamgr.c:54, sensor_db.c:22,
\* sbuffer.c:46-47).
THEOREM NoRegularEnd == Spec => []EndsOnlyWithoutBuffer
<1>1. Init => NeverJoined
  BY DEF Init, NeverJoined, Thread, Place
<1>2. NeverJoined /\ [Next]_vars => NeverJoined'
  <2> SUFFICES ASSUME NeverJoined, [Next]_vars PROVE NeverJoined'
    OBVIOUS
  <2> USE DEF NeverJoined, At, Goto, End, connmgr_vars, shared, Thread, Place
  <2>1. CASE conn_mgr
    BY <2>1 DEF conn_mgr, Listen, PollConnection, Accept, CloseClient, LockAgain,
                LoopEnds, CloseListener, FreePollFd, FreeClients
  <2>2. CASE data_mgr
    BY <2>2 DEF data_mgr, OpenMap, ReadMap, DataRemove, RemoveFails, SignalStop, FreeRooms
  <2>3. CASE stor_mgr
    BY <2>3 DEF stor_mgr, Connected, ConnectFails, StorRemove, CloseListener, FreePollFd,
                FreeClients, FreeRooms, FreeBuffer, Exit
  <2>4. CASE main
    BY <2>4 DEF main, InitBuffer, Create, Join, Joined, FreeShared, ExitSuccess
  <2>5. CASE UNCHANGED vars
    BY <2>5 DEF vars
  <2> QED BY <2>1, <2>2, <2>3, <2>4, <2>5 DEF Next
<1>3. NeverJoined => EndsOnlyWithoutBuffer
  BY DEF NeverJoined, EndsOnlyWithoutBuffer
<1> QED BY <1>1, <1>2, <1>3, PTL DEF Spec
=============================================================================
