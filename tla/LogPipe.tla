------------------------------- MODULE LogPipe ------------------------------
(***************************************************************************)
(* The log: write_pipe (Project/config.h), called by the threads of the    *)
(* gateway process, and the log process of Project/main.c that reads the   *)
(* pipe PIPE_SIZE bytes at a time and logs what it reads as one string.    *)
(*                                                                         *)
(* A message is a run of units, the last of which is its terminating NUL;  *)
(* a unit stands for a block of bytes, so the numbers below are in blocks. *)
(* The n-th message written is number n.  A write of at most PIPE_BUF      *)
(* bytes enters the pipe whole (POSIX), and waits for room to do so.       *)
(***************************************************************************)
EXTENDS Integers, FiniteSets, SequencesExt

CONSTANTS Writer,        \* threads of the gateway that log
          PIPE_SIZE,     \* size of recv_buf, as in config.h
          Length,        \* lengths of a message, its NUL included
          Capacity,      \* what the kernel buffers in the pipe
          MaxMessages    \* bound: messages written in all

ASSUME SizeAssumption ==
  /\ PIPE_SIZE \in Nat \ {0} /\ Capacity \in Nat /\ MaxMessages \in Nat
  /\ Length \subseteq 1..Capacity

\* The texts in the code fit recv_buf; those that quote an SQLite error may not.
ASSUME FitAssumption == Length \subseteq 1..PIPE_SIZE

VARIABLES
  pipe,       \* units in the pipe, oldest first
  writeEnd,   \* processes that hold the write end open
  readEnd,    \* processes that hold the read end open
  pipe_mutex, \* the thread that holds it, or "none"
  pc,         \* of each writer: where it stands in write_pipe
  len,        \* of each writer: length of the message it writes
  gateway,    \* "start", "running", "ended" (return, exit or crash), "killed"
  child,      \* where the log process stands
  recv_buf,   \* its buffer
  res,        \* result of its last read
  lines,      \* what it has logged, without sequence numbers and last line
  written,    \* auxiliary: number of messages written
  alone       \* auxiliary: the texts that found the pipe empty

writers == <<pipe_mutex, pc, len>>
ends == <<writeEnd, readEnd>>
history == <<written, alone>>
vars == <<pipe, ends, writers, gateway, child, recv_buf, res, lines, history>>

\* Unit k of message m; the NUL is unit 0.
Unit == [msg : 1..MaxMessages, k : Nat]
Junk == [msg |-> 0, k |-> 1]      \* a byte nobody wrote
NUL(u) == u.msg # 0 /\ u.k = 0

\* Slip: strlen(buff) where the code has strlen(buff)+1.
Message_NoNul(m, n) == [k \in 1..n |-> [msg |-> m, k |-> k]]
Message(m, n) == [k \in 1..n |-> [msg |-> m, k |-> IF k = n THEN 0 ELSE k]]

\* What is printed of it.
Text(m, n) == [k \in 1..n - 1 |-> [msg |-> m, k |-> k]]

\* After pipe() and fork(): both processes hold both ends.  If pipe() failed,
\* which is printed only, they go on with no descriptors; if fork() failed, there
\* is neither a gateway nor a log.
Init ==
  /\ pipe = <<>>
  /\ \/ writeEnd = {"gateway", "log"} /\ gateway = "start" /\ child = "start"
     \/ writeEnd = {} /\ gateway = "start" /\ child = "start"
     \/ writeEnd = {} /\ gateway = "ended" /\ child = "failed"
  /\ readEnd = writeEnd
  /\ pipe_mutex = "none" /\ pc = [w \in Writer |-> "idle"]
  /\ len = [w \in Writer |-> 1]
  /\ recv_buf = [k \in 1..PIPE_SIZE |-> Junk] /\ res = 0
  /\ lines = <<>> /\ written = 0 /\ alone = {}

-----------------------------------------------------------------------------
(* The gateway process. *)

GatewayStart ==
  /\ gateway = "start" /\ gateway' = "running"
  /\ readEnd' = readEnd \ {"gateway"}
  /\ UNCHANGED <<pipe, writeEnd, writers, child, recv_buf, res, lines, history>>

\* A thread has a message to log.
write_pipe(w) ==
  /\ gateway = "running" /\ pc[w] = "idle"
  /\ written + Cardinality({v \in Writer : pc[v] \in {"lock", "write"}}) < MaxMessages
  /\ pc' = [pc EXCEPT ![w] = "lock"]
  /\ \E n \in Length : len' = [len EXCEPT ![w] = n]
  /\ UNCHANGED <<pipe, ends, pipe_mutex, gateway, child, recv_buf, res, lines, history>>

Lock(w) ==
  /\ gateway = "running" /\ pc[w] = "lock" /\ pipe_mutex = "none"
  /\ pipe_mutex' = w /\ pc' = [pc EXCEPT ![w] = "write"]
  /\ UNCHANGED <<pipe, ends, len, gateway, child, recv_buf, res, lines, history>>

Write(w) ==
  /\ gateway = "running" /\ pc[w] = "write" /\ "gateway" \in writeEnd /\ readEnd # {}
  /\ Len(pipe) + len[w] =< Capacity
  /\ written' = written + 1
  /\ pipe' = pipe \o Message(written', len[w])
  /\ alone' = IF pipe = <<>> THEN alone \cup {Text(written', len[w])} ELSE alone
  /\ pc' = [pc EXCEPT ![w] = "unlock"]
  /\ UNCHANGED <<ends, pipe_mutex, len, gateway, child, recv_buf, res, lines>>

\* There is no pipe: what write says is ignored.  (The number in pfd is 0; a file
\* opened under it later would get the message, which is not modelled.)
WriteFails(w) ==
  /\ gateway = "running" /\ pc[w] = "write" /\ "gateway" \notin writeEnd
  /\ pc' = [pc EXCEPT ![w] = "unlock"]
  /\ UNCHANGED <<pipe, ends, pipe_mutex, len, gateway, child, recv_buf, res, lines, history>>

\* Nobody can read any more: SIGPIPE ends the gateway.
BrokenPipe(w) ==
  /\ gateway = "running" /\ pc[w] = "write" /\ "gateway" \in writeEnd /\ readEnd = {}
  /\ gateway' = "killed" /\ writeEnd' = writeEnd \ {"gateway"}
  /\ UNCHANGED <<pipe, readEnd, writers, child, recv_buf, res, lines, history>>

\* Slip: the mutex is never released.
Unlock_Missing(w) ==
  /\ gateway = "running" /\ pc[w] = "unlock"
  /\ pc' = [pc EXCEPT ![w] = "idle"]
  /\ UNCHANGED <<pipe, ends, pipe_mutex, len, gateway, child, recv_buf, res, lines, history>>

Unlock(w) ==
  /\ gateway = "running" /\ pc[w] = "unlock"
  /\ pipe_mutex' = "none" /\ pc' = [pc EXCEPT ![w] = "idle"]
  /\ UNCHANGED <<pipe, ends, len, gateway, child, recv_buf, res, lines, history>>

\* main closes the pipe after its threads, or the process exits or crashes
\* with its threads anywhere: the kernel closes the write end.
GatewayEnd ==
  /\ gateway = "running" /\ gateway' = "ended"
  /\ writeEnd' = writeEnd \ {"gateway"}
  /\ UNCHANGED <<pipe, readEnd, writers, child, recv_buf, res, lines, history>>

-----------------------------------------------------------------------------
(* The log process. *)

\* Slip: the log process keeps its write end.
CloseWriteEnd_Missing ==
  /\ child = "start" /\ child' = "open"
  /\ UNCHANGED <<pipe, ends, writers, gateway, recv_buf, res, lines, history>>

CloseWriteEnd ==
  /\ child = "start" /\ child' = "open"
  /\ writeEnd' = writeEnd \ {"log"}
  /\ UNCHANGED <<pipe, readEnd, writers, gateway, recv_buf, res, lines, history>>

\* fopen, which may fail and end the process.
OpenLog ==
  /\ child = "open"
  /\ \/ child' = "read" /\ UNCHANGED readEnd
     \/ child' = "failed" /\ readEnd' = readEnd \ {"log"}
  /\ UNCHANGED <<pipe, writeEnd, writers, gateway, recv_buf, res, lines, history>>

\* How much a read of a pipe with something in it returns.
\* Slip: one byte is kept for a terminator.
Amount_Short == IF Len(pipe) < PIPE_SIZE THEN Len(pipe) ELSE PIPE_SIZE - 1
\* Slip: more than recv_buf holds.
Amount_Unbounded == Len(pipe)
Amount == IF Len(pipe) < PIPE_SIZE THEN Len(pipe) ELSE PIPE_SIZE

\* read returns what is there, up to PIPE_SIZE, or 0 when no process can write
\* any more; otherwise it waits.
Read ==
  /\ child = "read" /\ "log" \in readEnd
  /\ \/ /\ pipe # <<>>
        /\ res' = Amount
        /\ recv_buf' = [k \in 1..PIPE_SIZE |-> IF k =< res' THEN pipe[k] ELSE recv_buf[k]]
        /\ pipe' = SubSeq(pipe, res' + 1, Len(pipe))
        /\ child' = "log"
     \/ /\ pipe = <<>> /\ writeEnd = {}
        /\ res' = 0 /\ child' = "end" /\ UNCHANGED <<recv_buf, pipe>>
  /\ UNCHANGED <<ends, writers, gateway, lines, history>>

\* It fails; there may be no pipe.
ReadError ==
  /\ child = "read" /\ child' = "end" /\ res' = -1
  /\ UNCHANGED <<pipe, ends, writers, gateway, recv_buf, lines, history>>

\* Slip: all that was read, not up to the first NUL.
Printed_All == SubSeq(recv_buf, 1, res)

\* asprintf with %s: recv_buf up to the first NUL, wherever that came from.
Printed ==
  LET nuls == {k \in 1..PIPE_SIZE : NUL(recv_buf[k])}
      n == IF nuls = {} THEN PIPE_SIZE
           ELSE (CHOOSE k \in nuls : \A j \in nuls : k =< j) - 1
  IN  SubSeq(recv_buf, 1, n)

LogLine ==
  /\ child = "log" /\ child' = "read"
  /\ lines' = Append(lines, Printed)
  /\ UNCHANGED <<pipe, ends, writers, gateway, recv_buf, res, history>>

\* The last line says how reading ended; then the pipe and the file are closed.
EndLog ==
  /\ child = "end" /\ child' = "done"
  /\ readEnd' = readEnd \ {"log"}
  /\ UNCHANGED <<pipe, writeEnd, writers, gateway, recv_buf, res, lines, history>>

-----------------------------------------------------------------------------
Thread(w) == Lock(w) \/ Write(w) \/ WriteFails(w) \/ BrokenPipe(w) \/ Unlock(w)
LogProcess == \/ CloseWriteEnd \/ OpenLog \/ Read \/ LogLine \/ EndLog
              \/ readEnd = {} /\ ReadError

Next == \/ GatewayStart \/ GatewayEnd
        \/ \E w \in Writer : write_pipe(w) \/ Thread(w)
        \/ LogProcess \/ ReadError

Spec == Init /\ [][Next]_vars

\* Processes and threads are scheduled, and a thread that finds the mutex free
\* again and again gets it.  The gateway need not log, nor end; reads may fail.
FairSpec == /\ Spec /\ WF_vars(GatewayStart) /\ WF_vars(LogProcess)
            /\ \A w \in Writer : /\ SF_vars(Lock(w))
                                 /\ WF_vars(Write(w) \/ WriteFails(w) \/ BrokenPipe(w) \/ Unlock(w))

-----------------------------------------------------------------------------
(* Properties. *)

TypeOK ==
  /\ \A k \in 1..Len(pipe) : pipe[k] \in Unit
  /\ Len(pipe) =< Capacity
  /\ writeEnd \subseteq {"gateway", "log"} /\ readEnd \subseteq {"gateway", "log"}
  /\ pipe_mutex \in Writer \cup {"none"}
  /\ pc \in [Writer -> {"idle", "lock", "write", "unlock"}]
  /\ len \in [Writer -> Length \cup {1}]
  /\ gateway \in {"start", "running", "ended", "killed"}
  /\ child \in {"start", "open", "read", "log", "end", "done", "failed"}
  /\ \A k \in 1..PIPE_SIZE : recv_buf[k] \in Unit \cup {Junk}
  /\ res \in -1..PIPE_SIZE /\ written \in 0..MaxMessages

\* However writes and reads fall together, what one read returns holds a NUL,
\* so %s prints nothing of an earlier read and does not leave recv_buf.
Terminated == child = "log" => \E k \in 1..res : NUL(recv_buf[k])

\* Units a and b follow each other in the stream of messages.
Before(a, b) == \/ a.msg < b.msg
                \/ a.msg = b.msg /\ a.k < b.k /\ a.k # 0

\* The log keeps the order of the writes and repeats nothing: a line is a run
\* of one message, and a later line is from later in the stream.
LogInOrder ==
  /\ \A n \in 1..Len(lines) : \A j \in 1..Len(lines[n]) - 1 :
       /\ lines[n][j].msg = lines[n][j + 1].msg
       /\ lines[n][j + 1].k = lines[n][j].k + 1
  /\ \A n, m \in 1..Len(lines) :
       n < m => \A a \in ToSet(lines[n]), b \in ToSet(lines[m]) : Before(a, b)

\* What is written is logged however the gateway ends, a crash in the middle of
\* write_pipe included: when reading has ended without an error, each message that
\* found the pipe empty is in the log, whole and on a line of its own.  One that
\* did not may have been lost behind another in the same read.
WrittenIsLogged == child = "done" /\ res = 0 => alone \subseteq ToSet(lines)

\* The log process ends when the gateway is gone, however that ended.
LogEnds == gateway \in {"ended", "killed"} ~> child \in {"done", "failed"}

\* The log never holds a thread of the gateway for ever.
WritersGoOn == \A w \in Writer :
  pc[w] # "idle" ~> (pc[w] = "idle" \/ gateway \in {"ended", "killed"})
=============================================================================
