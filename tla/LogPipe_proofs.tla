--------------------------- MODULE LogPipe_proofs ---------------------------
(***************************************************************************)
(* Proofs about LogPipe for any number of threads and messages, and any    *)
(* sizes of the buffer and of the pipe that fit the messages.              *)
(***************************************************************************)
EXTENDS LogPipe, SequenceTheorems, FiniteSetTheorems, WellFoundedInduction, TLAPS

-----------------------------------------------------------------------------
(* Types. *)

\* Threads whose message is still to be written.
Pending == {w \in Writer : pc[w] \in {"lock", "write"}}

\* Each of them has a message number of its own left.
TypeInv ==
  /\ pipe \in Seq(Unit) /\ Len(pipe) =< Capacity
  /\ writeEnd \subseteq {"gateway", "log"} /\ readEnd \subseteq {"gateway", "log"}
  /\ pipe_mutex \in Writer \cup {"none"}
  /\ pc \in [Writer -> {"idle", "lock", "write", "unlock"}]
  /\ len \in [Writer -> Length \cup {1}]
  /\ gateway \in {"start", "running", "ended", "killed"}
  /\ child \in {"start", "open", "read", "log", "end", "done", "failed"}
  /\ recv_buf \in [1..PIPE_SIZE -> Unit \cup {Junk}]
  /\ res \in -1..PIPE_SIZE
  /\ written \in Nat /\ IsFiniteSet(Pending)
  /\ written + Cardinality(Pending) =< MaxMessages

LEMMA UnitProperties ==
  ASSUME NEW u \in Unit
  PROVE  u.msg \in Nat \ {0} /\ u.msg \in 1..MaxMessages /\ u.k \in Nat
  BY SizeAssumption DEF Unit

\* A function on 1..n is a sequence of length n.
LEMMA FunctionIsSeq ==
  ASSUME NEW S, NEW n \in Nat, NEW f \in [1..n -> S]
  PROVE  f \in Seq(S) /\ Len(f) = n /\ DOMAIN f = 1..n
  OBVIOUS

\* What a write puts into the pipe.
LEMMA MessageProperties ==
  ASSUME NEW m \in 1..MaxMessages, NEW n \in Nat \ {0}
  PROVE  /\ Message(m, n) \in Seq(Unit) /\ Len(Message(m, n)) = n
         /\ \A k \in 1..n : /\ Message(m, n)[k].msg = m
                            /\ Message(m, n)[k].k = IF k = n THEN 0 ELSE k
PROOF
<1> DEFINE f == Message(m, n)
<1>1. f \in [1..n -> Unit]
  BY DEF Message, Unit
<1>2. f \in Seq(Unit) /\ Len(f) = n
  BY <1>1, FunctionIsSeq
<1>3. \A k \in 1..n : f[k].msg = m /\ f[k].k = IF k = n THEN 0 ELSE k
  BY DEF Message
<1> QED BY <1>2, <1>3

\* Sequence t is s followed by message m of n units.
Extends(t, s, m, n) ==
  /\ t \in Seq(Unit) /\ Len(t) = Len(s) + n
  /\ \A i \in 1..Len(s) : t[i] = s[i]
  /\ \A i \in Len(s) + 1..Len(s) + n :
       t[i].msg = m /\ t[i].k = IF i = Len(s) + n THEN 0 ELSE i - Len(s)

LEMMA WriteProperties ==
  ASSUME NEW m \in 1..MaxMessages, NEW n \in Nat \ {0}, NEW s \in Seq(Unit)
  PROVE  Extends(s \o Message(m, n), s, m, n)
PROOF
<1> DEFINE f == Message(m, n)
           t == s \o f
<1>1. f \in Seq(Unit) /\ Len(f) = n
  BY MessageProperties
<1>2. \A k \in 1..n : f[k].msg = m /\ f[k].k = IF k = n THEN 0 ELSE k
  BY MessageProperties
<1> HIDE DEF f
<1>4. /\ t \in Seq(Unit) /\ Len(t) = Len(s) + n
      /\ \A i \in 1..Len(s) + n : t[i] = IF i <= Len(s) THEN s[i] ELSE f[i - Len(s)]
  BY <1>1, ConcatProperties
<1>5. Len(s) \in Nat
  BY LenProperties
<1> HIDE DEF t
<1>6. \A i \in 1..Len(s) : t[i] = s[i]
  BY <1>4, <1>5
<1>7. ASSUME NEW i \in Len(s) + 1..Len(s) + n
      PROVE  t[i].msg = m /\ t[i].k = IF i = Len(s) + n THEN 0 ELSE i - Len(s)
  <2>1. i \in 1..Len(s) + n /\ ~ (i <= Len(s)) /\ i - Len(s) \in 1..n
    BY <1>5
  <2>2. t[i] = f[i - Len(s)]
    BY <2>1, <1>4
  <2>3. t[i].msg = m /\ t[i].k = IF i - Len(s) = n THEN 0 ELSE i - Len(s)
    BY <2>1, <2>2, <1>2
  <2> QED BY <2>3, <1>5
<1>8. Extends(t, s, m, n)
  BY <1>4, <1>6, <1>7 DEF Extends
<1> QED BY <1>8 DEF t, f

\* What a read takes, and what it leaves.
LEMMA ReadProperties ==
  ASSUME NEW S, NEW s \in Seq(S), NEW n \in 0..Len(s)
  PROVE  /\ SubSeq(s, n + 1, Len(s)) \in Seq(S)
         /\ Len(SubSeq(s, n + 1, Len(s))) = Len(s) - n
         /\ \A i \in 1..Len(s) - n : SubSeq(s, n + 1, Len(s))[i] = s[n + i]
PROOF
<1>1. Len(s) \in Nat /\ \A i \in n + 1..Len(s) : s[i] \in S
  BY LenProperties, ElementOfSeq
<1>2. /\ SubSeq(s, n + 1, Len(s)) \in Seq(S)
      /\ Len(SubSeq(s, n + 1, Len(s))) = IF n + 1 <= Len(s) THEN Len(s) - (n + 1) + 1 ELSE 0
      /\ \A i \in 1..Len(s) - (n + 1) + 1 : SubSeq(s, n + 1, Len(s))[i] = s[n + 1 + i - 1]
  BY <1>1, SubSeqProperties
<1> QED BY <1>1, <1>2

\* How much a read takes.
LEMMA AmountProperties ==
  ASSUME pipe \in Seq(Unit), pipe # <<>>
  PROVE  /\ Amount \in 1..Len(pipe) /\ Amount \in 1..PIPE_SIZE
         /\ Amount = Len(pipe) \/ Amount = PIPE_SIZE
  BY EmptySeq, SizeAssumption DEF Amount

LEMMA LengthProperties ==
  ASSUME NEW n \in Length \cup {1} PROVE n \in 1..PIPE_SIZE /\ n \in Nat \ {0}
  BY FitAssumption, SizeAssumption

LEMMA TypeInvStep ==
  ASSUME TypeInv, [Next]_vars PROVE TypeInv'
PROOF
<1> USE DEF TypeInv, ends, writers, history
<1>1. CASE GatewayStart \/ GatewayEnd
  BY <1>1 DEF GatewayStart, GatewayEnd, Pending
<1>2. ASSUME NEW w \in Writer, write_pipe(w) PROVE TypeInv'
  <2>1. /\ pc' = [pc EXCEPT ![w] = "lock"] /\ pc[w] = "idle"
        /\ written + Cardinality(Pending) < MaxMessages
        /\ UNCHANGED <<pipe, ends, pipe_mutex, gateway, child, recv_buf, res, lines, written>>
    BY <1>2 DEF write_pipe, Pending
  <2>2. len' \in [Writer -> Length \cup {1}]
    BY <1>2 DEF write_pipe
  <2>3. Pending' = Pending \cup {w} /\ w \notin Pending
    BY <2>1 DEF Pending
  <2>4. IsFiniteSet(Pending') /\ Cardinality(Pending') = Cardinality(Pending) + 1
    BY <2>3, FS_AddElement
  <2>5. Cardinality(Pending) \in Nat
    BY FS_CardinalityType
  <2>6. written' + Cardinality(Pending') =< MaxMessages
    BY <2>1, <2>4, <2>5, SizeAssumption
  <2> QED BY <2>1, <2>2, <2>4, <2>6
<1>3. ASSUME NEW w \in Writer, Lock(w) \/ WriteFails(w) \/ BrokenPipe(w) \/ Unlock(w)
      PROVE  TypeInv'
  <2>1. CASE WriteFails(w)
    <3>1. Pending' = Pending \ {w} /\ written' = written
      BY <2>1 DEF WriteFails, Pending
    <3>2. /\ IsFiniteSet(Pending') /\ Cardinality(Pending') =< Cardinality(Pending)
          /\ Cardinality(Pending) \in Nat /\ Cardinality(Pending') \in Nat
      BY <3>1, FS_Subset, FS_CardinalityType
    <3>3. written' + Cardinality(Pending') =< MaxMessages
      BY <3>1, <3>2, SizeAssumption
    <3> QED BY <2>1, <3>1, <3>2, <3>3 DEF WriteFails
  <2>2. CASE ~ WriteFails(w)
    <3>1. Pending' = Pending
      BY <1>3, <2>2 DEF Lock, BrokenPipe, Unlock, Pending
    <3> QED BY <1>3, <2>2, <3>1 DEF Lock, BrokenPipe, Unlock
  <2> QED BY <2>1, <2>2
<1>4. ASSUME NEW w \in Writer, Write(w) PROVE TypeInv'
  <2>1. /\ pc' = [pc EXCEPT ![w] = "unlock"] /\ pc[w] = "write"
        /\ written' = written + 1 /\ Len(pipe) + len[w] =< Capacity
        /\ pipe' = pipe \o Message(written', len[w])
        /\ UNCHANGED <<ends, pipe_mutex, len, gateway, child, recv_buf, res, lines>>
    BY <1>4 DEF Write
  <2>2. Pending' = Pending \ {w} /\ w \in Pending
    BY <2>1 DEF Pending
  <2>3. IsFiniteSet(Pending') /\ Cardinality(Pending') = Cardinality(Pending) - 1
    BY <2>2, FS_RemoveElement
  <2>4. Cardinality(Pending) \in Nat /\ Cardinality(Pending') \in Nat
    BY <2>3, FS_CardinalityType
  <2>5. written' + Cardinality(Pending') =< MaxMessages /\ written' \in 1..MaxMessages
    BY <2>1, <2>3, <2>4, SizeAssumption
  <2>6. len[w] \in Nat \ {0}
    BY LengthProperties
  <2>7. pipe' \in Seq(Unit) /\ Len(pipe') = Len(pipe) + len[w]
    <3>1. Extends(pipe', pipe, written', len[w])
      BY <2>1, <2>5, <2>6, WriteProperties
    <3> QED BY <3>1 DEF Extends
  <2> QED BY <2>1, <2>3, <2>5, <2>7
<1>5. CASE CloseWriteEnd \/ OpenLog \/ LogLine \/ EndLog \/ ReadError
  <2>1. Pending' = Pending
    BY <1>5 DEF CloseWriteEnd, OpenLog, LogLine, EndLog, ReadError, Pending
  <2>2. CASE CloseWriteEnd \/ OpenLog
    BY <2>1, <2>2 DEF CloseWriteEnd, OpenLog
  <2>3. CASE LogLine \/ EndLog
    BY <2>1, <2>3 DEF LogLine, EndLog
  <2>4. CASE ReadError
    BY <2>1, <2>4, SizeAssumption DEF ReadError
  <2> QED BY <1>5, <2>2, <2>3, <2>4
<1>6. CASE Read
  <2>1. UNCHANGED <<ends, writers, gateway, lines, history>> /\ Pending' = Pending
    BY <1>6 DEF Read, Pending
  <2>2. CASE pipe # <<>> /\ child' = "log"
    <3>1. /\ res' = Amount
          /\ recv_buf' = [k \in 1..PIPE_SIZE |-> IF k =< res' THEN pipe[k] ELSE recv_buf[k]]
          /\ pipe' = SubSeq(pipe, res' + 1, Len(pipe))
      BY <2>2, <1>6 DEF Read
    <3>2. Amount \in 1..Len(pipe) /\ Amount \in 1..PIPE_SIZE /\ Len(pipe) \in Nat
      BY <2>2, AmountProperties, LenProperties
    <3>3. pipe' \in Seq(Unit) /\ Len(pipe') = Len(pipe) - res'
      BY <3>1, <3>2, ReadProperties
    <3>4. \A k \in 1..PIPE_SIZE : k =< res' => pipe[k] \in Unit
      BY <3>1, <3>2, ElementOfSeq
    <3>5. recv_buf' \in [1..PIPE_SIZE -> Unit \cup {Junk}]
      BY <3>1, <3>4
    <3> QED BY <2>1, <2>2, <3>1, <3>2, <3>3, <3>5, SizeAssumption
  <2>3. CASE res' = 0 /\ child' = "end" /\ UNCHANGED <<recv_buf, pipe>>
    BY <2>1, <2>3, SizeAssumption
  <2> QED BY <1>6, <2>2, <2>3 DEF Read
<1>7. CASE UNCHANGED vars
  BY <1>7 DEF vars, Pending
<1> QED BY <1>1, <1>2, <1>3, <1>4, <1>5, <1>6, <1>7 DEF Next, LogProcess, Thread

LEMMA TypeInvInit == Init => TypeInv
PROOF
<1> SUFFICES ASSUME Init PROVE TypeInv
  OBVIOUS
<1>1. Pending = {}
  BY DEF Init, Pending
<1>2. IsFiniteSet(Pending) /\ Cardinality(Pending) = 0
  BY <1>1, FS_EmptySet
<1>3. pipe \in Seq(Unit) /\ Len(pipe) = 0
  BY EmptySeq DEF Init
<1> QED BY <1>2, <1>3, SizeAssumption DEF Init, TypeInv

\* Every variable keeps its type: in particular the pipe never exceeds what the
\* kernel buffers, and a read never returns more than recv_buf holds.
THEOREM TypeInvariance == Spec => []TypeOK
<1>1. TypeInv => TypeOK
  <2> SUFFICES ASSUME TypeInv PROVE TypeOK
    OBVIOUS
  <2>1. \A k \in 1..Len(pipe) : pipe[k] \in Unit
    BY ElementOfSeq DEF TypeInv
  <2>2. Cardinality(Pending) \in Nat
    BY FS_CardinalityType DEF TypeInv
  <2>3. written \in 0..MaxMessages
    BY <2>2, SizeAssumption DEF TypeInv
  <2> QED BY <2>1, <2>3 DEF TypeInv, TypeOK
<1> QED BY <1>1, TypeInvInit, TypeInvStep, PTL DEF Spec

-----------------------------------------------------------------------------
(* The stream of units, of which recv_buf and the pipe hold adjacent parts. *)

\* Unit a comes before unit b in the stream of messages.
Precedes(a, b) ==
  \/ a.msg < b.msg
  \/ a.msg = b.msg /\ a.k # 0 /\ (b.k = 0 \/ a.k < b.k)

\* Between units i and j of s: a NUL, or consecutive units of one message.
Run(s, i, j) ==
  \/ \E h \in i..j : s[h].k = 0
  \/ s[j].msg = s[i].msg /\ s[j].k = s[i].k + (j - i)

\* The first n units of s are consecutive in the stream of messages 1..m.
Stream(s, n, m) ==
  /\ \A i \in 1..n : s[i] \in Unit /\ s[i].msg =< m /\ s[i].k < PIPE_SIZE
  /\ \A i, j \in 1..n : i < j => Precedes(s[i], s[j]) /\ Run(s, i, j)

\* The first n units of s come before the first l units of t.
Ahead(s, n, t, l) == \A i \in 1..n, j \in 1..l : Precedes(s[i], t[j])

\* A part of a stream is a stream.
LEMMA StreamPart ==
  ASSUME NEW s, NEW l \in Nat, NEW m \in Nat, Stream(s, l, m),
         NEW q \in Nat, NEW n \in Nat, q + n =< l,
         NEW t, \A i \in 1..n : t[i] = s[q + i]
  PROVE  Stream(t, n, m)
PROOF
<1>1. \A i \in 1..n : q + i \in 1..l
  OBVIOUS
<1>2. \A i \in 1..n : t[i] \in Unit /\ t[i].msg =< m /\ t[i].k < PIPE_SIZE
  BY <1>1 DEF Stream
<1>3. ASSUME NEW i \in 1..n, NEW j \in 1..n, i < j
      PROVE  Precedes(t[i], t[j]) /\ Run(t, i, j)
  <2>1. q + i \in 1..l /\ q + j \in 1..l /\ q + i < q + j
    BY <1>1, <1>3
  <2>2. Precedes(s[q + i], s[q + j]) /\ Run(s, q + i, q + j)
    BY <2>1 DEF Stream
  <2>3. t[i] = s[q + i] /\ t[j] = s[q + j]
    OBVIOUS
  <2>4. CASE \E h \in q + i..q + j : s[h].k = 0
    <3>1. PICK h \in q + i..q + j : s[h].k = 0
      BY <2>4
    <3>2. h - q \in i..j /\ h - q \in 1..n /\ q + (h - q) = h
      BY <3>1
    <3>3. t[h - q].k = 0
      BY <3>1, <3>2
    <3> QED BY <2>2, <2>3, <3>2, <3>3 DEF Run
  <2>5. CASE s[q + j].msg = s[q + i].msg /\ s[q + j].k = s[q + i].k + ((q + j) - (q + i))
    <3>1. (q + j) - (q + i) = j - i
      OBVIOUS
    <3> QED BY <2>2, <2>3, <2>5, <3>1 DEF Run
  <2> QED BY <2>2, <2>4, <2>5 DEF Run
<1> QED BY <1>2, <1>3 DEF Stream

\* In a stream, PIPE_SIZE units in a row hold a NUL: a message is no longer.
LEMMA StreamHoldsNul ==
  ASSUME NEW s, NEW m \in Nat, Stream(s, PIPE_SIZE, m)
  PROVE  \E i \in 1..PIPE_SIZE : s[i].k = 0
PROOF
<1> SUFFICES ASSUME \A i \in 1..PIPE_SIZE : s[i].k # 0 PROVE FALSE
  OBVIOUS
<1>1. PIPE_SIZE \in Nat /\ 1 \in 1..PIPE_SIZE /\ PIPE_SIZE \in 1..PIPE_SIZE
  BY SizeAssumption
<1>2. s[1].k \in Nat /\ s[1].k # 0 /\ s[1].k < PIPE_SIZE /\ s[PIPE_SIZE].k < PIPE_SIZE
  BY <1>1 DEF Stream, Unit
<1>3. 1 < PIPE_SIZE
  BY <1>1, <1>2
<1>4. Run(s, 1, PIPE_SIZE)
  BY <1>1, <1>3 DEF Stream
<1>5. s[PIPE_SIZE].k = s[1].k + (PIPE_SIZE - 1)
  BY <1>4 DEF Run
<1> QED BY <1>1, <1>2, <1>5

\* A write continues the stream, with a NUL at its end.
LEMMA StreamGrows ==
  ASSUME NEW s \in Seq(Unit), NEW m \in 1..MaxMessages, NEW n \in 1..PIPE_SIZE,
         Stream(s, Len(s), m - 1), Len(s) > 0 => s[Len(s)].k = 0,
         NEW t \in Seq(Unit), Len(t) = Len(s) + n,
         \A i \in 1..Len(s) : t[i] = s[i],
         \A i \in Len(s) + 1..Len(s) + n :
           /\ t[i].msg = m
           /\ t[i].k = IF i = Len(s) + n THEN 0 ELSE i - Len(s)
  PROVE  Stream(t, Len(t), m) /\ t[Len(t)].k = 0
PROOF
<1> DEFINE l == Len(s)
<1>1. l \in Nat /\ n \in Nat \ {0} /\ Len(t) = l + n /\ PIPE_SIZE \in Nat
      /\ n =< PIPE_SIZE /\ m \in Nat
  BY LenProperties, SizeAssumption
<1>2. \A i \in 1..l : t[i] = s[i] /\ s[i] \in Unit /\ s[i].msg =< m - 1 /\ s[i].k < PIPE_SIZE
  BY DEF Stream
<1>3. \A i \in l + 1..l + n :
        t[i].msg = m /\ t[i].k = IF i = l + n THEN 0 ELSE i - l
  OBVIOUS
<1>4. \A i \in 1..l + n : t[i] \in Unit
  BY <1>1, ElementOfSeq
<1>5. \A i, j \in 1..l : i < j => Precedes(s[i], s[j]) /\ Run(s, i, j)
  BY DEF Stream
<1>6. l > 0 => s[l].k = 0
  OBVIOUS
<1> HIDE DEF l
<1>7. ASSUME NEW i \in 1..l + n
      PROVE  t[i].msg =< m /\ t[i].k < PIPE_SIZE
  <2>1. CASE i \in 1..l
    <3>1. s[i].msg \in Nat
      BY <1>2, <2>1, UnitProperties
    <3> QED BY <1>1, <1>2, <2>1, <3>1
  <2>2. CASE i \in l + 1..l + n
    BY <1>1, <1>3, <2>2
  <2> QED BY <1>1, <2>1, <2>2
<1>8. ASSUME NEW i \in 1..l + n, NEW j \in 1..l + n, i < j
      PROVE  Precedes(t[i], t[j]) /\ Run(t, i, j)
  <2>1. CASE j \in 1..l
    <3>1. i \in 1..l /\ i..j \subseteq 1..l
      BY <1>1, <1>8, <2>1
    <3>2. Precedes(s[i], s[j]) /\ Run(s, i, j)
      BY <1>5, <1>8, <2>1, <3>1
    <3>3. t[i] = s[i] /\ t[j] = s[j] /\ \A h \in i..j : t[h] = s[h]
      BY <1>2, <2>1, <3>1
    <3> QED BY <3>2, <3>3 DEF Run
  <2>2. CASE i \in 1..l /\ j \in l + 1..l + n
    <3>1. s[i].msg \in Nat /\ s[i].msg =< m - 1 /\ t[i] = s[i] /\ t[j].msg = m
      BY <1>2, <1>3, <2>2, UnitProperties
    <3>2. Precedes(t[i], t[j])
      BY <3>1, <1>1 DEF Precedes
    <3>3. l \in i..j /\ l \in 1..l /\ l > 0
      BY <1>1, <2>2
    <3>4. t[l].k = 0
      BY <1>2, <1>6, <3>3
    <3> QED BY <3>2, <3>3, <3>4 DEF Run
  <2>3. CASE i \in l + 1..l + n
    <3>1. j \in l + 1..l + n /\ i # l + n
      BY <1>1, <1>8, <2>3
    <3>2. t[i].msg = m /\ t[i].k = i - l /\ t[j].msg = m
      BY <1>3, <2>3, <3>1
    <3>3. t[j].k = IF j = l + n THEN 0 ELSE j - l
      BY <1>3, <3>1
    <3>4. Precedes(t[i], t[j])
      BY <1>1, <1>8, <2>3, <3>1, <3>2, <3>3 DEF Precedes
    <3>5. CASE j = l + n
      BY <1>8, <1>1, <3>3, <3>4, <3>5, <2>3 DEF Run
    <3>6. CASE j # l + n
      <4>1. t[j].k = t[i].k + (j - i)
        BY <1>1, <2>3, <3>1, <3>2, <3>3, <3>6
      <4> QED BY <3>2, <3>4, <4>1 DEF Run
    <3> QED BY <3>5, <3>6
  <2> QED BY <1>1, <2>1, <2>2, <2>3
<1>9. t[l + n].k = 0
  BY <1>1, <1>3
<1> QED BY <1>1, <1>4, <1>7, <1>8, <1>9 DEF Stream

\* What was written before a message comes before it.
LEMMA AheadOfWrite ==
  ASSUME NEW r, NEW q \in Nat, NEW s \in Seq(Unit), NEW m \in 1..MaxMessages,
         NEW n \in Nat \ {0},
         \A i \in 1..q : r[i] \in Unit /\ r[i].msg =< m - 1,
         Ahead(r, q, s, Len(s)),
         NEW t, \A i \in 1..Len(s) : t[i] = s[i],
         \A i \in Len(s) + 1..Len(s) + n : t[i].msg = m
  PROVE  Ahead(r, q, t, Len(s) + n)
PROOF
<1> SUFFICES ASSUME NEW i \in 1..q, NEW j \in 1..Len(s) + n PROVE Precedes(r[i], t[j])
  BY DEF Ahead
<1>1. Len(s) \in Nat
  BY LenProperties
<1>2. CASE j \in 1..Len(s)
  BY <1>2 DEF Ahead
<1>3. CASE j \in Len(s) + 1..Len(s) + n
  <2>1. r[i].msg \in Nat /\ r[i].msg =< m - 1 /\ t[j].msg = m
    BY <1>3 DEF Unit
  <2> QED BY <2>1 DEF Precedes
<1> QED BY <1>1, <1>2, <1>3

-----------------------------------------------------------------------------
(* The log holds the stream, then recv_buf, then the pipe. *)

\* The pipe ends with a whole message.
StreamInv ==
  /\ Stream(pipe, Len(pipe), written)
  /\ Len(pipe) > 0 => pipe[Len(pipe)].k = 0

\* What was read and is still to be logged holds a NUL.
BufInv == child = "log" =>
  /\ res \in 1..PIPE_SIZE /\ Stream(recv_buf, res, written)
  /\ \E i \in 1..res : recv_buf[i].k = 0
  /\ Ahead(recv_buf, res, pipe, Len(pipe))

\* The lines are runs of units in the order of the stream.
LineInv ==
  /\ lines \in Seq(Seq(Unit))
  /\ \A n \in 1..Len(lines) :
       /\ \A i \in 1..Len(lines[n]) : lines[n][i].k # 0 /\ lines[n][i].msg =< written
       /\ \A i \in 1..Len(lines[n]) - 1 :
            /\ lines[n][i + 1].msg = lines[n][i].msg
            /\ lines[n][i + 1].k = lines[n][i].k + 1
       /\ child = "log" => Ahead(lines[n], Len(lines[n]), recv_buf, res)
       /\ Ahead(lines[n], Len(lines[n]), pipe, Len(pipe))
  /\ \A n, m \in 1..Len(lines) : n < m =>
       Ahead(lines[n], Len(lines[n]), lines[m], Len(lines[m]))

PipeInv == TypeInv /\ StreamInv /\ BufInv /\ LineInv

LEMMA PipeInvInit == Init => PipeInv
PROOF
<1> SUFFICES ASSUME Init PROVE PipeInv
  OBVIOUS
<1>1. Len(pipe) = 0 /\ lines \in Seq(Seq(Unit)) /\ Len(lines) = 0 /\ child # "log"
  BY EmptySeq DEF Init
<1>2. StreamInv
  BY <1>1 DEF StreamInv, Stream
<1> QED BY <1>1, <1>2, TypeInvInit DEF PipeInv, BufInv, LineInv

\* A step that leaves the stream alone.
LEMMA QuietStep ==
  ASSUME StreamInv, BufInv, LineInv,
         UNCHANGED <<pipe, recv_buf, lines, written>>,
         child' = "log" => child = "log" /\ res' = res
  PROVE  StreamInv' /\ BufInv' /\ LineInv'
PROOF
<1>1. StreamInv'
  BY DEF StreamInv
<1>2. CASE child' = "log"
  BY <1>1, <1>2 DEF BufInv, LineInv
<1>3. CASE child' # "log"
  BY <1>1, <1>3 DEF BufInv, LineInv
<1> QED BY <1>2, <1>3

LEMMA WriteStep ==
  ASSUME PipeInv, TypeInv', NEW w \in Writer, Write(w)
  PROVE  StreamInv' /\ BufInv' /\ LineInv'
PROOF
<1>1. /\ written' = written + 1 /\ pipe' = pipe \o Message(written', len[w])
      /\ UNCHANGED <<child, recv_buf, res, lines>>
  BY DEF Write
<1>2. len[w] \in 1..PIPE_SIZE /\ len[w] \in Nat \ {0}
  BY LengthProperties DEF PipeInv, TypeInv
<1>3. written \in Nat /\ written' \in 1..MaxMessages /\ written' - 1 = written /\ pipe \in Seq(Unit)
  <2>1. Cardinality(Pending') \in Nat /\ written' + Cardinality(Pending') =< MaxMessages
    BY FS_CardinalityType DEF TypeInv
  <2>2. written \in Nat /\ pipe \in Seq(Unit)
    BY DEF PipeInv, TypeInv
  <2> QED BY <1>1, <2>1, <2>2, SizeAssumption
<1>4. /\ pipe' \in Seq(Unit) /\ Len(pipe') = Len(pipe) + len[w]
      /\ \A i \in 1..Len(pipe) : pipe'[i] = pipe[i]
      /\ \A i \in Len(pipe) + 1..Len(pipe) + len[w] :
           /\ pipe'[i].msg = written'
           /\ pipe'[i].k = IF i = Len(pipe) + len[w] THEN 0 ELSE i - Len(pipe)
  <2>1. Extends(pipe', pipe, written', len[w])
    BY <1>1, <1>2, <1>3, WriteProperties
  <2> QED BY <2>1 DEF Extends
<1>5. Stream(pipe, Len(pipe), written' - 1) /\ (Len(pipe) > 0 => pipe[Len(pipe)].k = 0)
  BY <1>3 DEF PipeInv, StreamInv
<1>6. Stream(pipe', Len(pipe'), written') /\ pipe'[Len(pipe')].k = 0
  BY <1>2, <1>3, <1>4, <1>5, StreamGrows
<1>7. StreamInv'
  BY <1>1, <1>6 DEF StreamInv
<1>8. \A i \in Len(pipe) + 1..Len(pipe) + len[w] : pipe'[i].msg = written'
  BY <1>4
<1>9. ASSUME NEW r, NEW q \in Nat, Ahead(r, q, pipe, Len(pipe)),
             \A i \in 1..q : r[i] \in Unit /\ r[i].msg =< written
      PROVE  Ahead(r, q, pipe', Len(pipe'))
  <2>1. \A i \in 1..q : r[i] \in Unit /\ r[i].msg =< written' - 1
    BY <1>3, <1>9
  <2>2. Ahead(r, q, pipe', Len(pipe) + len[w])
    BY <1>2, <1>3, <1>4, <1>8, <1>9, <2>1, AheadOfWrite
  <2> QED BY <1>4, <2>2
<1>10. BufInv'
  <2> SUFFICES ASSUME child = "log" PROVE BufInv'
    BY <1>1 DEF BufInv
  <2>1. /\ res \in 1..PIPE_SIZE /\ Stream(recv_buf, res, written)
        /\ \E i \in 1..res : recv_buf[i].k = 0
        /\ Ahead(recv_buf, res, pipe, Len(pipe))
    BY DEF PipeInv, BufInv
  <2>2. res \in Nat /\ \A i \in 1..res : recv_buf[i] \in Unit /\ recv_buf[i].msg =< written
    BY <2>1, SizeAssumption DEF Stream
  <2>3. Ahead(recv_buf, res, pipe', Len(pipe'))
    BY <1>9, <2>1, <2>2
  <2>4. Stream(recv_buf, res, written')
    <3>1. \A i \in 1..res : recv_buf[i].msg =< written'
      BY <1>1, <1>3, <2>2, UnitProperties
    <3> QED BY <2>1, <3>1 DEF Stream
  <2> QED BY <1>1, <2>1, <2>3, <2>4 DEF BufInv
<1>11. LineInv'
  <2>1. ASSUME NEW h \in 1..Len(lines)
        PROVE  /\ \A i \in 1..Len(lines[h]) : lines[h][i].k # 0 /\ lines[h][i].msg =< written'
               /\ Ahead(lines[h], Len(lines[h]), pipe', Len(pipe'))
    <3>1. lines[h] \in Seq(Unit) /\ Len(lines[h]) \in Nat
      BY ElementOfSeq, LenProperties DEF PipeInv, LineInv
    <3>2. \A i \in 1..Len(lines[h]) : /\ lines[h][i] \in Unit /\ lines[h][i].k # 0
                                      /\ lines[h][i].msg =< written
      BY <3>1, ElementOfSeq DEF PipeInv, LineInv
    <3>3. Ahead(lines[h], Len(lines[h]), pipe, Len(pipe))
      BY DEF PipeInv, LineInv
    <3>4. Ahead(lines[h], Len(lines[h]), pipe', Len(pipe'))
      BY <1>9, <3>1, <3>2, <3>3
    <3>5. \A i \in 1..Len(lines[h]) : lines[h][i].msg =< written'
      BY <1>1, <1>3, <3>2, UnitProperties
    <3> QED BY <3>2, <3>4, <3>5
  <2> QED BY <1>1, <2>1 DEF PipeInv, LineInv
<1> QED BY <1>7, <1>10, <1>11

LEMMA Shift ==
  ASSUME NEW l \in Nat, NEW r \in 1..l, NEW j \in 1..l - r
  PROVE  r + j \in 1..l /\ \A i \in 1..r : i < r + j
  OBVIOUS

LEMMA ReadStep ==
  ASSUME PipeInv, Read, pipe # <<>>
  PROVE  StreamInv' /\ BufInv' /\ LineInv'
PROOF
<1>1. /\ child = "read" /\ child' = "log" /\ res' = Amount
      /\ recv_buf' = [k \in 1..PIPE_SIZE |-> IF k =< res' THEN pipe[k] ELSE recv_buf[k]]
      /\ pipe' = SubSeq(pipe, res' + 1, Len(pipe)) /\ UNCHANGED <<lines, written>>
  BY DEF Read, history
<1>2. pipe \in Seq(Unit) /\ Len(pipe) \in Nat /\ written \in Nat
  BY LenProperties DEF PipeInv, TypeInv
<1>3. /\ res' \in 1..Len(pipe) /\ res' \in 1..PIPE_SIZE /\ res' \in Nat
      /\ res' = Len(pipe) \/ res' = PIPE_SIZE
  BY <1>1, <1>2, AmountProperties, SizeAssumption
<1>4. /\ Len(pipe') = Len(pipe) - res'
      /\ \A i \in 1..Len(pipe) - res' : pipe'[i] = pipe[res' + i]
  BY <1>1, <1>2, <1>3, ReadProperties
<1>5. \A i \in 1..res' : recv_buf'[i] = pipe[0 + i]
  <2> SUFFICES ASSUME NEW i \in 1..res' PROVE recv_buf'[i] = pipe[0 + i]
    OBVIOUS
  <2>1. i \in 1..PIPE_SIZE /\ i =< res' /\ 0 + i = i
    BY <1>3, SizeAssumption
  <2> QED BY <1>1, <2>1
<1>6. Stream(pipe, Len(pipe), written) /\ (Len(pipe) > 0 => pipe[Len(pipe)].k = 0)
  BY DEF PipeInv, StreamInv
<1>7. Stream(pipe', Len(pipe) - res', written)
  <2>1. Len(pipe) - res' \in Nat /\ res' + (Len(pipe) - res') =< Len(pipe)
    BY <1>2, <1>3
  <2> QED BY <1>2, <1>3, <1>4, <1>6, <2>1, StreamPart
<1>8. StreamInv'
  <2>1. Stream(pipe', Len(pipe'), written')
    BY <1>1, <1>4, <1>7
  <2>2. ASSUME Len(pipe') > 0 PROVE pipe'[Len(pipe')].k = 0
    <3>1. Len(pipe') \in 1..Len(pipe) - res' /\ res' + Len(pipe') = Len(pipe)
      BY <1>2, <1>3, <1>4, <2>2
    <3>2. pipe'[Len(pipe')] = pipe[Len(pipe)]
      BY <1>4, <3>1
    <3> QED BY <1>2, <1>3, <1>6, <3>2
  <2> QED BY <2>1, <2>2 DEF StreamInv
<1>9. Stream(recv_buf', res', written)
  <2>1. 0 + res' =< Len(pipe) /\ 0 \in Nat
    BY <1>2, <1>3
  <2> QED BY <1>2, <1>3, <1>5, <1>6, <2>1, StreamPart
<1>10. \E i \in 1..res' : recv_buf'[i].k = 0
  <2>1. CASE res' = Len(pipe)
    <3>1. recv_buf'[res'] = pipe[Len(pipe)] /\ res' \in 1..res'
      BY <1>3, <1>5, <2>1
    <3> QED BY <1>3, <1>6, <2>1, <3>1
  <2>2. CASE res' = PIPE_SIZE
    BY <1>2, <1>9, <2>2, StreamHoldsNul
  <2> QED BY <1>3, <2>1, <2>2
<1>11. Ahead(recv_buf', res', pipe', Len(pipe'))
  <2> SUFFICES ASSUME NEW i \in 1..res', NEW j \in 1..Len(pipe')
               PROVE  Precedes(recv_buf'[i], pipe'[j])
    BY DEF Ahead
  <2>0. j \in 1..Len(pipe) - res'
    BY <1>4
  <2>1. res' + j \in 1..Len(pipe) /\ i < res' + j
    BY <1>2, <1>3, <2>0, Shift
  <2>2. i \in 1..Len(pipe) /\ 0 + i = i
    BY <1>2, <1>3
  <2>3. recv_buf'[i] = pipe[i] /\ pipe'[j] = pipe[res' + j]
    BY <1>4, <1>5, <2>0, <2>2
  <2> QED BY <1>6, <2>1, <2>2, <2>3 DEF Stream
<1>12. BufInv'
  BY <1>1, <1>3, <1>9, <1>10, <1>11 DEF BufInv
<1>13. LineInv'
  <2>1. ASSUME NEW n \in 1..Len(lines)
        PROVE  /\ Ahead(lines[n], Len(lines[n]), recv_buf', res')
               /\ Ahead(lines[n], Len(lines[n]), pipe', Len(pipe'))
    <3>1. Ahead(lines[n], Len(lines[n]), pipe, Len(pipe))
      BY DEF PipeInv, LineInv
    <3>2. \A i \in 1..res' : i \in 1..Len(pipe) /\ recv_buf'[i] = pipe[i]
      BY <1>2, <1>3, <1>5
    <3>3. \A i \in 1..Len(pipe') : res' + i \in 1..Len(pipe) /\ pipe'[i] = pipe[res' + i]
      <4>1. Len(pipe') = Len(pipe) - res'
        BY <1>4
      <4>2. \A i \in 1..Len(pipe) - res' : res' + i \in 1..Len(pipe)
        BY <1>2, <1>3, Shift
      <4> QED BY <1>4, <4>1, <4>2
    <3> QED BY <3>1, <3>2, <3>3 DEF Ahead
  <2> QED BY <1>1, <2>1 DEF PipeInv, LineInv
<1> QED BY <1>8, <1>12, <1>13

\* A nonempty set of positive numbers has a least member.
LEMMA LeastMember ==
  ASSUME NEW T, T \subseteq Nat, T # {}
  PROVE  \E k \in T : \A j \in T : k =< j
PROOF
<1>1. PICK k \in T : \A j \in T : <<j, k>> \notin OpToRel(<, Nat)
  BY NatLessThanWellFounded, WFMin
<1>2. \A j \in T : ~ (j < k)
  BY <1>1, Zenon DEF OpToRel
<1> QED BY <1>2

\* The line that LogLine adds: a prefix of what was read, up to its first NUL.
LEMMA PrintedProperties ==
  ASSUME PipeInv, child = "log"
  PROVE  /\ Printed \in Seq(Unit) /\ Len(Printed) < res
         /\ \A i \in 1..Len(Printed) : Printed[i] = recv_buf[i] /\ recv_buf[i].k # 0
         /\ recv_buf[Len(Printed) + 1].k = 0
PROOF
<1> DEFINE nuls == {k \in 1..PIPE_SIZE : NUL(recv_buf[k])}
           c == CHOOSE k \in nuls : \A j \in nuls : k =< j
<1>1. /\ res \in 1..PIPE_SIZE /\ PIPE_SIZE \in Nat
      /\ \A i \in 1..res : recv_buf[i] \in Unit
      /\ \E i \in 1..res : recv_buf[i].k = 0
  BY SizeAssumption DEF PipeInv, BufInv, Stream
<1>2. PICK z \in 1..res : recv_buf[z].k = 0
  BY <1>1
<1>3. z \in nuls
  BY <1>1, <1>2, UnitProperties DEF NUL
<1>4. \E k \in nuls : \A j \in nuls : k =< j
  <2>1. nuls \subseteq Nat /\ nuls # {}
    BY <1>1, <1>3
  <2> HIDE DEF nuls
  <2> QED BY <2>1, LeastMember
<1>5. c \in nuls /\ \A j \in nuls : c =< j
  BY <1>4
<1>6. Printed = SubSeq(recv_buf, 1, c - 1)
  BY <1>3 DEF Printed
<1>7. c \in 1..PIPE_SIZE /\ c =< z /\ recv_buf[c].k = 0
  BY <1>3, <1>5 DEF NUL
<1> HIDE DEF c
<1>8. c - 1 \in Nat /\ c - 1 < res /\ c - 1 < c
  BY <1>1, <1>7
<1>9. \A i \in 1..c - 1 : i \in 1..res /\ recv_buf[i] \in Unit
  BY <1>1, <1>8
<1>10. /\ Printed \in Seq(Unit) /\ Len(Printed) = c - 1
       /\ \A i \in 1..c - 1 : Printed[i] = recv_buf[i]
  <2>1. /\ SubSeq(recv_buf, 1, c - 1) \in Seq(Unit)
        /\ Len(SubSeq(recv_buf, 1, c - 1)) = IF 1 <= c - 1 THEN c - 1 - 1 + 1 ELSE 0
        /\ \A i \in 1..c - 1 - 1 + 1 : SubSeq(recv_buf, 1, c - 1)[i] = recv_buf[1 + i - 1]
    BY <1>8, <1>9, SubSeqProperties
  <2> QED BY <1>6, <1>8, <2>1
<1>11. ASSUME NEW i \in 1..c - 1 PROVE recv_buf[i].k # 0
  <2>1. i \in 1..PIPE_SIZE /\ ~ (c =< i) /\ recv_buf[i].msg # 0
    BY <1>1, <1>7, <1>8, <1>9, UnitProperties
  <2>2. i \notin nuls
    BY <1>5, <2>1
  <2> QED BY <2>1, <2>2 DEF NUL
<1>12. recv_buf[Len(Printed) + 1].k = 0
  <2>1. Len(Printed) + 1 = c
    BY <1>7, <1>8, <1>10
  <2> QED BY <1>7, <2>1
<1> QED BY <1>8, <1>10, <1>11, <1>12

LEMMA LogLineStep ==
  ASSUME PipeInv, LogLine
  PROVE  StreamInv' /\ BufInv' /\ LineInv'
PROOF
<1> DEFINE p == Printed
<1>1. /\ child = "log" /\ child' = "read" /\ lines' = Append(lines, p)
      /\ UNCHANGED <<pipe, recv_buf, res, written>>
  BY DEF LogLine, history
<1>2. /\ p \in Seq(Unit) /\ Len(p) < res /\ Len(p) \in Nat
      /\ \A i \in 1..Len(p) : p[i] = recv_buf[i] /\ recv_buf[i].k # 0
  BY <1>1, PrintedProperties, LenProperties
<1> HIDE DEF p
<1>3. /\ res \in 1..PIPE_SIZE /\ Stream(recv_buf, res, written)
      /\ Ahead(recv_buf, res, pipe, Len(pipe))
  BY <1>1 DEF PipeInv, BufInv
<1>4. res \in Nat /\ \A i \in 1..Len(p) : i \in 1..res
  BY <1>2, <1>3, SizeAssumption
<1>5. \A i \in 1..Len(p) : p[i].k # 0 /\ p[i].msg =< written
  BY <1>2, <1>3, <1>4 DEF Stream
<1>6. ASSUME NEW i \in 1..Len(p) - 1
      PROVE  p[i + 1].msg = p[i].msg /\ p[i + 1].k = p[i].k + 1
  <2>1. i \in 1..Len(p) /\ i + 1 \in 1..Len(p) /\ i < i + 1 /\ (i + 1) - i = 1
    BY <1>2
  <2>2. Run(recv_buf, i, i + 1)
    BY <1>3, <1>4, <2>1 DEF Stream
  <2>3. \A h \in i..i + 1 : recv_buf[h].k # 0
    BY <1>2, <2>1
  <2> QED BY <1>2, <2>1, <2>2, <2>3 DEF Run
<1>7. Ahead(p, Len(p), pipe, Len(pipe))
  BY <1>2, <1>3, <1>4 DEF Ahead
<1>8. /\ lines \in Seq(Seq(Unit)) /\ Len(lines) \in Nat
      /\ \A n \in 1..Len(lines) : Ahead(lines[n], Len(lines[n]), recv_buf, res)
  BY <1>1, LenProperties DEF PipeInv, LineInv
<1>9. \A n \in 1..Len(lines) : Ahead(lines[n], Len(lines[n]), p, Len(p))
  BY <1>2, <1>4, <1>8 DEF Ahead
<1>10. /\ lines' \in Seq(Seq(Unit)) /\ Len(lines') = Len(lines) + 1
       /\ \A n \in 1..Len(lines) : lines'[n] = lines[n]
       /\ lines'[Len(lines) + 1] = p
  BY <1>1, <1>2, <1>8, AppendProperties
<1>11. ASSUME NEW n \in 1..Len(lines')
       PROVE  n \in 1..Len(lines) \/ n = Len(lines) + 1
  BY <1>8, <1>10
<1>12. ASSUME NEW n \in 1..Len(lines')
       PROVE  /\ \A i \in 1..Len(lines'[n]) : /\ lines'[n][i].k # 0
                                              /\ lines'[n][i].msg =< written'
              /\ \A i \in 1..Len(lines'[n]) - 1 :
                   /\ lines'[n][i + 1].msg = lines'[n][i].msg
                   /\ lines'[n][i + 1].k = lines'[n][i].k + 1
              /\ Ahead(lines'[n], Len(lines'[n]), pipe', Len(pipe'))
  <2>1. CASE n \in 1..Len(lines)
    <3>1. lines'[n] = lines[n]
      BY <1>10, <2>1
    <3> QED BY <1>1, <2>1, <3>1 DEF PipeInv, LineInv
  <2>2. CASE n = Len(lines) + 1
    <3>1. lines'[n] = p
      BY <1>10, <2>2
    <3> QED BY <1>1, <1>5, <1>6, <1>7, <3>1
  <2> QED BY <1>11, <2>1, <2>2
<1>13. ASSUME NEW n \in 1..Len(lines'), NEW m \in 1..Len(lines'), n < m
       PROVE  Ahead(lines'[n], Len(lines'[n]), lines'[m], Len(lines'[m]))
  <2>1. n \in 1..Len(lines) /\ lines'[n] = lines[n]
    <3>1. n # Len(lines) + 1
      BY <1>8, <1>10, <1>13
    <3> QED BY <1>10, <1>11, <3>1
  <2>2. CASE m \in 1..Len(lines)
    <3>1. lines'[m] = lines[m]
      BY <1>10, <2>2
    <3> QED BY <1>13, <2>1, <2>2, <3>1 DEF PipeInv, LineInv
  <2>3. CASE m = Len(lines) + 1
    <3>1. lines'[m] = p
      BY <1>10, <2>3
    <3> QED BY <1>9, <2>1, <3>1
  <2> QED BY <1>11, <2>2, <2>3
<1>14. LineInv'
  BY <1>1, <1>10, <1>12, <1>13 DEF LineInv
<1>15. StreamInv' /\ BufInv'
  BY <1>1 DEF PipeInv, StreamInv, BufInv
<1> QED BY <1>14, <1>15

LEMMA PipeInvStep ==
  ASSUME PipeInv, [Next]_vars PROVE PipeInv'
PROOF
<1>1. TypeInv'
  BY TypeInvStep DEF PipeInv
<1> SUFFICES StreamInv' /\ BufInv' /\ LineInv'
  BY <1>1 DEF PipeInv
<1> USE DEF ends, writers, history
<1>2. CASE GatewayStart \/ GatewayEnd
  BY <1>2, QuietStep DEF GatewayStart, GatewayEnd, PipeInv
<1>3. ASSUME NEW w \in Writer, write_pipe(w) \/ Lock(w) \/ WriteFails(w) \/ BrokenPipe(w)
                              \/ Unlock(w)
      PROVE  StreamInv' /\ BufInv' /\ LineInv'
  <2>1. UNCHANGED <<pipe, recv_buf, lines, written, child, res>>
    BY <1>3 DEF write_pipe, Lock, WriteFails, BrokenPipe, Unlock
  <2> QED BY <2>1, QuietStep DEF PipeInv
<1>4. ASSUME NEW w \in Writer, Write(w) PROVE StreamInv' /\ BufInv' /\ LineInv'
  BY <1>1, <1>4, WriteStep
<1>5. CASE CloseWriteEnd \/ OpenLog \/ EndLog \/ ReadError
  <2>1. UNCHANGED <<pipe, recv_buf, lines, written>> /\ child' # "log"
    BY <1>5 DEF CloseWriteEnd, OpenLog, EndLog, ReadError
  <2> QED BY <2>1, QuietStep DEF PipeInv
<1>6. CASE Read
  <2>1. CASE pipe # <<>>
    BY <1>6, <2>1, ReadStep
  <2>2. CASE pipe = <<>>
    <3>1. UNCHANGED <<pipe, recv_buf, lines, written>> /\ child' # "log"
      BY <1>6, <2>2 DEF Read
    <3> QED BY <3>1, QuietStep DEF PipeInv
  <2> QED BY <2>1, <2>2
<1>7. CASE LogLine
  BY <1>7, LogLineStep
<1>8. CASE UNCHANGED vars
  BY <1>8, QuietStep DEF vars, PipeInv
<1> QED BY <1>2, <1>3, <1>4, <1>5, <1>6, <1>7, <1>8 DEF Next, LogProcess, Thread

\* However the writes of the threads and the reads of the log process fall
\* together, a read returns a NUL: %s never leaves recv_buf, nor prints what an
\* earlier read left in it.
THEOREM TerminatedInvariance == Spec => []Terminated
<1>1. PipeInv => Terminated
  <2> SUFFICES ASSUME PipeInv, child = "log" PROVE \E k \in 1..res : NUL(recv_buf[k])
    BY DEF Terminated
  <2>1. PICK k \in 1..res : recv_buf[k].k = 0 /\ recv_buf[k] \in Unit
    BY DEF PipeInv, BufInv, Stream
  <2> QED BY <2>1, UnitProperties DEF NUL
<1> QED BY <1>1, PipeInvInit, PipeInvStep, PTL DEF Spec

\* The log is in the order of the writes: a line is a run of one message, and
\* every line is from later in the stream of messages than the lines before it.
THEOREM LogInOrderInvariance == Spec => []LogInOrder
<1>1. ASSUME PipeInv PROVE LogInOrder
  <2>1. \A n \in 1..Len(lines) : \A j \in 1..Len(lines[n]) - 1 :
          lines[n][j].msg = lines[n][j + 1].msg /\ lines[n][j + 1].k = lines[n][j].k + 1
    BY <1>1 DEF PipeInv, LineInv
  <2>2. ASSUME NEW n \in 1..Len(lines), NEW m \in 1..Len(lines), n < m,
               NEW a \in ToSet(lines[n]), NEW b \in ToSet(lines[m])
        PROVE  Before(a, b)
    <3>1. /\ lines[n] \in Seq(Unit) /\ lines[m] \in Seq(Unit)
          /\ DOMAIN lines[n] = 1..Len(lines[n]) /\ DOMAIN lines[m] = 1..Len(lines[m])
      BY <1>1, ElementOfSeq, LenProperties DEF PipeInv, LineInv
    <3>2. PICK i \in 1..Len(lines[n]), j \in 1..Len(lines[m]) :
            a = lines[n][i] /\ b = lines[m][j]
      BY <3>1 DEF ToSet
    <3>3. Precedes(a, b) /\ b.k # 0
      BY <1>1, <2>2, <3>2 DEF PipeInv, LineInv, Ahead
    <3> QED BY <3>3 DEF Precedes, Before
  <2> QED BY <2>1, <2>2 DEF LogInOrder
<1> QED BY <1>1, PipeInvInit, PipeInvStep, PTL DEF Spec

-----------------------------------------------------------------------------
(* What happens to a message that found the pipe empty: it stays at the head of  *)
(* the pipe until a read takes it, whole since it is no longer than recv_buf,    *)
(* and what is printed of that read is its text.                                 *)

\* The first units of s are text t and its NUL.
StartsWith(s, t) ==
  /\ \A k \in 1..Len(t) : s[k] = t[k] /\ t[k].k # 0
  /\ s[Len(t) + 1].k = 0

Kept(t) ==
  /\ t \in Seq(Unit) /\ Len(t) < PIPE_SIZE
  /\ \/ t \in ToSet(lines)
     \/ child = "log" /\ Len(t) < res /\ StartsWith(recv_buf, t)
     \/ Len(t) < Len(pipe) /\ StartsWith(pipe, t)

AloneInv == \A t \in alone : Kept(t)

\* A read returns 0 only when nothing is left and nobody can write any more.
EndInv == child \in {"end", "done"} /\ res = 0 => pipe = <<>> /\ writeEnd = {}

LEMMA EndInvStep ==
  ASSUME EndInv, [Next]_vars PROVE EndInv'
PROOF
<1> USE DEF EndInv, ends, writers, history
<1>1. CASE GatewayStart \/ GatewayEnd
  BY <1>1 DEF GatewayStart, GatewayEnd
<1>2. ASSUME NEW w \in Writer, write_pipe(w) \/ Thread(w) PROVE EndInv'
  BY <1>2 DEF write_pipe, Thread, Lock, Write, WriteFails, BrokenPipe, Unlock
<1>3. CASE CloseWriteEnd \/ OpenLog \/ LogLine \/ EndLog \/ ReadError
  BY <1>3 DEF CloseWriteEnd, OpenLog, LogLine, EndLog, ReadError
<1>4. CASE Read
  BY <1>4 DEF Read
<1>5. CASE UNCHANGED vars
  BY <1>5 DEF vars
<1> QED BY <1>1, <1>2, <1>3, <1>4, <1>5 DEF Next, LogProcess

LEMMA TextProperties ==
  ASSUME NEW m \in 1..MaxMessages, NEW n \in Nat \ {0}
  PROVE  /\ Text(m, n) \in Seq(Unit) /\ Len(Text(m, n)) = n - 1
         /\ \A k \in 1..n - 1 : Text(m, n)[k] = [msg |-> m, k |-> k]
<1>1. Text(m, n) \in [1..n - 1 -> Unit] /\ n - 1 \in Nat
  BY DEF Text, Unit
<1> QED BY <1>1, FunctionIsSeq DEF Text

\* A message written into an empty pipe is at the head of it.
LEMMA AloneIsKept ==
  ASSUME NEW w \in Writer, Write(w), PipeInv, TypeInv', pipe = <<>>,
         NEW t, t = Text(written', len[w])
  PROVE  Kept(t)'
<1> DEFINE m == written'
           n == len[w]
<1>1. n \in 1..PIPE_SIZE /\ n \in Nat \ {0} /\ PIPE_SIZE \in Nat
  BY LengthProperties, SizeAssumption DEF PipeInv, TypeInv
<1>2. m \in 1..MaxMessages
  <2>1. Cardinality(Pending') \in Nat /\ written' + Cardinality(Pending') =< MaxMessages
    BY FS_CardinalityType DEF TypeInv
  <2>2. written \in Nat /\ written' = written + 1
    BY DEF Write, PipeInv, TypeInv
  <2> QED BY <2>1, <2>2, SizeAssumption
<1>3. /\ t \in Seq(Unit) /\ Len(t) = n - 1
      /\ \A k \in 1..n - 1 : t[k] = [msg |-> m, k |-> k]
  BY <1>1, <1>2, TextProperties
<1>4. Extends(pipe', pipe, m, n)
  BY <1>1, <1>2, WriteProperties DEF Write, PipeInv, TypeInv
<1> HIDE DEF m, n
<1>6. Len(pipe) = 0
  OBVIOUS
<1>7. /\ pipe' \in Seq(Unit) /\ Len(pipe') = n
      /\ \A i \in 1..n : pipe'[i].msg = m /\ pipe'[i].k = IF i = n THEN 0 ELSE i
  BY <1>1, <1>4, <1>6 DEF Extends
<1>8. ASSUME NEW k \in 1..n - 1
      PROVE  pipe'[k] = t[k] /\ t[k].k # 0
  <2>1. k \in 1..n /\ k # n /\ k # 0 /\ pipe'[k] \in Unit
    BY <1>1, <1>7
  <2>2. pipe'[k] = [msg |-> m, k |-> k]
    BY <2>1, <1>7 DEF Unit
  <2> QED BY <2>1, <2>2, <1>3
<1>9. pipe'[n].k = 0 /\ n - 1 + 1 = n
  BY <1>1, <1>7
<1>10. StartsWith(pipe', t) /\ Len(t) < Len(pipe') /\ Len(t) < PIPE_SIZE
  BY <1>1, <1>3, <1>7, <1>8, <1>9 DEF StartsWith
<1> QED BY <1>3, <1>10 DEF Kept, StartsWith

LEMMA WriteKeeps ==
  ASSUME NEW w \in Writer, Write(w), PipeInv, TypeInv', NEW t, Kept(t)
  PROVE  Kept(t)'
<1>1. /\ UNCHANGED <<lines, child, res, recv_buf>> /\ pipe' = pipe \o Message(written', len[w])
      /\ pipe \in Seq(Unit)
  BY DEF Write, PipeInv, TypeInv
<1>2. Extends(pipe', pipe, written', len[w])
  <2>1. len[w] \in Nat \ {0}
    BY LengthProperties DEF PipeInv, TypeInv
  <2>2. Cardinality(Pending') \in Nat /\ written' + Cardinality(Pending') =< MaxMessages
    BY FS_CardinalityType DEF TypeInv
  <2>3. written \in Nat /\ written' = written + 1
    BY DEF Write, PipeInv, TypeInv
  <2>4. written' \in 1..MaxMessages
    BY <2>2, <2>3, SizeAssumption
  <2> QED BY <1>1, <2>1, <2>4, WriteProperties
<1>3. /\ Len(pipe') >= Len(pipe) /\ Len(pipe) \in Nat /\ Len(pipe') \in Nat
      /\ \A i \in 1..Len(pipe) : pipe'[i] = pipe[i]
  <2>1. len[w] \in Nat
    BY LengthProperties DEF PipeInv, TypeInv
  <2> QED BY <1>1, <1>2, <2>1 DEF Extends
<1>4. CASE Len(t) < Len(pipe) /\ StartsWith(pipe, t)
  <2>1. Len(t) \in Nat
    BY DEF Kept
  <2>2. Len(t) + 1 \in 1..Len(pipe) /\ \A k \in 1..Len(t) : k \in 1..Len(pipe)
    BY <1>3, <1>4, <2>1
  <2>3. StartsWith(pipe', t)
    BY <1>3, <1>4, <2>2 DEF StartsWith
  <2>4. Len(t) < Len(pipe')
    BY <1>3, <1>4, <2>1
  <2> QED BY <2>3, <2>4 DEF Kept, StartsWith
<1>5. CASE ~ (Len(t) < Len(pipe) /\ StartsWith(pipe, t))
  BY <1>1, <1>5 DEF Kept, StartsWith
<1> QED BY <1>4, <1>5

LEMMA ReadKeeps ==
  ASSUME Read, PipeInv, NEW t, Kept(t)
  PROVE  Kept(t)'
<1>1. lines' = lines /\ child = "read" /\ pipe \in Seq(Unit)
  BY DEF Read, PipeInv, TypeInv
<1>2. CASE t \in ToSet(lines)
  BY <1>1, <1>2 DEF Kept
<1>3. CASE Len(t) < Len(pipe) /\ StartsWith(pipe, t)
  <2>1. Len(t) \in Nat /\ Len(t) < PIPE_SIZE /\ Len(pipe) \in Nat /\ PIPE_SIZE \in Nat
    BY <1>1, SizeAssumption DEF Kept
  <2>2. pipe # <<>>
    BY <1>3, <2>1
  <2>3. /\ res' = Amount /\ child' = "log"
        /\ recv_buf' = [k \in 1..PIPE_SIZE |-> IF k =< res' THEN pipe[k] ELSE recv_buf[k]]
    BY <2>2 DEF Read
  <2>4. Len(t) < res'
    BY <1>1, <1>3, <2>1, <2>2, <2>3, AmountProperties
  <2>5. res' \in Nat
    BY <1>1, <2>1, <2>2, <2>3, AmountProperties
  <2>6. \A k \in 1..Len(t) + 1 : recv_buf'[k] = pipe[k]
    BY <2>1, <2>3, <2>4, <2>5
  <2>7. StartsWith(recv_buf', t)
    BY <1>3, <2>1, <2>6 DEF StartsWith
  <2> QED BY <2>3, <2>4, <2>7 DEF Kept, StartsWith
<1> QED BY <1>1, <1>2, <1>3 DEF Kept

LEMMA LogLineKeeps ==
  ASSUME LogLine, PipeInv, NEW t, Kept(t)
  PROVE  Kept(t)'
<1>1. child = "log" /\ lines' = Append(lines, Printed) /\ pipe' = pipe
  BY DEF LogLine
<1> DEFINE p == Printed
<1>2. /\ p \in Seq(Unit) /\ Len(p) < res
      /\ \A i \in 1..Len(p) : p[i] = recv_buf[i] /\ recv_buf[i].k # 0
      /\ recv_buf[Len(p) + 1].k = 0
  BY <1>1, PrintedProperties
<1> HIDE DEF p
<1>3. /\ lines \in Seq(Seq(Unit)) /\ lines' \in Seq(Seq(Unit)) /\ Len(lines) \in Nat
      /\ Len(lines') = Len(lines) + 1 /\ lines'[Len(lines) + 1] = p
      /\ \A k \in 1..Len(lines) : lines'[k] = lines[k]
  <2>1. lines \in Seq(Seq(Unit))
    BY DEF PipeInv, LineInv
  <2> QED BY <1>1, <1>2, <2>1, AppendProperties DEF p
<1>4. /\ DOMAIN lines = 1..Len(lines) /\ DOMAIN lines' = 1..Len(lines')
      /\ Len(lines) + 1 \in 1..Len(lines') /\ \A k \in 1..Len(lines) : k \in 1..Len(lines')
  BY <1>3
<1>5. ToSet(lines) \subseteq ToSet(lines') /\ p \in ToSet(lines')
  BY <1>3, <1>4 DEF ToSet
<1>6. CASE t \in ToSet(lines)
  BY <1>5, <1>6 DEF Kept
<1>7. CASE Len(t) < res /\ StartsWith(recv_buf, t)
  <2>1. t \in Seq(Unit) /\ Len(t) \in Nat /\ Len(p) \in Nat
    BY <1>2 DEF Kept
  <2>2. ~ (Len(t) < Len(p))
    <3>1. SUFFICES ASSUME Len(t) < Len(p) PROVE FALSE
      OBVIOUS
    <3>2. Len(t) + 1 \in 1..Len(p)
      BY <2>1, <3>1
    <3> QED BY <1>2, <1>7, <3>2 DEF StartsWith
  <2>3. ~ (Len(p) < Len(t))
    <3>1. SUFFICES ASSUME Len(p) < Len(t) PROVE FALSE
      OBVIOUS
    <3>2. Len(p) + 1 \in 1..Len(t)
      BY <2>1, <3>1
    <3> QED BY <1>2, <1>7, <3>2 DEF StartsWith
  <2>4. Len(p) = Len(t)
    BY <2>1, <2>2, <2>3
  <2>5. \A k \in 1..Len(t) : t[k] = p[k]
    BY <1>2, <1>7, <2>4 DEF StartsWith
  <2>6. t = p
    BY <1>2, <2>1, <2>4, <2>5, SeqEqual
  <2> QED BY <1>5, <2>6 DEF Kept
<1>8. CASE Len(t) < Len(pipe) /\ StartsWith(pipe, t)
  BY <1>1, <1>8 DEF Kept, StartsWith
<1> QED BY <1>6, <1>7, <1>8 DEF Kept

LEMMA AloneInvStep ==
  ASSUME AloneInv, PipeInv, PipeInv', [Next]_vars PROVE AloneInv'
<1>1. CASE Read
  <2>1. alone' = alone
    BY <1>1 DEF Read, history
  <2> QED BY <1>1, <2>1, ReadKeeps DEF AloneInv
<1>2. CASE LogLine
  <2>1. alone' = alone
    BY <1>2 DEF LogLine, history
  <2> QED BY <1>2, <2>1, LogLineKeeps DEF AloneInv
<1>3. ASSUME NEW w \in Writer, Write(w) PROVE AloneInv'
  <2>1. alone' = IF pipe = <<>> THEN alone \cup {Text(written', len[w])} ELSE alone
    BY <1>3 DEF Write
  <2>2. TypeInv'
    BY DEF PipeInv
  <2>3. \A t \in alone : Kept(t)'
    BY <1>3, <2>2, WriteKeeps DEF AloneInv
  <2>4. ASSUME pipe = <<>>, NEW t, t = Text(written', len[w]) PROVE Kept(t)'
    BY <1>3, <2>2, <2>4, AloneIsKept
  <2> QED BY <2>1, <2>3, <2>4 DEF AloneInv
<1>4. CASE /\ UNCHANGED <<alone, pipe, lines, recv_buf, res>> /\ child' = child
  BY <1>4 DEF AloneInv, Kept, StartsWith
<1>5. CASE /\ UNCHANGED <<alone, pipe, lines>> /\ child # "log"
  BY <1>5 DEF AloneInv, Kept, StartsWith
<1>6. \/ Read \/ LogLine \/ \E w \in Writer : Write(w)
      \/ UNCHANGED <<alone, pipe, lines, recv_buf, res>> /\ child' = child
      \/ UNCHANGED <<alone, pipe, lines>> /\ child # "log"
  BY DEF Next, LogProcess, Thread, GatewayStart, GatewayEnd, write_pipe, Lock, WriteFails,
         BrokenPipe, Unlock, CloseWriteEnd, OpenLog, EndLog, ReadError, vars, history
<1> QED BY <1>1, <1>2, <1>3, <1>4, <1>5, <1>6

\* What is written is logged, however the gateway ends: when reading has ended
\* without an error, each message that found the pipe empty has a line of its own
\* with its whole text (config.h:50-56, main.c:131-137).
THEOREM WrittenIsLoggedInvariance == Spec => []WrittenIsLogged
<1>1. Init => EndInv /\ AloneInv
  BY DEF Init, EndInv, AloneInv
<1>2. EndInv /\ AloneInv => WrittenIsLogged
  <2> SUFFICES ASSUME EndInv, AloneInv, child = "done", res = 0, NEW t \in alone
               PROVE  t \in ToSet(lines)
    BY DEF WrittenIsLogged
  <2>1. pipe = <<>>
    BY DEF EndInv
  <2>2. Len(pipe) = 0 /\ t \in Seq(Unit) /\ Len(t) \in Nat
    BY <2>1 DEF AloneInv, Kept
  <2> QED BY <2>2 DEF AloneInv, Kept
<1> QED BY <1>1, <1>2, PipeInvInit, PipeInvStep, EndInvStep, AloneInvStep, PTL DEF Spec
=============================================================================
