--------------------------- MODULE ConnMgr_proofs ---------------------------
(***************************************************************************)
(* Proofs about ConnMgr for every number of descriptors, sensors and       *)
(* connections.  LockDiscipline is inductive as it stands; the consistency *)
(* of the two lists of connections needs the position of the scan.         *)
(***************************************************************************)
EXTENDS ConnMgr, SequenceTheorems, FiniteSetTheorems, TLAPS

\* The mutex is owned by whoever is in a critical section, and is left locked
\* only by the branch that closes a connection (connmgr.c:135-162,
\* datamgr.c:64-66).
THEOREM LockInvariance == Spec => []LockDiscipline
<1>1. Init => LockDiscipline
  BY DEF Init, LockDiscipline
<1>2. LockDiscipline /\ [Next]_vars => LockDiscipline'
  <2> SUFFICES ASSUME LockDiscipline, [Next]_vars PROVE LockDiscipline'
    OBVIOUS
  <2>1. CASE Listen \/ ListenCrash \/ Poll \/ PollTimeout \/ PollError \/ AcceptCrash
             \/ Scan \/ ScanEnd \/ ReceiveEnd \/ ReceiveFails \/ connmgr_free
    BY <2>1 DEF Listen, ListenCrash, Poll, PollTimeout, PollError, AcceptCrash, Scan, ScanEnd, ReceiveEnd,
                ReceiveFails, connmgr_free, LockDiscipline, signal, data_mgr
  <2>2. ASSUME NEW f \in Fd, Accept(f) PROVE LockDiscipline'
    BY <2>2 DEF Accept, AddClient, LockDiscipline, signal, data_mgr
  <2>10. ASSUME NEW c \in Stray, FailedAccept(c) PROVE LockDiscipline'
    BY <2>10 DEF FailedAccept, AddClient, LockDiscipline, signal, data_mgr
  <2>3. ASSUME NEW s \in Sensor, Receive(s) PROVE LockDiscipline'
    BY <2>3 DEF Receive, LockDiscipline, signal, data_mgr
  <2>4. CASE Lock
    BY <2>4 DEF Lock, LockDiscipline, data_mgr
  <2>5. CASE Keep \/ Stop
    BY <2>5 DEF Keep, Stop, NextEntry, Unlock, LockDiscipline, data_mgr
  <2>6. CASE Close
    BY <2>6 DEF Close, NextEntry, Unlock, LockDiscipline, data_mgr
  <2>7. CASE DataMgrStep
    BY <2>7 DEF DataMgrStep, UnknownSensor, DataMgrLock, DataMgrSignal, DataMgrUnlock,
                Unlock, LockDiscipline, loop, signal
  <2>8. CASE Environment
    BY <2>8 DEF Environment, Connect, Tick, Send, HangUp, BreakOff, LockDiscipline,
                loop, signal, data_mgr
  <2>9. CASE UNCHANGED vars
    BY <2>9 DEF vars, LockDiscipline, loop, signal, data_mgr
  <2> QED BY <2>1, <2>2, <2>3, <2>4, <2>5, <2>6, <2>7, <2>8, <2>9, <2>10 DEF Next, ConnMgrStep
<1> QED BY <1>1, <1>2, PTL DEF Spec

\* The stop signal is written under the mutex only (connmgr.c:143,
\* datamgr.c:65).
THEOREM StopsigProtected == Spec => StopsigUnderLock
<1>1. LockDiscipline /\ [Next]_vars =>
        [stopsig' # stopsig => owner = IF dm' # dm THEN "datamgr" ELSE "connmgr"]_vars
  <2> SUFFICES ASSUME LockDiscipline, Next, stopsig' # stopsig
               PROVE  owner = IF dm' # dm THEN "datamgr" ELSE "connmgr"
    OBVIOUS
  <2>1. Stop \/ DataMgrSignal
    BY DEF Next, ConnMgrStep, Listen, ListenCrash, Poll, PollTimeout, PollError,
           AcceptCrash, Accept, FailedAccept, Scan,
           ScanEnd, ReceiveEnd, ReceiveFails, Receive, Lock, Keep, Close, connmgr_free, DataMgrStep,
           UnknownSensor, DataMgrLock, DataMgrUnlock, Environment, Connect, Tick, Send,
           HangUp, BreakOff, signal
  <2>2. CASE Stop
    BY <2>2 DEF Stop, LockDiscipline, data_mgr
  <2>3. CASE DataMgrSignal
    BY <2>3 DEF DataMgrSignal, LockDiscipline
  <2> QED BY <2>1, <2>2, <2>3
<1> QED BY <1>1, LockInvariance, PTL DEF Spec, StopsigUnderLock

-----------------------------------------------------------------------------
(* The lists of connections. *)

\* The typed entries of poll_fd, and an owner of its own for each of them: own[k]
\* is a client in the list with the descriptor of entry k.
Entries == [fd : Number, in : BOOLEAN, hup : BOOLEAN, lost : BOOLEAN, fresh : BOOLEAN]

Owns(own) ==
  /\ own \in [1..Counter -> sock_list]
  /\ \A j, k \in 1..Counter : own[j] = own[k] => j = k
  /\ \A k \in 1..Counter : Sd(own[k]) = poll_fd[k].fd

Owned == \E own : Owns(own)

\* What the links say of the sockets, in the list and in none.
SocketsAgree ==
  /\ sock_list \cap Fd \subseteq OpenFds
  /\ \A f \in OpenFds : link[f] = "leaked" => f \notin sock_list
  /\ \A f \in OpenFds \ sock_list : link[f] \in {"rst", "leaked"}

\* While the scan looks at a client, it stands on an entry with its descriptor.
ScanInv ==
  pc \in {"receive", "lock", "check"} =>
    i =< Counter /\ client \in sock_list /\ Sd(client) = ThisFd

ListInv ==
  /\ poll_fd \in Seq(Entries)
  /\ link \in [Fd -> {"free", "up", "fin", "rst", "leaked"}]
  /\ sock_list \subseteq Client /\ sd \in [Stray -> Number]
  /\ i \in Nat \ {0}
  /\ ScanInv /\ Owned /\ SocketsAgree

LEMMA ListsAgreeUnfolded == ListsAgree <=> Owned /\ SocketsAgree
<1>1. \A own : Owns(own) <=> /\ own \in Injection(1..Counter, sock_list)
                              /\ \A k \in 1..Counter : Sd(own[k]) = poll_fd[k].fd
  <2> TAKE own
  <2>1. own \in [1..Counter -> sock_list] => DOMAIN own = 1..Counter
    OBVIOUS
  <2> QED BY <2>1 DEF Owns, Injection, IsInjective
<1> QED BY <1>1 DEF ListsAgree, Owned, SocketsAgree

\* Taking entry k out of a sequence.
LEMMA RemoveAtProperties ==
  ASSUME NEW S, NEW s \in Seq(S), NEW k \in 1..Len(s)
  PROVE  /\ RemoveAt(s, k) \in Seq(S)
         /\ Len(RemoveAt(s, k)) = Len(s) - 1
         /\ \A m \in 1..Len(s) - 1 :
              RemoveAt(s, k)[m] = IF m < k THEN s[m] ELSE s[m + 1]
<1> DEFINE r == RemoveAt(s, k)
           a == SubSeq(s, 1, k - 1)
           b == SubSeq(s, k + 1, Len(s))
<1>1. Len(s) \in Nat /\ k \in Nat /\ 1 =< k /\ k =< Len(s)
  OBVIOUS
<1>2. \A m \in 1..Len(s) : s[m] \in S
  OBVIOUS
<1>3. a \in Seq(S) /\ Len(a) = k - 1 /\ \A m \in 1..k - 1 : a[m] = s[m]
  <2>1. k - 1 \in Int /\ \A m \in 1..k - 1 : s[m] \in S
    BY <1>1, <1>2
  <2>2. /\ a \in Seq(S) /\ Len(a) = IF 1 =< k - 1 THEN (k - 1) - 1 + 1 ELSE 0
        /\ \A m \in 1..(k - 1) - 1 + 1 : a[m] = s[1 + m - 1]
    BY <2>1, SubSeqProperties
  <2>3. ASSUME NEW m \in 1..k - 1 PROVE a[m] = s[m]
    <3>1. m \in 1..(k - 1) - 1 + 1 /\ 1 + m - 1 = m
      BY <1>1
    <3> QED BY <3>1, <2>2
  <2>4. Len(a) = k - 1
    BY <1>1, <2>2
  <2> QED BY <2>2, <2>3, <2>4
<1>4. /\ b \in Seq(S) /\ Len(b) = Len(s) - k
      /\ \A m \in 1..Len(s) - k : b[m] = s[k + m]
  <2>1. k + 1 \in Int /\ Len(s) \in Int /\ \A m \in (k + 1)..Len(s) : s[m] \in S
    BY <1>1, <1>2
  <2>2. /\ b \in Seq(S)
        /\ Len(b) = IF k + 1 =< Len(s) THEN Len(s) - (k + 1) + 1 ELSE 0
        /\ \A m \in 1..Len(s) - (k + 1) + 1 : b[m] = s[(k + 1) + m - 1]
    BY <2>1, SubSeqProperties
  <2>3. ASSUME NEW m \in 1..Len(s) - k PROVE b[m] = s[k + m]
    <3>1. m \in 1..Len(s) - (k + 1) + 1 /\ (k + 1) + m - 1 = k + m
      BY <1>1
    <3> QED BY <3>1, <2>2
  <2>4. Len(b) = Len(s) - k
    BY <1>1, <2>2
  <2> QED BY <2>2, <2>3, <2>4
<1>0. r = a \o b
  BY DEF RemoveAt
<1> HIDE DEF a, b, r
<1>5. /\ r \in Seq(S) /\ Len(r) = Len(s) - 1
      /\ \A m \in 1..Len(s) - 1 : r[m] = IF m =< k - 1 THEN a[m] ELSE b[m - (k - 1)]
  <2>2. Len(a) + Len(b) = Len(s) - 1
    BY <1>1, <1>3, <1>4
  <2>3. /\ a \o b \in Seq(S) /\ Len(a \o b) = Len(a) + Len(b)
        /\ \A m \in 1..Len(a) + Len(b) :
             (a \o b)[m] = IF m =< Len(a) THEN a[m] ELSE b[m - Len(a)]
    BY <1>3, <1>4, ConcatProperties
  <2> QED BY <1>0, <2>2, <2>3, <1>3
<1>6. ASSUME NEW m \in 1..Len(s) - 1
      PROVE  r[m] = IF m < k THEN s[m] ELSE s[m + 1]
  <2>1. m \in 1..Len(s) - 1 /\ m \in Nat
    BY <1>1, <1>5
  <2>2. r[m] = IF m =< k - 1 THEN a[m] ELSE b[m - (k - 1)]
    BY <2>1, <1>5
  <2>3. CASE m < k
    <3>1. m =< k - 1 /\ m \in 1..k - 1
      BY <2>1, <2>3, <1>1
    <3>2. r[m] = s[m]
      BY <3>1, <2>2, <1>3
    <3> QED BY <2>3, <3>2
  <2>4. CASE ~ (m < k)
    <3>1. /\ m - (k - 1) \in 1..Len(s) - k /\ k + (m - (k - 1)) = m + 1
          /\ ~ (m =< k - 1)
      BY <2>1, <2>4, <1>1
    <3>2. r[m] = s[m + 1]
      BY <3>1, <2>2, <1>4
    <3> QED BY <2>4, <3>2
  <2> QED BY <2>3, <2>4
<1> QED BY <1>5, <1>6 DEF r

LEMMA ListInvInit == Init => ListInv
<1> SUFFICES ASSUME Init PROVE ListInv
  OBVIOUS
<1>1. poll_fd = <<>> /\ Counter = 0 /\ 1..Counter = {}
  BY DEF Init, Counter
<1>2. Owns([k \in 1..Counter |-> NULL])
  BY <1>1 DEF Owns
<1>3. Owned
  BY <1>2 DEF Owned
<1>4. SocketsAgree
  BY DEF Init, SocketsAgree, OpenFds
<1> QED BY <1>1, <1>3, <1>4 DEF Init, ListInv, ScanInv, Number

\* An owner for every entry of the next state.
LEMMA OwnedNext ==
  ASSUME NEW own, own \in [1..Counter' -> sock_list'],
         \A j, k \in 1..Counter' : own[j] = own[k] => j = k,
         \A k \in 1..Counter' :
           (IF own[k] \in Fd THEN own[k] ELSE sd'[own[k]]) = poll_fd'[k].fd
  PROVE  Owned'
BY DEF Owned, Owns, Sd

\* A step that leaves the clients, and of each entry the descriptor, alone.
LEMMA SameOwners ==
  ASSUME Owned, UNCHANGED <<sock_list, sd>>, Counter' = Counter,
         \A k \in 1..Counter : poll_fd'[k].fd = poll_fd[k].fd
  PROVE  Owned'
<1>1. PICK own : Owns(own)
  BY DEF Owned
<1>2. Owns(own)'
  BY <1>1 DEF Owns, Sd
<1> QED BY <1>2 DEF Owned

LEMMA SameSockets ==
  ASSUME SocketsAgree, UNCHANGED <<sock_list, link>>
  PROVE  SocketsAgree'
BY DEF SocketsAgree, OpenFds

\* Steps that leave both lists and the sockets alone.
LEMMA LoopKeepsLists ==
  ASSUME ListInv, UNCHANGED <<poll_fd, sock_list, sd, link>>, i' \in Nat \ {0}, ScanInv'
  PROVE  ListInv'
<1>1. Counter' = Counter
  BY DEF Counter
<1> QED BY <1>1, SameOwners, SameSockets DEF ListInv

\* Steps that rewrite the flags of the entries only.
LEMMA FlagsKeepLists ==
  ASSUME ListInv, UNCHANGED <<sock_list, sd, link>>,
         poll_fd' \in Seq(Entries), Counter' = Counter,
         \A k \in 1..Counter : poll_fd'[k].fd = poll_fd[k].fd,
         i' \in Nat \ {0}, ScanInv'
  PROVE  ListInv'
BY SameOwners, SameSockets DEF ListInv

\* The kernel and the sensor nodes change an open socket, not which are open;
\* a socket in no list was broken off or leaked and changes no more.
LEMMA SocketsKeepLists ==
  ASSUME ListInv, UNCHANGED <<loop, sock_list, sd>>, NEW f \in Fd,
         link[f] \in {"up", "fin"}, NEW st \in {"fin", "rst"},
         link' = [link EXCEPT ![f] = st]
  PROVE  ListInv'
<1>1. f \in sock_list
  BY DEF ListInv, SocketsAgree, OpenFds
<1>2. link'[f] = st /\ \A g \in Fd \ {f} : link'[g] = link[g]
  BY DEF ListInv
<1>3. link' \in [Fd -> {"free", "up", "fin", "rst", "leaked"}]
  BY DEF ListInv
<1>4. SocketsAgree'
  BY <1>1, <1>2 DEF ListInv, SocketsAgree, OpenFds
<1>5. Owned'
  BY SameOwners DEF ListInv, loop, Counter
<1>6. ScanInv'
  BY DEF ListInv, ScanInv, loop, Counter, ThisFd, Sd
<1> QED BY <1>3, <1>4, <1>5, <1>6 DEF ListInv, loop

LEMMA FunctionIsSeq ==
  ASSUME NEW S, NEW n \in Nat, NEW m \in [1..n -> S]
  PROVE  m \in Seq(S) /\ Len(m) = n
<1>1. m \in Seq(S)
  BY SeqDef
<1> QED BY <1>1, LenProperties

\* poll fills revents in, and the end of a scan forgets it.
LEMMA RefillKeepsLists ==
  ASSUME ListInv, UNCHANGED <<sock_list, sd, link>>,
         NEW in \in [1..Counter -> BOOLEAN], NEW hup \in [1..Counter -> BOOLEAN],
         poll_fd' = [k \in 1..Counter |-> Entry(poll_fd[k].fd, in[k], hup[k], FALSE)],
         i' \in Nat \ {0}, pc' \notin {"receive", "lock", "check"}
  PROVE  ListInv'
<1>1. Counter \in Nat /\ \A k \in 1..Counter : poll_fd[k] \in Entries
  BY DEF ListInv, Counter
<1>2. \A k \in 1..Counter : /\ poll_fd'[k] \in Entries
                             /\ poll_fd'[k].fd = poll_fd[k].fd
  BY <1>1 DEF Entry, Entries
<1>3. poll_fd' \in [1..Counter -> Entries]
  BY <1>2
<1>4. poll_fd' \in Seq(Entries) /\ Counter' = Counter
  <2>1. Counter \in Nat
    BY <1>1
  <2>2. poll_fd' \in Seq(Entries) /\ Len(poll_fd') = Counter
    BY <2>1, <1>3, FunctionIsSeq
  <2> QED BY <2>2 DEF Counter
<1>5. ScanInv'
  BY DEF ScanInv
<1> QED BY <1>2, <1>4, <1>5, FlagsKeepLists

LEMMA PollKeepsLists ==
  ASSUME ListInv, Poll \/ ScanEnd
  PROVE  ListInv'
<1>1. CASE Poll
  <2>1. PICK ev \in [1..Counter -> AnyEvent] :
          poll_fd' = [k \in 1..Counter |-> Entry(poll_fd[k].fd, ev[k].in, ev[k].hup, FALSE)]
    BY <1>1 DEF Poll
  <2>2. \A k \in 1..Counter : ev[k].in \in BOOLEAN /\ ev[k].hup \in BOOLEAN
    <3> SUFFICES ASSUME NEW k \in 1..Counter
                 PROVE  ev[k].in \in BOOLEAN /\ ev[k].hup \in BOOLEAN
      OBVIOUS
    <3>1. ev[k] \in AnyEvent
      BY <2>1
    <3>2. CASE ev[k] \in [in : BOOLEAN, hup : BOOLEAN, some : {TRUE}]
      BY <3>2
    <3>3. CASE ev[k] = [in |-> FALSE, hup |-> FALSE, some |-> FALSE]
      BY <3>3
    <3> QED BY <3>1, <3>2, <3>3 DEF AnyEvent, Event
  <2> DEFINE in == [k \in 1..Counter |-> ev[k].in]
             hup == [k \in 1..Counter |-> ev[k].hup]
  <2>3. in \in [1..Counter -> BOOLEAN] /\ hup \in [1..Counter -> BOOLEAN]
    BY <2>2
  <2>4. poll_fd' = [k \in 1..Counter |-> Entry(poll_fd[k].fd, in[k], hup[k], FALSE)]
    BY <2>1
  <2>5. /\ UNCHANGED <<sock_list, sd, link>>
        /\ i' \in Nat \ {0} /\ pc' \notin {"receive", "lock", "check"}
    BY <1>1 DEF Poll, env, clients
  <2> HIDE DEF in, hup
  <2> QED BY <2>3, <2>4, <2>5, RefillKeepsLists
<1>2. CASE ScanEnd
  <2> DEFINE no == [k \in 1..Counter |-> FALSE]
  <2>1. no \in [1..Counter -> BOOLEAN]
    OBVIOUS
  <2>2. /\ poll_fd' = [k \in 1..Counter |-> Entry(poll_fd[k].fd, no[k], no[k], FALSE)]
        /\ UNCHANGED <<sock_list, sd, link>>
        /\ i' \in Nat \ {0} /\ pc' \notin {"receive", "lock", "check"}
    BY <1>2 DEF ScanEnd, env, clients
  <2> HIDE DEF no
  <2> QED BY <2>1, <2>2, RefillKeepsLists
<1> QED BY <1>1, <1>2

\* A step that rewrites entry i of poll_fd and leaves its descriptor.
LEMMA RewriteEntry ==
  ASSUME ListInv, i \in 1..Counter, NEW e \in Entries, e.fd = ThisFd,
         poll_fd' = [poll_fd EXCEPT ![i] = e]
  PROVE  /\ poll_fd' \in Seq(Entries) /\ Counter' = Counter
         /\ \A k \in 1..Counter : poll_fd'[k] = IF k = i THEN e ELSE poll_fd[k]
         /\ \A k \in 1..Counter : poll_fd'[k].fd = poll_fd[k].fd
<1>1. poll_fd \in Seq(Entries) /\ i \in 1..Len(poll_fd) /\ Len(poll_fd) \in Nat
  BY DEF ListInv, Counter
<1>2. /\ poll_fd' \in Seq(Entries) /\ Len(poll_fd') = Len(poll_fd)
      /\ \A k \in 1..Len(poll_fd) : poll_fd'[k] = IF k = i THEN e ELSE poll_fd[k]
  BY <1>1, ExceptSeq
<1> QED BY <1>2 DEF Counter, ThisFd

\* A receive that ends the connection and the last else of the scan do so.
LEMMA EntryRewritten ==
  ASSUME ListInv, ReceiveEnd \/ Keep
  PROVE  /\ i \in 1..Counter
         /\ \E e \in Entries : /\ poll_fd' = [poll_fd EXCEPT ![i] = e]
                               /\ e.fd = ThisFd /\ (Keep => ~ e.hup /\ ~ e.lost)
                               /\ ReceiveEnd => e.hup = poll_fd[i].hup
                                                /\ e.fresh = poll_fd[i].fresh
<1>1. i \in 1..Counter /\ poll_fd[i] \in Entries /\ (ReceiveEnd => ~ Keep)
  BY DEF ReceiveEnd, Keep, ListInv, ScanInv, Counter
<1>2. CASE ReceiveEnd
  <2>1. PICK lost \in BOOLEAN : poll_fd' = [poll_fd EXCEPT ![i].lost = lost]
    BY <1>2 DEF ReceiveEnd
  <2> DEFINE e == [poll_fd[i] EXCEPT !.lost = lost]
  <2>2. /\ e \in Entries /\ e.fd = ThisFd
        /\ e.hup = poll_fd[i].hup /\ e.fresh = poll_fd[i].fresh
    BY <1>1 DEF Entries, ThisFd
  <2>3. poll_fd' = [poll_fd EXCEPT ![i] = e]
    BY <2>1
  <2> HIDE DEF e
  <2> QED BY <1>1, <1>2, <2>2, <2>3
<1>3. CASE Keep
  <2> DEFINE e == Entry(ThisFd, FALSE, FALSE, FALSE)
  <2>1. e \in Entries /\ e.fd = ThisFd /\ ~ e.hup /\ ~ e.lost
    BY <1>1 DEF Entry, Entries, ThisFd
  <2>2. poll_fd' = [poll_fd EXCEPT ![i] = e]
    BY <1>3 DEF Keep, PassEntry
  <2> HIDE DEF e
  <2> QED BY <1>1, <1>3, <2>1, <2>2
<1> QED BY <1>2, <1>3

LEMMA RewriteKeepsLists ==
  ASSUME ListInv, ReceiveEnd \/ Keep
  PROVE  ListInv'
<1>1. PICK e \in Entries : /\ i \in 1..Counter /\ e.fd = ThisFd
                           /\ poll_fd' = [poll_fd EXCEPT ![i] = e]
  BY EntryRewritten
<1>2. /\ poll_fd' \in Seq(Entries) /\ Counter' = Counter
      /\ \A k \in 1..Counter : poll_fd'[k].fd = poll_fd[k].fd
  BY <1>1, RewriteEntry
<1>3. UNCHANGED <<sock_list, sd, link>>
  BY DEF ReceiveEnd, Keep, env, clients
<1>4. i' \in Nat \ {0} /\ ScanInv'
  <2>1. CASE ReceiveEnd
    BY <1>1, <1>2, <1>3, <2>1 DEF ReceiveEnd, ListInv, ScanInv, ThisFd, Sd
  <2>2. CASE Keep
    BY <2>2 DEF Keep, NextEntry, ListInv, ScanInv
  <2> QED BY <2>1, <2>2
<1> QED BY <1>2, <1>3, <1>4, FlagsKeepLists

\* A new client at the end of both lists owns the new entry.
LEMMA NewClient ==
  ASSUME ListInv, NEW c \in Client \ sock_list, NEW n \in Number, AddClient(c, n)
  PROVE  /\ poll_fd' \in Seq(Entries) /\ Counter' = Counter + 1 /\ Counter \in Nat
         /\ \A k \in 1..Counter : poll_fd'[k] = poll_fd[k]
         /\ \E in, hup \in BOOLEAN : poll_fd'[Counter + 1] = Entry(n, in, hup, TRUE)
<1>1. PICK in, hup \in BOOLEAN : poll_fd' = Append(poll_fd, Entry(n, in, hup, TRUE))
  BY DEF AddClient
<1> DEFINE e == Entry(n, in, hup, TRUE)
<1>2. poll_fd \in Seq(Entries) /\ e \in Entries /\ poll_fd' = Append(poll_fd, e)
  BY <1>1 DEF ListInv, Entry, Entries
<1> HIDE DEF e
<1>3. Len(poll_fd) \in Nat
  BY <1>2
<1>4. /\ Append(poll_fd, e) \in Seq(Entries)
      /\ Len(Append(poll_fd, e)) = Len(poll_fd) + 1
      /\ \A k \in 1..Len(poll_fd) : Append(poll_fd, e)[k] = poll_fd[k]
      /\ Append(poll_fd, e)[Len(poll_fd) + 1] = e
  BY <1>2, AppendProperties
<1> QED BY <1>2, <1>3, <1>4 DEF Counter, e

LEMMA NewOwner ==
  ASSUME ListInv, NEW c \in Client \ sock_list, NEW n \in Number, AddClient(c, n),
         n = IF c \in Fd THEN c ELSE sd'[c],
         \A d \in Stray \ {c} : sd'[d] = sd[d]
  PROVE  Owned'
<1>1. /\ Counter' = Counter + 1 /\ Counter \in Nat
      /\ \A k \in 1..Counter : poll_fd'[k] = poll_fd[k]
      /\ poll_fd'[Counter + 1].fd = n
  <2>1. \A in, hup \in BOOLEAN : Entry(n, in, hup, TRUE).fd = n
    BY DEF Entry
  <2> QED BY <2>1, NewClient
<1>2. PICK old : Owns(old)
  BY DEF ListInv, Owned
<1>3. sock_list' = sock_list \cup {c} /\ sock_list \subseteq Client
  BY DEF AddClient, ListInv
<1> DEFINE own == [k \in 1..Counter' |-> IF k = Counter + 1 THEN c ELSE old[k]]
<1>4. \A k \in 1..Counter : old[k] \in sock_list /\ Sd(old[k]) = poll_fd[k].fd
  BY <1>2 DEF Owns
<1>5. \A j, k \in 1..Counter : old[j] = old[k] => j = k
  BY <1>2 DEF Owns
<1>6. \A k \in 1..Counter' : k = Counter + 1 \/ k \in 1..Counter
  BY <1>1
<1>7. \A k \in 1..Counter : k \in 1..Counter' /\ k # Counter + 1
  BY <1>1
<1>8. own \in [1..Counter' -> sock_list']
  BY <1>3, <1>4, <1>6
<1>9. \A j, k \in 1..Counter' : own[j] = own[k] => j = k
  BY <1>4, <1>5, <1>6, <1>7
<1>10. \A k \in 1..Counter' :
         (IF own[k] \in Fd THEN own[k] ELSE sd'[own[k]]) = poll_fd'[k].fd
  <2> SUFFICES ASSUME NEW k \in 1..Counter'
               PROVE  (IF own[k] \in Fd THEN own[k] ELSE sd'[own[k]]) = poll_fd'[k].fd
    OBVIOUS
  <2>1. CASE k = Counter + 1
    BY <1>1, <2>1
  <2>2. CASE k \in 1..Counter
    <3>1. own[k] = old[k] /\ old[k] # c /\ old[k] \in Client
      BY <1>3, <1>4, <1>7, <2>2
    <3> QED BY <1>1, <1>4, <2>2, <3>1 DEF Sd, Client
  <2> QED BY <1>6, <2>1, <2>2
<1> HIDE DEF own
<1> QED BY <1>8, <1>9, <1>10, OwnedNext

LEMMA AcceptKeepsLists ==
  ASSUME ListInv, NEW f \in Fd, Accept(f)
  PROVE  ListInv'
<1>1. /\ link[f] = "free" /\ link' = [link EXCEPT ![f] = "up"] /\ AddClient(f, f)
      /\ sd' = sd /\ i' = i /\ pc' = "scan" /\ sock_list' = sock_list \cup {f}
  BY DEF Accept, AddClient
<1>2. f \in Client \ sock_list /\ f \in Number
  BY <1>1 DEF ListInv, SocketsAgree, OpenFds, Client, Number
<1>3. Owned'
  BY <1>1, <1>2, NewOwner
<1>4. poll_fd' \in Seq(Entries)
  BY <1>1, <1>2, NewClient
<1>5. SocketsAgree'
  <2>1. link'[f] = "up" /\ \A g \in Fd \ {f} : link'[g] = link[g]
    BY <1>1 DEF ListInv
  <2> QED BY <1>1, <2>1 DEF ListInv, SocketsAgree, OpenFds
<1>6. ScanInv'
  BY <1>1 DEF ScanInv
<1> QED BY <1>1, <1>2, <1>3, <1>4, <1>5, <1>6 DEF ListInv

LEMMA FailedAcceptKeepsLists ==
  ASSUME ListInv, NEW c \in Stray, FailedAccept(c)
  PROVE  ListInv'
<1>1. PICK n \in Number : AddClient(c, n) /\ sd' = [sd EXCEPT ![c] = n]
  BY DEF FailedAccept
<1>2. i' = i /\ pc' = "scan" /\ sock_list' = sock_list \cup {c}
  BY <1>1 DEF FailedAccept, AddClient
<1>3. c \in Client \ sock_list /\ c \notin Fd
  BY ClientAssumption DEF FailedAccept, Client
<1>4. Owned'
  <2>1. sd'[c] = n /\ \A d \in Stray \ {c} : sd'[d] = sd[d]
    BY <1>1 DEF ListInv
  <2> QED BY <1>1, <1>3, <2>1, NewOwner
<1>5. poll_fd' \in Seq(Entries)
  BY <1>1, <1>3, NewClient
<1>6. SocketsAgree' /\ link' \in [Fd -> {"free", "up", "fin", "rst", "leaked"}]
  <2>1. CASE link' = link
    BY <1>2, <1>3, <2>1 DEF ListInv, SocketsAgree, OpenFds
  <2>2. ASSUME NEW f \in Fd, link[f] = "free", link' = [link EXCEPT ![f] = "leaked"]
        PROVE  SocketsAgree' /\ link' \in [Fd -> {"free", "up", "fin", "rst", "leaked"}]
    <3>1. link'[f] = "leaked" /\ f \notin sock_list /\ \A g \in Fd \ {f} : link'[g] = link[g]
      BY <2>2 DEF ListInv, SocketsAgree, OpenFds
    <3>2. link' \in [Fd -> {"free", "up", "fin", "rst", "leaked"}]
      BY <2>2 DEF ListInv
    <3>3. SocketsAgree'
      BY <1>2, <1>3, <3>1 DEF ListInv, SocketsAgree, OpenFds
    <3> QED BY <3>2, <3>3
  <2> QED BY <2>1, <2>2 DEF FailedAccept
<1>7. sd' \in [Stray -> Number] /\ sock_list' \subseteq Client
  BY <1>1, <1>2, <1>3 DEF ListInv
<1>8. ScanInv'
  BY <1>2 DEF ScanInv
<1> QED BY <1>2, <1>4, <1>5, <1>6, <1>7, <1>8 DEF ListInv

\* Stop and Close take entry i out of poll_fd.
LEMMA DropEntryProperties ==
  ASSUME ListInv, i \in 1..Counter, DropEntry
  PROVE  /\ poll_fd' \in Seq(Entries) /\ Counter' = Counter - 1 /\ Counter \in Nat
         /\ \A k \in 1..Counter' : poll_fd'[k] = poll_fd[IF k < i THEN k ELSE k + 1]
<1>1. poll_fd \in Seq(Entries) /\ i \in 1..Len(poll_fd)
  BY DEF ListInv, Counter
<1>2. poll_fd' = RemoveAt(poll_fd, i) /\ Len(poll_fd) \in Nat
  BY <1>1 DEF DropEntry
<1> QED BY <1>1, <1>2, RemoveAtProperties DEF Counter

\* The other entries keep their owners; if the client c that leaves owned one of
\* them, the owner of entry i, which has the same descriptor, takes it over.
LEMMA DropKeepsOwners ==
  ASSUME ListInv, i \in 1..Counter, DropEntry, NEW c,
         c \in sock_list => Sd(c) = ThisFd,
         sock_list' = sock_list \ {c}, \A d \in Stray \ {c} : sd'[d] = sd[d]
  PROVE  Owned'
<1>1. /\ Counter' = Counter - 1 /\ Counter \in Nat /\ i \in Nat
      /\ \A k \in 1..Counter' : poll_fd'[k] = poll_fd[IF k < i THEN k ELSE k + 1]
  BY DropEntryProperties DEF ListInv
<1>2. PICK old : Owns(old)
  BY DEF ListInv, Owned
<1> DEFINE was(k) == IF k < i THEN k ELSE k + 1
           own == [k \in 1..Counter' |-> IF old[was(k)] = c THEN old[i] ELSE old[was(k)]]
<1>3. \A k \in 1..Counter' : /\ was(k) \in 1..Counter /\ was(k) # i
                              /\ poll_fd'[k] = poll_fd[was(k)]
  BY <1>1
<1>4. \A j, k \in 1..Counter' : was(j) = was(k) => j = k
  BY <1>1
<1> HIDE DEF was
<1>5. \A k \in 1..Counter : old[k] \in sock_list /\ Sd(old[k]) = poll_fd[k].fd
  BY <1>2 DEF Owns
<1>6. \A j, k \in 1..Counter : old[j] = old[k] => j = k
  BY <1>2 DEF Owns
<1>7. ASSUME NEW k \in 1..Counter'
      PROVE  /\ own[k] \in sock_list /\ own[k] # c
             /\ Sd(own[k]) = poll_fd'[k].fd
  <2>1. CASE old[was(k)] = c
    <3>1. old[i] \in sock_list /\ old[i] # c /\ Sd(old[i]) = ThisFd
      BY <2>1, <1>3, <1>5, <1>6 DEF ThisFd
    <3>2. poll_fd'[k].fd = Sd(c) /\ c \in sock_list
      BY <2>1, <1>3, <1>5
    <3> QED BY <2>1, <3>1, <3>2
  <2>2. CASE old[was(k)] # c
    BY <2>2, <1>3, <1>5
  <2> QED BY <2>1, <2>2
<1>8. \A j, k \in 1..Counter' : own[j] = own[k] => j = k
  <2> SUFFICES ASSUME NEW j \in 1..Counter', NEW k \in 1..Counter', own[j] = own[k]
               PROVE  j = k
    OBVIOUS
  <2>1. was(j) = was(k)
    BY <1>3, <1>6
  <2> QED BY <2>1, <1>4
<1>9. own \in [1..Counter' -> sock_list']
  BY <1>7
<1>10. ASSUME NEW k \in 1..Counter'
       PROVE  (IF own[k] \in Fd THEN own[k] ELSE sd'[own[k]]) = poll_fd'[k].fd
  BY <1>7 DEF Sd, ListInv, Client
<1> HIDE DEF own
<1> QED BY <1>8, <1>9, <1>10, OwnedNext

\* tcp_close of a listed client's socket.
LEMMA CloseKeepsSockets ==
  ASSUME ListInv, NEW c \in sock_list, dpl_remove_node(c)
  PROVE  /\ SocketsAgree' /\ link' \in [Fd -> {"free", "up", "fin", "rst", "leaked"}]
         /\ \A f \in Fd : link[f] \in {"rst", "leaked"} => link'[f] = link[f]
<1>1. sock_list' = sock_list \ {c}
  BY DEF dpl_remove_node
<1>2. CASE c \in Fd
  <2>1. link' = [link EXCEPT ![c] = IF @ = "rst" THEN @ ELSE "free"]
    BY <1>2 DEF dpl_remove_node, tcp_close
  <2>2. link[c] \in {"up", "fin", "rst"}
    BY <1>2 DEF ListInv, SocketsAgree, OpenFds
  <2>3. /\ link'[c] \in {"rst", "free"} /\ (link[c] = "rst" => link'[c] = "rst")
        /\ \A f \in Fd \ {c} : link'[f] = link[f]
    BY <1>2, <2>1 DEF ListInv
  <2>4. link' \in [Fd -> {"free", "up", "fin", "rst", "leaked"}]
    BY <1>2, <2>1 DEF ListInv
  <2>5. SocketsAgree'
    BY <1>1, <2>2, <2>3 DEF ListInv, SocketsAgree, OpenFds
  <2> QED BY <2>2, <2>3, <2>4, <2>5
<1>3. CASE c \notin Fd
  <2>1. link' = link
    BY <1>3 DEF dpl_remove_node
  <2> QED BY <1>1, <1>3, <2>1 DEF ListInv, SocketsAgree, OpenFds
<1> QED BY <1>2, <1>3

LEMMA CheckKeepsLists ==
  ASSUME ListInv, Stop \/ Close
  PROVE  ListInv'
<1>1. /\ i \in 1..Counter /\ DropEntry /\ i' = i /\ pc' = "scan"
      /\ client \in sock_list /\ Sd(client) = ThisFd
  BY DEF Stop, Close, NextEntry, ListInv, ScanInv, Counter
<1>2. poll_fd' \in Seq(Entries)
  BY <1>1, DropEntryProperties
<1>3. ScanInv'
  BY <1>1 DEF ScanInv
<1>4. CASE Stop
  <2>1. UNCHANGED <<link, sock_list, sd>>
    BY <1>4 DEF Stop, env, clients
  <2>2. sock_list' = sock_list \ {NULL}
    BY <2>1, ClientAssumption DEF ListInv, Client
  <2>3. Owned'
    BY <1>1, <2>1, <2>2, ClientAssumption, DropKeepsOwners DEF ListInv, Client
  <2> QED BY <1>1, <1>2, <1>3, <2>1, <2>3, SameSockets DEF ListInv
<1>5. CASE Close
  <2>1. dpl_remove_node(client) /\ client \in Client
    BY <1>1, <1>5, ClientAssumption DEF Close, IsClient, ListInv, Client
  <2>2. /\ sock_list' = sock_list \ {client} /\ sd' \in [Stray -> Number]
        /\ \A d \in Stray \ {client} : sd'[d] = sd[d]
    BY <2>1 DEF dpl_remove_node, ListInv, Number
  <2>3. Owned'
    BY <1>1, <2>2, DropKeepsOwners
  <2> QED BY <1>1, <1>2, <1>3, <2>1, <2>2, <2>3, CloseKeepsSockets DEF ListInv
<1> QED BY <1>4, <1>5

LEMMA ListStep == ListInv /\ [Next]_vars => ListInv'
<1> SUFFICES ASSUME ListInv, [Next]_vars PROVE ListInv'
  OBVIOUS
<1>1. i \in Nat \ {0} /\ ScanInv
  BY DEF ListInv
<1>2. CASE Poll \/ ScanEnd
  BY <1>2, PollKeepsLists
<1>3. CASE ReceiveEnd \/ Keep
  BY <1>3, RewriteKeepsLists
<1>4. ASSUME NEW f \in Fd, Accept(f) PROVE ListInv'
  BY <1>4, AcceptKeepsLists
<1>5. CASE Stop \/ Close
  BY <1>5, CheckKeepsLists
<1>6. CASE Listen \/ ListenCrash \/ PollTimeout \/ PollError \/ AcceptCrash \/ connmgr_free
  <2>1. /\ UNCHANGED <<poll_fd, sock_list, sd, link, i>>
        /\ pc' \notin {"receive", "lock", "check"}
    BY <1>6 DEF Listen, ListenCrash, PollTimeout, PollError, AcceptCrash, connmgr_free,
                env, clients
  <2> QED BY <1>1, <2>1, LoopKeepsLists DEF ScanInv
<1>7. CASE Scan
  <2>1. /\ UNCHANGED <<poll_fd, sock_list, sd, link, i>> /\ i =< Counter
        /\ client' \in IF Found = {} THEN {NULL} ELSE Found
    BY <1>7 DEF Scan, InScan, env, clients
  <2>2. i \in 1..Counter
    BY <2>1 DEF ListInv, Counter
  <2>3. Found # {}
    BY <2>2 DEF ListInv, Owned, Owns, Found, ThisFd
  <2>4. client' \in sock_list /\ Sd(client') = ThisFd
    BY <2>1, <2>3 DEF Found
  <2>5. ScanInv'
    BY <2>1, <2>4 DEF ScanInv, Counter, ThisFd, Sd
  <2> QED BY <1>1, <2>1, <2>5, LoopKeepsLists
<1>8. CASE ReceiveFails \/ Lock \/ \E s \in Sensor : Receive(s)
  <2>1. UNCHANGED <<poll_fd, sock_list, sd, link, i, client>>
        /\ pc \in {"receive", "lock"}
    BY <1>8 DEF Receive, ReceiveFails, Lock, env, clients
  <2> QED BY <1>1, <2>1, LoopKeepsLists DEF ScanInv, Counter, ThisFd, Sd
<1>9. CASE DataMgrStep \/ Connect \/ Tick \/ UNCHANGED vars
  <2>1. UNCHANGED <<poll_fd, sock_list, sd, link, i, client, pc>>
    BY <1>9 DEF DataMgrStep, UnknownSensor, DataMgrLock, DataMgrSignal, DataMgrUnlock,
                Connect, Tick, vars, env, loop, clients
  <2> QED BY <1>1, <2>1, LoopKeepsLists DEF ScanInv, Counter, ThisFd, Sd
<1>10. ASSUME NEW f \in Fd, Send(f) \/ HangUp(f) \/ BreakOff(f) PROVE ListInv'
  <2>1. CASE Send(f)
    <3>1. UNCHANGED <<poll_fd, sock_list, sd, link, i, client, pc>>
      BY <2>1 DEF Send, loop, clients
    <3> QED BY <1>1, <3>1, LoopKeepsLists DEF ScanInv, Counter, ThisFd, Sd
  <2>2. CASE HangUp(f)
    <3>1. /\ link[f] \in {"up", "fin"} /\ link' = [link EXCEPT ![f] = "fin"]
          /\ UNCHANGED <<loop, sock_list, sd>>
      BY <2>2 DEF HangUp, clients
    <3> QED BY <3>1, SocketsKeepLists
  <2>3. CASE BreakOff(f)
    <3>1. /\ link[f] \in {"up", "fin"} /\ link' = [link EXCEPT ![f] = "rst"]
          /\ UNCHANGED <<loop, sock_list, sd>>
      BY <2>3 DEF BreakOff, clients
    <3> QED BY <3>1, SocketsKeepLists
  <2> QED BY <1>10, <2>1, <2>2, <2>3
<1>11. ASSUME NEW c \in Stray, FailedAccept(c) PROVE ListInv'
  BY <1>11, FailedAcceptKeepsLists
<1> QED BY <1>2, <1>3, <1>4, <1>5, <1>6, <1>7, <1>8, <1>9, <1>10, <1>11
        DEF Next, ConnMgrStep, Environment

LEMMA ListInvariance == Spec => []ListInv
BY ListInvInit, ListStep, PTL DEF Spec

\* The lists of connections agree in every reachable state, whatever the
\* sensor nodes and the data manager do and however accept fails
\* (connmgr.c:80-101, 135-163).
THEOREM ListsInvariance == Spec => []ListsAgree
<1>1. ListInv => ListsAgree
  BY ListsAgreeUnfolded DEF ListInv
<1> QED BY <1>1, ListInvariance, PTL

-----------------------------------------------------------------------------
(* Why a connection is dropped. *)

LEMMA LengthFromDomain ==
  ASSUME NEW S, NEW s \in Seq(S), NEW n \in Nat, DOMAIN s = 1..n
  PROVE  Len(s) = n
<1>1. Len(s) \in Nat /\ \A m : m \in 1..Len(s) <=> m \in 1..n
  BY LenProperties
<1>2. CASE Len(s) > n
  BY <1>1, <1>2
<1>3. CASE Len(s) < n
  BY <1>1, <1>3
<1> QED BY <1>1, <1>2, <1>3

\* Only Stop and Close take an entry out of poll_fd, and only Close a client out
\* of the list.
LEMMA OnlyCheckDrops ==
  ASSUME ListInv, [Next]_vars, Counter' < Counter \/ sock_list \ sock_list' # {}
  PROVE  Stop \/ Close
<1>1. Counter \in Nat
  BY DEF ListInv, Counter
<1>2. CASE Poll \/ ScanEnd
  <2>1. sock_list' = sock_list /\ DOMAIN poll_fd' = 1..Counter
    BY <1>2 DEF Poll, ScanEnd, clients
  <2>2. poll_fd' \in Seq(Entries)
    BY <1>2, PollKeepsLists DEF ListInv
  <2>3. Counter' = Counter
    BY <1>1, <2>1, <2>2, LengthFromDomain DEF Counter
  <2> QED BY <1>1, <2>1, <2>3
<1>3. CASE ReceiveEnd \/ Keep
  <2>1. sock_list' = sock_list
    BY <1>3 DEF ReceiveEnd, Keep, clients
  <2>2. Counter' = Counter
    BY <1>3, EntryRewritten, RewriteEntry
  <2> QED BY <1>1, <2>1, <2>2
<1>4. ASSUME NEW c \in Client \ sock_list, NEW n \in Number, AddClient(c, n)
      PROVE  Stop \/ Close
  <2>1. Counter' = Counter + 1 /\ sock_list' = sock_list \cup {c}
    BY <1>4, NewClient DEF AddClient
  <2> QED BY <1>1, <2>1
<1>5. CASE UNCHANGED <<poll_fd, sock_list>>
  BY <1>1, <1>5 DEF Counter
<1>6. ASSUME NEW f \in Fd, Accept(f) PROVE Stop \/ Close
  <2>1. f \in Client \ sock_list /\ f \in Number /\ AddClient(f, f)
    BY <1>6 DEF Accept, ListInv, SocketsAgree, OpenFds, Client, Number
  <2> QED BY <2>1, <1>4
<1>7. ASSUME NEW c \in Stray, FailedAccept(c) PROVE Stop \/ Close
  <2>1. c \in Client \ sock_list /\ \E n \in Number : AddClient(c, n)
    BY <1>7 DEF FailedAccept, Client
  <2> QED BY <2>1, <1>4
<1>8. \/ Stop \/ Close \/ Poll \/ ScanEnd \/ ReceiveEnd \/ Keep
      \/ \E f \in Fd : Accept(f)
      \/ \E c \in Stray : FailedAccept(c)
      \/ UNCHANGED <<poll_fd, sock_list>>
  BY DEF Next, ConnMgrStep, Environment, Listen, ListenCrash, PollTimeout, PollError,
         AcceptCrash, Scan, Receive, ReceiveFails, Lock, connmgr_free, DataMgrStep,
         UnknownSensor, DataMgrLock, DataMgrSignal, DataMgrUnlock, Connect, Tick, Send,
         HangUp, BreakOff, vars, loop, clients
<1> QED BY <1>2, <1>3, <1>5, <1>6, <1>7, <1>8

\* Only a stop for the client's sensor takes an entry out of poll_fd and leaves the
\* client in the list, and only such a stop uses the signal up (connmgr.c:136-146);
\* a client without a sensor id yet and no signal, both 0, count as such a stop.
THEOREM StoppedBySignal == Spec => SignalStopsOne
<1> DEFINE Justified ==
             /\ Stopped => /\ stopsig' = 0
                           /\ \/ stopsig # 0 /\ SensorOf(client) = stopsig
                              \/ stopsig = 0 /\ SensorOf(client) = 0
             /\ stopsig \notin {0, stopsig'} /\ dm' = dm =>
                  Stopped /\ SensorOf(client) = stopsig
<1>1. ListInv /\ [Next]_vars => [Justified]_vars
  <2> SUFFICES ASSUME ListInv, [Next]_vars PROVE Justified
    OBVIOUS
  <2>1. ASSUME Stopped
        PROVE  Stop
    <3>1. Stop \/ Close
      BY <2>1, OnlyCheckDrops DEF Stopped
    <3>2. ASSUME Close PROVE FALSE
      <4>1. client \in sock_list /\ client # NULL
        BY <3>2, ClientAssumption DEF Close, ListInv, ScanInv, Client
      <4>2. sock_list' = sock_list \ {client}
        BY <3>2, <4>1 DEF Close, IsClient, dpl_remove_node
      <4> QED BY <2>1, <4>1, <4>2 DEF Stopped
    <3> QED BY <3>1, <3>2
  <2>2. ASSUME Stop
        PROVE  SensorOf(client) = stopsig /\ stopsig' = 0 /\ Stopped
    <3>1. client \in sock_list /\ sensor[client] = stopsig /\ stopsig' = 0
      BY <2>2 DEF Stop, Signalled, ListInv, ScanInv
    <3>2. i \in 1..Counter /\ DropEntry /\ sock_list' = sock_list
      BY <2>2 DEF Stop, ListInv, ScanInv, Counter, clients
    <3>3. Counter' = Counter - 1 /\ Counter \in Nat
      BY <3>2, DropEntryProperties
    <3> QED BY <3>1, <3>2, <3>3 DEF SensorOf, Stopped
  <2>3. ASSUME stopsig \notin {0, stopsig'}, dm' = dm
        PROVE  Stop
    BY <2>3 DEF Next, ConnMgrStep, Listen, ListenCrash, Poll, PollTimeout, PollError,
       AcceptCrash, Accept, FailedAccept, Scan, ScanEnd, ReceiveEnd, ReceiveFails, Receive,
       Lock, Keep, Close, connmgr_free, DataMgrStep, UnknownSensor, DataMgrLock,
       DataMgrSignal, DataMgrUnlock, Environment, Connect, Tick, Send, HangUp, BreakOff,
       vars, signal
  <2> QED BY <2>1, <2>2, <2>3
<1> QED BY <1>1, ListInvariance, PTL DEF Spec, SignalStopsOne

\* What a flag of a polled entry says of its socket: a hang-up that poll reported
\* of a connection stays true, and that a receive found the connection closed is
\* true until the scan has passed the entry.
FlagInv ==
  \A k \in 1..Counter :
    /\ poll_fd[k].hup => \/ poll_fd[k].fresh \/ poll_fd[k].fd = NoFd
                         \/ link[poll_fd[k].fd] \in {"rst", "leaked"}
    /\ poll_fd[k].lost => /\ k = i /\ pc \in {"lock", "check"} /\ client \in Fd
                          /\ link[client] \in {"fin", "rst"}

LEMMA EntriesTyped ==
  ASSUME ListInv
  PROVE  /\ Counter \in Nat
         /\ \A k \in 1..Counter : poll_fd[k] \in Entries /\ poll_fd[k].fd \in Number
<1>1. Counter \in Nat /\ \A k \in 1..Counter : poll_fd[k] \in Entries
  BY DEF ListInv, Counter
<1>2. \A e \in Entries : e.fd \in Number
  BY DEF Entries
<1> QED BY <1>1, <1>2

\* A broken or leaked socket stays so.
DeadStaysDead == \A f \in Fd : link[f] \in {"rst", "leaked"} => link'[f] = link[f]

LEMMA SameEntriesKeepFlags ==
  ASSUME ListInv, FlagInv, poll_fd' = poll_fd, DeadStaysDead,
         pc \in {"lock", "check"} =>
           /\ pc' \in {"lock", "check"} /\ i' = i /\ client' = client
           /\ \A f \in Fd : link[f] = "fin" => link'[f] \in {"fin", "rst"}
  PROVE  FlagInv'
<1>1. Counter' = Counter /\ \A k \in 1..Counter : poll_fd[k].fd \in Number
  BY EntriesTyped DEF Counter
<1> QED BY <1>1 DEF FlagInv, DeadStaysDead, Number

LEMMA FlagsFilled ==
  ASSUME ListInv, FlagInv, Poll \/ ScanEnd
  PROVE  FlagInv'
<1>1. Counter' = Counter
  <2>1. DOMAIN poll_fd' = 1..Counter /\ Counter \in Nat
    BY EntriesTyped DEF Poll, ScanEnd
  <2> QED BY <2>1, PollKeepsLists, LengthFromDomain DEF ListInv, Counter
<1>2. CASE Poll
  <2>1. PICK ev \in [1..Counter -> AnyEvent] :
          /\ \A k \in 1..Counter : ev[k] \in Events(poll_fd[k].fd)
          /\ poll_fd' = [k \in 1..Counter |-> Entry(poll_fd[k].fd, ev[k].in, ev[k].hup, FALSE)]
    BY <1>2 DEF Poll
  <2> SUFFICES ASSUME NEW k \in 1..Counter
               PROVE  /\ ~ poll_fd'[k].lost
                      /\ poll_fd'[k].hup => \/ poll_fd'[k].fd = NoFd
                                            \/ link'[poll_fd'[k].fd] \in {"rst", "leaked"}
    BY <1>1 DEF FlagInv
  <2>2. poll_fd'[k] = Entry(poll_fd[k].fd, ev[k].in, ev[k].hup, FALSE) /\ link' = link
    BY <1>2, <2>1 DEF Poll, env
  <2>3. ~ poll_fd'[k].lost /\ poll_fd'[k].hup = ev[k].hup /\ poll_fd'[k].fd = poll_fd[k].fd
    BY <2>2 DEF Entry
  <2> DEFINE n == poll_fd[k].fd
  <2>4. ev[k] \in Events(n)
    BY <2>1
  <2> HIDE DEF n
  <2>5. CASE n = NoFd \/ link[n] = "leaked"
    BY <2>2, <2>3, <2>5 DEF n
  <2>6. CASE ~ (n = NoFd \/ link[n] = "leaked")
    <3>1. ev[k] = Event(Readable(n), link[n] = "rst", Readable(n) \/ link[n] = "free")
      BY <2>4, <2>6 DEF Events
    <3>2. ev[k].hup = (link[n] = "rst")
      BY <3>1 DEF Event
    <3>3. ev[k].hup => link[n] = "rst"
      BY <3>2
    <3> QED BY <2>2, <2>3, <3>3 DEF n
  <2> QED BY <2>5, <2>6
<1>3. CASE ScanEnd
  BY <1>1, <1>3 DEF ScanEnd, Entry, FlagInv
<1> QED BY <1>2, <1>3

LEMMA FlagsRewritten ==
  ASSUME ListInv, FlagInv, ReceiveEnd \/ Keep
  PROVE  FlagInv'
<1>1. PICK e \in Entries : /\ i \in 1..Counter /\ e.fd = ThisFd
                           /\ poll_fd' = [poll_fd EXCEPT ![i] = e]
                           /\ (Keep => ~ e.hup /\ ~ e.lost)
                           /\ ReceiveEnd => e.hup = poll_fd[i].hup
                                            /\ e.fresh = poll_fd[i].fresh
  BY EntryRewritten
<1>2. /\ Counter' = Counter
      /\ \A k \in 1..Counter : poll_fd'[k] = IF k = i THEN e ELSE poll_fd[k]
  BY <1>1, RewriteEntry
<1>3. link' = link
  BY DEF ReceiveEnd, Keep, env
<1>4. CASE ReceiveEnd
  <2>1. /\ client' = client /\ client \in Fd /\ link[client] \in {"fin", "rst"}
        /\ i' = i /\ pc = "receive" /\ pc' = "lock"
    BY <1>4 DEF ReceiveEnd
  <2>2. \A k \in 1..Counter : ~ poll_fd[k].lost
    BY <2>1 DEF FlagInv
  <2> SUFFICES ASSUME NEW k \in 1..Counter
               PROVE  /\ poll_fd'[k].hup => \/ poll_fd'[k].fresh \/ poll_fd'[k].fd = NoFd
                                            \/ link[poll_fd'[k].fd] \in {"rst", "leaked"}
                      /\ poll_fd'[k].lost => k = i
    BY <1>2, <1>3, <2>1 DEF FlagInv
  <2>3. CASE k = i
    BY <1>1, <1>2, <1>4, <2>3 DEF FlagInv, ThisFd
  <2>4. CASE k # i
    BY <1>2, <2>2, <2>4 DEF FlagInv
  <2> QED BY <2>3, <2>4
<1>5. CASE Keep
  <2> SUFFICES ASSUME NEW k \in 1..Counter
               PROVE  /\ poll_fd'[k].hup => \/ poll_fd'[k].fresh \/ poll_fd'[k].fd = NoFd
                                            \/ link[poll_fd'[k].fd] \in {"rst", "leaked"}
                      /\ ~ poll_fd'[k].lost
    BY <1>2, <1>3 DEF FlagInv
  <2>1. CASE k = i
    BY <1>1, <1>2, <1>5, <2>1
  <2>2. CASE k # i
    BY <1>2, <2>2 DEF FlagInv
  <2> QED BY <2>1, <2>2
<1> QED BY <1>4, <1>5

LEMMA FlagsOfAccepted ==
  ASSUME ListInv, FlagInv, NEW c \in Client \ sock_list, NEW n \in Number, AddClient(c, n),
         pc = "accept", DeadStaysDead
  PROVE  FlagInv'
<1>1. /\ Counter \in Nat /\ Counter' = Counter + 1
      /\ \A k \in 1..Counter : poll_fd'[k] = poll_fd[k]
  BY NewClient
<1>2. PICK in, hup \in BOOLEAN : poll_fd'[Counter + 1] = Entry(n, in, hup, TRUE)
  BY NewClient
<1>3. \A k \in 1..Counter : ~ poll_fd[k].lost /\ poll_fd[k].fd \in Number
  BY EntriesTyped DEF FlagInv
<1>4. ASSUME NEW k \in 1..Counter'
      PROVE  /\ poll_fd'[k].hup => \/ poll_fd'[k].fresh \/ poll_fd'[k].fd = NoFd
                                   \/ link'[poll_fd'[k].fd] \in {"rst", "leaked"}
             /\ ~ poll_fd'[k].lost
  <2>1. CASE k = Counter + 1
    BY <1>2, <2>1 DEF Entry
  <2>2. CASE k \in 1..Counter
    BY <1>1, <1>3, <2>2 DEF FlagInv, DeadStaysDead, Number
  <2> QED BY <1>1, <2>1, <2>2
<1> QED BY <1>4 DEF FlagInv

LEMMA FlagsOfTheOthers ==
  ASSUME ListInv, FlagInv, Stop \/ Close
  PROVE  FlagInv'
<1>1. i \in 1..Counter /\ DropEntry
  BY DEF Stop, Close, ListInv, ScanInv, Counter
<1>2. \A k \in 1..Counter' : \E m \in 1..Counter : m # i /\ poll_fd'[k] = poll_fd[m]
  <2>1. /\ Counter' = Counter - 1 /\ Counter \in Nat /\ i \in Nat
        /\ \A k \in 1..Counter' : poll_fd'[k] = poll_fd[IF k < i THEN k ELSE k + 1]
    BY <1>1, DropEntryProperties
  <2> TAKE k \in 1..Counter'
  <2>2. (IF k < i THEN k ELSE k + 1) \in 1..Counter \ {i}
    BY <2>1
  <2> QED BY <2>1, <2>2
<1>3. DeadStaysDead
  <2>1. CASE Stop
    BY <2>1 DEF Stop, env, DeadStaysDead
  <2>2. CASE Close
    <3>1. client \in sock_list /\ dpl_remove_node(client)
      BY <2>2, ClientAssumption DEF Close, IsClient, ListInv, ScanInv, Client
    <3> QED BY <3>1, CloseKeepsSockets DEF DeadStaysDead
  <2> QED BY <2>1, <2>2
<1>4. \A m \in 1..Counter : poll_fd[m].fd \in Number
  BY EntriesTyped
<1> QED BY <1>2, <1>3, <1>4 DEF FlagInv, DeadStaysDead, Number

LEMMA FlagStep == ListInv /\ FlagInv /\ [Next]_vars => FlagInv'
<1> SUFFICES ASSUME ListInv, FlagInv, [Next]_vars PROVE FlagInv'
  OBVIOUS
<1>1. CASE Poll \/ ScanEnd
  BY <1>1, FlagsFilled
<1>2. CASE ReceiveEnd \/ Keep
  BY <1>2, FlagsRewritten
<1>3. ASSUME NEW f \in Fd, Accept(f) PROVE FlagInv'
  <2>1. f \in Client \ sock_list /\ f \in Number /\ AddClient(f, f) /\ pc = "accept"
    BY <1>3 DEF Accept, ListInv, SocketsAgree, OpenFds, Client, Number
  <2>2. DeadStaysDead
    BY <1>3 DEF Accept, DeadStaysDead, ListInv
  <2> QED BY <2>1, <2>2, FlagsOfAccepted
<1>4. ASSUME NEW c \in Stray, FailedAccept(c) PROVE FlagInv'
  <2>1. /\ c \in Client \ sock_list /\ pc = "accept"
        /\ \E n \in Number : AddClient(c, n)
    BY <1>4 DEF FailedAccept, Client
  <2>2. DeadStaysDead
    BY <1>4 DEF FailedAccept, DeadStaysDead, ListInv
  <2> QED BY <2>1, <2>2, FlagsOfAccepted
<1>5. CASE Stop \/ Close
  BY <1>5, FlagsOfTheOthers
<1>6. ASSUME NEW f \in Fd, HangUp(f) \/ BreakOff(f) PROVE FlagInv'
  <2>1. /\ link[f] \in {"up", "fin"} /\ UNCHANGED loop
        /\ \E st \in {"fin", "rst"} : link' = [link EXCEPT ![f] = st]
    BY <1>6 DEF HangUp, BreakOff
  <2>2. DeadStaysDead /\ \A g \in Fd : link[g] = "fin" => link'[g] \in {"fin", "rst"}
    BY <2>1 DEF DeadStaysDead, ListInv
  <2> QED BY <2>1, <2>2, SameEntriesKeepFlags DEF loop
<1>7. CASE /\ UNCHANGED <<poll_fd, link>>
           /\ pc \in {"lock", "check"} =>
                pc' \in {"lock", "check"} /\ i' = i /\ client' = client
  BY <1>7, SameEntriesKeepFlags DEF DeadStaysDead
<1>8. \/ Stop \/ Close \/ Poll \/ ScanEnd \/ ReceiveEnd \/ Keep
      \/ \E f \in Fd : Accept(f)
      \/ \E c \in Stray : FailedAccept(c)
      \/ \E f \in Fd : HangUp(f) \/ BreakOff(f)
      \/ /\ UNCHANGED <<poll_fd, link>>
         /\ pc \in {"lock", "check"} =>
              pc' \in {"lock", "check"} /\ i' = i /\ client' = client
  BY DEF Next, ConnMgrStep, Environment, Listen, ListenCrash, PollTimeout, PollError,
         AcceptCrash, Scan, Receive, ReceiveFails, Lock, connmgr_free, DataMgrStep,
         UnknownSensor, DataMgrLock, DataMgrSignal, DataMgrUnlock, Connect, Tick, Send,
         vars, loop, env
<1> QED BY <1>1, <1>2, <1>3, <1>4, <1>5, <1>6, <1>7, <1>8

LEMMA FlagInvariance == Spec => [](ListInv /\ FlagInv)
<1>1. Init => FlagInv
  BY DEF Init, FlagInv, Counter
<1> QED BY <1>1, ListInvInit, ListStep, FlagStep, PTL DEF Spec

\* A connection is closed for a reason: silence, a sensor node that is gone, or
\* a revents that poll has not filled yet (connmgr.c:148, with 95 and 88-97).
THEOREM ClosedForAReason == Spec => CloseJustified
<1> DEFINE Justified ==
             \A f \in Fd \cap (sock_list \ sock_list') :
               \/ age[f] > TIMEOUT \/ link[f] \in {"fin", "rst"}
               \/ poll_fd[i].fd = f /\ poll_fd[i].fresh
<1>1. ListInv /\ FlagInv /\ [Next]_vars => [Justified]_vars
  <2> SUFFICES ASSUME ListInv, FlagInv, [Next]_vars, NEW f \in Fd, f \in sock_list \ sock_list'
               PROVE  \/ age[f] > TIMEOUT \/ link[f] \in {"fin", "rst"}
                      \/ poll_fd[i].fd = f /\ poll_fd[i].fresh
    OBVIOUS
  <2>1. Close
    <3>1. Stop \/ Close
      BY OnlyCheckDrops
    <3> QED BY <3>1 DEF Stop, clients
  <2>2. /\ client \in sock_list /\ client # NULL /\ Sd(client) = ThisFd
        /\ i \in 1..Counter /\ Gone
    BY <2>1, ClientAssumption DEF Close, ListInv, ScanInv, Client, Counter
  <2>3. f = client /\ poll_fd[i].fd = f
    BY <2>1, <2>2 DEF Close, IsClient, dpl_remove_node, Sd, ThisFd
  <2>4. link[f] # "leaked" /\ f # NoFd
    BY <2>3, <2>2, ClientAssumption DEF ListInv, SocketsAgree, OpenFds
  <2>5. CASE age[client] > TIMEOUT
    BY <2>3, <2>5
  <2>6. CASE poll_fd[i].hup \/ poll_fd[i].lost
    BY <2>2, <2>3, <2>4, <2>6 DEF FlagInv
  <2> QED BY <2>2, <2>5, <2>6 DEF Gone
<1> QED BY <1>1, FlagInvariance, PTL DEF Spec, CloseJustified

-----------------------------------------------------------------------------
(* Types and bounds. *)

\* A connection is accepted only after poll has reported one and while there is
\* room for it (connmgr.c:79-80).
AcceptPossible == pc = "accept" => poll_ret > 0 /\ Counter < MAX_CONN /\ backlog > 0

TypeInv == ListInv /\ TypeOK /\ AcceptPossible

LEMMA CounterStep ==
  ASSUME TypeInv, [Next]_vars
  PROVE  /\ Counter \in Nat /\ Counter' \in Nat
         /\ \/ Counter' = Counter \/ Stop \/ Close
            \/ pc = "accept" /\ Counter' = Counter + 1
         /\ Stop \/ Close => Counter' = Counter - 1
<1>1. Counter \in Nat /\ Counter' \in Nat
  BY ListStep DEF TypeInv, ListInv, Counter
<1>2. CASE Poll \/ ScanEnd
  <2>1. DOMAIN poll_fd' = 1..Counter
    BY <1>2 DEF Poll, ScanEnd
  <2>2. Counter' = Counter
    BY <1>1, <1>2, <2>1, PollKeepsLists, LengthFromDomain DEF TypeInv, ListInv, Counter
  <2> QED BY <1>1, <1>2, <2>2 DEF Poll, ScanEnd, Stop, Close
<1>3. CASE ReceiveEnd \/ Keep
  <2>1. Counter' = Counter
    BY <1>3, EntryRewritten, RewriteEntry DEF TypeInv
  <2>2. ~ Stop /\ ~ Close
    BY <1>3 DEF ReceiveEnd, Keep, Stop, Close
  <2> QED BY <1>1, <2>1, <2>2
<1>4. ASSUME NEW c \in Client \ sock_list, NEW n \in Number, AddClient(c, n), pc = "accept"
      PROVE  Counter' = Counter + 1 /\ ~ Stop /\ ~ Close
  <2>1. Counter' = Counter + 1
    BY <1>4, NewClient DEF TypeInv
  <2> QED BY <1>4, <2>1 DEF Stop, Close
<1>5. ASSUME NEW f \in Fd, Accept(f)
      PROVE  Counter' = Counter + 1 /\ pc = "accept" /\ ~ Stop /\ ~ Close
  <2>1. f \in Client \ sock_list /\ f \in Number /\ AddClient(f, f) /\ pc = "accept"
    BY <1>5 DEF Accept, TypeInv, ListInv, SocketsAgree, OpenFds, Client, Number
  <2> QED BY <2>1, <1>4
<1>6. ASSUME NEW c \in Stray, FailedAccept(c)
      PROVE  Counter' = Counter + 1 /\ pc = "accept" /\ ~ Stop /\ ~ Close
  <2>1. /\ c \in Client \ sock_list /\ pc = "accept"
        /\ \E n \in Number : AddClient(c, n)
    BY <1>6 DEF FailedAccept, Client
  <2> QED BY <2>1, <1>4
<1>7. ASSUME Stop \/ Close
      PROVE  Counter' = Counter - 1
  <2>1. i \in 1..Counter /\ DropEntry
    BY <1>7 DEF Stop, Close, TypeInv, ListInv, ScanInv, Counter
  <2> QED BY <2>1, DropEntryProperties DEF TypeInv
<1>8. CASE poll_fd' = poll_fd /\ ~ Stop /\ ~ Close
  BY <1>1, <1>8 DEF Counter
<1>9. \/ Stop \/ Close \/ Poll \/ ScanEnd \/ ReceiveEnd \/ Keep
      \/ \E f \in Fd : Accept(f)
      \/ \E c \in Stray : FailedAccept(c)
      \/ poll_fd' = poll_fd
  BY DEF Next, ConnMgrStep, Environment, Listen, ListenCrash, PollTimeout, PollError,
         AcceptCrash, Scan, Receive, ReceiveFails, Lock, connmgr_free, DataMgrStep,
         UnknownSensor, DataMgrLock, DataMgrSignal, DataMgrUnlock, Connect, Tick, Send,
         HangUp, BreakOff, vars, loop
<1> QED BY <1>1, <1>2, <1>3, <1>5, <1>6, <1>7, <1>8, <1>9

\* The position of the scan and the count poll returned stay in their range.
LEMMA ScanInRange ==
  ASSUME TypeInv, [Next]_vars
  PROVE  /\ i' \in 1..MAX_CONN + 1 /\ poll_ret' \in 0..MAX_CONN + 1
         /\ Counter' =< MAX_CONN /\ AcceptPossible'
<1> USE BoundAssumption
<1>1. Counter \in Nat /\ Counter' \in Nat /\ MAX_CONN \in Nat
      /\ Counter =< MAX_CONN /\ i \in 1..MAX_CONN + 1 /\ poll_ret \in 0..MAX_CONN + 1
      /\ backlog \in Nat
  BY CounterStep DEF TypeInv, TypeOK
<1>2. Counter' =< MAX_CONN
  BY <1>1, CounterStep DEF TypeInv, AcceptPossible
<1>3. CASE Poll
  <2>1. PICK ev \in [1..Counter -> AnyEvent] :
          poll_ret' = Cardinality({k \in 1..Counter : ev[k].some})
                       + (IF backlog > 0 THEN 1 ELSE 0)
    BY <1>3 DEF Poll
  <2> DEFINE some == {k \in 1..Counter : ev[k].some}
  <2>2. IsFiniteSet(1..Counter) /\ Cardinality(1..Counter) = Counter
    BY <1>1, FS_Interval
  <2>3. Cardinality(some) \in 0..Counter
    <3>1. some \in SUBSET (1..Counter)
      OBVIOUS
    <3> HIDE DEF some
    <3>2. IsFiniteSet(some) /\ Cardinality(some) =< Cardinality(1..Counter)
      BY <2>2, <3>1, FS_Subset
    <3>3. Cardinality(some) \in Nat
      BY <3>2, FS_CardinalityType
    <3> QED BY <1>1, <2>2, <3>2, <3>3
  <2>4. Counter' = Counter
    BY <1>3, CounterStep DEF Poll, Stop, Close
  <2>5. /\ poll_ret' > 0 /\ i' = 1 /\ backlog' = backlog
        /\ pc' = IF backlog > 0 /\ Counter < MAX_CONN THEN "accept" ELSE "scan"
    BY <1>3 DEF Poll, env
  <2> HIDE DEF some
  <2>6. poll_ret' \in 0..MAX_CONN + 1
    <3>1. poll_ret' = Cardinality(some) + (IF backlog > 0 THEN 1 ELSE 0)
      BY <2>1 DEF some
    <3> QED BY <1>1, <2>3, <3>1
  <2> QED BY <1>1, <1>2, <2>4, <2>5, <2>6 DEF AcceptPossible
<1>4. ASSUME NEW c \in Client, NEW n \in Number, AddClient(c, n), pc = "accept", i' = i
      PROVE  i' = i /\ poll_ret' \in 0..MAX_CONN + 1 /\ AcceptPossible'
  BY <1>1, <1>4 DEF AddClient, TypeInv, AcceptPossible
<1>5. ASSUME NEW f \in Fd, Accept(f)
      PROVE  i' = i /\ poll_ret' \in 0..MAX_CONN + 1 /\ AcceptPossible'
  BY <1>4, <1>5 DEF Accept, Client, Number
<1>6. ASSUME NEW c \in Stray, FailedAccept(c)
      PROVE  i' = i /\ poll_ret' \in 0..MAX_CONN + 1 /\ AcceptPossible'
  BY <1>4, <1>6 DEF FailedAccept, Client
<1>7. CASE Keep
  <2>1. i =< Counter /\ i' = i + 1 /\ UNCHANGED poll_ret /\ pc' = "scan"
    BY <1>7 DEF Keep, NextEntry, TypeInv, ListInv, ScanInv
  <2> QED BY <1>1, <1>2, <2>1 DEF AcceptPossible
<1>8. CASE ScanEnd
  BY <1>1, <1>2, <1>8 DEF ScanEnd, AcceptPossible
<1>9. CASE ReceiveEnd \/ ReceiveFails \/ Stop \/ Close
  BY <1>1, <1>2, <1>9 DEF ReceiveEnd, ReceiveFails, Stop, Close, NextEntry, AcceptPossible
<1>10. ASSUME NEW s \in Sensor, Receive(s)
       PROVE  i' = i /\ poll_ret' = poll_ret /\ AcceptPossible'
  BY <1>10 DEF Receive, AcceptPossible
<1>11. CASE Listen \/ ListenCrash \/ PollTimeout \/ PollError \/ AcceptCrash \/ Scan
            \/ Lock \/ connmgr_free
  BY <1>1, <1>2, <1>11 DEF Listen, ListenCrash, PollTimeout, PollError, AcceptCrash, Scan,
     Lock, connmgr_free, AcceptPossible
<1>12. CASE DataMgrStep \/ Environment \/ UNCHANGED vars
  <2>1. UNCHANGED <<i, poll_ret, pc, poll_fd>> /\ backlog' >= backlog
    BY <1>1, <1>12 DEF DataMgrStep, UnknownSensor, DataMgrLock, DataMgrSignal,
       DataMgrUnlock, Environment, Connect, Tick, Send, HangUp, BreakOff, vars, loop, env
  <2>2. backlog' \in Nat
    BY <1>1, <1>12 DEF DataMgrStep, UnknownSensor, DataMgrLock, DataMgrSignal,
       DataMgrUnlock, Environment, Connect, Tick, Send, HangUp, BreakOff, vars, loop, env
  <2> QED BY <1>1, <1>2, <2>1, <2>2 DEF TypeInv, AcceptPossible, Counter
<1> QED BY <1>1, <1>2, <1>3, <1>5, <1>6, <1>7, <1>8, <1>9, <1>10, <1>11, <1>12
        DEF Next, ConnMgrStep

\* The kernel's side: what waits, and the descriptors.
LEMMA NetworkTyped ==
  ASSUME TypeInv, [Next]_vars
  PROVE  backlog' \in 0..MaxBacklog /\ inbox' \in [Fd -> 0..MaxInbox]
<1> USE BoundAssumption
<1>1. backlog \in 0..MaxBacklog /\ inbox \in [Fd -> 0..MaxInbox]
  BY DEF TypeInv, TypeOK
<1>2. CASE Connect
  BY <1>1, <1>2 DEF Connect
<1>3. ASSUME NEW f \in Fd, Send(f) \/ HangUp(f) \/ BreakOff(f)
      PROVE  backlog' = backlog /\ inbox' \in [Fd -> 0..MaxInbox]
  BY <1>1, <1>3 DEF Send, HangUp, BreakOff
<1>4. ASSUME NEW f \in Fd, Accept(f)
      PROVE  backlog' \in 0..MaxBacklog /\ inbox' = inbox
  BY <1>1, <1>4 DEF Accept, TypeInv, AcceptPossible
<1>5. ASSUME NEW c \in Stray, FailedAccept(c)
      PROVE  backlog' \in 0..MaxBacklog /\ inbox' = inbox
  BY <1>1, <1>5 DEF FailedAccept, TypeInv, AcceptPossible
<1>6. ASSUME NEW s \in Sensor, Receive(s)
      PROVE  backlog' = backlog /\ inbox' \in [Fd -> 0..MaxInbox]
  <2>1. /\ backlog' = backlog /\ client \in Fd /\ inbox[client] > 0
        /\ inbox' = [inbox EXCEPT ![client] = @ - 1]
    BY <1>6 DEF Receive
  <2>2. inbox[client] - 1 \in 0..MaxInbox
    BY <1>1, <2>1
  <2> QED BY <1>1, <2>1, <2>2
<1>7. CASE Close
  BY <1>1, <1>7 DEF Close, dpl_remove_node, tcp_close
<1>8. \/ UNCHANGED <<backlog, inbox>> \/ Connect \/ Close
      \/ \E f \in Fd : Send(f) \/ HangUp(f) \/ BreakOff(f) \/ Accept(f)
      \/ \E c \in Stray : FailedAccept(c)
      \/ \E s \in Sensor : Receive(s)
  BY DEF Next, ConnMgrStep, Environment, Listen, ListenCrash, Poll, PollTimeout, PollError,
         AcceptCrash, Scan, ScanEnd, ReceiveEnd, ReceiveFails, Lock, Keep, Stop,
         connmgr_free, DataMgrStep, UnknownSensor, DataMgrLock, DataMgrSignal,
         DataMgrUnlock, Tick, vars, env
<1> QED BY <1>1, <1>2, <1>3, <1>4, <1>5, <1>6, <1>7, <1>8

\* What the connection manager knows of its clients.
LEMMA ClientsTyped ==
  ASSUME TypeInv, [Next]_vars
  PROVE  age' \in [Client -> 0..TIMEOUT + 1] /\ sensor' \in [Client -> Sensor]
<1> USE TimeoutAssumption, SensorAssumption
<1>1. age \in [Client -> 0..TIMEOUT + 1] /\ sensor \in [Client -> Sensor]
  BY DEF TypeInv, TypeOK
<1>2. CASE Tick
  <2>1. \A c \in Client : (IF c \in sock_list /\ age[c] =< TIMEOUT THEN age[c] + 1 ELSE age[c])
                          \in 0..TIMEOUT + 1
    BY <1>1
  <2> QED BY <1>1, <1>2, <2>1 DEF Tick
<1>3. ASSUME NEW c \in Client, NEW n \in Number, AddClient(c, n)
      PROVE  age' \in [Client -> 0..TIMEOUT + 1] /\ sensor' \in [Client -> Sensor]
  BY <1>1, <1>3 DEF AddClient
<1>4. ASSUME NEW s \in Sensor, Receive(s)
      PROVE  age' \in [Client -> 0..TIMEOUT + 1] /\ sensor' \in [Client -> Sensor]
  <2>1. client \in Client
    BY <1>4 DEF Receive, Client
  <2>2. /\ age' = [age EXCEPT ![client] = 0]
        /\ \E v \in Sensor : sensor' = [sensor EXCEPT ![client] = v]
    <3>1. (IF sensor[client] = 0 THEN s ELSE sensor[client]) \in Sensor
      BY <1>1, <1>4, <2>1
    <3> QED BY <1>4, <3>1 DEF Receive
  <2>3. 0 \in 0..TIMEOUT + 1
    OBVIOUS
  <2> QED BY <1>1, <2>2, <2>3
<1>5. CASE Close
  <2>1. UNCHANGED <<age, sensor>> \/ /\ age' = [age EXCEPT ![client] = 0]
                                     /\ sensor' = [sensor EXCEPT ![client] = 0]
    BY <1>5 DEF Close, dpl_remove_node, clients
  <2> QED BY <1>1, <2>1
<1>6. ASSUME NEW f \in Fd, Accept(f)
      PROVE  age' \in [Client -> 0..TIMEOUT + 1] /\ sensor' \in [Client -> Sensor]
  BY <1>3, <1>6 DEF Accept, Client, Number
<1>7. ASSUME NEW c \in Stray, FailedAccept(c)
      PROVE  age' \in [Client -> 0..TIMEOUT + 1] /\ sensor' \in [Client -> Sensor]
  BY <1>3, <1>7 DEF FailedAccept, Client
<1>8. \/ UNCHANGED <<age, sensor>> \/ Tick \/ Close
      \/ \E f \in Fd : Accept(f)
      \/ \E c \in Stray : FailedAccept(c)
      \/ \E s \in Sensor : Receive(s)
  BY DEF Next, ConnMgrStep, Environment, Listen, ListenCrash, Poll, PollTimeout, PollError,
         AcceptCrash, Scan, ScanEnd, ReceiveEnd, ReceiveFails, Lock, Keep, Stop,
         connmgr_free, DataMgrStep, UnknownSensor, DataMgrLock, DataMgrSignal,
         DataMgrUnlock, Connect, Send, HangUp, BreakOff, vars, clients
<1> QED BY <1>1, <1>2, <1>4, <1>5, <1>6, <1>7, <1>8

\* Where the two managers stand, and what they say to each other.
LEMMA ControlTyped ==
  ASSUME TypeInv, [Next]_vars
  PROVE  /\ pc' \in {"listen", "poll", "accept", "scan", "receive", "lock", "check",
                     "free", "exit", "listen_crash", "accept_crash", "free_crash"}
         /\ owner' \in {"none", "connmgr", "datamgr"} /\ stopsig' \in Sensor
         /\ dm' \in {"idle", "lock", "set", "unlock"} /\ want' \in Sensor
         /\ closed' \in BOOLEAN
<1> USE SensorAssumption DEF TypeInv, TypeOK
<1>1. CASE Poll \/ Scan \/ ScanEnd \/ ReceiveEnd \/ ReceiveFails \/ Listen \/ ListenCrash
           \/ PollTimeout \/ PollError \/ AcceptCrash \/ connmgr_free
  BY <1>1 DEF Poll, Scan, ScanEnd, ReceiveEnd, ReceiveFails, Listen, ListenCrash,
              PollTimeout, PollError, AcceptCrash, connmgr_free, signal, data_mgr
<1>2. ASSUME NEW f \in Fd, Accept(f)
      PROVE  pc' = "scan" /\ UNCHANGED <<owner, stopsig, dm, want, closed>>
  BY <1>2 DEF Accept, AddClient, signal, data_mgr
<1>3. ASSUME NEW c \in Stray, FailedAccept(c)
      PROVE  pc' = "scan" /\ UNCHANGED <<owner, stopsig, dm, want, closed>>
  BY <1>3 DEF FailedAccept, AddClient, signal, data_mgr
<1>4. ASSUME NEW s \in Sensor, Receive(s)
      PROVE  pc' = "lock" /\ UNCHANGED <<owner, stopsig, dm, want, closed>>
  BY <1>4 DEF Receive, signal, data_mgr
<1>5. CASE Lock \/ Keep \/ Stop \/ Close
  BY <1>5 DEF Lock, Keep, Stop, Close, NextEntry, Unlock, data_mgr
<1>6. CASE DataMgrStep
  BY <1>6 DEF DataMgrStep, UnknownSensor, DataMgrLock, DataMgrSignal, DataMgrUnlock, Unlock,
              loop, signal
<1>7. CASE Environment \/ UNCHANGED vars
  BY <1>7 DEF Environment, Connect, Tick, Send, HangUp, BreakOff, vars, loop, signal, data_mgr
<1> QED BY <1>1, <1>2, <1>3, <1>4, <1>5, <1>6, <1>7 DEF Next, ConnMgrStep

\* The client the scan looks at.
LEMMA ClientTyped ==
  ASSUME TypeInv, [Next]_vars
  PROVE  client' \in Client \cup {NULL}
<1>1. CASE Scan
  BY <1>1 DEF Scan, Found, TypeInv, ListInv
<1>2. client' \in {client, NULL} \/ Scan
  BY DEF Next, ConnMgrStep, Environment, Listen, ListenCrash, Poll, PollTimeout, PollError,
         AcceptCrash, Accept, FailedAccept, ScanEnd, ReceiveEnd, ReceiveFails, Receive, Lock,
         Keep, Stop, Close, NextEntry, connmgr_free, DataMgrStep, UnknownSensor, DataMgrLock,
         DataMgrSignal, DataMgrUnlock, Connect, Tick, Send, HangUp, BreakOff, vars, loop
<1> QED BY <1>1, <1>2 DEF TypeInv, TypeOK

\* Every variable keeps its type and the loop its bounds: poll_fd never has more
\* than MAX_CONN entries, and the scan never stands beyond the end of it
\* (connmgr.c:79-81, 100).
THEOREM TypeInvariance == Spec => []TypeOK
<1>1. Init => TypeInv
  <2> SUFFICES ASSUME Init PROVE TypeInv
    OBVIOUS
  <2>1. ListInv
    BY ListInvInit
  <2>2. poll_fd = <<>> /\ Counter = 0
    BY DEF Init, Counter
  <2>3. /\ 0 \in Sensor /\ 0 \in 0..MaxBacklog /\ 0 \in 0..MaxInbox
        /\ 0 \in 0..TIMEOUT + 1 /\ 0 \in 0..MAX_CONN + 1 /\ 1 \in 1..MAX_CONN + 1
        /\ 0 =< MAX_CONN
    BY SensorAssumption, TimeoutAssumption, BoundAssumption
  <2>4. poll_fd \in Seq(Entries) /\ sock_list \subseteq Client /\ sd \in [Stray -> Number]
    BY <2>1 DEF ListInv
  <2>5. TypeOK
    <3>1. age \in [Client -> 0..TIMEOUT + 1] /\ sensor \in [Client -> Sensor]
      BY <2>3 DEF Init
    <3>2. link \in [Fd -> {"free", "up", "fin", "rst", "leaked"}] /\ inbox \in [Fd -> 0..MaxInbox]
      BY <2>3 DEF Init
    <3> QED BY <2>2, <2>3, <2>4, <3>1, <3>2 DEF Init, TypeOK, Entries
  <2> QED BY <2>1, <2>5 DEF Init, TypeInv, AcceptPossible
<1>2. TypeInv /\ [Next]_vars => TypeInv'
  <2> SUFFICES ASSUME TypeInv, [Next]_vars PROVE TypeInv'
    OBVIOUS
  <2>1. ListInv'
    BY ListStep DEF TypeInv
  <2> QED BY <2>1, ScanInRange, NetworkTyped, ClientsTyped, ClientTyped, ControlTyped
          DEF TypeInv, TypeOK, ListInv, Entries
<1>3. TypeInv => TypeOK
  BY DEF TypeInv
<1> QED BY <1>1, <1>2, <1>3, PTL DEF Spec
=============================================================================
