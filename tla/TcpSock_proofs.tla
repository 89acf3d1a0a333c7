---------------------------- MODULE TcpSock_proofs --------------------------
(***************************************************************************)
(* Proofs about Project/lib/tcpsock.c: TcpSock for any set of variables,   *)
(* descriptors and ports, and then what tcp_send and tcp_receive carry     *)
(* over one connection, SensorStream for any fields and any buffers.       *)
(***************************************************************************)
EXTENDS TcpSock, SensorStream, SequenceTheorems, TLAPS

Kind == {"free", "created", "bound", "listening", "connected", "accepted"}
Entry == [kind : Kind, port : 0..(PortSpace - 1), peer : Nat, reset : BOOLEAN]

Typed == sock \in [Handle -> {NULL} \cup Struct] /\ desc \in [Desc -> Entry]

(* What a call may do: three ways, besides nothing. *)

\* A descriptor that was unused is forgotten in some state of its opening.
Loses == \E d \in Unused, k \in Entry :
           /\ k.kind \in {"created", "bound", "connected", "accepted"}
           /\ FailOpen(last', d, k) /\ last' # "NO_ERROR"

\* What a socket tells of itself agrees with the kernel's entry k.
Agrees(ip, port, k) ==
  /\ k.kind \in {"listening", "connected", "accepted"} /\ ~ k.reset
  /\ ip = NULL <=> k.kind = "listening"
  /\ k.kind = "accepted" => port = k.peer
  /\ k.kind = "connected" => port = k.port
  /\ k.kind = "listening" => (port < PortSpace => port = k.port) /\ ~ Used(k.port)

Gives == \E h \in Handle, d \in Unused, k \in Entry, ip \in {"address", NULL}, port \in Nat :
           sock[h] = NULL /\ Agrees(ip, port, k) /\ Done(h, d, k, ip, port)

Closes == \E h \in Handle : sock[h] # NULL /\ tcp_close(h)

Effect == \/ UNCHANGED <<sock, desc>> \/ Loses \/ Gives \/ Closes
          \/ \E d \in Desc : Reset(d)

LEMMA OpenEntry ==
  ASSUME NEW p \in 0..(PortSpace - 1), NEW q \in Nat, NEW kind \in Kind
  PROVE  LET k == Open(kind, p, q)
         IN  k \in Entry /\ k.kind = kind /\ k.port = p /\ k.peer = q /\ ~ k.reset
  BY DEF Open, Entry

LEMMA CreatedEntry == Created \in Entry /\ Created.kind = "created"
  BY OpenEntry, PortAssumption DEF Created, Kind

LEMMA BindableIsPort ==
  ASSUME NEW port \in Nat, NEW p \in Bindable(port)
  PROVE  /\ p \in 0..(PortSpace - 1) /\ p \in Nat /\ ~ Used(p)
         /\ port < PortSpace /\ port # 0 => p = port
<1>1. p \in 0..(PortSpace - 1) /\ p \in Nat /\ ~ Used(p)
  BY PortAssumption DEF Bindable
<1>2. port < PortSpace /\ port # 0 => port % PortSpace = port
  BY PortAssumption
<1> QED BY <1>1, <1>2 DEF Bindable

LEMMA PassiveEffect ==
  ASSUME NEW h \in Handle, NEW port \in Asked, tcp_passive_open(h, port)
  PROVE  Effect
<1>1. port \in Nat
  BY PortAssumption
<1>2. CASE ~ PortAllowed(port)
  BY <1>2 DEF tcp_passive_open, Fail, Effect
<1>3. CASE PortAllowed(port)
  <2>1. sock[h] = NULL /\ (port < PortSpace => port # 0)
    BY <1>3, PortAssumption DEF PortAllowed, tcp_passive_open
  <2>2. \/ UNCHANGED <<sock, desc>>
        \/ \E d \in Unused :
             \/ FailOpen("SOCKOP_ERROR", d, Created)
             \/ \E p \in Bindable(port) :
                  \/ FailOpen("SOCKOP_ERROR", d, Open("bound", p, 0))
                  \/ Done(h, d, Open("listening", p, 0), NULL, port)
    BY <1>3 DEF tcp_passive_open, CreateFails, Fail
  <2>3. ASSUME NEW d \in Unused, FailOpen("SOCKOP_ERROR", d, Created) PROVE Loses
    BY <2>3, CreatedEntry DEF FailOpen, Loses
  <2>4. ASSUME NEW d \in Unused, NEW p \in Bindable(port),
               FailOpen("SOCKOP_ERROR", d, Open("bound", p, 0))
        PROVE  Loses
    <3>1. Open("bound", p, 0) \in Entry /\ Open("bound", p, 0).kind = "bound"
      BY <1>1, BindableIsPort, OpenEntry DEF Kind
    <3> QED BY <2>4, <3>1 DEF FailOpen, Loses
  <2>5. ASSUME NEW d \in Unused, NEW p \in Bindable(port),
               Done(h, d, Open("listening", p, 0), NULL, port)
        PROVE  Gives
    <3> DEFINE k == Open("listening", p, 0)
    <3>1. p \in 0..(PortSpace - 1) /\ ~ Used(p) /\ (port < PortSpace => p = port)
      BY <1>1, <2>1, BindableIsPort
    <3>2. k \in Entry /\ k.kind = "listening" /\ k.port = p /\ ~ k.reset
      BY <3>1, OpenEntry DEF Kind
    <3>3. Agrees(NULL, port, k)
      BY <3>1, <3>2 DEF Agrees
    <3> QED BY <1>1, <2>1, <2>5, <3>2, <3>3 DEF Gives
  <2> QED BY <2>2, <2>3, <2>4, <2>5 DEF Effect
<1> QED BY <1>2, <1>3

LEMMA ActiveEffect ==
  ASSUME NEW h \in Handle, NEW port \in Asked, NEW ip, tcp_active_open(h, port, ip)
  PROVE  Effect
<1>1. port \in Nat
  BY PortAssumption
<1>2. CASE ~ PortAllowed(port) \/ ip = NULL
  BY <1>2 DEF tcp_active_open, Fail, Effect
<1>3. CASE PortAllowed(port) /\ ip # NULL
  <2> DEFINE k(p) == Open("connected", p, port)
  <2>1. sock[h] = NULL
    BY DEF tcp_active_open
  <2>2. \/ UNCHANGED <<sock, desc>>
        \/ \E d \in Unused : FailOpen("ADDRESS_ERROR", d, Created) \/ FailOpen("SOCKOP_ERROR", d, Created)
        \/ \E d \in Unused, p \in Bindable(0) :
             \/ FailOpen("SOCKOP_ERROR", d, k(p)) \/ FailOpen("MEMORY_ERROR", d, k(p))
             \/ Done(h, d, k(p), "address", k(p).port)
    BY <1>3 DEF tcp_active_open, CreateFails, Fail, LocalPort
  <2>3. ASSUME NEW d \in Unused,
               FailOpen("ADDRESS_ERROR", d, Created) \/ FailOpen("SOCKOP_ERROR", d, Created)
        PROVE  Loses
    BY <2>3, CreatedEntry DEF FailOpen, Loses
  <2>4. ASSUME NEW p \in Bindable(0)
        PROVE  /\ k(p) \in Entry /\ k(p).kind = "connected" /\ k(p).port = p /\ ~ k(p).reset
               /\ p \in Nat
    BY <1>1, BindableIsPort, OpenEntry DEF Kind
  <2>5. ASSUME NEW d \in Unused, NEW p \in Bindable(0),
               FailOpen("SOCKOP_ERROR", d, k(p)) \/ FailOpen("MEMORY_ERROR", d, k(p))
        PROVE  Loses
    BY <2>5, <2>4 DEF FailOpen, Loses
  <2>6. ASSUME NEW d \in Unused, NEW p \in Bindable(0), Done(h, d, k(p), "address", k(p).port)
        PROVE  Gives
    <3>1. Agrees("address", k(p).port, k(p))
      BY <2>4, NullAssumption DEF Agrees
    <3> QED BY <2>1, <2>4, <2>6, <3>1 DEF Gives
  <2> QED BY <2>2, <2>3, <2>5, <2>6 DEF Effect
<1> QED BY <1>2, <1>3

LEMMA WaitEffect ==
  ASSUME Typed, NEW h \in Handle, NEW new \in Handle, tcp_wait_for_connection(h, new)
  PROVE  Effect
<1>1. CASE ~ Valid(h)
  BY <1>1 DEF tcp_wait_for_connection, Fail, Effect
<1>2. CASE Valid(h)
  <2> DEFINE here == desc[sock[h].sd].port
             k(p) == Open("accepted", here, p)
  <2>1. sock[new] = NULL
    BY DEF tcp_wait_for_connection
  <2>2. \/ UNCHANGED <<sock, desc>>
        \/ \E d \in Unused, p \in Ephemeral :
             \/ FailOpen("MEMORY_ERROR", d, k(p)) \/ Done(new, d, k(p), "address", p)
    BY <1>2 DEF tcp_wait_for_connection, CreateFails, Fail
  <2>3. here \in 0..(PortSpace - 1)
    BY <1>2 DEF Typed, Valid, Struct, Entry
  <2>4. ASSUME NEW p \in Ephemeral
        PROVE  /\ k(p) \in Entry /\ k(p).kind = "accepted" /\ k(p).peer = p /\ ~ k(p).reset
               /\ p \in Nat
    <3>1. p \in Nat
      BY PortAssumption
    <3> QED BY <2>3, <3>1, OpenEntry DEF Kind
  <2>5. ASSUME NEW d \in Unused, NEW p \in Ephemeral, FailOpen("MEMORY_ERROR", d, k(p))
        PROVE  Loses
    BY <2>4, <2>5 DEF FailOpen, Loses
  <2>6. ASSUME NEW d \in Unused, NEW p \in Ephemeral, Done(new, d, k(p), "address", p)
        PROVE  Gives
    <3>1. Agrees("address", p, k(p))
      BY <2>4, NullAssumption DEF Agrees
    <3> QED BY <2>1, <2>4, <2>6, <3>1 DEF Gives
  <2> QED BY <2>2, <2>5, <2>6 DEF Effect
<1> QED BY <1>1, <1>2

LEMMA NextEffect ==
  ASSUME Typed, [Next]_vars PROVE Effect
<1>1. ASSUME NEW h \in Handle, tcp_close(h) PROVE Effect
  BY <1>1 DEF Effect, Closes, tcp_close, Fail
<1>2. CASE UNCHANGED vars
  BY <1>2 DEF vars, Effect
<1> QED BY <1>1, <1>2, PassiveEffect, ActiveEffect, WaitEffect DEF Next, Effect

-----------------------------------------------------------------------------
(* What each effect leaves of the sockets that can be used. *)

LEMMA InitTyped == Init => Typed
  BY OpenEntry, PortAssumption DEF Init, Typed, Free, Kind

LEMMA LosesPart ==
  ASSUME Typed, Loses
  PROVE  /\ Typed' /\ sock' = sock /\ last' # "NO_ERROR"
         /\ \E d \in Unused : /\ desc'[d].kind # "listening"
                              /\ \A e \in Desc \ {d} : desc'[e] = desc[e]
  BY DEF Typed, Loses, FailOpen, Unused

LEMMA ResetPart ==
  ASSUME Typed, NEW d \in Desc, Reset(d)
  PROVE  /\ Typed' /\ sock' = sock
         /\ desc[d].kind # "listening"
         /\ desc'[d].kind = desc[d].kind /\ desc'[d].port = desc[d].port
         /\ desc'[d].peer = desc[d].peer
         /\ \A e \in Desc \ {d} : desc'[e] = desc[e]
<1>1. desc[d] \in Entry /\ sock' = sock /\ desc[d].kind # "listening"
  BY DEF Reset, Typed
<1>2. desc' = [desc EXCEPT ![d] = [desc[d] EXCEPT !.reset = TRUE]]
  BY DEF Reset
<1>3. LET k == [desc[d] EXCEPT !.reset = TRUE]
      IN  k \in Entry /\ k.kind = desc[d].kind /\ k.port = desc[d].port /\ k.peer = desc[d].peer
  BY <1>1 DEF Entry
<1> QED BY <1>1, <1>2, <1>3 DEF Typed

LEMMA ClosesPart ==
  ASSUME Typed, NEW h \in Handle, sock[h] # NULL, tcp_close(h)
  PROVE  /\ Typed' /\ Live' = Live \ {h}
         /\ \A i \in Live' : sock'[i] = sock[i]
         /\ \A e \in Desc : \/ desc'[e] = desc[e]
                            \/ h \in Live /\ e = sock[h].sd /\ desc'[e].kind = "free"
         /\ h \in Live => desc'[sock[h].sd].kind = "free" \/ desc[sock[h].sd].reset
<1>1. sock' = [sock EXCEPT ![h] = NULL]
  BY DEF tcp_close, Forgotten
<1>2. sock' \in [Handle -> {NULL} \cup Struct] /\ Live' = Live \ {h}
      /\ \A i \in Live' : sock'[i] = sock[i]
  BY <1>1 DEF Typed, Live, Valid
<1>3. Free \in Entry /\ Free.kind = "free"
  BY OpenEntry, PortAssumption DEF Free, Kind
<1>4. CASE Valid(h)
  <2>1. sock[h].sd \in Desc /\ h \in Live
    BY <1>4 DEF Valid, Typed, Struct, Live
  <2>2. desc' = IF desc[sock[h].sd].reset THEN desc ELSE [desc EXCEPT ![sock[h].sd] = Free]
    BY <1>4 DEF tcp_close, Closed
  <2> QED BY <1>2, <1>3, <2>1, <2>2 DEF Typed
<1>5. CASE ~ Valid(h)
  BY <1>2, <1>5 DEF tcp_close, Typed, Live
<1> QED BY <1>4, <1>5

LEMMA GivesPart ==
  ASSUME Typed, NEW h \in Handle, NEW d \in Unused, NEW k \in Entry,
         NEW ip \in {"address", NULL}, NEW port \in Nat, sock[h] = NULL, Done(h, d, k, ip, port)
  PROVE  /\ Typed' /\ h \notin Live /\ Live' = Live \cup {h}
         /\ \A i \in Live : sock'[i] = sock[i]
         /\ sock'[h] = [cookie |-> TRUE, sd |-> d, ip_addr |-> ip, port |-> port]
         /\ desc'[d] = k /\ \A e \in Desc \ {d} : desc'[e] = desc[e]
<1> DEFINE s == [cookie |-> TRUE, sd |-> d, ip_addr |-> ip, port |-> port]
<1>1. d \in Desc /\ s \in Struct /\ s # NULL /\ s.cookie
  <2>1. d \in Desc
    BY DEF Unused
  <2>2. s \in Struct
    BY <2>1 DEF Struct
  <2> QED BY <2>1, <2>2, NullAssumption
<1>2. sock' = [sock EXCEPT ![h] = s] /\ desc' = [desc EXCEPT ![d] = k]
  BY DEF Done
<1>3. Typed' /\ sock'[h] = s /\ (\A i \in Handle \ {h} : sock'[i] = sock[i])
      /\ desc'[d] = k /\ (\A e \in Desc \ {d} : desc'[e] = desc[e])
  BY <1>1, <1>2 DEF Typed
<1>4. h \notin Live /\ Live' = Live \cup {h}
  BY <1>1, <1>3 DEF Live, Valid
<1> QED BY <1>3, <1>4 DEF Live

LEMMA LiveType ==
  ASSUME Typed, NEW h \in Live
  PROVE  h \in Handle /\ sock[h] \in Struct /\ sock[h].sd \in Desc /\ desc[sock[h].sd] \in Entry
  BY DEF Typed, Live, Valid, Struct

-----------------------------------------------------------------------------
(* Ownership. *)

OwnInv == Typed /\ DescriptorsOwned

LEMMA OwnGives ==
  ASSUME OwnInv, Gives PROVE OwnInv'
<1>1. PICK h \in Handle, d \in Unused, k \in Entry, ip \in {"address", NULL}, port \in Nat :
        sock[h] = NULL /\ Agrees(ip, port, k) /\ Done(h, d, k, ip, port)
  BY DEF Gives
<1>2. /\ Typed' /\ h \notin Live /\ Live' = Live \cup {h}
      /\ \A i \in Live : sock'[i] = sock[i]
      /\ sock'[h] = [cookie |-> TRUE, sd |-> d, ip_addr |-> ip, port |-> port]
      /\ desc'[d] = k /\ \A e \in Desc \ {d} : desc'[e] = desc[e]
  BY <1>1, GivesPart DEF OwnInv
<1>3. \A i \in Live : sock[i].sd \in Desc /\ sock[i].sd # d
  BY LiveType DEF OwnInv, DescriptorsOwned, Unused, tcp_get_sd
<1>4. k.kind \in {"listening", "connected", "accepted"}
  BY <1>1 DEF Agrees
<1> QED BY <1>2, <1>3, <1>4 DEF OwnInv, DescriptorsOwned, tcp_get_sd

LEMMA OwnCloses ==
  ASSUME OwnInv, Closes PROVE OwnInv'
<1>1. PICK h \in Handle : sock[h] # NULL /\ tcp_close(h)
  BY DEF Closes
<1>2. /\ Typed' /\ Live' = Live \ {h}
      /\ \A i \in Live' : sock'[i] = sock[i]
      /\ \A e \in Desc : desc'[e] = desc[e] \/ (h \in Live /\ e = sock[h].sd)
  BY <1>1, ClosesPart DEF OwnInv
<1>3. \A i \in Live' : sock[i].sd \in Desc /\ desc'[sock[i].sd] = desc[sock[i].sd]
  BY <1>2, LiveType DEF OwnInv, DescriptorsOwned, tcp_get_sd
<1> QED BY <1>2, <1>3 DEF OwnInv, DescriptorsOwned, tcp_get_sd

LEMMA OwnLoses ==
  ASSUME OwnInv, Loses PROVE OwnInv'
<1>1. PICK d \in Unused : \A e \in Desc \ {d} : desc'[e] = desc[e]
  BY LosesPart DEF OwnInv
<1>2. Typed' /\ sock' = sock /\ Live' = Live
  BY LosesPart DEF OwnInv, Live, Valid
<1>3. \A i \in Live : sock[i].sd \in Desc /\ sock[i].sd # d
  BY LiveType DEF OwnInv, DescriptorsOwned, Unused, tcp_get_sd
<1> QED BY <1>1, <1>2, <1>3 DEF OwnInv, DescriptorsOwned, tcp_get_sd

LEMMA OwnReset ==
  ASSUME OwnInv, NEW d \in Desc, Reset(d) PROVE OwnInv'
<1>1. Typed' /\ sock' = sock /\ Live' = Live
  BY ResetPart DEF OwnInv, Live, Valid
<1>2. \A e \in Desc : desc'[e].kind = desc[e].kind
  BY ResetPart DEF OwnInv
<1> QED BY <1>1, <1>2, LiveType DEF OwnInv, DescriptorsOwned, tcp_get_sd

LEMMA OwnInvariance == Spec => []OwnInv
<1>1. Init => OwnInv
  BY InitTyped DEF Init, OwnInv, DescriptorsOwned, Live, Valid
<1>2. OwnInv /\ [Next]_vars => OwnInv'
  <2> SUFFICES ASSUME OwnInv, [Next]_vars PROVE OwnInv'
    OBVIOUS
  <2>1. CASE UNCHANGED <<sock, desc>>
    BY <2>1 DEF OwnInv, Typed, DescriptorsOwned, Live, Valid, tcp_get_sd
  <2> QED BY <2>1, NextEffect, OwnGives, OwnCloses, OwnLoses, OwnReset DEF Effect, OwnInv
<1> QED BY <1>1, <1>2, PTL DEF Spec

\* Whatever fails, is broken off or is opened anew under an old descriptor
\* number, no two sockets share a descriptor, and none outlives it.
THEOREM Ownership == Spec => []DescriptorsOwned
<1>1. OwnInv => DescriptorsOwned
  BY DEF OwnInv
<1> QED BY <1>1, OwnInvariance, PTL

-----------------------------------------------------------------------------
(* Leaks. *)

\* What NoSilentLeak forbids: d becomes open without an owner, and no one is told.
Silent(d) == d \notin Owned' /\ desc'[d].kind # "free" /\ last' = "NO_ERROR" /\ ~ desc[d].reset

LEMMA LeakGives ==
  ASSUME OwnInv, Gives, NEW d \in Desc, Silent(d)
  PROVE  d \notin Owned /\ desc[d].kind # "free"
<1>1. PICK h \in Handle, n \in Unused, k \in Entry, ip \in {"address", NULL}, port \in Nat :
        sock[h] = NULL /\ Agrees(ip, port, k) /\ Done(h, n, k, ip, port)
  BY DEF Gives
<1>2. /\ Live' = Live \cup {h}
      /\ \A i \in Live : sock'[i] = sock[i]
      /\ sock'[h] = [cookie |-> TRUE, sd |-> n, ip_addr |-> ip, port |-> port]
      /\ \A e \in Desc \ {n} : desc'[e] = desc[e]
  BY <1>1, GivesPart DEF OwnInv
<1>3. n \in Owned' /\ Owned \subseteq Owned'
  BY <1>2 DEF Owned
<1> QED BY <1>2, <1>3 DEF Silent

LEMMA LeakCloses ==
  ASSUME OwnInv, Closes, NEW d \in Desc, Silent(d)
  PROVE  d \notin Owned /\ desc[d].kind # "free"
<1>1. PICK h \in Handle : sock[h] # NULL /\ tcp_close(h)
  BY DEF Closes
<1>2. /\ Live' = Live \ {h}
      /\ \A i \in Live' : sock'[i] = sock[i]
      /\ \A e \in Desc : \/ desc'[e] = desc[e]
                         \/ h \in Live /\ e = sock[h].sd /\ desc'[e].kind = "free"
      /\ h \in Live => desc'[sock[h].sd].kind = "free" \/ desc[sock[h].sd].reset
  BY <1>1, ClosesPart DEF OwnInv
<1>3. desc[d].kind # "free"
  BY <1>2 DEF Silent
<1>4. ASSUME NEW i \in Live, d = sock[i].sd PROVE FALSE
  <2>1. CASE i = h
    BY <1>2, <1>4, <2>1 DEF Silent
  <2>2. CASE i # h
    BY <1>2, <1>4, <2>2 DEF Silent, Owned
  <2> QED BY <2>1, <2>2
<1> QED BY <1>3, <1>4 DEF Owned

LEMMA LeakReset ==
  ASSUME OwnInv, NEW e \in Desc, Reset(e), NEW d \in Desc, Silent(d)
  PROVE  d \notin Owned /\ desc[d].kind # "free"
<1>1. sock' = sock /\ Owned' = Owned
  BY ResetPart DEF OwnInv, Owned, Live, Valid
<1> QED BY <1>1, ResetPart DEF OwnInv, Silent

\* With a call that reports success no descriptor is lost, except at the close of
\* a connection that the peer had broken off.
THEOREM LeaksAreTold == Spec => NoSilentLeak
<1> DEFINE Leak(o, k) == {d \in Desc \ o : k[d].kind # "free"}
           Told == \A d \in Leak(Owned', desc') \ Leak(Owned, desc) :
                     last' # "NO_ERROR" \/ desc[d].reset
<1>1. OwnInv /\ [Next]_vars => [Told]_vars
  <2> SUFFICES ASSUME OwnInv, [Next]_vars, NEW d \in Desc, Silent(d)
               PROVE  d \notin Owned /\ desc[d].kind # "free"
    BY DEF Silent
  <2>1. CASE UNCHANGED <<sock, desc>>
    BY <2>1 DEF Silent, Owned, Live, Valid
  <2>2. CASE Loses
    BY <2>2, LosesPart DEF OwnInv, Silent
  <2> QED BY <2>1, <2>2, NextEffect, LeakGives, LeakCloses, LeakReset DEF Effect, OwnInv
<1> QED BY <1>1, OwnInvariance, PTL DEF Spec, NoSilentLeak

-----------------------------------------------------------------------------
(* Ports. *)

Listening == {d \in Desc : desc[d].kind = "listening"}

\* No two sockets listen at one port, and nobody breaks off a listening one.
PortsApart ==
  /\ \A d \in Listening : ~ desc[d].reset
  /\ \A d, e \in Listening : desc[d].port = desc[e].port => d = e

\* What a struct says is what the kernel knows.
Says(s, k) ==
  /\ s.ip_addr = NULL <=> k.kind = "listening"
  /\ k.kind = "accepted" => s.port = k.peer
  /\ k.kind = "connected" => s.port = k.port
  /\ k.kind = "listening" /\ s.port < PortSpace => s.port = k.port

PortInv == OwnInv /\ PortsApart /\ \A h \in Live : Says(sock[h], desc[sock[h].sd])

LEMMA PortLoses ==
  ASSUME PortInv, Loses PROVE PortInv'
<1>1. OwnInv'
  BY OwnLoses DEF PortInv
<1>2. PICK d \in Unused : /\ desc'[d].kind # "listening"
                          /\ \A e \in Desc \ {d} : desc'[e] = desc[e]
  BY LosesPart DEF PortInv, OwnInv
<1>3. sock' = sock /\ Live' = Live
  BY LosesPart DEF PortInv, OwnInv, Live, Valid
<1>4. \A h \in Live : desc'[sock[h].sd] = desc[sock[h].sd]
  BY <1>2, LiveType DEF PortInv, OwnInv, DescriptorsOwned, Unused, tcp_get_sd
<1>5. PortsApart'
  BY <1>2 DEF PortInv, PortsApart, Listening
<1> QED BY <1>1, <1>3, <1>4, <1>5 DEF PortInv, Says

LEMMA PortReset ==
  ASSUME PortInv, NEW d \in Desc, Reset(d) PROVE PortInv'
<1>1. OwnInv'
  BY OwnReset DEF PortInv
<1>2. sock' = sock /\ Live' = Live
  BY ResetPart DEF PortInv, OwnInv, Live, Valid
<1>3. /\ desc[d].kind # "listening"
      /\ \A e \in Desc \ {d} : desc'[e] = desc[e]
      /\ \A e \in Desc : /\ desc'[e].kind = desc[e].kind
                         /\ desc'[e].port = desc[e].port /\ desc'[e].peer = desc[e].peer
  BY ResetPart DEF PortInv, OwnInv
<1>4. PortsApart'
  BY <1>3 DEF PortInv, PortsApart, Listening
<1>5. \A h \in Live : sock[h].sd \in Desc
  BY LiveType DEF PortInv, OwnInv
<1> QED BY <1>1, <1>2, <1>3, <1>4, <1>5 DEF PortInv, Says

LEMMA PortCloses ==
  ASSUME PortInv, Closes PROVE PortInv'
<1>1. PICK h \in Handle : sock[h] # NULL /\ tcp_close(h)
  BY DEF Closes
<1>2. /\ Live' = Live \ {h}
      /\ \A i \in Live' : sock'[i] = sock[i]
      /\ \A e \in Desc : \/ desc'[e] = desc[e]
                         \/ h \in Live /\ e = sock[h].sd /\ desc'[e].kind = "free"
  BY <1>1, ClosesPart DEF PortInv, OwnInv
<1>3. OwnInv'
  BY OwnCloses DEF PortInv
<1>4. \A i \in Live' : desc'[sock[i].sd] = desc[sock[i].sd]
  BY <1>2, LiveType DEF PortInv, OwnInv, DescriptorsOwned, tcp_get_sd
<1>5. Listening' \subseteq Listening /\ \A d \in Listening' : desc'[d] = desc[d]
  BY <1>2 DEF Listening
<1>6. PortsApart'
  BY <1>5 DEF PortInv, PortsApart
<1> QED BY <1>2, <1>3, <1>4, <1>6 DEF PortInv, Says

LEMMA PortGives ==
  ASSUME PortInv, Gives PROVE PortInv'
<1>1. PICK h \in Handle, d \in Unused, k \in Entry, ip \in {"address", NULL}, port \in Nat :
        sock[h] = NULL /\ Agrees(ip, port, k) /\ Done(h, d, k, ip, port)
  BY DEF Gives
<1> DEFINE s == [cookie |-> TRUE, sd |-> d, ip_addr |-> ip, port |-> port]
<1>2. /\ h \notin Live /\ Live' = Live \cup {h}
      /\ \A i \in Live : sock'[i] = sock[i]
      /\ sock'[h] = s
      /\ desc'[d] = k /\ \A e \in Desc \ {d} : desc'[e] = desc[e]
  BY <1>1, GivesPart DEF PortInv, OwnInv
<1>3. OwnInv'
  BY OwnGives DEF PortInv
<1>4. \A i \in Live : desc'[sock[i].sd] = desc[sock[i].sd]
  BY <1>2, LiveType DEF PortInv, OwnInv, DescriptorsOwned, Unused, tcp_get_sd
<1>5. Says(s, k)
  BY <1>1 DEF Agrees, Says
<1>6. PortsApart'
  <2>1. \A e \in Listening : ~ desc[e].reset /\ (k.kind = "listening" => desc[e].port # k.port)
    BY <1>1 DEF PortInv, PortsApart, Agrees, Used, Listening
  <2>2. \A e \in Listening' : (e = d /\ k.kind = "listening") \/ (e \in Listening /\ desc'[e] = desc[e])
    BY <1>2 DEF Listening
  <2>3. ~ k.reset
    BY <1>1 DEF Agrees
  <2> QED BY <1>2, <2>1, <2>2, <2>3 DEF PortInv, PortsApart
<1>7. \A i \in Live' : Says(sock'[i], desc'[sock'[i].sd])
  <2>1. s.sd = d
    OBVIOUS
  <2>2. Says(sock'[h], desc'[sock'[h].sd])
    BY <1>2, <1>5, <2>1
  <2>3. ASSUME NEW i \in Live PROVE Says(sock'[i], desc'[sock'[i].sd])
    BY <1>2, <1>4, <2>3 DEF PortInv
  <2> QED BY <1>2, <2>2, <2>3
<1> QED BY <1>3, <1>6, <1>7 DEF PortInv, Says

\* What the library says of a socket is true of its descriptor as long as the
\* socket can be used, and one who dials a listening port reaches that socket.
THEOREM PortsHold == Spec => []PortTold
<1>1. Init => PortInv
  <2> SUFFICES ASSUME Init PROVE PortInv
    OBVIOUS
  <2>1. OwnInv /\ Live = {}
    BY InitTyped DEF Init, OwnInv, DescriptorsOwned, Live, Valid
  <2>2. Listening = {}
    BY OpenEntry, PortAssumption DEF Init, Listening, Free, Kind
  <2> QED BY <2>1, <2>2 DEF PortInv, PortsApart
<1>2. PortInv /\ [Next]_vars => PortInv'
  <2> SUFFICES ASSUME PortInv, [Next]_vars PROVE PortInv'
    OBVIOUS
  <2>1. CASE UNCHANGED <<sock, desc>>
    BY <2>1 DEF PortInv, PortsApart, Listening, Says,
                OwnInv, Typed, DescriptorsOwned, Live, Valid, tcp_get_sd
  <2> QED BY <2>1, NextEffect, PortGives, PortCloses, PortLoses, PortReset
          DEF Effect, PortInv, OwnInv
<1>3. PortInv => PortTold
  <2> SUFFICES ASSUME PortInv, NEW h \in Live,
                      desc[sock[h].sd].kind = "listening", sock[h].port < PortSpace
               PROVE  Listening \cap {d \in Desc : desc[d].port = sock[h].port} = {sock[h].sd}
    BY DEF PortInv, PortTold, Says, Listening, tcp_get_port, tcp_get_sd, tcp_get_ip_addr
  <2>1. sock[h].sd \in Listening /\ desc[sock[h].sd].port = sock[h].port
    BY LiveType DEF PortInv, OwnInv, Says, Listening
  <2> QED BY <2>1 DEF PortInv, PortsApart, Listening
<1> QED BY <1>1, <1>2, <1>3, PTL DEF Spec

-----------------------------------------------------------------------------
(* One connection: SensorStream.  A unit is numbered by its place in all   *)
(* the readings the node has to send, one behind the other; the units on   *)
(* their way are then the numbers from Received + 1 on, and the proof is   *)
(* that no step of either program or of the network makes a gap.           *)

LEMMA StreamConstants ==
  /\ Size \in [Fields -> Nat \ {0}] /\ LOOPS \in Nat \ {0} /\ Capacity \in Nat
  /\ \A f \in Fields : Size[f] =< Capacity
  BY SizeAssumption, LoopsAssumption, FieldsFit

\* Units of a reading, and of the fields before a field.
Total == Size["id"] + Size["value"] + Size["ts"]
Offset(f) == IF f = "id" THEN 0 ELSE IF f = "value" THEN Size["id"] ELSE Size["id"] + Size["value"]

\* Units before reading n + 1, and number of unit k of field f of reading n.
Start(n) == Total * n
Place(n, f, k) == Start(n - 1) + Offset(f) + k

\* Unit u is the one with number r.
At(u, r) == \E n \in Nat \ {0}, f \in Fields : \E k \in 1..Size[f] :
              u = <<n, f, k>> /\ r = Place(n, f, k)

LEMMA Sizes ==
  /\ \A f \in Fields : Size[f] \in Nat /\ Size[f] >= 1 /\ Offset(f) \in Nat
  /\ \A f \in Fields : Offset(f) + Size[f] <= Total
  /\ Total \in Nat
  BY StreamConstants DEF Fields, Total, Offset

LEMMA Product ==
  ASSUME NEW a \in Nat, NEW b \in Nat
  PROVE  a * b \in Nat
  OBVIOUS

LEMMA Distributes ==
  ASSUME NEW a \in Nat, NEW b \in Nat, NEW c \in Nat
  PROVE  a * (b + c) = a * b + a * c
  OBVIOUS

LEMMA Starts ==
  ASSUME NEW n \in Nat
  PROVE  /\ Start(n) \in Nat /\ Start(n + 1) = Start(n) + Total
         /\ \A m \in Nat : m < n => Start(m) + Total <= Start(n)
PROOF
<1>1. Total \in Nat
  BY Sizes
<1>2. Start(n) \in Nat
  BY <1>1, Product DEF Start
<1>3. Total * (n + 1) = Total * n + Total * 1
  BY <1>1, Distributes
<1>4. ASSUME NEW m \in Nat, m < n PROVE Start(m) + Total <= Start(n)
  <2>1. n - m - 1 \in Nat /\ m + 1 \in Nat /\ n = (m + 1) + (n - m - 1)
    BY <1>4
  <2>2. Total * ((m + 1) + (n - m - 1)) = Total * (m + 1) + Total * (n - m - 1)
    BY <1>1, <2>1, Distributes
  <2>3. Total * (m + 1) = Total * m + Total * 1
    BY <1>1, Distributes
  <2>4. Total * m \in Nat /\ Total * (n - m - 1) \in Nat
    BY <1>1, <2>1, Product
  <2>5. Total * n = Total * m + Total + Total * (n - m - 1)
    BY <1>1, <2>1, <2>2, <2>3, <2>4
  <2> HIDE <2>1, <2>2
  <2> QED BY <1>1, <2>4, <2>5 DEF Start
<1> QED BY <1>1, <1>2, <1>3, <1>4 DEF Start

LEMMA AtUnique ==
  ASSUME NEW n \in Nat \ {0}, NEW f \in Fields, NEW k \in 1..Size[f],
         NEW u, At(u, Place(n, f, k))
  PROVE  u = <<n, f, k>>
PROOF
<1>1. PICK m \in Nat \ {0}, g \in Fields : \E j \in 1..Size[g] :
             u = <<m, g, j>> /\ Place(n, f, k) = Place(m, g, j)
  BY DEF At
<1>2. PICK j \in 1..Size[g] : u = <<m, g, j>> /\ Place(n, f, k) = Place(m, g, j)
  BY <1>1
<1>3. /\ Start(n - 1) \in Nat /\ Start(m - 1) \in Nat
      /\ (m - 1 < n - 1 => Start(m - 1) + Total <= Start(n - 1))
      /\ (n - 1 < m - 1 => Start(n - 1) + Total <= Start(m - 1))
  BY Starts
<1>4. /\ Offset(f) + k >= 1 /\ Offset(f) + k <= Total
      /\ Offset(g) + j >= 1 /\ Offset(g) + j <= Total
      /\ Offset(f) \in Nat /\ Offset(g) \in Nat /\ Total \in Nat
      /\ k \in Nat /\ j \in Nat
  BY Sizes
<1>5. Start(n - 1) + (Offset(f) + k) = Start(m - 1) + (Offset(g) + j)
  BY <1>2, <1>3, <1>4 DEF Place
<1>6. n = m
  <2>1. ~ (m - 1 < n - 1) /\ ~ (n - 1 < m - 1)
    BY <1>3, <1>4, <1>5
  <2> QED BY <2>1
<1>7. Offset(f) + k = Offset(g) + j
  BY <1>3, <1>4, <1>5, <1>6
<1>8. f = g /\ k = j
  BY <1>7, Sizes, StreamConstants DEF Offset, Fields
<1> QED BY <1>2, <1>6, <1>8

-----------------------------------------------------------------------------
(* Types. *)

Unit == {u \in (0..LOOPS) \X Fields \X Nat : u[3] \in 1..Size[u[2]]}

WireTyped ==
  /\ node \in Fields \cup {"sleep", "done"} /\ msg \in 1..LOOPS
  /\ stream \in Seq(Unit) /\ Len(stream) =< Capacity
  /\ link \in {"up", "fin", "rst", "dead"}
  /\ sent \in 0..LOOPS /\ inactive \in BOOLEAN
  /\ conn \in Fields \cup {"poll", "test", "lost", "timeout"}
  /\ tcp_ret \in {"NO_ERROR", "CONNECTION_CLOSED", "SOCKOP_ERROR"}
  /\ size_ret \in Nat \cup {-1} /\ short \in BOOLEAN /\ inserted \in Seq([Fields -> Seq(Unit)])
  /\ data \in [Fields -> Seq(Unit)] /\ \A f \in Fields : Len(data[f]) = Size[f]

LEMMA FieldType ==
  ASSUME NEW n \in 0..LOOPS, NEW f \in Fields
  PROVE  /\ Field(n, f) \in Seq(Unit) /\ Len(Field(n, f)) = Size[f]
         /\ \A k \in 1..Size[f] : Field(n, f)[k] = <<n, f, k>>
PROOF
<1>1. Size[f] \in Nat /\ \A k \in 1..Size[f] : <<n, f, k>> \in Unit
  BY Sizes, StreamConstants DEF Unit
<1>2. Field(n, f) \in [1..Size[f] -> Unit]
  BY <1>1 DEF Field
<1> QED BY <1>1, <1>2 DEF Field

LEMMA UnitsOk ==
  ASSUME NEW s \in Seq(Unit), NEW k \in 1..Len(s)
  PROVE  UnitOk(s[k])
PROOF
<1> DEFINE u == s[k]
<1>1. u \in Unit
  OBVIOUS
<1> HIDE DEF u
<1>2. /\ u[1] \in 0..LOOPS /\ u[2] \in Fields /\ u[3] \in 1..Size[u[2]]
      /\ u = <<u[1], u[2], u[3]>>
  BY <1>1 DEF Unit
<1>3. Field(u[1], u[2])[u[3]] = u /\ u[3] \in DOMAIN Field(u[1], u[2])
  BY <1>2 DEF Field
<1>4. u \in ToSet(Field(u[1], u[2]))
  BY <1>3 DEF ToSet
<1> QED BY <1>2, <1>4 DEF UnitOk, u

LEMMA WireTypes == WireTyped => StreamTypeOK
PROOF
<1> SUFFICES ASSUME WireTyped PROVE StreamTypeOK
  OBVIOUS
<1>1. \A k \in 1..Len(stream) : UnitOk(stream[k])
  BY UnitsOk DEF WireTyped
<1>2. ASSUME NEW f \in Fields
      PROVE  Len(data[f]) = Size[f] /\ \A k \in 1..Size[f] : UnitOk(data[f][k])
  <2>1. data[f] \in Seq(Unit) /\ Len(data[f]) = Size[f]
    BY DEF WireTyped
  <2> QED BY <2>1, UnitsOk
<1> QED BY <1>1, <1>2 DEF StreamTypeOK, WireTyped

LEMMA WireTypedInit == StreamInit => WireTyped
PROOF
<1> SUFFICES ASSUME StreamInit PROVE WireTyped
  OBVIOUS
<1>1. 0 \in 0..LOOPS /\ 1 \in 1..LOOPS
  BY StreamConstants
<1>2. data \in [Fields -> Seq(Unit)] /\ \A f \in Fields : Len(data[f]) = Size[f]
  BY <1>1, FieldType DEF StreamInit, Reading
<1>3. Len(stream) = 0 /\ stream \in Seq(Unit) /\ inserted \in Seq([Fields -> Seq(Unit)])
  BY DEF StreamInit
<1>4. "id" \in Fields
  BY DEF Fields
<1>5. 0 =< Capacity /\ 0 \in Nat
  BY StreamConstants
<1>6. node \in Fields /\ msg = 1 /\ link = "up" /\ conn = "poll" /\ tcp_ret = "NO_ERROR"
      /\ size_ret = 0 /\ short = FALSE /\ sent = 0 /\ inactive = FALSE
  BY <1>4 DEF StreamInit
<1> QED BY <1>1, <1>2, <1>3, <1>5, <1>6 DEF WireTyped

\* What one receive stores and leaves.
LEMMA ReceivedType ==
  ASSUME WireTyped, conn \in Fields,
         NEW n \in 1..Size[conn], n =< Len(stream)
  PROVE  /\ Overwrite(conn, n) \in [Fields -> Seq(Unit)]
         /\ \A f \in Fields : Len(Overwrite(conn, n)[f]) = Size[f]
         /\ \A f \in Fields \ {conn} : Overwrite(conn, n)[f] = data[f]
         /\ SubSeq(stream, n + 1, Len(stream)) \in Seq(Unit)
         /\ Len(SubSeq(stream, n + 1, Len(stream))) = Len(stream) - n
         /\ \A k \in 1..Len(stream) - n :
              SubSeq(stream, n + 1, Len(stream))[k] = stream[n + k]
PROOF
<1>1. Size[conn] \in Nat /\ Len(stream) \in Nat /\ stream \in Seq(Unit) /\ n \in Nat
  BY Sizes, StreamConstants DEF WireTyped
<1>2. data[conn] \in Seq(Unit) /\ Len(data[conn]) = Size[conn]
  BY DEF WireTyped
<1>3. [k \in 1..Size[conn] |-> IF k =< n THEN stream[k] ELSE data[conn][k]] \in [1..Size[conn] -> Unit]
  BY <1>1, <1>2
<1>4. [k \in 1..Size[conn] |-> IF k =< n THEN stream[k] ELSE data[conn][k]] \in Seq(Unit)
  BY <1>1, <1>3
<1>5. Len([k \in 1..Size[conn] |-> IF k =< n THEN stream[k] ELSE data[conn][k]]) = Size[conn]
  BY <1>1, <1>3
<1>6. SubSeq(stream, n + 1, Len(stream)) \in Seq(Unit)
      /\ Len(SubSeq(stream, n + 1, Len(stream))) = Len(stream) - n
      /\ \A k \in 1..Len(stream) - n : SubSeq(stream, n + 1, Len(stream))[k] = stream[n + k]
  BY <1>1
<1> QED BY <1>4, <1>5, <1>6 DEF Overwrite, WireTyped

LEMMA WireTypedStep == WireTyped /\ [StreamNext]_stream_vars => WireTyped'
PROOF
<1> SUFFICES ASSUME WireTyped, [StreamNext]_stream_vars PROVE WireTyped'
  OBVIOUS
<1>1. CASE tcp_send
  <2>1. node \in Fields /\ msg \in 0..LOOPS /\ Len(stream) + Size[node] =< Capacity
    BY <1>1 DEF tcp_send, WireTyped
  <2>2. Field(msg, node) \in Seq(Unit) /\ Len(Field(msg, node)) = Size[node]
    BY <2>1, FieldType
  <2>3. stream' \in Seq(Unit) /\ Len(stream') =< Capacity
    <3>1. stream' = stream \o Field(msg, node) /\ stream \in Seq(Unit)
      BY <1>1 DEF tcp_send, WireTyped
    <3>2. /\ stream' \in Seq(Unit)
          /\ Len(stream') = Len(stream) + Len(Field(msg, node))
      BY <2>2, <3>1, ConcatProperties
    <3> QED BY <2>1, <2>2, <3>2
  <2>4. node' \in Fields \cup {"sleep", "done"}
    BY <1>1 DEF tcp_send, AfterSend, Fields
  <2>5. sent' \in 0..LOOPS
    <3>1. sent \in 0..LOOPS /\ msg \in 0..LOOPS
      BY <2>1 DEF WireTyped
    <3>2. sent' = IF node' = "sleep" THEN msg ELSE sent
      BY <1>1 DEF tcp_send
    <3> QED BY <3>1, <3>2
  <2> QED BY <1>1, <2>3, <2>4, <2>5 DEF tcp_send, WireTyped, conn_vars
<1>2. CASE SendFails \/ Close \/ Killed
  BY <1>2 DEF SendFails, Close, Killed, WireTyped, conn_vars
<1>3. CASE Sleep
  <2>1. msg' \in 1..LOOPS
    BY <1>3, StreamConstants DEF Sleep, WireTyped
  <2> QED BY <1>3, <2>1 DEF Sleep, WireTyped, conn_vars, Fields
<1>4. CASE ConnectionReset
  <2>1. PICK n \in 0..Len(stream) : stream' = SubSeq(stream, 1, n)
    BY <1>4 DEF ConnectionReset
  <2>2. stream' \in Seq(Unit) /\ Len(stream') = n
    BY <2>1 DEF WireTyped
  <2>3. Len(stream') =< Capacity
    BY <2>2, StreamConstants DEF WireTyped
  <2> QED BY <1>4, <2>2, <2>3 DEF ConnectionReset, WireTyped, node_vars, conn_vars
<1>5. CASE Poll \/ Discard \/ TimeOut \/ TimePasses
  <2>1. <<>> \in Seq(Unit) /\ Len(<<>>) = 0 /\ 0 =< Capacity
    BY StreamConstants
  <2> QED BY <1>5, <2>1 DEF Poll, Discard, TimeOut, TimePasses, WireTyped, node_vars, Fields
<1>6. CASE tcp_receive
  <2>1. PICK n \in 1..Size[conn] :
          /\ n =< Len(stream)
          /\ data' = Overwrite(conn, n) /\ size_ret' = n
          /\ stream' = SubSeq(stream, n + 1, Len(stream))
          /\ short' = (short \/ n < Size[conn])
    BY <1>6 DEF tcp_receive
  <2>2. conn \in Fields /\ Size[conn] \in Nat /\ n \in Nat
    BY <1>6, Sizes, StreamConstants DEF tcp_receive
  <2>3. /\ data' \in [Fields -> Seq(Unit)]
        /\ \A f \in Fields : Len(data'[f]) = Size[f]
        /\ stream' \in Seq(Unit) /\ Len(stream') = Len(stream) - n
    BY <2>1, <2>2, ReceivedType
  <2>4. Len(stream') =< Capacity
    BY <2>2, <2>3, StreamConstants DEF WireTyped
  <2>5. conn' \in Fields \cup {"poll", "test", "lost", "timeout"}
    BY <1>6 DEF tcp_receive, AfterReceive, Fields
  <2>6. short' \in BOOLEAN
    BY <2>1 DEF WireTyped
  <2> QED BY <1>6, <2>1, <2>2, <2>3, <2>4, <2>5, <2>6 DEF tcp_receive, WireTyped, node_vars
<1>7. CASE ReceiveClosed \/ ReceiveFails
  <2>1. conn' \in Fields \cup {"poll", "test", "lost", "timeout"}
    BY <1>7 DEF ReceiveClosed, ReceiveFails, AfterReceive, Fields
  <2> QED BY <1>7, <2>1 DEF ReceiveClosed, ReceiveFails, WireTyped, node_vars
<1>8. CASE Insert
  <2>1. inserted' \in Seq([Fields -> Seq(Unit)])
    BY <1>8 DEF Insert, WireTyped
  <2> QED BY <1>8, <2>1 DEF Insert, WireTyped, node_vars
<1>9. CASE UNCHANGED stream_vars
  BY <1>9 DEF stream_vars, node_vars, conn_vars, WireTyped
<1> QED BY <1>1, <1>2, <1>3, <1>4, <1>5, <1>6, <1>7, <1>8, <1>9
        DEF StreamNext, SensorNode, ConnMgr

\* For any sizes of the fields, number of readings and room in the sockets, every
\* variable of one connection keeps its type: the stream and the reading that is
\* put together hold units of fields only.
THEOREM WireTypeInvariance == StreamSpec => []StreamTypeOK
PROOF
<1>1. StreamInit => WireTyped
  BY WireTypedInit
<1>2. WireTyped /\ [StreamNext]_stream_vars => WireTyped'
  BY WireTypedStep
<1>3. WireTyped => StreamTypeOK
  BY WireTypes
<1> QED BY <1>1, <1>2, <1>3, PTL DEF StreamSpec

-----------------------------------------------------------------------------
(* The order of the units. *)

\* Units the connection manager has received, if all went well, and units the
\* node has sent.
Received == IF conn \in Fields THEN Start(Len(inserted)) + Offset(conn)
            ELSE IF conn = "test" THEN Start(Len(inserted)) + Total
            ELSE Start(Len(inserted))
Sent == IF node \in Fields THEN Start(msg - 1) + Offset(node) ELSE Start(msg)

\* No receive of this reading has failed.
Whole == tcp_ret = "NO_ERROR"

\* Field f of the reading in hand has been received.
Past(f) == \/ conn = "test"
           \/ conn = "ts" /\ f \in {"id", "value"}
           \/ conn = "value" /\ f = "id"

\* Once a receive has failed there is nothing to receive any more, so the last
\* one of the reading fails too.
ResultInv ==
  /\ ~ Whole => stream = <<>> /\ link # "up" /\ conn \in {"value", "ts", "test", "lost"}
  /\ Whole /\ conn \in {"value", "ts", "test"} => size_ret # 0
  /\ conn = "timeout" => link \notin {"up", "fin"}
  /\ conn = "lost" => ~ Whole
  /\ link = "fin" => node = "done"
  /\ link = "up" => node # "done"

\* The units that come next are the next ones of the node.
OrderInv ==
  /\ Whole => \A k \in 1..Len(stream) : At(stream[k], Received + k)
  /\ Whole => \A f \in Fields : Past(f) => data[f] = Field(Len(inserted) + 1, f)
  /\ \A n \in 1..Len(inserted) : inserted[n] = Reading(n)

\* Readings the node has sent whole while it runs.
SentWhole == IF node = "sleep" THEN msg ELSE msg - 1

\* u units are n readings and less than one more.
Amounts(u, n) == Start(n) =< u /\ u < Start(n) + Total

\* None is missing while the connection holds, nor of the readings sent whole
\* when the node has closed it; and none is there that was not sent whole.
AmountInv ==
  /\ link = "up" => Received + Len(stream) = Sent /\ sent = SentWhole
  /\ link = "fin" /\ Whole => Amounts(Received + Len(stream), sent)
  /\ link = "fin" /\ ~ Whole => Len(inserted) = sent

WireInv == WireTyped /\ ResultInv /\ (~ short => OrderInv /\ AmountInv)

LEMMA ResultInit == StreamInit => ResultInv
  BY DEF StreamInit, ResultInv, Whole

LEMMA ResultStep ==
  ASSUME WireTyped, ResultInv, [StreamNext]_stream_vars
  PROVE  ResultInv'
PROOF
<1> USE DEF ResultInv, Whole
<1>1. CASE tcp_send \/ SendFails \/ Sleep \/ Close \/ Killed
  BY <1>1 DEF tcp_send, SendFails, Sleep, Close, Killed,
              conn_vars, AfterSend, Fields
<1>2. CASE ConnectionReset
  <2>1. PICK n \in 0..Len(stream) : stream' = SubSeq(stream, 1, n)
    BY <1>2 DEF ConnectionReset
  <2>2. stream = <<>> => stream' = <<>>
    BY <2>1
  <2> QED BY <1>2, <2>2 DEF ConnectionReset, node_vars, conn_vars
<1>3. CASE Poll \/ Insert \/ Discard \/ TimeOut \/ TimePasses
  BY <1>3 DEF Poll, Insert, Discard, TimeOut, TimePasses, node_vars, Complete
<1>4. CASE tcp_receive
  <2>1. stream # <<>> /\ size_ret' # 0
    BY <1>4, Sizes, StreamConstants DEF tcp_receive
  <2> QED BY <1>4, <2>1 DEF tcp_receive, node_vars, AfterReceive, Fields
<1>5. CASE ReceiveClosed \/ ReceiveFails
  BY <1>5 DEF ReceiveClosed, ReceiveFails, Ended, node_vars,
              AfterReceive, Fields
<1>6. CASE UNCHANGED stream_vars
  BY <1>6 DEF stream_vars, node_vars, conn_vars
<1> QED BY <1>1, <1>2, <1>3, <1>4, <1>5, <1>6 DEF StreamNext, SensorNode, ConnMgr

\* The two counts are numbers, and where they stand in their readings.
LEMMA Counts ==
  ASSUME WireTyped
  PROVE  /\ Received \in Nat /\ Sent \in Nat /\ Len(stream) \in Nat
         /\ Len(inserted) \in Nat /\ msg \in Nat /\ msg - 1 \in Nat
         /\ Start(msg - 1) \in Nat /\ Start(msg) = Start(msg - 1) + Total
         /\ Sent >= Start(msg - 1)
         /\ Start(Len(inserted)) \in Nat
         /\ Start(Len(inserted) + 1) = Start(Len(inserted)) + Total
PROOF
<1>1. /\ Len(stream) \in Nat /\ Len(inserted) \in Nat /\ msg \in Nat /\ msg - 1 \in Nat
      /\ (msg - 1) + 1 = msg
  BY StreamConstants DEF WireTyped
<1>2. /\ Start(msg - 1) \in Nat /\ Start((msg - 1) + 1) = Start(msg - 1) + Total
      /\ Start(Len(inserted)) \in Nat
      /\ Start(Len(inserted) + 1) = Start(Len(inserted)) + Total
  BY <1>1, Starts
<1>3. Start(msg) = Start(msg - 1) + Total
  BY <1>1, <1>2
<1>4. Total \in Nat /\ \A f \in Fields : Offset(f) \in Nat
  BY Sizes
<1> QED BY <1>1, <1>2, <1>3, <1>4 DEF Received, Sent

\* A step that neither sends, receives nor inserts.
LEMMA QuietStep ==
  ASSUME WireInv, ~ short, UNCHANGED <<stream, inserted, data, tcp_ret>>,
         Received' = Received, \A f \in Fields : Past(f)' => Past(f)
  PROVE  OrderInv'
  BY DEF WireInv, OrderInv, Whole

LEMMA Appended ==
  ASSUME NEW s \in Seq(Unit), NEW t \in Seq(Unit)
  PROVE  /\ s \o t \in Seq(Unit) /\ Len(s \o t) = Len(s) + Len(t)
         /\ \A k \in 1..Len(s) : (s \o t)[k] = s[k]
         /\ \A k \in 1..Len(t) : (s \o t)[Len(s) + k] = t[k]
PROOF
<1>1. Len(s) \in Nat /\ Len(t) \in Nat
  OBVIOUS
<1>2. /\ s \o t \in Seq(Unit) /\ Len(s \o t) = Len(s) + Len(t)
      /\ \A k \in 1..Len(s) + Len(t) : (s \o t)[k] = IF k =< Len(s) THEN s[k] ELSE t[k - Len(s)]
  BY ConcatProperties
<1>3. ASSUME NEW k \in 1..Len(t) PROVE (s \o t)[Len(s) + k] = t[k]
  <2>1. Len(s) + k \in 1..Len(s) + Len(t) /\ ~ (Len(s) + k =< Len(s)) /\ Len(s) + k - Len(s) = k
    BY <1>1
  <2> QED BY <1>2, <2>1
<1>4. ASSUME NEW k \in 1..Len(s) PROVE (s \o t)[k] = s[k]
  <2>1. k \in 1..Len(s) + Len(t) /\ k =< Len(s)
    BY <1>1
  <2> QED BY <1>2, <2>1
<1> QED BY <1>2, <1>3, <1>4

\* What a running node has sent is its whole readings and part of the next.
LEMMA WholeSent ==
  ASSUME WireTyped, node # "done"
  PROVE  Amounts(Sent, SentWhole)
PROOF
<1>1. Start(msg - 1) \in Nat /\ Start(msg) = Start(msg - 1) + Total
  BY Counts
<1>2. Total \in Nat /\ Total >= 1
  BY Sizes, StreamConstants DEF Total, Fields
<1>3. CASE node \in Fields
  <2>1. Offset(node) \in Nat /\ Offset(node) < Total /\ node # "sleep"
    BY <1>3, Sizes DEF Fields
  <2> QED BY <1>1, <1>2, <1>3, <2>1 DEF Sent, SentWhole, Amounts
<1>4. CASE node = "sleep"
  <2>1. Sent = Start(msg) /\ SentWhole = msg
    BY <1>4 DEF Sent, SentWhole, Fields
  <2> QED BY <1>1, <1>2, <2>1 DEF Amounts
<1> QED BY <1>3, <1>4 DEF WireTyped

LEMMA SendStep ==
  ASSUME WireInv, ~ short, tcp_send
  PROVE  OrderInv' /\ AmountInv'
PROOF
<1>1. /\ node \in Fields /\ link = "up" /\ stream' = stream \o Field(msg, node)
      /\ node' = AfterSend[node]
      /\ msg' = msg /\ link' = link
      /\ UNCHANGED <<conn, tcp_ret, data, inserted>>
  BY DEF tcp_send, conn_vars
<1>2. WireTyped /\ Whole /\ Received + Len(stream) = Sent
  BY <1>1 DEF WireInv, ResultInv, AmountInv
<1>3. msg \in 0..LOOPS /\ msg \in Nat \ {0} /\ stream \in Seq(Unit)
  BY <1>2, StreamConstants DEF WireTyped
<1>4. /\ Field(msg, node) \in Seq(Unit) /\ Len(Field(msg, node)) = Size[node]
      /\ \A k \in 1..Size[node] : Field(msg, node)[k] = <<msg, node, k>>
  BY <1>1, <1>3, FieldType
<1>5. Size[node] \in Nat /\ Len(stream) \in Nat
  BY <1>1, <1>3, Sizes
<1>6. /\ Len(stream') = Len(stream) + Size[node]
      /\ \A k \in 1..Len(stream) : stream'[k] = stream[k]
      /\ \A k \in 1..Size[node] : stream'[Len(stream) + k] = <<msg, node, k>>
  <2>1. /\ Len(stream') = Len(stream) + Len(Field(msg, node))
        /\ \A k \in 1..Len(stream) : stream'[k] = stream[k]
        /\ \A k \in 1..Len(Field(msg, node)) :
             stream'[Len(stream) + k] = Field(msg, node)[k]
    BY <1>1, <1>3, <1>4, Appended
  <2> QED BY <1>4, <2>1
<1>7. Received' = Received
  BY <1>1 DEF Received
<1>8. Sent' = Sent + Size[node]
  <2>1. /\ Sent = Start(msg - 1) + Offset(node) /\ Start(msg) = Start(msg - 1) + Total
        /\ Start(msg - 1) \in Nat
    BY <1>1, <1>2, Counts DEF Sent
  <2>2. Sent' = IF node' \in Fields THEN Start(msg - 1) + Offset(node') ELSE Start(msg)
    BY <1>1 DEF Sent
  <2>3. CASE node = "ts"
    <3>1. node' \notin Fields
      BY <1>1, <2>3 DEF AfterSend, Fields
    <3> QED BY <2>1, <2>2, <2>3, <3>1, Sizes, StreamConstants DEF Offset, Total, Fields
  <2>4. CASE node \in {"id", "value"}
    <3>1. node' = IF node = "id" THEN "value" ELSE "ts"
      BY <1>1, <2>4 DEF AfterSend
    <3> QED BY <2>1, <2>2, <2>4, <3>1, Sizes, StreamConstants DEF Offset, Fields
  <2> QED BY <1>1, <2>3, <2>4 DEF Fields
<1>9. AmountInv'
  <2>1. Received \in Nat /\ Sent \in Nat
    BY <1>2, Counts
  <2>2. Received + (Len(stream) + Size[node]) = Sent + Size[node]
    BY <1>2, <1>5, <2>1
  <2>3. sent' = SentWhole'
    <3>1. sent = SentWhole /\ sent' = IF node' = "sleep" THEN msg ELSE sent
      BY <1>1, <1>2 DEF WireInv, AmountInv, tcp_send
    <3> QED BY <1>1, <3>1 DEF SentWhole, Fields
  <2> QED BY <1>1, <1>6, <1>7, <1>8, <2>2, <2>3 DEF AmountInv
<1>10. ASSUME NEW k \in 1..Len(stream') PROVE At(stream'[k], Received + k)
  <2>1. CASE k =< Len(stream)
    <3>1. stream'[k] = stream[k] /\ k \in 1..Len(stream)
      BY <1>5, <1>6, <2>1
    <3> QED BY <1>2, <3>1 DEF WireInv, OrderInv
  <2>2. CASE k > Len(stream)
    <3> DEFINE j == k - Len(stream)
    <3>1. j \in 1..Size[node] /\ k = Len(stream) + j
      BY <1>5, <1>6, <2>2
    <3>2. stream'[k] = <<msg, node, j>>
      BY <1>6, <3>1
    <3>3. Received + k = Place(msg, node, j)
      <4>1. Sent = Start(msg - 1) + Offset(node)
        BY <1>1 DEF Sent
      <4>2. Received \in Nat /\ Len(stream) \in Nat /\ Sent \in Nat
        BY <1>2, Counts
      <4>3. Received + (Len(stream) + j) = Sent + j
        BY <1>2, <3>1, <4>2
      <4> QED BY <3>1, <4>1, <4>3 DEF Place
    <3> HIDE DEF j
    <3> QED BY <1>1, <1>3, <3>1, <3>2, <3>3 DEF At
  <2> QED BY <1>5, <2>1, <2>2
<1>11. OrderInv'
  <2>1. \A f \in Fields : Past(f)' => Past(f)
    BY <1>1 DEF Past
  <2> QED BY <1>1, <1>2, <1>7, <1>10, <2>1 DEF WireInv, OrderInv, Whole
<1> QED BY <1>9, <1>11

LEMMA ReceiveStep ==
  ASSUME WireInv, tcp_receive, ~ short'
  PROVE  OrderInv' /\ AmountInv'
PROOF
<1>1. /\ conn \in Fields /\ tcp_ret' = "NO_ERROR" /\ conn' = AfterReceive[conn]
      /\ UNCHANGED <<node, msg, sent, link, inserted>>
  BY DEF tcp_receive, node_vars
<1>2. PICK n \in 1..Size[conn] :
        /\ n =< Len(stream)
        /\ data' = Overwrite(conn, n)
        /\ stream' = SubSeq(stream, n + 1, Len(stream))
        /\ short' = (short \/ n < Size[conn])
  BY DEF tcp_receive
<1>3. Size[conn] \in Nat /\ Size[conn] >= 1 /\ n \in Nat
  BY <1>1, Sizes
<1>4. ~ short /\ n = Size[conn] /\ WireTyped
  <2>1. ~ short /\ ~ (n < Size[conn]) /\ WireTyped
    BY <1>2 DEF WireInv
  <2> QED BY <1>3, <2>1
<1>5. Len(stream) \in Nat /\ Received \in Nat /\ Len(inserted) \in Nat /\ Start(Len(inserted)) \in Nat
  BY <1>4, Counts
<1>6. Whole /\ OrderInv /\ AmountInv
  <2>1. stream # <<>>
    BY <1>2, <1>3
  <2> QED BY <1>4, <2>1 DEF WireInv, ResultInv
<1>7. /\ Len(stream') = Len(stream) - n
      /\ \A k \in 1..Len(stream) - n : stream'[k] = stream[n + k]
      /\ \A f \in Fields \ {conn} : data'[f] = data[f]
  BY <1>1, <1>2, <1>4, ReceivedType
<1>8. Received' = Received + n
  <2>1. Received = Start(Len(inserted)) + Offset(conn)
    BY <1>1 DEF Received
  <2>2. CASE conn = "ts"
    <3>1. conn' = "test"
      BY <1>1, <2>2 DEF AfterReceive
    <3>2. Received' = Start(Len(inserted)) + Total
      BY <1>1, <3>1 DEF Received, Fields
    <3> QED BY <1>4, <1>5, <2>1, <2>2, <3>2, Sizes, StreamConstants DEF Offset, Total, Fields
  <2>3. CASE conn \in {"id", "value"}
    <3>1. conn' = IF conn = "id" THEN "value" ELSE "ts"
      BY <1>1, <2>3 DEF AfterReceive
    <3>2. Received' = Start(Len(inserted)) + Offset(conn')
      BY <1>1, <3>1 DEF Received, Fields
    <3>3. Offset(conn') = Offset(conn) + Size[conn] /\ Offset(conn) \in Nat
      BY <1>1, <2>3, <3>1, Sizes, StreamConstants DEF Offset, Fields
    <3> QED BY <1>3, <1>4, <1>5, <2>1, <3>2, <3>3
  <2> QED BY <1>1, <2>2, <2>3 DEF Fields
<1>9. data'[conn] = Field(Len(inserted) + 1, conn)
  <2>1. ASSUME NEW k \in 1..Size[conn] PROVE stream[k] = <<Len(inserted) + 1, conn, k>>
    <3>1. k \in 1..Len(stream)
      BY <1>2, <1>3, <1>4, <1>5
    <3>2. At(stream[k], Received + k)
      BY <1>6, <3>1 DEF OrderInv
    <3>3. Received + k = Place(Len(inserted) + 1, conn, k)
      <4>1. (Len(inserted) + 1) - 1 = Len(inserted)
        BY <1>5
      <4> QED BY <1>1, <4>1 DEF Received, Place
    <3>4. Len(inserted) + 1 \in Nat \ {0}
      BY <1>5
    <3> QED BY <1>1, <3>2, <3>3, <3>4, AtUnique
  <2>2. data'[conn] = [k \in 1..Size[conn] |-> IF k =< n THEN stream[k] ELSE data[conn][k]]
    BY <1>1, <1>2, <1>4 DEF Overwrite, WireTyped
  <2>3. data'[conn] = [k \in 1..Size[conn] |-> stream[k]]
    BY <1>3, <1>4, <2>2
  <2> QED BY <2>1, <2>3 DEF Field
<1>10. \A f \in Fields : Past(f)' => f = conn \/ Past(f)
  BY <1>1 DEF Past, AfterReceive, Fields
<1>11. \A f \in Fields : Past(f)' => data'[f] = Field(Len(inserted) + 1, f)
  BY <1>6, <1>7, <1>9, <1>10 DEF OrderInv
<1>12. ASSUME NEW k \in 1..Len(stream') PROVE At(stream'[k], Received' + k)
  <2>1. n + k \in 1..Len(stream) /\ k \in 1..Len(stream) - n
    BY <1>3, <1>5, <1>7
  <2>2. At(stream[n + k], Received + (n + k))
    BY <1>6, <2>1 DEF OrderInv
  <2>3. Received + (n + k) = Received' + k
    BY <1>3, <1>5, <1>8
  <2> QED BY <1>7, <2>1, <2>2, <2>3
<1>13. OrderInv'
  BY <1>1, <1>6, <1>11, <1>12 DEF OrderInv
<1>14. AmountInv'
  <2>1. Received' + Len(stream') = Received + Len(stream)
    BY <1>3, <1>5, <1>7, <1>8
  <2>2. Sent' = Sent /\ SentWhole' = SentWhole
    BY <1>1 DEF Sent, SentWhole
  <2>3. Amounts(Received + Len(stream), sent) => Amounts(Received + Len(stream), sent)'
    BY <1>1, <2>1 DEF Amounts, Start
  <2> QED BY <1>1, <1>6, <2>1, <2>2, <2>3 DEF AmountInv, Whole
<1> QED BY <1>13, <1>14

\* The third receive that has failed as well.
LEMMA FailedStep ==
  ASSUME WireInv, ~ short, ReceiveClosed \/ ReceiveFails
  PROVE  OrderInv' /\ AmountInv'
PROOF
<1>1. /\ conn \in Fields /\ stream = <<>> /\ Len(stream) = 0
      /\ link' = "fin" => link = "fin"
      /\ link' # "up" /\ tcp_ret' # "NO_ERROR"
      /\ UNCHANGED <<node, msg, sent, inserted>>
  BY DEF ReceiveClosed, ReceiveFails, Ended, node_vars
<1>2. WireTyped /\ OrderInv /\ AmountInv
  BY DEF WireInv
<1>3. OrderInv'
  BY <1>1, <1>2 DEF OrderInv, Whole
<1>4. ASSUME link = "fin" PROVE Len(inserted) = sent
  <2>1. CASE ~ Whole
    BY <1>2, <1>4, <2>1 DEF AmountInv
  <2>2. CASE Whole
    <3>1. Amounts(Start(Len(inserted)) + Offset(conn), sent)
      <4>1. Amounts(Received + 0, sent)
        BY <1>1, <1>2, <1>4, <2>2 DEF AmountInv
      <4>2. Received \in Nat /\ Received + 0 = Received
        BY <1>2, Counts
      <4>3. Received = Start(Len(inserted)) + Offset(conn)
        BY <1>1 DEF Received
      <4> QED BY <4>1, <4>2, <4>3
    <3>2. /\ Len(inserted) \in Nat /\ sent \in Nat
          /\ Start(Len(inserted)) \in Nat /\ Start(sent) \in Nat
      <4>1. sent \in Nat
        BY <1>2, StreamConstants DEF WireTyped
      <4> QED BY <1>2, <4>1, Counts, Starts
    <3>3. /\ Len(inserted) < sent => Start(Len(inserted)) + Total <= Start(sent)
          /\ sent < Len(inserted) => Start(sent) + Total <= Start(Len(inserted))
      BY <3>2, Starts
    <3>4. Offset(conn) < Total /\ Offset(conn) \in Nat /\ Total \in Nat
      BY <1>1, Sizes
    <3>5. ~ (Len(inserted) < sent) /\ ~ (sent < Len(inserted))
      BY <3>1, <3>2, <3>3, <3>4 DEF Amounts
    <3> QED BY <3>2, <3>5
  <2> QED BY <2>1, <2>2
<1>5. AmountInv'
  BY <1>1, <1>4 DEF AmountInv, Whole
<1> QED BY <1>3, <1>5

LEMMA InsertStep ==
  ASSUME WireInv, ~ short, Insert
  PROVE  OrderInv' /\ AmountInv'
PROOF
<1>1. /\ conn = "test" /\ conn' = "poll" /\ tcp_ret = "NO_ERROR"
      /\ inserted' = Append(inserted, data)
      /\ UNCHANGED <<node, msg, sent, stream, link, data, tcp_ret>>
  BY DEF Insert, node_vars, Complete
<1>2. WireTyped /\ OrderInv /\ AmountInv /\ Whole /\ Whole'
  BY <1>1 DEF WireInv, Whole
<1>3. /\ Len(inserted) \in Nat
      /\ Start(Len(inserted) + 1) = Start(Len(inserted)) + Total
  BY <1>2, Counts
<1>4. /\ Len(inserted') = Len(inserted) + 1
      /\ \A n \in 1..Len(inserted) : inserted'[n] = inserted[n]
      /\ inserted'[Len(inserted) + 1] = data
  BY <1>1, <1>2 DEF WireTyped
<1>5. Received' = Received
  BY <1>1, <1>3, <1>4 DEF Received, Fields
<1>6. data = Reading(Len(inserted) + 1)
  <2>1. \A f \in Fields : data[f] = Field(Len(inserted) + 1, f)
    BY <1>1, <1>2 DEF OrderInv, Past
  <2> QED BY <1>2, <2>1 DEF WireTyped, Reading
<1>7. ASSUME NEW n \in 1..Len(inserted') PROVE inserted'[n] = Reading(n)
  <2>1. n \in 1..Len(inserted) \/ n = Len(inserted) + 1
    BY <1>3, <1>4
  <2> QED BY <1>2, <1>4, <1>6, <2>1 DEF OrderInv
<1>8. \A f \in Fields : ~ Past(f)'
  BY <1>1 DEF Past
<1>9. OrderInv'
  <2>1. \A k \in 1..Len(stream') : At(stream'[k], Received' + k)
    BY <1>1, <1>2, <1>5 DEF OrderInv
  <2> QED BY <1>7, <1>8, <2>1 DEF OrderInv
<1>10. AmountInv'
  <2>1. Sent' = Sent /\ SentWhole' = SentWhole
    BY <1>1 DEF Sent, SentWhole
  <2>2. Amounts(Received + Len(stream), sent) => Amounts(Received + Len(stream), sent)'
    BY <1>1, <1>5 DEF Amounts, Start
  <2> QED BY <1>1, <1>2, <1>5, <2>1, <2>2 DEF AmountInv
<1> QED BY <1>9, <1>10

LEMMA FlowStep ==
  ASSUME WireInv, [StreamNext]_stream_vars, ~ short'
  PROVE  OrderInv' /\ AmountInv'
PROOF
<1> DEFINE Fixed == UNCHANGED <<stream, inserted, data, tcp_ret, short>>
<1>1. CASE tcp_send
  <2>1. ~ short
    BY <1>1 DEF tcp_send, conn_vars
  <2> QED BY <1>1, <2>1, SendStep
<1>2. CASE tcp_receive
  BY <1>2, ReceiveStep
<1>3. CASE ReceiveClosed \/ ReceiveFails
  <2>1. ~ short
    BY <1>3 DEF ReceiveClosed, ReceiveFails
  <2> QED BY <1>3, <2>1, FailedStep
<1>4. CASE Insert
  <2>1. ~ short
    BY <1>4 DEF Insert
  <2> QED BY <1>4, <2>1, InsertStep
<1>5. CASE SendFails \/ Sleep \/ Close \/ Killed \/ TimePasses \/ UNCHANGED stream_vars
  <2>1. /\ Fixed /\ conn' = conn /\ sent' = sent
        /\ link' = link \/ (link = "up" /\ link' = "fin" /\ msg' = msg)
        /\ \/ node' = node /\ msg' = msg
           \/ node' = "done" /\ msg' = msg
           \/ node = "sleep" /\ node' = "id" /\ msg' = msg + 1
    BY <1>5 DEF SendFails, Sleep, Close, Killed, TimePasses, stream_vars,
                node_vars, conn_vars
  <2>2. ~ short /\ WireTyped /\ ResultInv /\ OrderInv /\ AmountInv
    BY <2>1 DEF WireInv
  <2>3. Received' = Received /\ \A f \in Fields : Past(f)' => Past(f)
    BY <2>1 DEF Received, Past
  <2>4. OrderInv'
    BY <2>1, <2>2, <2>3, QuietStep
  <2>5. link' = "up" => Sent' = Sent /\ SentWhole' = SentWhole
    <3>1. CASE node' = node /\ msg' = msg
      BY <3>1 DEF Sent, SentWhole
    <3>2. CASE node' = "done" /\ msg' = msg
      <4>1. link' = "up" => node' = node
        BY <1>5, <2>2, <3>2 DEF SendFails, Sleep, Close, Killed, TimePasses,
                stream_vars, node_vars, ResultInv
      <4> QED BY <3>2, <4>1 DEF Sent, SentWhole
    <3>3. CASE node = "sleep" /\ node' = "id" /\ msg' = msg + 1
      <4>1. Sent = Start(msg) /\ Sent' = Start(msg' - 1) + 0
        BY <3>3 DEF Sent, Offset, Fields
      <4>2. msg' - 1 = msg /\ Sent \in Nat
        BY <2>2, <3>3, Counts
      <4>3. SentWhole' = SentWhole
        BY <3>3, <4>2 DEF SentWhole
      <4> QED BY <4>1, <4>2, <4>3
    <3> QED BY <2>1, <3>1, <3>2, <3>3
  <2>6. ASSUME link' = "fin"
        PROVE  /\ Whole => Amounts(Received + Len(stream), sent)
               /\ ~ Whole => Len(inserted) = sent
    <3>1. CASE link = "fin"
      BY <2>2, <3>1 DEF AmountInv
    <3>2. CASE link = "up" /\ msg' = msg
      <4>1. Whole /\ Received + Len(stream) = Sent /\ sent = SentWhole /\ node # "done"
        BY <2>2, <3>2 DEF AmountInv, ResultInv
      <4>2. Amounts(Sent, SentWhole)
        BY <2>2, <4>1, WholeSent
      <4> QED BY <4>1, <4>2
    <3> QED BY <2>1, <2>6, <3>1, <3>2
  <2>7. Amounts(Received + Len(stream), sent) => Amounts(Received + Len(stream), sent)'
    BY <2>1, <2>3 DEF Amounts, Start
  <2>8. AmountInv'
    BY <2>1, <2>2, <2>3, <2>5, <2>6, <2>7 DEF AmountInv, Whole
  <2> QED BY <2>4, <2>8
<1>6. CASE Poll \/ Discard
  <2>1. /\ Fixed /\ UNCHANGED <<node, msg, sent, link>>
        /\ \/ conn = "poll" /\ conn' = "id"
           \/ conn = "test" /\ conn' = "lost" /\ ~ Complete
    BY <1>6 DEF Poll, Discard, node_vars
  <2>2. ~ short /\ WireTyped /\ ResultInv /\ OrderInv /\ AmountInv
    BY <2>1 DEF WireInv
  <2>3. \A f \in Fields : ~ Past(f)'
    BY <2>1 DEF Past
  <2>4. Sent' = Sent /\ SentWhole' = SentWhole
    BY <2>1 DEF Sent, SentWhole
  <2>5. CASE conn = "poll"
    <3>1. Received' = Start(Len(inserted)) + 0 /\ Received = Start(Len(inserted))
      BY <2>1, <2>5 DEF Received, Offset, Fields
    <3>2. Received' = Received
      BY <2>2, <3>1, Counts
    <3>3. Amounts(Received + Len(stream), sent) => Amounts(Received + Len(stream), sent)'
      BY <2>1, <3>2 DEF Amounts, Start
    <3> QED BY <2>1, <2>2, <2>3, <2>4, <3>2, <3>3, QuietStep DEF AmountInv, Whole
  <2>6. CASE conn = "test"
    <3>1. ~ Whole /\ link # "up"
      BY <2>1, <2>2, <2>6 DEF ResultInv, Complete, Whole
    <3> QED BY <2>1, <2>2, <3>1 DEF OrderInv, AmountInv, Whole
  <2> QED BY <2>1, <2>5, <2>6
<1>8. CASE TimeOut
  <2>1. /\ UNCHANGED <<node, msg, sent, tcp_ret, data, inserted, short>>
        /\ conn = "poll" /\ conn' = "timeout" /\ link' = "rst" /\ stream' = <<>>
    BY <1>8 DEF TimeOut, node_vars
  <2>2. ~ short /\ OrderInv
    BY <2>1 DEF WireInv
  <2>3. Len(stream') = 0 /\ \A f \in Fields : ~ Past(f)'
    BY <2>1 DEF Past
  <2>4. OrderInv'
    BY <2>1, <2>2, <2>3 DEF OrderInv, Whole
  <2>5. AmountInv'
    BY <2>1 DEF AmountInv
  <2> QED BY <2>4, <2>5
<1>7. CASE ConnectionReset
  <2>1. PICK n \in 0..Len(stream) : stream' = SubSeq(stream, 1, n)
    BY <1>7 DEF ConnectionReset
  <2>2. link' = "rst" /\ UNCHANGED <<node, msg, conn, tcp_ret, data, inserted, short>>
    BY <1>7 DEF ConnectionReset, node_vars, conn_vars
  <2>3. ~ short /\ WireTyped /\ OrderInv
    BY <2>2 DEF WireInv
  <2>4. Len(stream') = n /\ \A k \in 1..n : stream'[k] = stream[k] /\ k \in 1..Len(stream)
    BY <2>1, <2>3 DEF WireTyped
  <2>5. Received' = Received /\ \A f \in Fields : Past(f)' => Past(f)
    BY <2>2 DEF Received, Past
  <2>6. Whole => \A k \in 1..Len(stream') : At(stream'[k], Received' + k)
    BY <2>3, <2>4, <2>5 DEF OrderInv
  <2>7. OrderInv'
    BY <2>2, <2>3, <2>5, <2>6 DEF OrderInv, Whole
  <2>8. AmountInv'
    BY <2>2 DEF AmountInv
  <2> QED BY <2>7, <2>8
<1> QED BY <1>1, <1>2, <1>3, <1>4, <1>5, <1>6, <1>7, <1>8
        DEF StreamNext, SensorNode, ConnMgr

LEMMA WireInvInit == StreamInit => WireInv
PROOF
<1> SUFFICES ASSUME StreamInit PROVE WireInv
  OBVIOUS
<1>1. WireTyped /\ ResultInv
  BY WireTypedInit, ResultInit
<1>2. /\ Len(stream) = 0 /\ Len(inserted) = 0 /\ msg = 1 /\ node = "id" /\ conn = "poll"
      /\ link = "up" /\ sent = 0
  BY DEF StreamInit
<1>3. Received = Start(0) /\ Sent = Start(0) + 0 /\ Start(0) \in Nat
  BY <1>1, <1>2, Counts DEF Received, Sent, Offset, Fields
<1>4. AmountInv
  BY <1>2, <1>3 DEF AmountInv, SentWhole
<1>5. OrderInv
  BY <1>2 DEF OrderInv, Past
<1> QED BY <1>1, <1>4, <1>5 DEF WireInv

LEMMA WireInvStep == WireInv /\ [StreamNext]_stream_vars => WireInv'
  BY WireTypedStep, ResultStep, FlowStep DEF WireInv

\* For any sizes of the fields, number of readings and room in the sockets, wherever
\* the node stops or the connection breaks: as long as recv returns whole fields,
\* the readings connmgr_listen inserts are the first ones the node sent, each
\* complete, in order and once, though it tests only the last of three results.
THEOREM IntactInvariance == StreamSpec => []IntactUnlessShort
PROOF
<1>1. StreamInit => WireInv
  BY WireInvInit
<1>2. WireInv /\ [StreamNext]_stream_vars => WireInv'
  BY WireInvStep
<1>3. WireInv => IntactUnlessShort
  BY DEF WireInv, OrderInv, IntactUnlessShort
<1> QED BY <1>1, <1>2, <1>3, PTL DEF StreamSpec

\* For the same instances: when a connection that its node has closed is given up
\* as lost, exactly the readings the node sent whole have been inserted, unless a
\* recv returned part of a field.
THEOREM NothingLeftBehind == StreamSpec => []AllInserted
PROOF
<1>1. StreamInit => WireInv
  BY WireInvInit
<1>2. WireInv /\ [StreamNext]_stream_vars => WireInv'
  BY WireInvStep
<1>3. WireInv => AllInserted
  BY DEF WireInv, ResultInv, AmountInv, AllInserted
<1> QED BY <1>1, <1>2, <1>3, PTL DEF StreamSpec
=============================================================================
