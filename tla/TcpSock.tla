------------------------------- MODULE TcpSock ------------------------------
(***************************************************************************)
(* Project/lib/tcpsock.c: how one process opens, accepts, asks about and   *)
(* closes its sockets, with every call of the system that can fail on the  *)
(* way.  tcp_send and tcp_receive are in SensorStream.                     *)
(*                                                                         *)
(* The kernel is external: it has a table of descriptors, knows the port   *)
(* of each, and takes the low bits of the port a call names.               *)
(***************************************************************************)
EXTENDS Integers

CONSTANTS Handle,              \* the variables of type tcpsock_t *
          NULL,
          Desc,                \* the descriptors a process may have
          MIN_PORT, MAX_PORT,  \* 1024 and 65536
          PortSpace,           \* ports there are, with 0 for none: 65536
          Ephemeral,           \* those the kernel gives out by itself
          Asked                \* port numbers callers name

ASSUME PortAssumption == /\ PortSpace \in Nat \ {0} /\ Ephemeral \subseteq 1..(PortSpace - 1)
                         /\ MAX_PORT \in 0..PortSpace /\ MIN_PORT \in 1..MAX_PORT
                         /\ Asked \subseteq Nat

\* struct tcpsock.
Struct == [cookie : BOOLEAN, sd : Desc, ip_addr : {"address", NULL}, port : Nat]

ASSUME NullAssumption == NULL # "address" /\ NULL \notin Struct

VARIABLES
  sock,   \* what each variable points to: NULL or a struct tcpsock
  desc,   \* the kernel's table
  last    \* result of the last call

vars == <<sock, desc, last>>

\* An entry of the table; a descriptor no one has; one that socket has just returned.
Open(kind, port, peer) == [kind |-> kind, port |-> port, peer |-> peer, reset |-> FALSE]
Free == Open("free", 0, 0)
Created == Open("created", 0, 0)

Init == sock = [h \in Handle |-> NULL] /\ desc = [d \in Desc |-> Free] /\ last = "NO_ERROR"

\* The cookie is set in the structs that callers see, and only there.
Valid(h) == sock[h] # NULL /\ sock[h].cookie

\* A call that ends with an error and without a struct.
Fail(error) == last' = error /\ UNCHANGED <<sock, desc>>
\* The struct is freed, descriptor d stays as k.
FailOpen(error, d, k) == last' = error /\ desc' = [desc EXCEPT ![d] = k] /\ UNCHANGED sock
\* *sock = s.
Done(h, d, k, ip, port) ==
  /\ sock' = [sock EXCEPT ![h] = [cookie |-> TRUE, sd |-> d, ip_addr |-> ip, port |-> port]]
  /\ desc' = [desc EXCEPT ![d] = k]
  /\ last' = "NO_ERROR"

-----------------------------------------------------------------------------
(* The kernel. *)

Unused == {d \in Desc : desc[d].kind = "free"}
Used(p) == \E d \in Desc : desc[d].port = p /\ ~ desc[d].reset

\* The ports bind may give to a socket that asks for htons(port).
Bindable(port) ==
  LET p == port % PortSpace
  IN  {q \in IF p = 0 THEN Ephemeral ELSE {p} : ~ Used(q)}

\* The peer breaks off a connection.
Reset(d) ==
  /\ desc[d].kind \in {"connected", "accepted"} /\ ~ desc[d].reset
  /\ desc' = [desc EXCEPT ![d].reset = TRUE]
  /\ UNCHANGED <<sock, last>>

-----------------------------------------------------------------------------
(* The library. *)

\* tcp_sock_create or socket() fails; otherwise there is an unused descriptor.
CreateFails == Fail("MEMORY_ERROR") \/ Fail("SOCKOP_ERROR")

PortAllowed(port) == port \in MIN_PORT..MAX_PORT

tcp_passive_open(h, port) ==
  /\ sock[h] = NULL
  /\ IF ~ PortAllowed(port) THEN Fail("ADDRESS_ERROR")
     ELSE \/ CreateFails
          \/ \E d \in Unused :
               \/ FailOpen("SOCKOP_ERROR", d, Created)
               \/ \E p \in Bindable(port) :
                    \/ FailOpen("SOCKOP_ERROR", d, Open("bound", p, 0))
                    \/ Done(h, d, Open("listening", p, 0), NULL, port)

\* Slip: the port of the other side.
LocalPort_Peer(k) == k.peer
\* What getsockname says of a connection.
LocalPort(k) == k.port

\* remote_ip is an address, a text that is none, or NULL.
tcp_active_open(h, remote_port, remote_ip) ==
  /\ sock[h] = NULL
  /\ IF ~ PortAllowed(remote_port) \/ remote_ip = NULL THEN Fail("ADDRESS_ERROR")
     ELSE \/ CreateFails
          \/ \E d \in Unused :
               IF remote_ip = "text" THEN FailOpen("ADDRESS_ERROR", d, Created)
               ELSE \/ FailOpen("SOCKOP_ERROR", d, Created)
                    \/ /\ remote_port % PortSpace # 0
                       /\ \E p \in Bindable(0) :
                            LET k == Open("connected", p, remote_port)
                            IN  \/ FailOpen("SOCKOP_ERROR", d, k)
                                \/ FailOpen("MEMORY_ERROR", d, k)
                                \/ Done(h, d, k, "address", LocalPort(k))

\* accept may fail for its own reasons; otherwise a peer has called.
tcp_wait_for_connection(h, new) ==
  /\ sock[new] = NULL
  /\ IF ~ Valid(h) THEN Fail("SOCKET_ERROR")
     ELSE \/ CreateFails
          \/ /\ desc[sock[h].sd].kind = "listening"
             /\ \E d \in Unused, p \in Ephemeral :
                  LET k == Open("accepted", desc[sock[h].sd].port, p)
                  IN  \/ FailOpen("MEMORY_ERROR", d, k)
                      \/ Done(new, d, k, "address", p)

\* Slip: closed only if shutdown failed.
Closed_Swapped(d) == IF desc[d].reset THEN [desc EXCEPT ![d] = Free] ELSE desc
\* shutdown fails when the peer has broken off, and then close is not called.
Closed(d) == IF desc[d].reset THEN desc ELSE [desc EXCEPT ![d] = Free]

\* Slip: the caller's variable is left as it was.
Forgotten_Kept(h) == sock
Forgotten(h) == [sock EXCEPT ![h] = NULL]

tcp_close(h) ==
  IF sock[h] = NULL THEN Fail("SOCKET_ERROR")
  ELSE /\ desc' = (IF Valid(h) THEN Closed(sock[h].sd) ELSE desc)
       /\ sock' = Forgotten(h)
       /\ last' = "NO_ERROR"

\* The questions; TCP_SOCKET_ERROR unless the struct is valid.
tcp_get_ip_addr(h) == sock[h].ip_addr
tcp_get_port(h) == sock[h].port
tcp_get_sd(h) == sock[h].sd

-----------------------------------------------------------------------------
Next ==
  \/ \E d \in Desc : Reset(d)
  \/ \E h \in Handle :
       \/ tcp_close(h)
       \/ \E new \in Handle : tcp_wait_for_connection(h, new)
       \/ \E port \in Asked :
            \/ tcp_passive_open(h, port)
            \/ \E ip \in {"address", "text", NULL} : tcp_active_open(h, port, ip)

Spec == Init /\ [][Next]_vars

-----------------------------------------------------------------------------
(* Properties. *)

TypeOK ==
  /\ sock \in [Handle -> {NULL} \cup Struct]
  /\ desc \in [Desc -> [kind : {"free", "created", "bound", "listening", "connected", "accepted"},
                        port : 0..(PortSpace - 1), peer : Nat, reset : BOOLEAN]]
  /\ last \in {"NO_ERROR", "MEMORY_ERROR", "SOCKOP_ERROR", "ADDRESS_ERROR", "SOCKET_ERROR"}

Live == {h \in Handle : Valid(h)}
Owned == {sock[h].sd : h \in Live}

\* Through failed calls, reuse of descriptor numbers and broken connections, a
\* socket a caller can use has a descriptor that is open and its own.
DescriptorsOwned ==
  /\ \A h \in Live : desc[tcp_get_sd(h)].kind \in {"listening", "connected", "accepted"}
  /\ \A h, i \in Live : tcp_get_sd(h) = tcp_get_sd(i) => h = i

\* A descriptor stays open without an owner only when a call has said that it
\* failed or when the connection had been broken off: tcpsock.h promises for
\* tcp_close that "allocated resources are freed" without the second exception.
NoSilentLeak ==
  [][LET Leak(o, k) == {d \in Desc \ o : k[d].kind # "free"}
     IN  \A d \in Leak(Owned', desc') \ Leak(Owned, desc) :
           last' # "NO_ERROR" \/ desc[d].reset]_vars

\* The port tcp_get_port gives of a listening socket leads to this socket and no
\* other, unless the caller has asked for port 65536, which bind takes for "any";
\* of an accepted one it is the peer's, of an opened one its own.
PortTold ==
  \A h \in Live :
    LET port == tcp_get_port(h)
        k == desc[tcp_get_sd(h)]
    IN  /\ tcp_get_ip_addr(h) = NULL <=> k.kind = "listening"
        /\ k.kind = "accepted" => port = k.peer
        /\ k.kind = "connected" => port = k.port
        /\ (k.kind = "listening" /\ port < PortSpace) =>
             {d \in Desc : desc[d].kind = "listening" /\ desc[d].port = port} = {tcp_get_sd(h)}
=============================================================================
