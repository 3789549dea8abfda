--------------------------------- MODULE Net ---------------------------------
(***************************************************************************)
(* The network stack, src/src/net/net.c: the ARP cache, the answers to     *)
(* ARP and echo requests, and the TCP states of the sockets.  Any frame of *)
(* a peer may arrive at any time and any number of times: frames are lost, *)
(* duplicated and reordered by the network.                                *)
(*                                                                         *)
(* An address is a peer, or NoIp for 0; a frame is what the handlers read  *)
(* of it.  Left out: lengths, checksums, sequence numbers (stored, never   *)
(* read), and data: it is copied to recv_buf, which nothing allocates, so  *)
(* that net_recv never returns and net_send sends nothing.                 *)
(***************************************************************************)
EXTENDS Integers, FiniteSetsExt

CONSTANTS
  Peers, Macs,       \* the other hosts: peer -> the hardware addresses it uses in turn
  ARP_CACHE_SIZE, NET_MAX_SOCKETS,
  Ports              \* destination ports of segments

NoIp == "0.0.0.0"

ASSUME NetAssumption == {ARP_CACHE_SIZE, NET_MAX_SOCKETS} \subseteq Nat \ {0} /\ NoIp \notin Peers

VARIABLES
  arp_cache,  \* sequence of entries [ip, mac]
  sockets,    \* slot -> [in_use, type, state, remote]
  asked,      \* who has been sent an ARP request
  replied,    \* the replies sent: [type, ip, mac]
  pinged,     \* ghost: who has sent an echo request that arrived
  syn         \* ghost: slot -> who sent the last SYN to it since net_socket

vars == <<arp_cache, sockets, asked, replied, pinged, syn>>

Entries == 0..(ARP_CACHE_SIZE - 1)
Slots   == 0..(NET_MAX_SOCKETS - 1)
Unused  == [ip |-> NoIp, mac |-> "00"]
Zeroed  == [in_use |-> FALSE, type |-> "none", state |-> "CLOSED", remote |-> NoIp]

Frame ==
  [type : {"arp_reply", "arp_request"}, ip : Peers, mac : UNION {Macs[p] : p \in Peers}]
    \cup [type : {"echo"}, ip : Peers]
    \cup [type : {"tcp"}, ip : Peers, port : Ports, flags : SUBSET {"SYN", "ACK"}]

\* What a peer says of itself is true at the time.
Honest(f) == f.type \in {"arp_reply", "arp_request"} => f.mac \in Macs[f.ip]

-----------------------------------------------------------------------------

Holding(ip) == {i \in Entries : arp_cache[i].ip = ip}

send_arp_request_NotSent(ip) == asked' = asked

send_arp_request(ip) == asked' = asked \cup {ip}

Known_Never(ip) == {}

Known(ip) == Holding(ip)

\* The entry of the sender, else the first that is empty; a full cache learns nothing.
handle_arp_reply(f) ==
  LET at == IF Known(f.ip) # {} THEN Known(f.ip) ELSE Holding(NoIp)
  IN /\ arp_cache' = IF at = {} THEN arp_cache
                     ELSE [arp_cache EXCEPT ![Min(at)] = [ip |-> f.ip, mac |-> f.mac]]
     /\ UNCHANGED <<sockets, asked, replied, pinged, syn>>

Reply(type, ip, mac) == replied' = replied \cup {[type |-> type, ip |-> ip, mac |-> mac]}

\* A request for local_ip is answered to the sender; the sender is not cached.
handle_arp_request(f) == Reply("arp", f.ip, f.mac) /\ UNCHANGED <<arp_cache, sockets, asked, pinged, syn>>

CachedFor_Any(ip) == Entries

CachedFor(ip) == Holding(ip)

\* The reply goes out at once, or else the peer is asked for its address and the request dropped.
handle_icmp(f) ==
  /\ pinged' = pinged \cup {f.ip}
  /\ \/ /\ CachedFor(f.ip) # {}
        /\ Reply("echo", f.ip, arp_cache[Min(CachedFor(f.ip))].mac)
        /\ UNCHANGED asked
     \/ CachedFor(f.ip) = {} /\ send_arp_request(f.ip) /\ UNCHANGED replied
  /\ UNCHANGED <<arp_cache, sockets, syn>>

\* kmalloc of the reply fails.
handle_icmp_NoMemory(f) == pinged' = pinged \cup {f.ip} /\ UNCHANGED <<arp_cache, sockets, asked, replied, syn>>

To_AnyType(f) == {i \in Slots : sockets[i].in_use /\ 1024 + i = f.port}

To(f) == {i \in Slots : sockets[i].in_use /\ 1024 + i = f.port /\ sockets[i].type = "TCP"}

\* A SYN is taken in any state; an ACK from anybody completes the handshake.
handle_tcp(f) ==
  /\ \E i \in To(f) :
       \/ /\ "SYN" \in f.flags /\ "ACK" \notin f.flags
          /\ sockets' = [sockets EXCEPT ![i].state = "SYN_RCVD", ![i].remote = f.ip]
          /\ syn' = [syn EXCEPT ![i] = f.ip]
       \/ /\ "ACK" \in f.flags /\ sockets[i].state = "SYN_RCVD"
          /\ sockets' = [sockets EXCEPT ![i].state = "ESTABLISHED"]
          /\ UNCHANGED syn
  /\ UNCHANGED <<arp_cache, asked, replied, pinged>>

net_receive_frame(f) ==
  \/ f.type = "arp_reply" /\ handle_arp_reply(f)
  \/ f.type = "arp_request" /\ handle_arp_request(f)
  \/ f.type = "echo" /\ handle_icmp(f)
  \/ f.type = "echo" /\ handle_icmp_NoMemory(f)
  \/ f.type = "tcp" /\ handle_tcp(f)

-----------------------------------------------------------------------------

Cleared_Kept(s) == s

Cleared(s) == Zeroed

net_socket(type) ==
  LET free == {i \in Slots : ~sockets[i].in_use}
      i    == Min(free)
  IN /\ free # {}
     /\ sockets' = [sockets EXCEPT ![i] = [Cleared(sockets[i]) EXCEPT !.in_use = TRUE, !.type = type]]
     /\ syn' = [syn EXCEPT ![i] = NoIp]
     /\ UNCHANGED <<arp_cache, asked, replied, pinged>>

net_connect(fd, ip) ==
  /\ sockets[fd].in_use
  /\ sockets' = [sockets EXCEPT ![fd].remote = ip, ![fd].state = "SYN_SENT"]
  /\ send_arp_request(ip)
  /\ UNCHANGED <<arp_cache, replied, pinged, syn>>

net_close(fd) ==
  /\ sockets[fd].in_use
  /\ sockets' = [sockets EXCEPT ![fd].in_use = FALSE]
  /\ UNCHANGED <<arp_cache, asked, replied, pinged, syn>>

net_ping(ip) == send_arp_request(ip) /\ UNCHANGED <<arp_cache, sockets, replied, pinged, syn>>

\* net_init
Init ==
  /\ arp_cache = [i \in Entries |-> Unused]
  /\ sockets = [i \in Slots |-> Zeroed]
  /\ asked = {} /\ replied = {} /\ pinged = {}
  /\ syn = [i \in Slots |-> NoIp]

Next ==
  \/ \E f \in Frame : Honest(f) /\ net_receive_frame(f)
  \/ \E type \in {"TCP", "UDP"} : net_socket(type)
  \/ \E fd \in Slots : net_close(fd) \/ \E p \in Peers : net_connect(fd, p)
  \/ \E p \in Peers : net_ping(p)

Spec == Init /\ [][Next]_vars

\* A peer that waits repeats its request, a request for its address is answered
\* in the end, and memory is not short every time.
Asking(p)    == handle_icmp([type |-> "echo", ip |-> p])
Answering(p) == p \in asked /\ \E mac \in Macs[p] : handle_arp_reply([type |-> "arp_reply", ip |-> p, mac |-> mac])

Fairness == \A p \in Peers : WF_vars(p \in pinged /\ Asking(p)) /\ WF_vars(Answering(p))

-----------------------------------------------------------------------------

\* Entries and sockets have their types; a socket that is not for TCP shakes no hands.
TypeOK ==
  /\ \A i \in Entries : arp_cache[i] = Unused \/ arp_cache[i].ip \in Peers
  /\ sockets \in [Slots -> [in_use : BOOLEAN, type : {"none", "TCP", "UDP"}, remote : Peers \cup {NoIp},
                            state : {"CLOSED", "SYN_SENT", "SYN_RCVD", "ESTABLISHED"}]]
  /\ \A i \in Slots : sockets[i].type # "TCP" => sockets[i].state \in {"CLOSED", "SYN_SENT"}

\* A peer has one entry of the ARP cache at most, with an address it has used.
ArpSound ==
  \A i \in Entries : arp_cache[i] # Unused =>
    Holding(arp_cache[i].ip) = {i} /\ arp_cache[i].mac \in Macs[arp_cache[i].ip]

\* A reply goes to a hardware address of the host that asked for it.
RepliesReturn == \A r \in replied : r.mac \in Macs[r.ip] /\ (r.type = "echo" => r.ip \in pinged)

\* A socket that is being connected to, or is connected, has as its remote end
\* the host whose SYN came last, since it was made by net_socket: nothing of
\* an earlier use of the slot, of net_connect or of a reordered segment is left.
HandshakeSound ==
  \A i \in Slots : sockets[i].state \in {"SYN_RCVD", "ESTABLISHED"} =>
    syn[i] # NoIp /\ sockets[i].remote = syn[i]

\* The cache, the replies and the sockets are right about who is at the other
\* end, whatever is lost, repeated and reordered.
NetSound == TypeOK /\ ArpSound /\ RepliesReturn /\ HandshakeSound

\* A host that keeps pinging gets a reply, also if its address was not known.
EchoAnswered == \A p \in Peers : p \in pinged ~> \E r \in replied : r.type = "echo" /\ r.ip = p
=============================================================================
