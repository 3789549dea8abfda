---------------------------- MODULE PartsProofs ----------------------------
(***************************************************************************)
(* Proofs about parts of croOS that share no state: the network stack, the *)
(* timer, the disk driver, the mouse, the allocation table of FAT16 and    *)
(* the applications and consoles, each by its own specification, and about *)
(* the C library's loops that copy, compare, sort and search, and the      *)
(* checksums of the network stack.                                         *)
(***************************************************************************)
EXTENDS Net, Drivers, Timer, Fat16, Apps, CString, Checksum, SequenceTheorems, FiniteSetTheorems, WellFoundedInduction, TLAPS

LEMMA MinimalIsLeast ==
  ASSUME NEW R, IsWellFoundedOn(R, Nat), \A x, y \in Nat : y < x => <<y, x>> \in R,
         NEW S, S \subseteq Nat, S # {}
  PROVE  \E x \in S : \A y \in S : x <= y
<1>1. PICK x \in S : \A y \in S : ~(<<y, x>> \in R)
  BY WFMin
<1>2. ASSUME NEW y \in S PROVE ~(y < x)
  <2>1. x \in Nat /\ y \in Nat
    OBVIOUS
  <2>2. y < x => <<y, x>> \in R
    BY <2>1, Zenon
  <2> QED BY <2>2, <1>1, Zenon
<1>3. \A y \in S : x <= y
  BY <1>2
<1> QED BY <1>3

LEMMA LeastExists ==
  ASSUME NEW S, S \subseteq Nat, S # {}
  PROVE  \E x \in S : \A y \in S : x <= y
<1>1. IsWellFoundedOn(OpToRel(<, Nat), Nat)
  BY NatLessThanWellFounded
<1>2. \A x, y \in Nat : y < x => <<y, x>> \in OpToRel(<, Nat)
  BY DEF OpToRel
<1> QED  BY <1>1, <1>2, MinimalIsLeast, Zenon

\* Induction along a loop: S is the set of the turns after which all is well.
LEMMA Induction ==
  ASSUME NEW n \in Nat, NEW S, 0 \in S, \A k \in 1..n : k - 1 \in S => k \in S
  PROVE  0..n \subseteq S
<1> DEFINE T == {k \in 0..n : k \notin S}
<1> SUFFICES ASSUME T # {} PROVE FALSE
  OBVIOUS
<1>1. T \subseteq Nat
  OBVIOUS
<1> HIDE DEF T
<1>2. PICK m \in T : \A k \in T : m <= k
  BY <1>1, LeastExists
<1>3. m \in 0..n /\ m \notin S /\ m # 0
  BY DEF T
<1>4. m - 1 \in 0..n /\ m - 1 \notin T
  BY <1>1, <1>2, <1>3
<1>5. m - 1 \in S
  BY <1>4 DEF T
<1> QED  BY <1>3, <1>5

\* A loop of n turns, each of which makes an element of T of one, has a run.
RunOf(f, t, n, step) == f[0] = t /\ \A k \in 1..n : f[k] = step[k][f[k - 1]]

LEMMA LoopRuns ==
  ASSUME NEW T, NEW t \in T, NEW n \in Nat, NEW step \in [1..n -> [T -> T]]
  PROVE  \E f \in [0..n -> T] : RunOf(f, t, n, step)
<1> DEFINE S == {m \in 0..n : \E f \in [0..m -> T] : RunOf(f, t, m, step)}
<1>1. 0 \in S
  <2> DEFINE f == [k \in 0..0 |-> t]
  <2>1. f \in [0..0 -> T] /\ f[0] = t
    OBVIOUS
  <2>2. RunOf(f, t, 0, step)
    BY <2>1 DEF RunOf
  <2> QED  BY <2>1, <2>2
<1>2. ASSUME NEW k \in 1..n, k - 1 \in S PROVE k \in S
  <2>1. PICK f \in [0..(k - 1) -> T] : RunOf(f, t, k - 1, step)
    BY <1>2
  <2> DEFINE g == [j \in 0..k |-> IF j < k THEN f[j] ELSE step[k][f[k - 1]]]
  <2>2. f[k - 1] \in T /\ step[k][f[k - 1]] \in T
    OBVIOUS
  <2>3. g \in [0..k -> T]
    BY <2>2
  <2>4. g[0] = t
    BY <2>1 DEF RunOf
  <2>5. ASSUME NEW j \in 1..k PROVE g[j] = step[j][g[j - 1]]
    <3>1. CASE j < k
      <4>1. g[j] = f[j] /\ g[j - 1] = f[j - 1] /\ j \in 1..(k - 1)
        BY <3>1
      <4> QED  BY <4>1, <2>1 DEF RunOf
    <3>2. CASE j = k
      BY <3>2
    <3> QED  BY <3>1, <3>2
  <2>6. RunOf(g, t, k, step)
    BY <2>4, <2>5 DEF RunOf
  <2> HIDE DEF g
  <2> QED  BY <2>3, <2>6
<1> HIDE DEF S
<1>3. 0..n \subseteq S
  BY <1>1, <1>2, Induction
<1>4. n \in S
  BY <1>3
<1> QED  BY <1>4 DEF S

\* The scans of the network's tables stop at an entry that they look for.
LEMMA FirstFound ==
  ASSUME NEW S, S \subseteq Nat, S # {}
  PROVE  Min(S) \in S
<1>1. \E x \in S : \A y \in S : x <= y
  BY LeastExists
<1> QED BY <1>1 DEF Min

-----------------------------------------------------------------------------
(***************************************************************************)
(* The network stack, src/src/net/net.c                                    *)
(***************************************************************************)

SocketType == [in_use : BOOLEAN, type : {"none", "TCP", "UDP"}, remote : Peers \cup {NoIp},
               state : {"CLOSED", "SYN_SENT", "SYN_RCVD", "ESTABLISHED"}]

AnyMac == (UNION {Macs[p] : p \in Peers}) \cup {"00"}
EntryType == [ip : Peers \cup {NoIp}, mac : AnyMac]

CacheOk ==
  /\ arp_cache \in [Entries -> EntryType]
  /\ \A i \in Entries : \/ arp_cache[i] = Unused
                        \/ arp_cache[i].ip \in Peers /\ arp_cache[i].mac \in Macs[arp_cache[i].ip]
  /\ \A i, j \in Entries : arp_cache[i] # Unused /\ arp_cache[i].ip = arp_cache[j].ip => i = j

SocketsOk ==
  /\ sockets \in [Slots -> SocketType]
  /\ syn \in [Slots -> Peers \cup {NoIp}]
  /\ \A i \in Slots : sockets[i].type # "TCP" => sockets[i].state \in {"CLOSED", "SYN_SENT"}

NetInv == CacheOk /\ SocketsOk /\ RepliesReturn /\ HandshakeSound

LEMMA TablesFacts ==
  /\ Entries \subseteq Nat /\ Slots \subseteq Nat /\ NoIp \notin Peers
  /\ Unused.ip = NoIp /\ Unused \in EntryType
<1>1. ARP_CACHE_SIZE \in Nat /\ NET_MAX_SOCKETS \in Nat /\ NoIp \notin Peers
  BY NetAssumption
<1>2. Entries \subseteq Nat /\ Slots \subseteq Nat
  BY <1>1 DEF Entries, Slots
<1>3. "00" \in AnyMac
  BY DEF AnyMac
<1>4. Unused.ip = NoIp /\ Unused \in EntryType
  BY <1>3 DEF Unused, EntryType
<1> QED BY <1>1, <1>2, <1>4

LEMMA FrameFacts ==
  ASSUME NEW f \in Frame
  PROVE  /\ f.ip \in Peers
         /\ f.type \in {"arp_reply", "arp_request"} => f.mac \in UNION {Macs[p] : p \in Peers}
BY DEF Frame

\* A peer that is cached is written over, so it never has two entries.
LEMMA LearnKeeps ==
  ASSUME CacheOk, NEW f, f.ip \in Peers, f.mac \in Macs[f.ip], handle_arp_reply(f)
  PROVE  CacheOk'
<1> DEFINE at == IF Known(f.ip) # {} THEN Known(f.ip) ELSE Holding(NoIp)
           new == [ip |-> f.ip, mac |-> f.mac]
           k == Min(at)
<1>1. CASE at = {}
  <2>1. arp_cache' = arp_cache
    BY <1>1 DEF handle_arp_reply
  <2> QED BY <2>1 DEF CacheOk
<1>2. CASE at # {}
  <2>1. at \subseteq Entries
    BY DEF Known, Holding
  <2>2. k \in at
    BY <1>2, <2>1, TablesFacts, FirstFound
  <2>3. arp_cache' = [arp_cache EXCEPT ![k] = new]
    BY <1>2 DEF handle_arp_reply
  <2>4. new \in EntryType /\ new.ip = f.ip /\ new.mac = f.mac
    BY DEF EntryType, AnyMac
  <2>5. \A j \in Entries : arp_cache[j].ip = f.ip => j = k
    <3> SUFFICES ASSUME NEW j \in Entries, arp_cache[j].ip = f.ip PROVE j = k
      OBVIOUS
    <3>1. j \in Known(f.ip)
      BY DEF Known, Holding
    <3>2. k \in Known(f.ip)
      BY <2>2, <3>1
    <3>3. arp_cache[k].ip = f.ip /\ k \in Entries
      BY <3>2 DEF Known, Holding
    <3>4. arp_cache[j] # Unused
      BY TablesFacts
    <3> QED BY <3>3, <3>4 DEF CacheOk
  <2> HIDE DEF k, at, new
  <2>6. k \in Entries
    BY <2>1, <2>2
  <2>7. arp_cache'[k] = new /\ \A j \in Entries \ {k} : arp_cache'[j] = arp_cache[j]
    BY <2>3, <2>6 DEF CacheOk
  <2>8. arp_cache' \in [Entries -> EntryType]
    BY <2>3, <2>4 DEF CacheOk
  <2>9. \A i \in Entries : \/ arp_cache'[i] = Unused
                           \/ arp_cache'[i].ip \in Peers /\ arp_cache'[i].mac \in Macs[arp_cache'[i].ip]
    BY <2>4, <2>7 DEF CacheOk
  <2>10. ASSUME NEW i \in Entries, NEW j \in Entries, arp_cache'[i] # Unused,
                arp_cache'[i].ip = arp_cache'[j].ip
         PROVE  i = j
    <3>1. CASE i = k \/ j = k
      BY <3>1, <2>4, <2>5, <2>7, <2>10
    <3>2. CASE i # k /\ j # k
      BY <3>2, <2>7, <2>10 DEF CacheOk
    <3> QED BY <3>1, <3>2
  <2> QED BY <2>8, <2>9, <2>10 DEF CacheOk
<1> QED BY <1>1, <1>2

LEMMA EchoKeeps ==
  ASSUME CacheOk, RepliesReturn, NEW f, f.ip \in Peers, handle_icmp(f)
  PROVE  RepliesReturn'
<1>1. pinged' = pinged \cup {f.ip}
  BY DEF handle_icmp
<1>2. CASE CachedFor(f.ip) # {} /\ Reply("echo", f.ip, arp_cache[Min(CachedFor(f.ip))].mac)
  <2> DEFINE k == Min(CachedFor(f.ip))
  <2>1. k \in CachedFor(f.ip)
    BY <1>2, TablesFacts, FirstFound DEF CachedFor, Holding
  <2>2. replied' = replied \cup {[type |-> "echo", ip |-> f.ip, mac |-> arp_cache[k].mac]}
    BY <1>2 DEF Reply
  <2> HIDE DEF k
  <2>3. arp_cache[k].ip = f.ip /\ k \in Entries
    BY <2>1 DEF CachedFor, Holding
  <2>4. arp_cache[k].mac \in Macs[f.ip]
    BY <2>3, TablesFacts DEF CacheOk
  <2> QED BY <1>1, <2>2, <2>4 DEF RepliesReturn
<1>3. CASE UNCHANGED replied
  BY <1>1, <1>3 DEF RepliesReturn
<1> QED BY <1>2, <1>3 DEF handle_icmp

LEMMA SegmentKeeps ==
  ASSUME SocketsOk, HandshakeSound, NEW f, f.ip \in Peers, handle_tcp(f)
  PROVE  SocketsOk' /\ HandshakeSound'
<1>1. PICK i \in To(f) :
        \/ /\ sockets' = [sockets EXCEPT ![i].state = "SYN_RCVD", ![i].remote = f.ip]
           /\ syn' = [syn EXCEPT ![i] = f.ip]
        \/ /\ sockets[i].state = "SYN_RCVD"
           /\ sockets' = [sockets EXCEPT ![i].state = "ESTABLISHED"]
           /\ syn' = syn
  BY DEF handle_tcp
<1>2. i \in Slots /\ sockets[i].type = "TCP" /\ sockets[i] \in SocketType
  BY DEF To, SocketsOk
<1>3. CASE /\ sockets' = [sockets EXCEPT ![i].state = "SYN_RCVD", ![i].remote = f.ip]
           /\ syn' = [syn EXCEPT ![i] = f.ip]
  <2> DEFINE s == [sockets[i] EXCEPT !.state = "SYN_RCVD", !.remote = f.ip]
  <2>1. sockets' = [sockets EXCEPT ![i] = s]
    BY <1>2, <1>3 DEF SocketsOk
  <2>2. s \in SocketType /\ s.type = "TCP" /\ s.remote = f.ip
    BY <1>2 DEF SocketType
  <2> HIDE DEF s
  <2>3. sockets'[i] = s /\ \A j \in Slots \ {i} : sockets'[j] = sockets[j]
    BY <1>2, <2>1 DEF SocketsOk
  <2>4. syn'[i] = f.ip /\ \A j \in Slots \ {i} : syn'[j] = syn[j]
    BY <1>2, <1>3 DEF SocketsOk
  <2>5. SocketsOk'
    BY <1>2, <1>3, <2>1, <2>2, <2>3 DEF SocketsOk
  <2>6. HandshakeSound'
    BY <2>2, <2>3, <2>4, TablesFacts DEF HandshakeSound
  <2> QED BY <2>5, <2>6
<1>4. CASE /\ sockets[i].state = "SYN_RCVD"
           /\ sockets' = [sockets EXCEPT ![i].state = "ESTABLISHED"]
           /\ syn' = syn
  <2> DEFINE s == [sockets[i] EXCEPT !.state = "ESTABLISHED"]
  <2>1. sockets' = [sockets EXCEPT ![i] = s]
    BY <1>2, <1>4 DEF SocketsOk
  <2>2. s \in SocketType /\ s.type = "TCP" /\ s.remote = sockets[i].remote
    BY <1>2 DEF SocketType
  <2> HIDE DEF s
  <2>3. sockets'[i] = s /\ \A j \in Slots \ {i} : sockets'[j] = sockets[j]
    BY <1>2, <2>1 DEF SocketsOk
  <2>4. SocketsOk'
    BY <1>2, <1>4, <2>1, <2>2, <2>3 DEF SocketsOk
  <2>5. HandshakeSound'
    BY <1>2, <1>4, <2>2, <2>3 DEF HandshakeSound
  <2> QED BY <2>4, <2>5
<1> QED BY <1>1, <1>3, <1>4

\* net_socket clears the slot, so that nothing of its earlier use is left.
LEMMA SocketKeeps ==
  ASSUME SocketsOk, HandshakeSound, NEW type \in {"TCP", "UDP"}, net_socket(type)
  PROVE  SocketsOk' /\ HandshakeSound'
<1> DEFINE free == {j \in Slots : ~sockets[j].in_use}
           i == Min(free)
           s == [Zeroed EXCEPT !.in_use = TRUE, !.type = type]
<1>1. i \in free
  BY TablesFacts, FirstFound DEF net_socket
<1>2. sockets' = [sockets EXCEPT ![i] = s] /\ syn' = [syn EXCEPT ![i] = NoIp]
  BY DEF net_socket, Cleared
<1>3. s \in SocketType /\ s.state = "CLOSED"
  BY DEF Zeroed, SocketType
<1> HIDE DEF i, s
<1>4. i \in Slots
  BY <1>1
<1>5. /\ sockets'[i] = s /\ \A j \in Slots \ {i} : sockets'[j] = sockets[j] /\ syn'[j] = syn[j]
      /\ sockets' \in [Slots -> SocketType] /\ syn' \in [Slots -> Peers \cup {NoIp}]
  BY <1>2, <1>3, <1>4 DEF SocketsOk
<1>6. SocketsOk'
  BY <1>3, <1>5 DEF SocketsOk
<1>7. HandshakeSound'
  BY <1>3, <1>5 DEF HandshakeSound
<1> QED BY <1>6, <1>7

LEMMA ConnectKeeps ==
  ASSUME SocketsOk, HandshakeSound, NEW i \in Slots, NEW ip \in Peers, net_connect(i, ip)
  PROVE  SocketsOk' /\ HandshakeSound'
<1> DEFINE s == [sockets[i] EXCEPT !.remote = ip, !.state = "SYN_SENT"]
<1>1. sockets[i] \in SocketType
  BY DEF SocketsOk
<1>2. sockets' = [sockets EXCEPT ![i] = s] /\ syn' = syn
  BY <1>1 DEF net_connect, SocketsOk
<1>3. s \in SocketType /\ s.state = "SYN_SENT"
  BY <1>1 DEF SocketType
<1> HIDE DEF s
<1>4. /\ sockets'[i] = s /\ \A j \in Slots \ {i} : sockets'[j] = sockets[j]
      /\ sockets' \in [Slots -> SocketType]
  BY <1>2, <1>3 DEF SocketsOk
<1> QED BY <1>2, <1>3, <1>4 DEF SocketsOk, HandshakeSound

LEMMA CloseKeeps ==
  ASSUME SocketsOk, HandshakeSound, NEW i \in Slots, net_close(i)
  PROVE  SocketsOk' /\ HandshakeSound'
<1> DEFINE s == [sockets[i] EXCEPT !.in_use = FALSE]
<1>1. sockets[i] \in SocketType
  BY DEF SocketsOk
<1>2. sockets' = [sockets EXCEPT ![i] = s] /\ syn' = syn
  BY <1>1 DEF net_close, SocketsOk
<1>3. /\ s \in SocketType /\ s.state = sockets[i].state /\ s.type = sockets[i].type
      /\ s.remote = sockets[i].remote
  BY <1>1 DEF SocketType
<1> HIDE DEF s
<1>4. /\ sockets'[i] = s /\ \A j \in Slots \ {i} : sockets'[j] = sockets[j]
      /\ sockets' \in [Slots -> SocketType]
  BY <1>2, <1>3 DEF SocketsOk
<1> QED BY <1>2, <1>3, <1>4 DEF SocketsOk, HandshakeSound

LEMMA FrameKeeps ==
  ASSUME NetInv, NEW f \in Frame, Honest(f), net_receive_frame(f)
  PROVE  NetInv'
<1>1. f.ip \in Peers /\ (f.type \in {"arp_reply", "arp_request"} => f.mac \in Macs[f.ip])
  BY FrameFacts DEF Honest
<1>2. CASE f.type = "arp_reply" /\ handle_arp_reply(f)
  <2>1. CacheOk'
    BY <1>1, <1>2, LearnKeeps DEF NetInv
  <2>2. UNCHANGED <<sockets, replied, pinged, syn>>
    BY <1>2 DEF handle_arp_reply
  <2> QED BY <2>1, <2>2 DEF NetInv, SocketsOk, RepliesReturn, HandshakeSound
<1>3. CASE f.type = "arp_request" /\ handle_arp_request(f)
  <2>1. /\ replied' = replied \cup {[type |-> "arp", ip |-> f.ip, mac |-> f.mac]}
        /\ UNCHANGED <<arp_cache, sockets, pinged, syn>>
    BY <1>3 DEF handle_arp_request, Reply
  <2>2. f.mac \in Macs[f.ip]
    BY <1>1, <1>3
  <2>3. RepliesReturn'
    BY <2>1, <2>2 DEF NetInv, RepliesReturn
  <2> QED BY <2>1, <2>3 DEF NetInv, CacheOk, SocketsOk, HandshakeSound
<1>4. CASE f.type = "echo" /\ handle_icmp(f)
  <2>1. RepliesReturn'
    BY <1>1, <1>4, EchoKeeps DEF NetInv
  <2>2. UNCHANGED <<arp_cache, sockets, syn>>
    BY <1>4 DEF handle_icmp
  <2> QED BY <2>1, <2>2 DEF NetInv, CacheOk, SocketsOk, HandshakeSound
<1>5. CASE f.type = "echo" /\ handle_icmp_NoMemory(f)
  <2>1. pinged \subseteq pinged' /\ UNCHANGED <<arp_cache, sockets, replied, syn>>
    BY <1>5 DEF handle_icmp_NoMemory
  <2> QED BY <2>1 DEF NetInv, CacheOk, SocketsOk, RepliesReturn, HandshakeSound
<1>6. CASE f.type = "tcp" /\ handle_tcp(f)
  <2>1. SocketsOk' /\ HandshakeSound'
    BY <1>1, <1>6, SegmentKeeps DEF NetInv
  <2>2. UNCHANGED <<arp_cache, replied, pinged>>
    BY <1>6 DEF handle_tcp
  <2> QED BY <2>1, <2>2 DEF NetInv, CacheOk, RepliesReturn
<1> QED BY <1>2, <1>3, <1>4, <1>5, <1>6 DEF net_receive_frame

LEMMA StepNetInv == NetInv /\ [Next]_vars => NetInv'
<1> SUFFICES ASSUME NetInv, [Next]_vars PROVE NetInv'
  OBVIOUS
<1>1. CASE UNCHANGED vars
  BY <1>1 DEF vars, NetInv, CacheOk, SocketsOk, RepliesReturn, HandshakeSound
<1>2. ASSUME NEW f \in Frame, Honest(f), net_receive_frame(f) PROVE NetInv'
  BY <1>2, FrameKeeps
<1>3. ASSUME SocketsOk' /\ HandshakeSound', UNCHANGED <<arp_cache, replied, pinged>> PROVE NetInv'
  BY <1>3 DEF NetInv, CacheOk, RepliesReturn
<1>4. ASSUME NEW type \in {"TCP", "UDP"}, net_socket(type) PROVE NetInv'
  <2>1. UNCHANGED <<arp_cache, replied, pinged>>
    BY <1>4 DEF net_socket
  <2> QED BY <1>3, <1>4, <2>1, SocketKeeps DEF NetInv
<1>5. ASSUME NEW i \in Slots, net_close(i) PROVE NetInv'
  <2>1. UNCHANGED <<arp_cache, replied, pinged>>
    BY <1>5 DEF net_close
  <2> QED BY <1>3, <1>5, <2>1, CloseKeeps DEF NetInv
<1>6. ASSUME NEW i \in Slots, NEW p \in Peers, net_connect(i, p) PROVE NetInv'
  <2>1. UNCHANGED <<arp_cache, replied, pinged>>
    BY <1>6 DEF net_connect
  <2> QED BY <1>3, <1>6, <2>1, ConnectKeeps DEF NetInv
<1>7. ASSUME NEW p \in Peers, net_ping(p) PROVE NetInv'
  BY <1>7 DEF net_ping, NetInv, CacheOk, SocketsOk, RepliesReturn, HandshakeSound
<1> QED BY <1>1, <1>2, <1>4, <1>5, <1>6, <1>7 DEF Next

(***************************************************************************)
(* For any number of peers, cache entries and sockets, and whatever frames *)
(* are lost, repeated and reordered: a peer has one entry of the ARP cache *)
(* at most, with an address of its own, replies go to who asked for them,  *)
(* and a socket that shakes hands does so with the sender of the last SYN  *)
(* since net_socket.                                                       *)
(***************************************************************************)
THEOREM NetAlwaysSound == Spec => []NetSound
<1>1. Init => NetInv
  <2> SUFFICES ASSUME Init PROVE NetInv
    OBVIOUS
  <2>1. Zeroed \in SocketType /\ Zeroed.state = "CLOSED"
    BY DEF Zeroed, SocketType
  <2>2. CacheOk
    BY TablesFacts DEF Init, CacheOk
  <2>3. SocketsOk /\ HandshakeSound
    BY <2>1 DEF Init, SocketsOk, HandshakeSound
  <2> QED BY <2>2, <2>3 DEF Init, NetInv, RepliesReturn
<1>2. NetInv => NetSound
  <2> SUFFICES ASSUME NetInv PROVE NetSound
    OBVIOUS
  <2>1. TypeOK
    BY DEF NetInv, CacheOk, SocketsOk, SocketType, TypeOK
  <2>2. ArpSound
    BY DEF NetInv, CacheOk, ArpSound, Holding
  <2> QED BY <2>1, <2>2 DEF NetInv, NetSound
<1> QED BY <1>1, <1>2, StepNetInv, PTL DEF Spec

-----------------------------------------------------------------------------
(***************************************************************************)
(* The timer, src/src/drivers/timer.c                                      *)
(***************************************************************************)

\* The shared countdown is never short of what the last sleeper still needs.
TimerInv ==
  /\ sleep_ticks \in Nat
  /\ owed \in [Sleepers -> Nat]
  /\ sleeper \in [Sleepers -> {"awake", "stored", "halted"}]
  /\ last \in Sleepers
  /\ owed[last] <= sleep_ticks

LEMMA ArmedIsNat == ASSUME NEW ms \in Ms PROVE Armed(ms) \in Nat
<1> DEFINE W == 2^TickBits
<1>1. W \in Nat \ {0} /\ ms \in Nat
  BY TimerAssumption
<1> HIDE DEF W
<1>2. (ms * 100) % W \in Nat
  BY <1>1
<1>3. \A k \in Nat : k \div 1000 \in Nat
  OBVIOUS
<1>4. Armed(ms) = ((ms * 100) % W) \div 1000
  BY DEF Armed, W
<1> QED BY <1>2, <1>3, <1>4

LEMMA StepTimerInv == TimerInv /\ [TimerNext]_timerVars => TimerInv'
<1> SUFFICES ASSUME TimerInv, [TimerNext]_timerVars PROVE TimerInv'
  OBVIOUS
<1>1. CASE timer_irq
  <2>1. /\ sleep_ticks' = Decremented(sleep_ticks) /\ last' = last /\ sleeper' = sleeper
        /\ owed' = [p \in Sleepers |-> IF owed[p] > 0 THEN owed[p] - 1 ELSE 0]
    BY <1>1 DEF timer_irq
  <2>2. owed'[last] = IF owed[last] > 0 THEN owed[last] - 1 ELSE 0
    BY <2>1 DEF TimerInv
  <2>3. owed' \in [Sleepers -> Nat]
    BY <2>1 DEF TimerInv
  <2>4. sleep_ticks' \in Nat /\ owed'[last] <= sleep_ticks'
    BY <2>1, <2>2 DEF TimerInv, Decremented
  <2> QED BY <2>1, <2>3, <2>4 DEF TimerInv
<1>2. ASSUME NEW p \in Sleepers, NEW ms \in Ms, timer_sleep(p, ms) PROVE TimerInv'
  <2>1. /\ sleep_ticks' = Armed(ms) /\ last' = p /\ owed' = [owed EXCEPT ![p] = Armed(ms)]
        /\ sleeper' = [sleeper EXCEPT ![p] = "stored"]
    BY <1>2 DEF timer_sleep
  <2> QED BY <2>1, ArmedIsNat DEF TimerInv
<1>3. ASSUME NEW p \in Sleepers, timer_sleep_AtLeastOne(p) PROVE TimerInv'
  BY <1>3 DEF timer_sleep_AtLeastOne, TimerInv
<1>4. ASSUME NEW p \in Sleepers, timer_sleep_Return(p) PROVE TimerInv'
  BY <1>4 DEF timer_sleep_Return, TimerInv
<1>5. CASE UNCHANGED timerVars
  BY <1>5 DEF timerVars, TimerInv
<1> QED BY <1>1, <1>2, <1>3, <1>4, <1>5 DEF TimerNext

(***************************************************************************)
(* Although all sleepers share sleep_ticks, whoever stored it last is not  *)
(* woken before the ticks it asked for have passed, whatever the others    *)
(* do between its store, its test for zero and its wait.                   *)
(***************************************************************************)
THEOREM LastSleeperAlwaysServed == TimerSpec => LastSleeperServed
<1>1. timer_init => TimerInv
  BY DEF timer_init, TimerInv
<1>2. TimerInv /\ [TimerNext]_timerVars =>
        [\A p \in Sleepers :
           (p = last /\ sleeper[p] = "halted" /\ sleeper'[p] = "awake") => owed[p] = 0]_timerVars
  <2> SUFFICES ASSUME TimerInv, TimerNext, NEW p \in Sleepers,
                      p = last, sleeper[p] = "halted", sleeper'[p] = "awake"
               PROVE  owed[p] = 0
    OBVIOUS
  <2>1. CASE timer_irq
    BY <2>1 DEF timer_irq
  <2>2. ASSUME NEW q \in Sleepers, NEW ms \in Ms, timer_sleep(q, ms) PROVE FALSE
    BY <2>2 DEF timer_sleep, TimerInv
  <2>3. ASSUME NEW q \in Sleepers, timer_sleep_AtLeastOne(q) PROVE FALSE
    BY <2>3 DEF timer_sleep_AtLeastOne, TimerInv
  <2>4. ASSUME NEW q \in Sleepers, timer_sleep_Return(q) PROVE owed[p] = 0
    <3>1. sleep_ticks = 0
      BY <2>4 DEF timer_sleep_Return
    <3> QED BY <3>1 DEF TimerInv
  <2> QED BY <2>1, <2>2, <2>3, <2>4 DEF TimerNext
<1> QED BY <1>1, <1>2, StepTimerInv, PTL DEF TimerSpec, LastSleeperServed

-----------------------------------------------------------------------------
(***************************************************************************)
(* The disk driver, src/src/drivers/ata.c, for drives with 28-bit          *)
(* addresses                                                               *)
(***************************************************************************)

Contents == Data \cup {"blank"}

RequestType ==
  [stage : {"idle", "program", "wait", "done", "failed"}, op : {"read", "write"}, drive : Drives,
   lba : Nat, buf : Seq(Contents), count : Nat, at : [drive : Drives, sector : Nat], fault : BOOLEAN]

Active(r) == r.stage \in {"program", "wait"}

TurnOf(r) == IF r.op = "read" THEN Len(r.buf) ELSE r.count - Len(r.buf)

\* What holds of the transfer r on the disks m: it is for sectors of a drive
\* that was found, its loop has a turn to go, the registers name the sector
\* of this turn, and what a read has in its buffer is what is on the disk.
TransferOk(r, m) ==
  /\ r \in RequestType
  /\ Active(r) => /\ r.drive \in Attached /\ r.lba \in DiskSectors /\ r.lba + r.count - 1 \in DiskSectors
                  /\ r.count \in 1..2 /\ TurnOf(r) \in 0..(r.count - 1)
  /\ r.stage = "wait" => r.at.drive = r.drive /\ r.at.sector = r.lba + TurnOf(r)
  /\ r.op = "read" => \A i \in 1..Len(r.buf) : r.buf[i] = m[r.drive][r.lba + i - 1]
  /\ r.op = "read" /\ r.stage = "done" => Len(r.buf) = r.count
  /\ r.stage = "failed" => r.fault

AtaInv ==
  /\ present \subseteq Attached
  /\ media \in [Drives -> [DiskSectors -> Contents]]
  /\ TransferOk(req, media)

LEMMA IdleType == Idle \in RequestType
<1>1. <<>> \in Seq(Contents)
  OBVIOUS
<1> QED BY <1>1 DEF Idle, RequestType, Drives

LEMMA BufferFacts ==
  ASSUME NEW buf \in BoundedSeq(Data, 2) \ {<<>>}
  PROVE  buf \in Seq(Contents) /\ Len(buf) \in 1..2
<1>1. PICK m \in 0..2 : buf \in [1..m -> Data]
  BY DEF BoundedSeq, SeqOf
<1>2. buf \in Seq(Data) /\ Len(buf) = m
  BY <1>1
<1>3. m # 0
  BY <1>2
<1>4. buf \in Seq(Contents)
  BY <1>1 DEF Contents
<1> QED BY <1>2, <1>3, <1>4

\* A request that has just been made.
LEMMA RequestOk ==
  ASSUME AtaInv, NEW op \in {"read", "write"}, NEW d \in Drives, NEW lba \in DiskSectors,
         NEW n \in 1..2, lba + n - 1 \in DiskSectors, NEW buf \in Seq(Contents),
         op = "read" => Len(buf) = 0, op = "write" => Len(buf) = n
  PROVE  TransferOk(Request(op, d, lba, n, buf), media)
<1> DEFINE r == Request(op, d, lba, n, buf)
<1>1. lba \in Nat
  BY AtaAssumption
<1>2. /\ r \in RequestType /\ r.op = op /\ r.drive = d /\ r.lba = lba /\ r.count = n /\ r.buf = buf
      /\ r.stage = IF d \in present THEN "program" ELSE "failed"
      /\ r.fault = (d \notin present)
  <2> DEFINE st == IF d \in present THEN "program" ELSE "failed"
             fl == d \notin present
  <2>1. st \in {"idle", "program", "wait", "done", "failed"} /\ fl \in BOOLEAN /\ n \in Nat
    OBVIOUS
  <2>2. r = [Idle EXCEPT !.stage = st, !.fault = fl, !.op = op, !.drive = d, !.lba = lba,
                         !.count = n, !.buf = buf]
    BY DEF Request
  <2> HIDE DEF st, fl, r
  <2>3. /\ r \in RequestType /\ r.op = op /\ r.drive = d /\ r.lba = lba /\ r.count = n /\ r.buf = buf
        /\ r.stage = st /\ r.fault = fl
    BY <1>1, <2>1, <2>2, IdleType DEF RequestType
  <2> QED BY <2>3 DEF st, fl
<1> HIDE DEF r
<1>3. TurnOf(r) = 0
  BY <1>2 DEF TurnOf
<1>4. Len(buf) \in Nat /\ (op = "read" => \A i \in 1..Len(buf) : FALSE)
  OBVIOUS
<1>5. present \subseteq Attached
  BY DEF AtaInv
<1>6. r.stage = "failed" => r.fault
  BY <1>2
<1>7. Active(r) => /\ r.drive \in Attached /\ r.lba \in DiskSectors /\ r.lba + r.count - 1 \in DiskSectors
                   /\ r.count \in 1..2 /\ TurnOf(r) \in 0..(r.count - 1)
  BY <1>2, <1>3, <1>5 DEF Active
<1>8. r.op = "read" => \A i \in 1..Len(r.buf) : FALSE
  BY <1>2, <1>4
<1>9. r.stage # "wait" /\ r.stage # "done"
  BY <1>2
<1>10. TransferOk(r, media)
  BY <1>2, <1>6, <1>7, <1>8, <1>9 DEF TransferOk
<1> QED BY <1>10 DEF r

LEMMA ProgramKeeps ==
  ASSUME Lba48 = {}, AtaInv, Program
  PROVE  AtaInv'
<1> DEFINE a == [drive |-> req.drive, sector |-> req.lba + TurnOf(req)]
<1>1. req.stage = "program" /\ TransferOk(req, media) /\ req \in RequestType
  BY DEF Program, AtaInv, TransferOk
<1>2. TurnOf(req) \in Nat /\ req.lba \in Nat /\ req.drive \in Drives
  BY <1>1 DEF TransferOk, Active, RequestType
<1>3. selected' = req.drive /\ Address(req.drive, req.lba + Turn) = req.lba + TurnOf(req)
  BY DEF Program, ata_select, Address, Turn, TurnOf
<1>4. req' = [req EXCEPT !.stage = "wait", !.at = a] /\ media' = media /\ present' = present
  BY <1>3 DEF Program
<1>5. a \in [drive : Drives, sector : Nat] /\ a.drive = req.drive /\ a.sector = req.lba + TurnOf(req)
  BY <1>2
<1> HIDE DEF a
<1>6. /\ req' \in RequestType /\ req'.stage = "wait" /\ req'.at = a /\ req'.op = req.op
      /\ req'.drive = req.drive /\ req'.lba = req.lba /\ req'.buf = req.buf /\ req'.count = req.count
  BY <1>1, <1>4, <1>5 DEF RequestType
<1>7. TurnOf(req') = TurnOf(req)
  BY <1>6 DEF TurnOf
<1>8. TransferOk(req', media)
  BY <1>1, <1>5, <1>6, <1>7 DEF TransferOk, Active
<1> QED BY <1>4, <1>8 DEF AtaInv

\* The registers name a sector that is there, so only a fault of the disk
\* makes the command fail.
LEMMA AnswersFollows ==
  ASSUME AtaInv, req.stage = "wait"
  PROVE  /\ Answers /\ req.at.drive = req.drive /\ req.at.sector = req.lba + TurnOf(req)
         /\ req.drive \in Drives /\ req.lba + TurnOf(req) \in DiskSectors
         /\ TurnOf(req) \in 0..(req.count - 1) /\ req.count \in 1..2 /\ req \in RequestType
<1>1. /\ req \in RequestType /\ req.drive \in Attached /\ req.lba \in DiskSectors
      /\ req.lba + req.count - 1 \in DiskSectors /\ req.count \in 1..2 /\ TurnOf(req) \in 0..(req.count - 1)
      /\ req.at.drive = req.drive /\ req.at.sector = req.lba + TurnOf(req)
  BY DEF AtaInv, TransferOk, Active
<1>2. req.lba \in Nat /\ req.drive \in Drives
  BY <1>1 DEF RequestType
<1>3. req.lba + TurnOf(req) \in DiskSectors
  <2>1. TurnOf(req) = 0 \/ TurnOf(req) = req.count - 1
    BY <1>1
  <2>2. req.lba + 0 = req.lba /\ req.lba + (req.count - 1) = req.lba + req.count - 1
    BY <1>1, <1>2
  <2> QED BY <1>1, <2>1, <2>2
<1> QED BY <1>1, <1>2, <1>3 DEF Answers

LEMMA FailKeeps ==
  ASSUME AtaInv, Fail
  PROVE  AtaInv'
<1>1. req.stage = "wait" /\ media' = media /\ present' = present
      /\ req' = [req EXCEPT !.stage = "failed", !.fault = Answers]
  BY DEF Fail
<1>2. Answers /\ req \in RequestType
  BY <1>1, AnswersFollows
<1>3. /\ req' \in RequestType /\ req'.stage = "failed" /\ req'.fault = TRUE /\ req'.op = req.op
      /\ req'.drive = req.drive /\ req'.lba = req.lba /\ req'.buf = req.buf
  BY <1>1, <1>2 DEF RequestType
<1>4. TransferOk(req', media)
  BY <1>1, <1>3 DEF AtaInv, TransferOk, Active
<1> QED BY <1>1, <1>4 DEF AtaInv

LEMMA TransferInKeeps ==
  ASSUME AtaInv, TransferIn
  PROVE  AtaInv'
<1> DEFINE x == media[req.drive][req.lba + Len(req.buf)]
           b == Append(req.buf, x)
           st == AfterTurn(req.count - Len(req.buf) - 1)
<1>1. req.stage = "wait" /\ req.op = "read" /\ media' = media /\ present' = present
  BY DEF TransferIn
<1>2. TurnOf(req) = Len(req.buf)
  BY <1>1 DEF TurnOf
<1>3. /\ req.at.drive = req.drive /\ req.at.sector = req.lba + Len(req.buf)
      /\ req.drive \in Drives /\ req.lba + Len(req.buf) \in DiskSectors /\ Len(req.buf) \in 0..(req.count - 1)
      /\ req.count \in 1..2 /\ req \in RequestType
  BY <1>1, <1>2, AnswersFollows
<1>4. req' = [req EXCEPT !.buf = b, !.stage = st]
  BY <1>3 DEF TransferIn
<1>5. x \in Contents
  BY <1>3 DEF AtaInv
<1> HIDE DEF x
<1>6. req.buf \in Seq(Contents) /\ req.lba \in Nat
  BY <1>3 DEF RequestType
<1>7. b \in Seq(Contents) /\ Len(b) = Len(req.buf) + 1 /\ b[Len(req.buf) + 1] = x
      /\ \A i \in 1..Len(req.buf) : b[i] = req.buf[i]
  BY <1>5, <1>6
<1>8. st \in {"done", "program"} /\ (st = "done" <=> Len(b) = req.count)
  BY <1>3, <1>6, <1>7 DEF AfterTurn
<1> HIDE DEF b, st
<1>9. /\ req' \in RequestType /\ req'.stage = st /\ req'.op = "read" /\ req'.drive = req.drive
      /\ req'.lba = req.lba /\ req'.buf = b /\ req'.count = req.count
  BY <1>1, <1>3, <1>4, <1>7, <1>8 DEF RequestType
<1>10. ASSUME NEW i \in 1..Len(b) PROVE b[i] = media[req.drive][req.lba + i - 1]
  <2>1. CASE i \in 1..Len(req.buf)
    <3>1. req.buf[i] = media[req.drive][req.lba + i - 1]
      BY <1>1, <2>1 DEF AtaInv, TransferOk
    <3> QED BY <2>1, <3>1, <1>7
  <2>2. CASE i = Len(req.buf) + 1
    <3>1. req.lba + i - 1 = req.lba + Len(req.buf)
      BY <1>6, <2>2
    <3> QED BY <2>2, <3>1, <1>7 DEF x
  <2>3. i \in 1..Len(req.buf) \/ i = Len(req.buf) + 1
    BY <1>6, <1>7
  <2> QED BY <2>1, <2>2, <2>3
<1>11. TurnOf(req') = Len(b)
  BY <1>9 DEF TurnOf
<1>12. Active(req') => TurnOf(req') \in 0..(req.count - 1)
  BY <1>3, <1>6, <1>7, <1>8, <1>9, <1>11 DEF Active
<1>13. req.drive \in Attached /\ req.lba \in DiskSectors /\ req.lba + req.count - 1 \in DiskSectors
  BY <1>1 DEF AtaInv, TransferOk, Active
<1>14. TransferOk(req', media)
  BY <1>3, <1>8, <1>9, <1>10, <1>12, <1>13 DEF TransferOk
<1> QED BY <1>1, <1>14 DEF AtaInv

LEMMA TransferOutFacts ==
  ASSUME AtaInv, TransferOut
  PROVE  /\ req.op = "write" /\ req.drive \in Drives /\ req \in RequestType
         /\ req.lba + req.count - Len(req.buf) \in DiskSectors
         /\ media' = [media EXCEPT ![req.drive][req.lba + req.count - Len(req.buf)] = Head(req.buf)]
         /\ Len(req.buf) \in 1..req.count /\ req.count \in 1..2 /\ Head(req.buf) \in Contents
<1>1. req.stage = "wait" /\ req.op = "write"
  BY DEF TransferOut
<1>2. TurnOf(req) = req.count - Len(req.buf)
  BY <1>1 DEF TurnOf
<1>3. /\ req.at.drive = req.drive /\ req.at.sector = req.lba + TurnOf(req)
      /\ req.drive \in Drives /\ req.lba + TurnOf(req) \in DiskSectors /\ TurnOf(req) \in 0..(req.count - 1)
      /\ req.count \in 1..2 /\ req \in RequestType
  BY <1>1, AnswersFollows
<1>4. req.buf \in Seq(Contents) /\ req.lba \in Nat /\ Len(req.buf) \in Nat
  BY <1>3 DEF RequestType
<1>5. Len(req.buf) \in 1..req.count /\ req.lba + TurnOf(req) = req.lba + req.count - Len(req.buf)
  BY <1>2, <1>3, <1>4
<1>6. Head(req.buf) \in Contents
  BY <1>4, <1>5
<1> QED BY <1>1, <1>3, <1>5, <1>6 DEF TransferOut

LEMMA TransferOutKeeps ==
  ASSUME AtaInv, TransferOut
  PROVE  AtaInv'
<1> DEFINE b == Tail(req.buf)
           st == AfterTurn(Len(req.buf) - 1)
<1>1. /\ req.op = "write" /\ req.drive \in Drives /\ req \in RequestType
      /\ req.lba + req.count - Len(req.buf) \in DiskSectors
      /\ media' = [media EXCEPT ![req.drive][req.lba + req.count - Len(req.buf)] = Head(req.buf)]
      /\ Len(req.buf) \in 1..req.count /\ req.count \in 1..2 /\ Head(req.buf) \in Contents
  BY TransferOutFacts
<1>2. req.stage = "wait" /\ present' = present /\ req' = [req EXCEPT !.buf = b, !.stage = st]
  BY DEF TransferOut
<1>3. media' \in [Drives -> [DiskSectors -> Contents]]
  <2> DEFINE k == req.lba + req.count - Len(req.buf)
             y == Head(req.buf)
  <2>1. k \in DiskSectors /\ y \in Contents /\ media' = [media EXCEPT ![req.drive][k] = y]
    BY <1>1
  <2> HIDE DEF k, y
  <2> QED BY <1>1, <2>1 DEF AtaInv
<1>4. req.buf \in Seq(Contents) /\ req.buf # <<>>
  BY <1>1 DEF RequestType
<1>5. b \in Seq(Contents) /\ Len(b) = Len(req.buf) - 1
  BY <1>4
<1>6. st \in {"done", "program"} /\ (st = "program" => Len(b) >= 1)
  <2>1. st = IF Len(req.buf) - 1 = 0 THEN "done" ELSE "program"
    BY DEF AfterTurn
  <2> HIDE DEF b
  <2>2. st \in {"done", "program"} /\ (st = "program" => Len(req.buf) - 1 # 0)
    BY <2>1
  <2>3. Len(b) \in Nat
    BY <1>5
  <2>4. Len(req.buf) - 1 # 0 => Len(b) >= 1
    <3>1. \A l \in Nat : l # 0 => l >= 1
      OBVIOUS
    <3> QED BY <1>5, <2>3, <3>1, Zenon
  <2> QED BY <2>2, <2>4
<1> HIDE DEF b, st
<1>7. /\ req' \in RequestType /\ req'.stage = st /\ req'.op = "write" /\ req'.drive = req.drive
      /\ req'.lba = req.lba /\ req'.buf = b /\ req'.count = req.count
  BY <1>1, <1>2, <1>5, <1>6 DEF RequestType
<1>8. TurnOf(req') = req.count - Len(b)
  BY <1>7 DEF TurnOf
<1>9. Active(req') => TurnOf(req') \in 0..(req.count - 1)
  BY <1>1, <1>5, <1>6, <1>7, <1>8 DEF Active
<1>10. req.drive \in Attached /\ req.lba \in DiskSectors /\ req.lba + req.count - 1 \in DiskSectors
  BY <1>2 DEF AtaInv, TransferOk, Active
<1>11. TransferOk(req', media')
  BY <1>1, <1>6, <1>7, <1>9, <1>10 DEF TransferOk
<1> QED BY <1>2, <1>3, <1>11 DEF AtaInv

LEMMA StepAtaInv == Lba48 = {} /\ AtaInv /\ [AtaNext]_ataVars => AtaInv'
<1> SUFFICES ASSUME Lba48 = {}, AtaInv, [AtaNext]_ataVars PROVE AtaInv'
  OBVIOUS
<1>1. ASSUME NEW d \in Drives, NEW lba \in DiskSectors, NEW n \in 1..2, ata_read_sectors(d, lba, n)
      PROVE  AtaInv'
  <2>1. /\ lba + n - 1 \in DiskSectors /\ req' = Request("read", d, lba, n, <<>>)
        /\ UNCHANGED <<present, media>>
    BY <1>1 DEF ata_read_sectors
  <2>2. <<>> \in Seq(Contents) /\ Len(<<>>) = 0
    OBVIOUS
  <2>3. TransferOk(req', media)
    BY <2>1, <2>2, RequestOk
  <2> QED BY <2>1, <2>3 DEF AtaInv
<1>2. ASSUME NEW d \in Drives, NEW lba \in DiskSectors, NEW buf \in BoundedSeq(Data, 2) \ {<<>>},
             ata_write_sectors(d, lba, buf)
      PROVE  AtaInv'
  <2>1. /\ lba + Len(buf) - 1 \in DiskSectors /\ req' = Request("write", d, lba, Len(buf), buf)
        /\ UNCHANGED <<present, media>>
    BY <1>2 DEF ata_write_sectors
  <2>2. buf \in Seq(Contents) /\ Len(buf) \in 1..2
    BY BufferFacts
  <2>3. TransferOk(req', media)
    BY <2>1, <2>2, RequestOk
  <2> QED BY <2>1, <2>3 DEF AtaInv
<1>3. CASE UNCHANGED ataVars
  BY <1>3 DEF ataVars, AtaInv
<1> QED BY <1>1, <1>2, <1>3, ProgramKeeps, FailKeeps, TransferInKeeps, TransferOutKeeps DEF AtaNext

LEMMA AtaInvariance ==
  ASSUME Lba48 = {}
  PROVE  AtaSpec => []AtaInv
<1>1. ata_init => AtaInv
  <2> SUFFICES ASSUME ata_init PROVE AtaInv
    OBVIOUS
  <2>1. Idle.stage = "idle" /\ Idle.op = "read" /\ Idle.buf = <<>>
    BY DEF Idle
  <2>2. TransferOk(req, media)
    BY <2>1, IdleType DEF ata_init, TransferOk, Active
  <2>3. media \in [Drives -> [DiskSectors -> Contents]]
    BY DEF ata_init, Contents
  <2> QED BY <2>2, <2>3 DEF ata_init, AtaInv
<1>2. AtaInv /\ [AtaNext]_ataVars => AtaInv'
  BY StepAtaInv
<1> QED BY <1>1, <1>2, PTL DEF AtaSpec

(***************************************************************************)
(* With 28-bit addresses, a write changes the sector of its turn, on the   *)
(* drive it was asked to, whichever was used before and wherever a         *)
(* transfer of several sectors fails.  The hypothesis is needed: see the   *)
(* run on drives with 48-bit addresses.                                    *)
(***************************************************************************)
THEOREM WritesAlwaysConfined ==
  ASSUME Lba48 = {}
  PROVE  AtaSpec => WritesConfined
<1>1. AtaInv /\ [AtaNext]_ataVars =>
        [\A d \in Drives, s \in DiskSectors : media'[d][s] # media[d][s] =>
           /\ req.op = "write" /\ d = req.drive /\ s = req.lba + req.count - Len(req.buf)
           /\ media'[d][s] = Head(req.buf)]_ataVars
  <2> SUFFICES ASSUME AtaInv, AtaNext, NEW d \in Drives, NEW s \in DiskSectors,
                      media'[d][s] # media[d][s]
               PROVE  /\ req.op = "write" /\ d = req.drive /\ s = req.lba + req.count - Len(req.buf)
                      /\ media'[d][s] = Head(req.buf)
    OBVIOUS
  <2>1. TransferOut
    BY DEF AtaNext, ata_read_sectors, ata_write_sectors, Program, Fail, TransferIn
  <2>2. /\ req.op = "write" /\ req.drive \in Drives
        /\ media' = [media EXCEPT ![req.drive][req.lba + req.count - Len(req.buf)] = Head(req.buf)]
        /\ req.lba + req.count - Len(req.buf) \in DiskSectors
    BY <2>1, TransferOutFacts
  <2> DEFINE k == req.lba + req.count - Len(req.buf)
             y == Head(req.buf)
  <2>3. media' = [media EXCEPT ![req.drive][k] = y] /\ k \in DiskSectors
    BY <2>2
  <2> HIDE DEF k, y
  <2>4. d = req.drive /\ s = k /\ media'[d][s] = y
    BY <2>2, <2>3 DEF AtaInv
  <2> QED BY <2>2, <2>4 DEF k, y
<1> QED BY <1>1, AtaInvariance, PTL DEF AtaSpec, WritesConfined

(***************************************************************************)
(* With 28-bit addresses, a read fails only for a fault of the disk or a   *)
(* drive that was not found, and otherwise returns the sectors asked for,  *)
(* in order.                                                               *)
(***************************************************************************)
THEOREM ReadsAlwaysExact ==
  ASSUME Lba48 = {}
  PROVE  AtaSpec => []ReadsExact
<1>1. AtaInv => ReadsExact
  <2> SUFFICES ASSUME AtaInv PROVE ReadsExact
    OBVIOUS
  <2>1. req.stage = "failed" => req.fault
    BY DEF AtaInv, TransferOk
  <2>2. ASSUME req.stage = "done", req.op = "read"
        PROVE  req.buf = [i \in 1..req.count |-> media[req.drive][req.lba + i - 1]]
    <3>1. /\ req \in RequestType /\ Len(req.buf) = req.count
          /\ \A i \in 1..Len(req.buf) : req.buf[i] = media[req.drive][req.lba + i - 1]
      BY <2>2 DEF AtaInv, TransferOk
    <3>2. req.buf \in Seq(Contents)
      BY <3>1 DEF RequestType
    <3>3. req.buf = [i \in 1..Len(req.buf) |-> req.buf[i]]
      BY <3>2
    <3> QED BY <3>1, <3>3
  <2> QED BY <2>1, <2>2 DEF ReadsExact
<1> QED BY <1>1, AtaInvariance, PTL

-----------------------------------------------------------------------------
(***************************************************************************)
(* The mouse, src/src/drivers/mouse.c                                      *)
(***************************************************************************)

MouseType ==
  [x : 0..(VGA_WIDTH - 1), y : 0..(VGA_HEIGHT - 1), buttons : Int, dx : Int, dy : Int]

\* The report that is read is consistent with the mouse.
ReportShown(m, r) == m.buttons = r[1] % 8 /\ m.dx = Signed(r[2]) /\ m.dy = Inverted(r[3])

OnScreen ==
  /\ mouse \in MouseType
  /\ cursor \in (0..(VGA_WIDTH - 1)) \X (0..(VGA_HEIGHT - 1))
  /\ mouse_cycle \in 0..2
  /\ mouse_buf \in [1..3 -> Nat]
  /\ wire \in Seq(Nat)

\* The driver counts with the device: what is on the wire is the rest of the
\* report of which mouse_buf holds the beginning.
InStep ==
  /\ reported \in Seq(Nat) /\ Len(reported) = 3
  /\ Len(wire) \in 0..3 /\ mouse_cycle = (IF Len(wire) = 0 THEN 0 ELSE 3 - Len(wire))
  /\ \A k \in 1..Len(wire) : wire[k] = reported[k + 3 - Len(wire)]
  /\ \A k \in 1..mouse_cycle : mouse_buf[k] = reported[k]
  /\ Len(wire) = 0 => ReportShown(mouse, reported)

LEMMA MouseFacts ==
  /\ VGA_WIDTH \in Nat \ {0} /\ VGA_HEIGHT \in Nat \ {0}
  /\ 2^MouseBits \in Nat \ {0} /\ 2^(MouseBits - 1) \in Nat \ {0}
BY MouseAssumption

LEMMA SignedIsInt ==
  ASSUME NEW b \in Nat
  PROVE  Signed(b) \in Int /\ Inverted(b) \in Int
<1> DEFINE W == 2^MouseBits  H == 2^(MouseBits - 1)
<1>1. W \in Nat \ {0} /\ H \in Nat \ {0}
  BY MouseFacts
<1>2. \A n : Signed(n) = IF n < H THEN n ELSE n - W
  BY DEF Signed
<1>3. \A n : Inverted(n) = Signed((-Signed(n)) % W)
  BY DEF Inverted
<1> HIDE DEF W, H
<1>4. \A n \in Int : Signed(n) \in Int
  BY <1>1, <1>2
<1>5. (-Signed(b)) % W \in Int
  BY <1>1, <1>4
<1> QED BY <1>3, <1>4, <1>5

LEMMA SignedZero == Signed(0) = 0 /\ Inverted(0) = 0
<1> DEFINE W == 2^MouseBits  H == 2^(MouseBits - 1)
<1>1. W \in Nat \ {0} /\ H \in Nat \ {0}
  BY MouseFacts
<1>2. Signed(0) = IF 0 < H THEN 0 ELSE 0 - W
  BY DEF Signed
<1>3. Inverted(0) = Signed((-Signed(0)) % W)
  BY DEF Inverted
<1> HIDE DEF W, H
<1>4. Signed(0) = 0
  BY <1>1, <1>2
<1>5. (-0) % W = 0
  BY <1>1
<1> QED BY <1>3, <1>4, <1>5

LEMMA MovedFacts ==
  ASSUME OnScreen, NEW b \in [1..3 -> Nat]
  PROVE  Moved(b) \in MouseType /\ ReportShown(Moved(b), b)
<1> DEFINE dx == Signed(b[2])  dy == Inverted(b[3])
           px == Place(mouse.x + dx, VGA_WIDTH)  py == Place(mouse.y + dy, VGA_HEIGHT)
<1>1. dx \in Int /\ dy \in Int
  BY SignedIsInt
<1>2. mouse.x \in Int /\ mouse.y \in Int
  BY MouseFacts DEF OnScreen, MouseType
<1> HIDE DEF dx, dy
<1>3. px \in 0..(VGA_WIDTH - 1) /\ py \in 0..(VGA_HEIGHT - 1)
  BY <1>1, <1>2, MouseFacts DEF Place
<1>4. b[1] % 8 \in Int
  <2>1. b[1] \in Nat
    OBVIOUS
  <2> QED BY <2>1
<1>5. Moved(b) = [x |-> px, y |-> py, buttons |-> b[1] % 8, dx |-> dx, dy |-> dy]
  BY DEF Moved, dx, dy
<1> HIDE DEF px, py
<1> QED BY <1>1, <1>3, <1>4, <1>5 DEF MouseType, ReportShown, dx, dy

\* The parts of an interrupt.
LEMMA IrqFacts ==
  ASSUME OnScreen, mouse_irq
  PROVE  /\ Len(wire) \in Nat \ {0} /\ wire[1] \in Nat
         /\ wire' \in Seq(Nat) /\ Len(wire') = Len(wire) - 1
         /\ \A k \in 1..Len(wire') : wire'[k] = wire[k + 1]
         /\ mouse_buf' \in [1..3 -> Nat] /\ mouse_buf'[mouse_cycle + 1] = wire[1]
         /\ \A k \in 1..mouse_cycle : mouse_buf'[k] = mouse_buf[k]
         /\ mouse_cycle' = (IF mouse_cycle = 2 THEN 0 ELSE mouse_cycle + 1)
<1>1. /\ wire # <<>> /\ wire' = Tail(wire) /\ mouse_cycle' = (mouse_cycle + 1) % 3
      /\ mouse_buf' = [mouse_buf EXCEPT ![mouse_cycle + 1] = Head(wire)]
  BY DEF mouse_irq, Cycle
<1>2. wire \in Seq(Nat) /\ mouse_cycle \in 0..2 /\ mouse_buf \in [1..3 -> Nat]
  BY DEF OnScreen
<1>3. Len(wire) \in Nat \ {0} /\ Head(wire) = wire[1] /\ wire[1] \in Nat
  BY <1>1, <1>2
<1>4. wire' \in Seq(Nat) /\ Len(wire') = Len(wire) - 1 /\ \A k \in 1..Len(wire') : wire'[k] = wire[k + 1]
  BY <1>1, <1>2, <1>3
<1>5. mouse_cycle' = (IF mouse_cycle = 2 THEN 0 ELSE mouse_cycle + 1)
  <2>1. mouse_cycle = 0 \/ mouse_cycle = 1 \/ mouse_cycle = 2
    BY <1>2
  <2> QED BY <1>1, <2>1
<1>6. /\ mouse_buf' \in [1..3 -> Nat] /\ mouse_buf'[mouse_cycle + 1] = wire[1]
      /\ \A k \in 1..mouse_cycle : mouse_buf'[k] = mouse_buf[k]
  BY <1>1, <1>2, <1>3
<1> QED BY <1>3, <1>4, <1>5, <1>6

LEMMA StepOnScreen == OnScreen /\ [MouseNext]_mouseVars => OnScreen'
<1> SUFFICES ASSUME OnScreen, [MouseNext]_mouseVars PROVE OnScreen'
  OBVIOUS
<1>1. ASSUME NEW r \in Reports, Report(r) PROVE OnScreen'
  <2>1. wire' \in Seq(Nat) /\ UNCHANGED <<mouse, mouse_cycle, mouse_buf, cursor>>
    BY <1>1, MouseAssumption DEF Report
  <2> QED BY <2>1 DEF OnScreen
<1>2. CASE mouse_irq
  <2>1. wire' \in Seq(Nat) /\ mouse_buf' \in [1..3 -> Nat] /\ mouse_cycle' \in 0..2
    <3>1. /\ wire' \in Seq(Nat) /\ mouse_buf' \in [1..3 -> Nat]
          /\ mouse_cycle' = (IF mouse_cycle = 2 THEN 0 ELSE mouse_cycle + 1)
      BY <1>2, IrqFacts
    <3>2. mouse_cycle \in 0..2
      BY DEF OnScreen
    <3> QED BY <3>1, <3>2
  <2>2. Moved(mouse_buf') \in MouseType
    BY <2>1, MovedFacts
  <2>3. mouse' \in MouseType
    BY <1>2, <2>2 DEF mouse_irq, OnScreen
  <2>4. mouse'.x \in 0..(VGA_WIDTH - 1) /\ mouse'.y \in 0..(VGA_HEIGHT - 1)
    BY <2>3 DEF MouseType
  <2>5. cursor' \in (0..(VGA_WIDTH - 1)) \X (0..(VGA_HEIGHT - 1))
    BY <1>2, <2>4 DEF mouse_irq, OnScreen
  <2> QED BY <2>1, <2>3, <2>5 DEF OnScreen
<1>3. ASSUME NEW x \in 0..(VGA_WIDTH - 1), NEW y \in 0..(VGA_HEIGHT - 1), mouse_set_cursor(x, y)
      PROVE  OnScreen'
  <2>1. /\ cursor' = <<x, y>> /\ mouse' = [mouse EXCEPT !.x = x, !.y = y]
        /\ UNCHANGED <<mouse_cycle, mouse_buf, wire>>
    BY <1>3 DEF mouse_set_cursor
  <2>2. mouse' \in MouseType
    BY <2>1 DEF OnScreen, MouseType
  <2> QED BY <2>1, <2>2 DEF OnScreen
<1>4. ASSUME NEW show \in BOOLEAN, mouse_show(show) PROVE OnScreen'
  BY <1>4 DEF mouse_show, OnScreen
<1>5. CASE UNCHANGED mouseVars
  BY <1>5 DEF mouseVars, OnScreen
<1> QED BY <1>1, <1>2, <1>3, <1>4, <1>5 DEF MouseNext

LEMMA StepInStep == OnScreen /\ InStep /\ [MouseNext]_mouseVars => InStep'
<1> SUFFICES ASSUME OnScreen, InStep, [MouseNext]_mouseVars PROVE InStep'
  OBVIOUS
<1>1. ASSUME NEW r \in Reports, Report(r) PROVE InStep'
  <2>1. /\ Len(wire) = 0 /\ wire' = r /\ reported' = r
        /\ mouse_cycle' = mouse_cycle /\ mouse_buf' = mouse_buf
    BY <1>1 DEF Report
  <2>2. r \in Seq(Nat) /\ Len(r) = 3
    BY MouseAssumption
  <2>3. mouse_cycle' = 0
    BY <2>1 DEF InStep
  <2> QED BY <2>1, <2>2, <2>3 DEF InStep
<1>2. CASE mouse_irq
  <2>1. /\ Len(wire) \in Nat \ {0} /\ wire[1] \in Nat
        /\ wire' \in Seq(Nat) /\ Len(wire') = Len(wire) - 1
        /\ \A k \in 1..Len(wire') : wire'[k] = wire[k + 1]
        /\ mouse_buf' \in [1..3 -> Nat] /\ mouse_buf'[mouse_cycle + 1] = wire[1]
        /\ \A k \in 1..mouse_cycle : mouse_buf'[k] = mouse_buf[k]
        /\ mouse_cycle' = (IF mouse_cycle = 2 THEN 0 ELSE mouse_cycle + 1)
    BY <1>2, IrqFacts
  <2>2. /\ reported' = reported /\ reported \in Seq(Nat) /\ Len(reported) = 3
        /\ mouse_cycle' = 0 => mouse' = Moved(mouse_buf')
    BY <1>2 DEF mouse_irq, InStep
  <2> DEFINE l == Len(wire)
  <2>3. l \in 1..3 /\ mouse_cycle = 3 - l /\ wire[1] = reported[4 - l]
    <3>1. l \in 1..3 /\ mouse_cycle = 3 - l
      <4>1. l \in Nat \ {0} /\ l \in 0..3 /\ mouse_cycle = (IF l = 0 THEN 0 ELSE 3 - l)
        BY <2>1 DEF InStep
      <4> HIDE DEF l
      <4> QED BY ONLY <4>1
    <3>2. wire[1] = reported[1 + 3 - l]
      BY <3>1 DEF InStep
    <3> QED BY <3>1, <3>2
  <2>4. \A k \in 1..l : wire[k] = reported[k + 3 - l]
    BY DEF InStep
  <2>5. \A k \in 1..(3 - l) : mouse_buf[k] = reported[k]
    BY <2>3 DEF InStep
  <2> HIDE DEF l
  <2>6. Len(wire') = l - 1
    BY <2>1 DEF l
  <2>7. ASSUME NEW k \in 1..(l - 1) PROVE wire'[k] = reported[k + 3 - (l - 1)]
    <3>1. k + 1 \in 1..l /\ (k + 1) + 3 - l = k + 3 - (l - 1) /\ k \in 1..Len(wire')
      BY <2>3, <2>6
    <3>2. wire'[k] = wire[k + 1] /\ wire[k + 1] = reported[(k + 1) + 3 - l]
      BY <2>1, <2>4, <3>1
    <3> QED BY <3>1, <3>2
  <2>8. ASSUME NEW k \in 1..(4 - l) PROVE mouse_buf'[k] = reported[k]
    <3>1. CASE k = 4 - l
      <4>1. k = mouse_cycle + 1
        BY <2>3, <3>1
      <4> QED BY <4>1, <2>1, <2>3, <3>1
    <3>2. CASE k # 4 - l
      <4>1. k \in 1..(3 - l) /\ k \in 1..mouse_cycle
        BY <2>3, <3>2
      <4> QED BY <4>1, <2>1, <2>5
    <3> QED BY <3>1, <3>2
  <2>9. mouse_cycle' = (IF l = 1 THEN 0 ELSE 4 - l)
    BY <2>1, <2>3
  <2>10. l = 1 => ReportShown(mouse', reported)
    <3> SUFFICES ASSUME l = 1 PROVE ReportShown(mouse', reported)
      OBVIOUS
    <3>1. mouse_buf'[1] = reported[1] /\ mouse_buf'[2] = reported[2] /\ mouse_buf'[3] = reported[3]
      BY <2>8
    <3>2. mouse' = Moved(mouse_buf')
      BY <2>2, <2>9
    <3>3. ReportShown(mouse', mouse_buf')
      BY <2>1, <3>2, MovedFacts
    <3> QED BY <3>1, <3>3 DEF ReportShown
  <2>11. Len(wire') = 0 => ReportShown(mouse', reported)
    BY <2>3, <2>6, <2>10
  <2>12. \A k \in 1..Len(wire') : wire'[k] = reported[k + 3 - Len(wire')]
    BY <2>6, <2>7
  <2>13. \A k \in 1..mouse_cycle' : mouse_buf'[k] = reported[k]
    BY <2>3, <2>8, <2>9
  <2>14. Len(wire') \in 0..3 /\ mouse_cycle' = (IF Len(wire') = 0 THEN 0 ELSE 3 - Len(wire'))
    BY <2>3, <2>6, <2>9
  <2> QED BY <2>2, <2>11, <2>12, <2>13, <2>14 DEF InStep
<1>3. ASSUME NEW x \in 0..(VGA_WIDTH - 1), NEW y \in 0..(VGA_HEIGHT - 1), mouse_set_cursor(x, y)
      PROVE  InStep'
  <2>1. mouse' = [mouse EXCEPT !.x = x, !.y = y] /\ UNCHANGED <<mouse_cycle, mouse_buf, wire, reported>>
    BY <1>3 DEF mouse_set_cursor
  <2>2. mouse'.buttons = mouse.buttons /\ mouse'.dx = mouse.dx /\ mouse'.dy = mouse.dy
    BY <2>1 DEF OnScreen, MouseType
  <2> QED BY <2>1, <2>2 DEF InStep, ReportShown
<1>4. ASSUME NEW show \in BOOLEAN, mouse_show(show) PROVE InStep'
  BY <1>4 DEF mouse_show, InStep
<1>5. CASE UNCHANGED mouseVars
  BY <1>5 DEF mouseVars, InStep
<1> QED BY <1>1, <1>2, <1>3, <1>4, <1>5 DEF MouseNext

LEMMA InitOnScreen == mouse_init => OnScreen
<1> SUFFICES ASSUME mouse_init PROVE OnScreen
  OBVIOUS
<1>1. \A n \in Nat \ {0} : n \div 2 \in 0..(n - 1)
  OBVIOUS
<1>2. VGA_WIDTH \div 2 \in 0..(VGA_WIDTH - 1) /\ VGA_HEIGHT \div 2 \in 0..(VGA_HEIGHT - 1)
  BY <1>1, MouseFacts
<1>3. mouse \in MouseType /\ cursor \in (0..(VGA_WIDTH - 1)) \X (0..(VGA_HEIGHT - 1))
  BY <1>2 DEF mouse_init, MouseType
<1>4. wire \in Seq(Nat)
  <2>1. ResetReply + 2 - 3 \in Nat
    BY MouseAssumption
  <2> QED BY <2>1 DEF mouse_init, Unread
<1>5. mouse_cycle \in 0..2 /\ mouse_buf \in [1..3 -> Nat]
  BY DEF mouse_init
<1> QED BY <1>3, <1>4, <1>5 DEF OnScreen

(***************************************************************************)
(* Whatever motion is reported, and also if the driver is out of step with *)
(* the device, the mouse and its cursor stay on the screen.                *)
(***************************************************************************)
THEOREM PointerStaysOnScreen == MouseSpec => []PointerOnScreen
<1>1. OnScreen => PointerOnScreen
  BY DEF OnScreen, MouseType, PointerOnScreen
<1> QED BY <1>1, InitOnScreen, StepOnScreen, PTL DEF MouseSpec

(***************************************************************************)
(* With a device that answers a reset with one byte, as mouse_init         *)
(* expects, a report is never a mixture of two, although mouse_irq does    *)
(* not look for the start of one.                                          *)
(***************************************************************************)
THEOREM ReportsStayWhole ==
  ASSUME ResetReply = 1
  PROVE  MouseSpec => []ReportsWhole
<1>1. mouse_init => InStep
  <2> SUFFICES ASSUME mouse_init PROVE InStep
    OBVIOUS
  <2>1. Len(wire) = 0
    BY DEF mouse_init, Unread
  <2>2. reported = <<0, 0, 0>> /\ mouse_cycle = 0
    BY DEF mouse_init
  <2>3. reported \in Seq(Nat) /\ Len(reported) = 3 /\ reported[1] = 0 /\ reported[2] = 0 /\ reported[3] = 0
    BY <2>2
  <2>4. mouse.buttons = 0 /\ mouse.dx = 0 /\ mouse.dy = 0 /\ 0 % 8 = 0
    BY DEF mouse_init
  <2>5. ReportShown(mouse, reported)
    BY <2>3, <2>4, SignedZero DEF ReportShown
  <2> QED BY <2>1, <2>2, <2>3, <2>5 DEF InStep
<1>2. OnScreen /\ InStep => ReportsWhole
  <2> SUFFICES ASSUME InStep, wire = <<>>
               PROVE  mouse_cycle = 0 /\ ReportShown(mouse, reported)
    BY DEF ReportsWhole, ReportShown
  <2>1. Len(wire) = 0
    OBVIOUS
  <2> QED BY <2>1 DEF InStep
<1> QED BY <1>1, <1>2, InitOnScreen, StepOnScreen, StepInStep, PTL DEF MouseSpec

(***************************************************************************)
(* With these two hypotheses the drivers that assemble what they hand on   *)
(* byte by byte or sector by sector never mix two reports or two sectors,  *)
(* on a screen of any size and with disks of any size, whatever fails.     *)
(***************************************************************************)
THEOREM DriversAlwaysSound ==
  ASSUME ResetReply = 1, Lba48 = {}
  PROVE  MouseSpec /\ AtaSpec => []DriversSound
<1>1. MouseSpec => []PointerOnScreen
  BY PointerStaysOnScreen
<1>2. MouseSpec => []ReportsWhole
  BY ReportsStayWhole
<1>3. AtaSpec => []ReadsExact
  BY ReadsAlwaysExact
<1>4. PointerOnScreen /\ ReportsWhole /\ ReadsExact => DriversSound
  BY DEF DriversSound
<1> QED BY <1>1, <1>2, <1>3, <1>4, PTL

-----------------------------------------------------------------------------
(***************************************************************************)
(* The allocation table, src/src/fs/fat16.c                                *)
(***************************************************************************)
Sectors == 0..(SectorsPerCluster - 1)

FopType == [op : {"none", "read", "find", "list"}, cluster : Clusters \cup {EndOfChain},
            sector : Sectors, todo : Nat, out : Nat, seen : Seq(Clusters \X Sectors),
            name : FatNames \cup {"none"}, heap : {"free", "held"},
            stage : {"done", "reading"}, ret : {"none", "ok", "failed"}]

\* Where the operation is follows in the chain from the sector it read last.
\* Without a cached table every cluster is the last one.
OnTheWay(f) ==
  LET c == f.seen[Len(f.seen)][1]
      s == f.seen[Len(f.seen)][2]
  IN  f.stage = "reading" /\ f.seen # <<>> =>
        IF s + 1 < SectorsPerCluster
          THEN f.cluster = c /\ f.sector = s + 1
          ELSE f.sector = 0 /\ f.cluster \in {fat[c], EndOfChain}

NotYet(f) ==
  f.stage = "reading" =>
    /\ f.ret = "none" /\ f.op # "none"
    /\ f.op = "find" => \A i \in 1..Len(f.seen) : EntryAt(f.seen[i][1], f.seen[i][2]) # f.name

InOrder(f) ==
  \A i \in 1..(Len(f.seen) - 1) :
    f.seen[i + 1] = IF f.seen[i][2] + 1 < SectorsPerCluster
                      THEN <<f.seen[i][1], f.seen[i][2] + 1>>
                      ELSE <<fat[f.seen[i][1]], 0>>

First(f) ==
  f.op = "find" /\ f.ret = "ok" =>
    \A i \in 1..Len(f.seen) :
       (EntryAt(f.seen[i][1], f.seen[i][2]) = f.name) <=> (i = Len(f.seen))

Buffered(f) ==
  /\ f.stage = "reading" /\ f.sector > 0 /\ f.op # "find" => f.heap = "held"
  /\ f.stage = "done" => f.heap = "free"

\* The invariant of an operation.
Sane(f) == f \in FopType /\ OnTheWay(f) /\ NotYet(f) /\ InOrder(f) /\ First(f) /\ Buffered(f)

FatInv == fat \in [Clusters -> Clusters \cup {EndOfChain}] /\ Sane(fop)

LEMMA SaneIsSound == FatInv => FatSound
<1> SUFFICES ASSUME FatInv PROVE FatSound
  OBVIOUS
<1>1. ChainFollowed
  BY DEF FatInv, Sane, InOrder, ChainFollowed
<1>2. FindsFirst
  BY DEF FatInv, Sane, First, FindsFirst
<1>3. BufferHeld
  BY DEF FatInv, Sane, Buffered, BufferHeld
<1> QED BY <1>1, <1>2, <1>3 DEF FatSound

\* An operation that has ended, in any way but by finding an entry, is sane.
LEMMA EndedSane ==
  ASSUME NEW f \in FopType, InOrder(f), NEW r \in {"ok", "failed"}, f.op = "find" => r = "failed"
  PROVE  Sane(Ended(f, r))
<1> DEFINE g == Ended(f, r)
<1>1. g \in FopType /\ g.stage = "done" /\ g.heap = "free" /\ g.ret = r /\ g.op = f.op /\ g.seen = f.seen
  BY DEF Ended, FopType
<1> HIDE DEF g
<1>2. OnTheWay(g) /\ NotYet(g) /\ Buffered(g)
  BY <1>1 DEF OnTheWay, NotYet, Buffered
<1>3. InOrder(g)
  BY <1>1 DEF InOrder
<1>4. First(g)
  BY <1>1 DEF First
<1>5. Sane(g)
  BY <1>1, <1>2, <1>3, <1>4 DEF Sane
<1> QED BY <1>5 DEF g

LEMMA NothingSane ==
  /\ Sane(Nothing)
  /\ \A op \in {"read", "find", "list"}, c \in Clusters \cup {EndOfChain}, todo \in Nat,
        name \in FatNames \cup {"none"} :
       Sane([Nothing EXCEPT !.op = op, !.cluster = c, !.todo = todo, !.name = name,
                            !.stage = "reading"])
<1>0. 0 \in Sectors
  BY FatAssumption DEF Sectors
<1>1. Nothing \in FopType /\ Nothing.seen = <<>> /\ Nothing.stage = "done" /\ Nothing.op = "none"
      /\ Nothing.heap = "free" /\ Nothing.ret = "none" /\ Nothing.sector = 0
  BY <1>0 DEF Nothing, FopType
<1>2. ASSUME NEW f \in FopType, f.seen = <<>>, f.ret = "none", f.sector = 0, f.heap = "free",
             f.stage = "reading" => f.op # "none"
      PROVE  Sane(f)
  BY <1>2 DEF Sane, OnTheWay, NotYet, InOrder, First, Buffered
<1>3. ASSUME NEW op \in {"read", "find", "list"}, NEW c \in Clusters \cup {EndOfChain}, NEW todo \in Nat,
             NEW name \in FatNames \cup {"none"}
      PROVE  Sane([Nothing EXCEPT !.op = op, !.cluster = c, !.todo = todo, !.name = name,
                                  !.stage = "reading"])
  <2> DEFINE g == [Nothing EXCEPT !.op = op, !.cluster = c, !.todo = todo, !.name = name,
                                  !.stage = "reading"]
  <2>1. g \in FopType /\ g.seen = <<>> /\ g.ret = "none" /\ g.sector = 0 /\ g.heap = "free"
        /\ g.op # "none"
    BY <1>1 DEF FopType
  <2> HIDE DEF g
  <2>2. Sane(g)
    BY <2>1, <1>2
  <2> QED BY <2>2 DEF g
<1>4. Sane(Nothing)
  BY <1>1, <1>2
<1> QED BY <1>3, <1>4

\* One sector more, the one that follows from those before.
LEMMA SeenInOrder ==
  ASSUME FatInv, fop.stage = "reading", fop.cluster # EndOfChain,
         NEW f \in FopType, f.seen = Append(fop.seen, <<fop.cluster, fop.sector>>)
  PROVE  InOrder(f)
<1> DEFINE n == Len(fop.seen)
<1>1. fop.seen \in Seq(Clusters \X Sectors) /\ n \in Nat /\ <<fop.cluster, fop.sector>> \in Clusters \X Sectors
  BY DEF FatInv, Sane, FopType
<1>2. Len(f.seen) = n + 1 /\ f.seen[n + 1] = <<fop.cluster, fop.sector>>
      /\ \A i \in 1..n : f.seen[i] = fop.seen[i]
  BY <1>1
<1>a. Len(f.seen) - 1 = n
  BY <1>1, <1>2
<1> SUFFICES ASSUME NEW i \in 1..n
             PROVE  f.seen[i + 1] = IF f.seen[i][2] + 1 < SectorsPerCluster
                                      THEN <<f.seen[i][1], f.seen[i][2] + 1>>
                                      ELSE <<fat[f.seen[i][1]], 0>>
  BY <1>a, Zenon DEF InOrder
<1>b. i < n \/ i = n
  BY <1>1
<1>3. CASE i < n
  <2>1. i \in 1..(n - 1) /\ i + 1 \in 1..n
    BY <1>1, <1>3
  <2>2. fop.seen[i + 1] = IF fop.seen[i][2] + 1 < SectorsPerCluster
                            THEN <<fop.seen[i][1], fop.seen[i][2] + 1>>
                            ELSE <<fat[fop.seen[i][1]], 0>>
    BY <2>1 DEF FatInv, Sane, InOrder
  <2>3. f.seen[i] = fop.seen[i] /\ f.seen[i + 1] = fop.seen[i + 1]
    BY <2>1, <1>2
  <2> QED BY <2>2, <2>3, Zenon
<1>4. CASE i = n
  <2>1. n \in 1..n /\ fop.seen # <<>>
    BY <1>1, <1>4
  <2>2. f.seen[i] = fop.seen[n] /\ f.seen[i + 1] = <<fop.cluster, fop.sector>>
    BY <2>1, <1>2, <1>4
  <2>3. IF fop.seen[n][2] + 1 < SectorsPerCluster
          THEN fop.cluster = fop.seen[n][1] /\ fop.sector = fop.seen[n][2] + 1
          ELSE fop.sector = 0 /\ fop.cluster \in {fat[fop.seen[n][1]], EndOfChain}
    BY <2>1, Zenon DEF FatInv, Sane, OnTheWay
  <2> QED BY <2>2, <2>3, Zenon
<1> QED BY <1>b, <1>3, <1>4, Zenon

\* sector + 1, or 0 after the last sector of a cluster.
LEMMA NextSector ==
  ASSUME NEW x \in Sectors
  PROVE  /\ (x + 1) % SectorsPerCluster \in Sectors
         /\ x + 1 < SectorsPerCluster => (x + 1) % SectorsPerCluster = x + 1
         /\ ~(x + 1 < SectorsPerCluster) => (x + 1) % SectorsPerCluster = 0
<1> DEFINE S == SectorsPerCluster
           y == (x + 1) % S
<1>1. S \in Nat /\ S > 0 /\ x \in Int /\ 0 <= x /\ x < S
  BY FatAssumption DEF Sectors
<1>2. CASE x + 1 < S
  <2>1. y = x + 1
    BY <1>1, <1>2
  <2> QED BY <2>1, <1>1, <1>2 DEF Sectors
<1>3. CASE x + 1 = S
  <2>1. y = 0
    BY <1>1, <1>3
  <2> QED BY <2>1, <1>1, <1>3 DEF Sectors
<1> QED BY <1>1, <1>2, <1>3

\* The step to the next sector keeps to the chain and to the buffer.
LEMMA AdvancedSane ==
  ASSUME FatInv, AtSector, NEW f \in FopType, InOrder(f),
         f.seen = Append(fop.seen, <<fop.cluster, fop.sector>>),
         f.op = fop.op, f.cluster = fop.cluster, f.sector = fop.sector, f.heap = fop.heap,
         f.stage = fop.stage, f.ret = fop.ret, f.name = fop.name,
         f.op = "find" => EntryAt(fop.cluster, fop.sector) # fop.name
  PROVE  Sane(Advanced(f))
<1> DEFINE n == Len(fop.seen)
           sec == (f.sector + 1) % SectorsPerCluster
           cl == IF f.sector + 1 < SectorsPerCluster THEN f.cluster ELSE fat16_get_next_cluster(f.cluster)
           hp == IF Kept(f) THEN f.heap ELSE "free"
           g == Advanced(f)
<1>1. fop.seen \in Seq(Clusters \X Sectors) /\ n \in Nat /\ fop.sector \in Sectors
      /\ fop.cluster \in Clusters /\ <<fop.cluster, fop.sector>> \in Clusters \X Sectors
  BY DEF FatInv, Sane, FopType, AtSector, Finished
<1>2. Len(f.seen) = n + 1 /\ f.seen[n + 1] = <<fop.cluster, fop.sector>>
      /\ (\A i \in 1..n : f.seen[i] = fop.seen[i]) /\ f.seen # <<>>
  BY <1>1
<1>3. /\ sec \in Sectors
      /\ f.sector + 1 < SectorsPerCluster => sec = f.sector + 1
      /\ ~(f.sector + 1 < SectorsPerCluster) => sec = 0
  BY <1>1, NextSector
<1>4. cl \in Clusters \cup {EndOfChain}
  BY <1>1 DEF FatInv, fat16_get_next_cluster
<1>5. hp \in {"free", "held"}
  BY DEF FopType
<1>6. g = [f EXCEPT !.heap = hp, !.sector = sec, !.cluster = cl]
  BY DEF Advanced
<1> HIDE DEF sec, cl, hp, g
<1>7. g \in FopType /\ g.heap = hp /\ g.sector = sec /\ g.cluster = cl /\ g.op = f.op /\ g.seen = f.seen
      /\ g.stage = f.stage /\ g.ret = f.ret /\ g.name = f.name
  BY <1>3, <1>4, <1>5, <1>6 DEF FopType
<1>8. fop.stage = "reading" /\ fop.ret = "none" /\ fop.op # "none"
  BY DEF AtSector, FatInv, Sane, NotYet
<1>9. OnTheWay(g)
  <2>1. g.seen[Len(g.seen)][1] = fop.cluster /\ g.seen[Len(g.seen)][2] = fop.sector
    BY <1>2, <1>7
  <2>2. ~(f.sector + 1 < SectorsPerCluster) => cl \in {fat[fop.cluster], EndOfChain}
    BY DEF cl, fat16_get_next_cluster
  <2>3. f.sector + 1 < SectorsPerCluster => cl = fop.cluster
    BY DEF cl
  <2> QED BY <2>1, <2>2, <2>3, <1>3, <1>7, Zenon DEF OnTheWay
<1>10. NotYet(g)
  <2> SUFFICES ASSUME g.op = "find", NEW i \in 1..(n + 1)
               PROVE  EntryAt(g.seen[i][1], g.seen[i][2]) # g.name
    BY <1>2, <1>7, <1>8 DEF NotYet
  <2>1. CASE i = n + 1
    <3>1. g.seen[i][1] = fop.cluster /\ g.seen[i][2] = fop.sector
      BY <2>1, <1>2, <1>7
    <3> QED BY <3>1, <1>7, Zenon
  <2>2. CASE i # n + 1
    <3>1. i \in 1..n
      BY <2>2, <1>1
    <3>2. EntryAt(fop.seen[i][1], fop.seen[i][2]) # fop.name
      BY <3>1, <1>7, <1>8 DEF FatInv, Sane, NotYet
    <3> QED BY <3>1, <3>2, <1>2, <1>7, Zenon
  <2> QED BY <2>1, <2>2
<1>11. InOrder(g)
  BY <1>7 DEF InOrder
<1>12. First(g)
  BY <1>7, <1>8 DEF First
<1>13. Buffered(g)
  <2> SUFFICES ASSUME sec > 0, f.op # "find" PROVE hp = "held"
    BY <1>7, <1>8 DEF Buffered
  <2>1. fop.sector + 1 < SectorsPerCluster
    BY <1>3
  <2>2. Kept(f)
    BY <2>1, <1>8 DEF Kept, FopType, FatInv, Sane, NotYet
  <2>3. fop.heap = "held"
    BY <1>1, <1>8, FatAssumption DEF AtSector, FatInv, Sane, Buffered, Sectors
  <2> QED BY <2>2, <2>3 DEF hp
<1>14. Sane(g)
  BY <1>7, <1>9, <1>10, <1>11, <1>12, <1>13 DEF Sane
<1> QED BY <1>14 DEF g

\* An entry that is found is the first of its name.
LEMMA FoundSane ==
  ASSUME FatInv, AtSector, NEW f \in FopType, InOrder(f),
         f.seen = Append(fop.seen, <<fop.cluster, fop.sector>>),
         f.op = "find", fop.op = "find", f.name = fop.name,
         EntryAt(fop.cluster, fop.sector) = fop.name
  PROVE  Sane(Ended(f, "ok"))
<1> DEFINE n == Len(fop.seen)
           g == Ended(f, "ok")
<1>1. fop.seen \in Seq(Clusters \X Sectors) /\ n \in Nat
      /\ <<fop.cluster, fop.sector>> \in Clusters \X Sectors
  BY DEF FatInv, Sane, FopType, AtSector, Finished
<1>2. Len(f.seen) = n + 1 /\ f.seen[n + 1] = <<fop.cluster, fop.sector>>
      /\ (\A i \in 1..n : f.seen[i] = fop.seen[i])
  BY <1>1
<1>3. g \in FopType /\ g.stage = "done" /\ g.heap = "free" /\ g.ret = "ok" /\ g.op = f.op
      /\ g.seen = f.seen /\ g.name = f.name
  BY DEF Ended, FopType
<1> HIDE DEF g
<1>4. OnTheWay(g) /\ NotYet(g) /\ Buffered(g)
  BY <1>3 DEF OnTheWay, NotYet, Buffered
<1>5. InOrder(g)
  BY <1>3 DEF InOrder
<1>6. First(g)
  <2> SUFFICES ASSUME NEW i \in 1..(n + 1)
               PROVE  (EntryAt(g.seen[i][1], g.seen[i][2]) = g.name) <=> (i = n + 1)
    BY <1>2, <1>3 DEF First
  <2>1. CASE i = n + 1
    <3>1. g.seen[i][1] = fop.cluster /\ g.seen[i][2] = fop.sector
      BY <2>1, <1>2, <1>3
    <3> QED BY <3>1, <2>1, <1>3, Zenon
  <2>2. CASE i # n + 1
    <3>1. i \in 1..n
      BY <2>2, <1>1
    <3>2. EntryAt(fop.seen[i][1], fop.seen[i][2]) # fop.name
      BY <3>1 DEF FatInv, Sane, NotYet, AtSector
    <3> QED BY <3>1, <3>2, <2>2, <1>2, <1>3, Zenon
  <2> QED BY <2>1, <2>2
<1>7. Sane(g)
  BY <1>3, <1>4, <1>5, <1>6 DEF Sane
<1> QED BY <1>7 DEF g

LEMMA FatStepSane ==
  FatInv /\ [FatNext]_fatVars => FatInv'
<1> SUFFICES ASSUME FatInv, [FatNext]_fatVars PROVE FatInv'
  OBVIOUS
<1>0. fop \in FopType /\ InOrder(fop)
  BY DEF FatInv, Sane
<1>1. SUFFICES fat' = fat /\ Sane(fop')
  BY DEF FatInv, Sane, OnTheWay, NotYet, InOrder, First, Buffered
<1>2. CASE UNCHANGED fatVars
  BY <1>2 DEF fatVars, FatInv
<1>3. ASSUME NEW c \in Clusters \cup {EndOfChain}, NEW max \in 0..3, fat16_read_cluster_chain(c, max)
      PROVE  fat' = fat /\ Sane(fop')
  <2>1. max \in Nat
    OBVIOUS
  <2> QED BY <1>3, <2>1, NothingSane DEF fat16_read_cluster_chain, Start
<1>4. ASSUME NEW c \in Clusters \cup {EndOfChain}, NEW name \in FatNames, fat16_find_entry(c, name)
      PROVE  fat' = fat /\ Sane(fop')
  BY <1>4, NothingSane DEF fat16_find_entry, Start
<1>5. ASSUME NEW c \in Clusters \cup {EndOfChain}, fat16_list_dir(c)
      PROVE  fat' = fat /\ Sane(fop')
  BY <1>5, NothingSane DEF fat16_list_dir, Start
<1>6. ASSUME NEW memory \in BOOLEAN, fat16_TakeBuffer(memory)
      PROVE  fat' = fat /\ Sane(fop')
  <2>1. CASE memory
    <3> DEFINE g == [fop EXCEPT !.heap = "held"]
    <3>1. g \in FopType /\ g.heap = "held" /\ g.op = fop.op /\ g.seen = fop.seen /\ g.stage = "reading"
          /\ g.ret = fop.ret /\ g.name = fop.name /\ g.sector = fop.sector /\ g.cluster = fop.cluster
      BY <1>0, <1>6 DEF FopType, fat16_TakeBuffer
    <3>2. fop' = g /\ fat' = fat /\ fop.stage = "reading"
      BY <1>6, <2>1 DEF fat16_TakeBuffer
    <3> HIDE DEF g
    <3>3. OnTheWay(g) /\ NotYet(g)
      BY <3>1, <3>2 DEF FatInv, Sane, OnTheWay, NotYet
    <3>4. InOrder(g) /\ First(g) /\ Buffered(g)
      BY <3>1, <3>2 DEF FatInv, Sane, InOrder, First, Buffered
    <3> QED BY <3>1, <3>2, <3>3, <3>4 DEF Sane
  <2>2. CASE ~memory
    BY <2>2, <1>0, <1>6, EndedSane DEF fat16_TakeBuffer
  <2> QED BY <2>1, <2>2
<1>7. ASSUME fat16_Finish PROVE fat' = fat /\ Sane(fop')
  BY <1>7, <1>0, EndedSane DEF fat16_Finish
<1>8. ASSUME fat16_read_sector_Failed PROVE fat' = fat /\ Sane(fop')
  BY <1>8, <1>0, EndedSane DEF fat16_read_sector_Failed
<1>9. ASSUME fat16_read_sector PROVE fat' = fat /\ Sane(fop')
  <2> DEFINE td == IF fop.todo > 0 THEN fop.todo - 1 ELSE 0
             ou == IF fop.op = "list" /\ Entry \in FatNames THEN fop.out + 1 ELSE fop.out
             f == [fop EXCEPT !.seen = Append(fop.seen, <<fop.cluster, fop.sector>>), !.todo = td, !.out = ou]
  <2>1. AtSector /\ fat' = fat
    BY <1>9 DEF fat16_read_sector
  <2>2. fop' = IF f.op # "read" /\ Entry = "end" THEN Ended(f, IF f.op = "find" THEN "failed" ELSE "ok")
                 ELSE IF f.op = "find" /\ Hit THEN Ended(f, "ok")
                 ELSE Advanced(f)
    BY <1>9 DEF fat16_read_sector
  <2>3. td \in Nat /\ ou \in Nat
    BY <1>0 DEF FopType
  <2>4. Append(fop.seen, <<fop.cluster, fop.sector>>) \in Seq(Clusters \X Sectors)
    BY <1>0, <2>1 DEF FopType, AtSector, Finished
  <2> HIDE DEF td, ou
  <2>5. f \in FopType /\ f.seen = Append(fop.seen, <<fop.cluster, fop.sector>>)
        /\ f.op = fop.op /\ f.cluster = fop.cluster /\ f.sector = fop.sector /\ f.heap = fop.heap
        /\ f.stage = fop.stage /\ f.ret = fop.ret /\ f.name = fop.name
    BY <1>0, <2>3, <2>4 DEF FopType
  <2> HIDE DEF f
  <2>6. InOrder(f)
    BY <2>1, <2>5, SeenInOrder DEF AtSector, Finished
  <2>7. CASE f.op # "read" /\ Entry = "end"
    <3>1. fop' = Ended(f, IF f.op = "find" THEN "failed" ELSE "ok")
      BY <2>2, <2>7, Zenon
    <3> QED BY <3>1, <2>1, <2>5, <2>6, EndedSane
  <2>8. CASE ~(f.op # "read" /\ Entry = "end") /\ f.op = "find" /\ Hit
    <3>1. fop' = Ended(f, "ok")
      BY <2>2, <2>8, Zenon
    <3>2. EntryAt(fop.cluster, fop.sector) = fop.name
      BY <2>8, Zenon DEF Hit, Entry
    <3>3. f.op = "find" /\ fop.op = "find"
      BY <2>8, <2>5, Zenon
    <3> QED BY <3>1, <3>2, <3>3, <2>1, <2>5, <2>6, FoundSane
  <2>9. CASE ~(f.op # "read" /\ Entry = "end") /\ ~(f.op = "find" /\ Hit)
    <3>1. fop' = Advanced(f)
      BY <2>2, <2>9, Zenon
    <3>2. f.op = "find" => EntryAt(fop.cluster, fop.sector) # fop.name
      BY <2>9, Zenon DEF Hit, Entry
    <3>3. Sane(Advanced(f))
      BY <3>2, <2>1, <2>5, <2>6, AdvancedSane
    <3> QED BY <3>1, <3>3, <2>1
  <2> QED BY <2>7, <2>8, <2>9, Zenon
<1> QED BY <1>2, <1>3, <1>4, <1>5, <1>6, <1>7, <1>8, <1>9 DEF FatNext

(***************************************************************************)
(* On a table of any form and size, with loops, and with sectors that      *)
(* cannot be read or no memory at any point, the operations of fat16.c     *)
(* read the sectors of the chain in order, a lookup returns the first      *)
(* entry of the name, and reads and listings hold their buffer while they  *)
(* use it.                                                                 *)
(***************************************************************************)
THEOREM FatAlwaysSound == FatSpec => []FatSound
<1>1. fat16_init => FatInv
  BY NothingSane DEF fat16_init, FatInv
<1> QED BY <1>1, FatStepSane, SaneIsSound, PTL DEF FatSpec

-----------------------------------------------------------------------------
(***************************************************************************)
(* The terminal, src/src/apps/terminal.c                                   *)
(***************************************************************************)

TermText ==
  TermChars \cup {Newline, "$", "^", "C"} \cup ToSet(Welcome) \cup ToSet(Hint)
  \cup UNION {ToSet(Output(cmd)) : cmd \in TermInputs}

LEMMA TermTextFacts ==
  /\ TermChars \subseteq TermText /\ Welcome \in Seq(TermText) /\ Hint \in Seq(TermText)
  /\ \A cmd \in TermInputs : Output(cmd) \in Seq(TermText)
<1>1. TermChars \subseteq TermText /\ ToSet(Welcome) \subseteq TermText /\ ToSet(Hint) \subseteq TermText
      /\ \A cmd \in TermInputs : ToSet(Output(cmd)) \subseteq TermText
  BY Zenon DEF TermText
<1> HIDE DEF TermText
<1> QED  BY <1>1, SeqMonotonic, TermAssumption, Zenon

Line      == {l \in Seq(TermText) : Len(l) < TERM_LINE_LEN}
TermState == [lines : [1..TERM_MAX_LINES -> Line], count : 0..TERM_MAX_LINES]

\* What t shows above its last line, u shows too.
Keeps(t, u) == t.count <= u.count /\ \A i \in 1..(t.count - 1) : u.lines[i] = t.lines[i]

LEMMA TermSizes ==
  TERM_MAX_LINES \in Nat \ {0} /\ TERM_LINE_LEN \in Nat \ {0} /\ TERM_INPUT_LEN \in Nat \ {0}
BY TermAssumption

LEMMA PutFacts ==
  ASSUME NEW t \in TermState, NEW c \in TermText
  PROVE  Put(t, c) \in TermState /\ Keeps(t, Put(t, c))
<1> USE TermSizes
<1>0. <<>> \in Line
  BY DEF Line
<1>1. CASE c = Newline
  <2> DEFINE n == Capped(t.count + 1)
             ls == [t.lines EXCEPT ![n] = <<>>]
  <2>1. n \in 1..TERM_MAX_LINES /\ t.count <= n /\ n > t.count - 1
    BY DEF TermState, Capped
  <2>2. Put(t, c) = [lines |-> ls, count |-> n]
    BY <1>1 DEF Put
  <2> HIDE DEF n
  <2>3. ls \in [1..TERM_MAX_LINES -> Line] /\ \A i \in 1..(t.count - 1) : ls[i] = t.lines[i]
    BY <2>1, <1>0 DEF TermState
  <2> QED  BY <2>1, <2>2, <2>3 DEF TermState, Keeps
<1>2. CASE c # Newline
  <2> DEFINE n == IF t.count > 0 THEN t.count ELSE 1
  <2>1. n \in 1..TERM_MAX_LINES /\ n > t.count - 1
    BY DEF TermState
  <2>2. CASE ~(Len(t.lines[n]) < TERM_LINE_LEN - 1)
    <3>1. Put(t, c) = t
      BY <1>2, <2>2 DEF Put
    <3> QED  BY <3>1 DEF Keeps, TermState
  <2>3. CASE Len(t.lines[n]) < TERM_LINE_LEN - 1
    <3>1. Put(t, c) = [t EXCEPT !.lines[n] = Append(t.lines[n], c)]
      BY <1>2, <2>3 DEF Put
    <3> HIDE DEF n
    <3>2. t.lines[n] \in Seq(TermText) /\ Append(t.lines[n], c) \in Line
      BY <2>1, <2>3 DEF TermState, Line
    <3>4. PICK ls, m : t = [lines |-> ls, count |-> m] /\ ls \in [1..TERM_MAX_LINES -> Line] /\ m \in 0..TERM_MAX_LINES
      BY DEF TermState
    <3>5. PICK l : l = Append(t.lines[n], c)
      OBVIOUS
    <3>6. Put(t, c) = [lines |-> [ls EXCEPT ![n] = l], count |-> m]
      BY <3>1, <3>4, <3>5
    <3>3. /\ Put(t, c).lines \in [1..TERM_MAX_LINES -> Line] /\ Put(t, c).count = t.count
          /\ \A i \in 1..(t.count - 1) : Put(t, c).lines[i] = t.lines[i]
      <4>1. t.lines = ls /\ t.count = m /\ Put(t, c).lines = [ls EXCEPT ![n] = l] /\ Put(t, c).count = m
        <5>1. PICK b : b = [ls EXCEPT ![n] = l]
          OBVIOUS
        <5>2. Put(t, c) = [lines |-> b, count |-> m]
          BY <3>6, <5>1, Zenon
        <5>3. Put(t, c).lines = b /\ Put(t, c).count = m
          BY <5>2
        <5> QED  BY <3>4, <5>1, <5>3
      <4>2. l \in Line
        BY <3>2, <3>5
      <4> QED  BY <4>1, <4>2, <3>4, <2>1
    <3> QED  BY <3>3, <3>4, <3>6 DEF TermState, Keeps
  <2> QED  BY <2>2, <2>3
<1> QED  BY <1>1, <1>2

LEMMA KeepsTransitive ==
  ASSUME NEW t \in TermState, NEW u \in TermState, NEW v \in TermState, Keeps(t, u), Keeps(u, v)
  PROVE  Keeps(t, v)
BY DEF TermState, Keeps

\* The loop of term_print runs as it is written.
LEMMA TurnsRun ==
  ASSUME NEW t \in TermState, NEW str \in Seq(TermText)
  PROVE  /\ Turns(t, str) \in [0..Len(str) -> TermState] /\ Turns(t, str)[0] = t
         /\ \A k \in 1..Len(str) : Turns(t, str)[k] = Put(Turns(t, str)[k - 1], str[k])
<1> DEFINE n == Len(str)
           f == Turns(t, str)
           step == [k \in 1..n |-> [x \in TermState |-> Put(x, str[k])]]
<1>1. step \in [1..n -> [TermState -> TermState]] /\ n \in Nat
  <2>1. ASSUME NEW k \in 1..n, NEW x \in TermState PROVE Put(x, str[k]) \in TermState
    <3>1. str[k] \in TermText
      OBVIOUS
    <3> QED  BY <3>1, PutFacts
  <2> QED  BY <2>1
<1>2. PICK g \in [0..n -> TermState] : RunOf(g, t, n, step)
  BY <1>1, LoopRuns
<1>3. g = [k \in 0..n |-> IF k = 0 THEN t ELSE Put(g[k - 1], str[k])]
  BY <1>2 DEF RunOf
<1>4. f = CHOOSE h : h = [k \in 0..n |-> IF k = 0 THEN t ELSE Put(h[k - 1], str[k])]
  BY DEF Turns
<1>5. f = [k \in 0..n |-> IF k = 0 THEN t ELSE Put(f[k - 1], str[k])]
  BY <1>3, <1>4, Zenon
<1> HIDE DEF f
<1>6. f[0] = t /\ \A k \in 1..n : f[k] = Put(f[k - 1], str[k])
  BY <1>5
<1> DEFINE S == {k \in 0..n : f[k] \in TermState}
<1>7. ASSUME NEW k \in 1..n, k - 1 \in S PROVE k \in S
  <2>1. f[k - 1] \in TermState /\ str[k] \in TermText
    BY <1>7
  <2>2. f[k] = Put(f[k - 1], str[k])
    BY <1>6
  <2> QED  BY <2>1, <2>2, PutFacts
<1>8. 0..n \subseteq S
  <2>1. 0 \in S
    BY <1>6
  <2>2. n \in Nat /\ 0 \in S /\ \A k \in 1..n : k - 1 \in S => k \in S
    BY <1>7, <2>1
  <2> HIDE DEF S
  <2> QED  BY <2>2, Induction, Zenon
<1>9. f \in [0..n -> TermState]
  BY <1>5, <1>8
<1> QED  BY <1>6, <1>9 DEF f

\* Printing keeps the terminal in its arrays and what is above the last line.
LEMMA PrintFacts ==
  ASSUME NEW t \in TermState, NEW str \in Seq(TermText)
  PROVE  /\ term_print(t, str) \in TermState /\ Keeps(t, term_print(t, str))
         /\ term_print(t, str).count # 0
<1> DEFINE n == Len(str)
<1>1. PICK f : f = Turns(t, str)
  OBVIOUS
<1>2. f \in [0..n -> TermState] /\ f[0] = t /\ \A k \in 1..n : f[k] = Put(f[k - 1], str[k])
  BY <1>1, TurnsRun
<1> DEFINE S == {k \in 0..n : Keeps(t, f[k])}
<1>3. 0 \in S
  BY <1>2 DEF Keeps, TermState
<1>4. ASSUME NEW k \in 1..n, k - 1 \in S PROVE k \in S
  <2>1. f[k - 1] \in TermState /\ f[k] \in TermState /\ str[k] \in TermText
    BY <1>2
  <2>2. Keeps(f[k - 1], f[k])
    BY <2>1, <1>2, PutFacts
  <2> QED  BY <2>1, <2>2, <1>4, KeepsTransitive
<1>5. n \in 0..n /\ n \in S
  <2>1. n \in Nat
    OBVIOUS
  <2> HIDE DEF S
  <2>2. 0..n \subseteq S
    BY <2>1, <1>3, <1>4, Induction
  <2> QED  BY <2>1, <2>2
<1>6. PICK r : r = f[n]
  OBVIOUS
<1>7. r \in TermState /\ Keeps(t, r)
  BY <1>2, <1>5, <1>6
<1>8. term_print(t, str) = [r EXCEPT !.count = IF r.count = 0 THEN 1 ELSE r.count]
  BY <1>1, <1>6 DEF term_print
<1>9. PICK ls, m : r = [lines |-> ls, count |-> m] /\ ls \in [1..TERM_MAX_LINES -> Line] /\ m \in 0..TERM_MAX_LINES
  BY <1>7 DEF TermState
<1>10. PICK j : j = IF m = 0 THEN 1 ELSE m
  OBVIOUS
<1>11. term_print(t, str) = [lines |-> ls, count |-> j]
  BY <1>8, <1>9, <1>10
<1>12. j \in 1..TERM_MAX_LINES /\ m <= j
  BY <1>9, <1>10, TermSizes
<1> QED  BY <1>7, <1>9, <1>11, <1>12 DEF TermState, Keeps

TermInv ==
  /\ Now \in TermState
  /\ term_input \in TermInputs

LEMMA InputFacts ==
  ASSUME NEW s
  PROVE  s \in TermInputs <=> s \in Seq(TermChars) /\ Len(s) < TERM_INPUT_LEN
BY TermSizes DEF TermInputs

LEMMA WelcomeFits == Len(Welcome) < TERM_LINE_LEN
BY TermAssumption

LEMMA WelcomeFacts ==
  ASSUME NEW ls \in [1..TERM_MAX_LINES -> Line]
  PROVE  term_print([lines |-> [ls EXCEPT ![1] = Welcome], count |-> 1], Hint) \in TermState
<1>1. [lines |-> [ls EXCEPT ![1] = Welcome], count |-> 1] \in TermState
  BY WelcomeFits, TermSizes, TermTextFacts DEF TermState, Line
<1> QED  BY <1>1, PrintFacts, TermTextFacts

LEMMA EmptyInput == <<>> \in TermInputs
<1>1. PICK e : e = <<>>
  OBVIOUS
<1>2. e \in Seq(TermChars) /\ Len(e) = 0
  BY <1>1
<1>3. Len(e) < TERM_INPUT_LEN
  BY <1>2, TermSizes
<1> QED  BY <1>1, <1>2, <1>3, InputFacts, Zenon

LEMMA OneChar == ASSUME NEW S, NEW a \in S PROVE <<a>> \in Seq(S)
OBVIOUS

LEMMA ThreeChars == ASSUME NEW S, NEW a \in S, NEW b \in S, NEW c \in S PROVE <<a, b, c>> \in Seq(S)
OBVIOUS

LEMMA Texts == <<"$">> \in Seq(TermText) /\ <<Newline>> \in Seq(TermText) /\ <<"^", "C", Newline>> \in Seq(TermText)
<1>1. "$" \in TermText /\ Newline \in TermText /\ "^" \in TermText /\ "C" \in TermText
  BY Zenon DEF TermText
<1> QED  BY <1>1, OneChar, ThreeChars, Zenon

\* t becomes the terminal's state.
LEMMA BecomesFacts ==
  ASSUME NEW t \in TermState, Becomes(t)
  PROVE  Now' = t
BY DEF Becomes, Now, TermState

LEMMA TermStarts == TermInit => TermInv
<1> SUFFICES ASSUME TermInit PROVE TermInv
  OBVIOUS
<1>1. Blank \in [1..TERM_MAX_LINES -> Line]
  BY TermSizes DEF Blank, Line
<1>2. PICK t : t = term_print([lines |-> [Blank EXCEPT ![1] = Welcome], count |-> 1], Hint)
  OBVIOUS
<1>3. t \in TermState
  BY <1>1, <1>2, WelcomeFacts
<1>4. Now = t
  BY <1>2, <1>3 DEF TermInit, Now, TermState
<1>5. term_input \in TermInputs
  BY EmptyInput DEF TermInit
<1> QED  BY <1>3, <1>4, <1>5 DEF TermInv

\* A command keeps what is above the last line, unless it is clear.
LEMMA ExecuteFacts ==
  ASSUME NEW t \in TermState, NEW cmd \in TermInputs
  PROVE  /\ term_execute(t, cmd) \in TermState
         /\ term_execute(t, cmd).count # 0 => Keeps(t, term_execute(t, cmd))
<1>1. CASE cmd = Clears
  <2>1. term_execute(t, cmd) = [lines |-> Blank, count |-> 0]
    BY <1>1 DEF term_execute
  <2> QED  BY <2>1, TermSizes DEF TermState, Line, Blank
<1>2. CASE cmd # Clears
  <2>1. cmd \in Seq(TermText) /\ Output(cmd) \in Seq(TermText) /\ <<"$">> \in Seq(TermText) /\ <<Newline>> \in Seq(TermText)
    <3>1. cmd \in Seq(TermChars)
      BY InputFacts
    <3>2. cmd \in Seq(TermText)
      BY <3>1, TermTextFacts, SeqMonotonic
    <3> QED  BY <3>2, Texts, TermTextFacts
  <2>2. PICK a : a = term_print(t, <<"$">>)
    OBVIOUS
  <2>3. PICK b : b = term_print(a, cmd)
    OBVIOUS
  <2>4. PICK d : d = term_print(b, <<Newline>>)
    OBVIOUS
  <2>5. PICK e : e = term_print(d, Output(cmd))
    OBVIOUS
  <2>6. a \in TermState /\ Keeps(t, a)
    BY <2>1, <2>2, PrintFacts
  <2>7. b \in TermState /\ Keeps(a, b)
    BY <2>1, <2>3, <2>6, PrintFacts
  <2>8. d \in TermState /\ Keeps(b, d)
    BY <2>1, <2>4, <2>7, PrintFacts
  <2>9. e \in TermState /\ Keeps(d, e)
    BY <2>1, <2>5, <2>8, PrintFacts
  <2>10. Keeps(t, b)
    BY <2>6, <2>7, KeepsTransitive
  <2>11. Keeps(t, d)
    BY <2>7, <2>8, <2>10, KeepsTransitive
  <2>12. Keeps(t, e)
    BY <2>8, <2>9, <2>11, KeepsTransitive
  <2>13. term_execute(t, cmd) = e
    BY <1>2, <2>2, <2>3, <2>4, <2>5 DEF term_execute, Echoed
  <2> QED  BY <2>9, <2>12, <2>13
<1> QED  BY <1>1, <1>2

\* The keys that leave the lines alone, those that do not, and a new window.
LEMMA TermKeeps ==
  ASSUME TermInv, [TermNext]_termVars
  PROVE  TermInv' /\ (term_line_count' # 0 /\ ~app_terminal_create => Keeps(Now, Now'))
<1> USE TermSizes
<1>0. Now \in TermState /\ term_input \in TermInputs /\ Keeps(Now, Now)
  BY DEF TermInv, Keeps, TermState
<1>1. CASE app_terminal_create
  <2>1. PICK t : t = term_print([lines |-> [term_lines EXCEPT ![1] = Welcome], count |-> 1], Hint)
    OBVIOUS
  <2>2. term_lines \in [1..TERM_MAX_LINES -> Line]
    BY <1>0 DEF Now, TermState
  <2>3. t \in TermState /\ Becomes(t) /\ term_input' = term_input
    BY <1>1, <2>1, <2>2, WelcomeFacts DEF app_terminal_create
  <2>4. Now' = t
    BY <2>3, BecomesFacts
  <2> QED  BY <1>0, <1>1, <2>3, <2>4 DEF TermInv
<1>2. CASE term_on_key_Enter
  <2>1. PICK t : t = term_execute(Now, term_input)
    OBVIOUS
  <2>2. t \in TermState /\ Becomes(t) /\ term_input' = <<>> /\ (t.count # 0 => Keeps(Now, t))
    BY <1>0, <1>2, <2>1, ExecuteFacts DEF term_on_key_Enter
  <2>3. Now' = t /\ term_line_count' = t.count
    BY <2>2, BecomesFacts DEF Becomes
  <2>4. <<>> \in TermInputs
    BY EmptyInput
  <2> QED  BY <2>2, <2>3, <2>4 DEF TermInv
<1>3. CASE term_on_key_CtrlC
  <2>1. <<"^", "C", Newline>> \in Seq(TermText)
    BY Texts
  <2>2. PICK t : t = term_print(Now, <<"^", "C", Newline>>)
    OBVIOUS
  <2>3. t \in TermState /\ Becomes(t) /\ term_input' = <<>> /\ Keeps(Now, t)
    BY <1>0, <1>3, <2>1, <2>2, PrintFacts DEF term_on_key_CtrlC
  <2>4. Now' = t
    BY <2>3, BecomesFacts
  <2>5. <<>> \in TermInputs
    BY EmptyInput
  <2> QED  BY <2>3, <2>4, <2>5 DEF TermInv
<1>4. CASE term_on_key_Backspace
  <2>1. term_input # <<>> /\ term_input' = Front(term_input) /\ Now' = Now
    BY <1>4 DEF term_on_key_Backspace, Now
  <2>2. term_input \in Seq(TermChars) /\ Len(term_input) < TERM_INPUT_LEN
    BY <1>0, InputFacts
  <2>3. Front(term_input) \in Seq(TermChars) /\ Len(Front(term_input)) < TERM_INPUT_LEN
    BY <2>1, <2>2 DEF Front
  <2>4. term_input' \in TermInputs
    BY <2>1, <2>3, InputFacts
  <2> QED  BY <1>0, <2>1, <2>4 DEF TermInv
<1>5. CASE \E c \in TermChars : term_on_key_Char(c)
  <2>1. PICK c \in TermChars : term_on_key_Char(c)
    BY <1>5
  <2>2. RoomForKey /\ term_input' = Append(term_input, c) /\ Now' = Now
    BY <2>1 DEF term_on_key_Char, Now
  <2>3. term_input \in Seq(TermChars) /\ Len(term_input) < TERM_INPUT_LEN - 1
    BY <1>0, <2>2, InputFacts DEF RoomForKey
  <2>4. Append(term_input, c) \in Seq(TermChars) /\ Len(Append(term_input, c)) < TERM_INPUT_LEN
    BY <2>1, <2>3
  <2>5. term_input' \in TermInputs
    BY <2>2, <2>4, InputFacts
  <2> QED  BY <1>0, <2>2, <2>5 DEF TermInv
<1>6. CASE UNCHANGED termVars
  <2>1. Now' = Now /\ term_input' = term_input
    BY <1>6 DEF termVars, Now
  <2> QED  BY <1>0, <2>1 DEF TermInv
<1> QED  BY <1>1, <1>2, <1>3, <1>4, <1>5, <1>6 DEF TermNext

(***************************************************************************)
(* term_print and the keys never write outside the lines of the terminal   *)
(* or its input line, for every size of both and every text.               *)
(***************************************************************************)
THEOREM TermInBounds == TermSpec => []TermTypeOK
<1>1. TermInv => TermTypeOK
  <2> SUFFICES ASSUME TermInv PROVE TermTypeOK
    OBVIOUS
  <2>1. term_line_count \in 0..TERM_MAX_LINES /\ term_lines \in [1..TERM_MAX_LINES -> Line]
    BY DEF TermInv, Now, TermState
  <2>2. Len(term_input) < TERM_INPUT_LEN
    BY InputFacts DEF TermInv
  <2> QED  BY <2>1, <2>2 DEF TermTypeOK, Line
<1>2. TermInv /\ [TermNext]_termVars => TermInv'
  BY TermKeeps
<1> QED  BY <1>1, <1>2, TermStarts, PTL DEF TermSpec

(***************************************************************************)
(* Whatever is printed, however long and with however many lines, what     *)
(* stands above the last line of the terminal stays, also when all its     *)
(* lines are used: only clear and a new window take it away.               *)
(***************************************************************************)
THEOREM HistoryAlwaysKept == TermSpec => HistoryKept
<1>1. TermInv /\ [TermNext]_termVars => TermInv'
  BY TermKeeps
<1>2. TermInv /\ [TermNext]_termVars =>
        [term_line_count' # 0 /\ ~app_terminal_create =>
           /\ \A i \in 1..(term_line_count - 1) : term_lines'[i] = term_lines[i]
           /\ term_line_count' >= term_line_count]_termVars
  <2> SUFFICES ASSUME TermInv, [TermNext]_termVars, term_line_count' # 0, ~app_terminal_create
               PROVE  /\ \A i \in 1..(term_line_count - 1) : term_lines'[i] = term_lines[i]
                      /\ term_line_count' >= term_line_count
    OBVIOUS
  <2>1. Keeps(Now, Now') /\ Now \in TermState /\ Now' \in TermState
    BY TermKeeps DEF TermInv
  <2> QED  BY <2>1 DEF Keeps, Now, TermState
<1> QED  BY <1>1, <1>2, TermStarts, PTL DEF TermSpec, HistoryKept

-----------------------------------------------------------------------------
(***************************************************************************)
(* The calculator, src/src/apps/calculator.c                               *)
(***************************************************************************)

CalcText == {"0", "d", ".", "-"} \cup UNION {ToSet(r) : r \in CalcResults}

CalcInv ==
  /\ calc_display \in Seq(CalcText) /\ Readable(calc_display)
  /\ calc_clear_next \in BOOLEAN

LEMMA CalcTexts ==
  /\ {"0", "d", ".", "-"} \subseteq CalcText
  /\ \A r \in CalcResults : r \in Seq(CalcText) /\ Readable(r)
<1>1. {"0", "d", ".", "-"} \subseteq CalcText /\ \A r \in CalcResults : ToSet(r) \subseteq CalcText
  BY Zenon DEF CalcText
<1>2. \A r \in CalcResults : r \in Seq(ToSet(r)) /\ Readable(r)
  BY CalcAssumption, Zenon
<1> HIDE DEF CalcText
<1> QED  BY <1>1, <1>2, SeqMonotonic, Zenon

LEMMA CalcSize == CalcDigits \in Nat \ {0}
BY CalcAssumption

\* The same by the positions of the characters.
LEMMA ReadableIs ==
  ASSUME NEW d \in Seq(CalcText)
  PROVE  Readable(d) <=>
           /\ Len(d) > 0
           /\ d[1] = "-" => Len(d) - 1 \in 1..CalcDigits
           /\ d[1] # "-" => Len(d) \in 1..CalcDigits
           /\ \A i, j \in 1..Len(d) : d[i] = "." /\ d[j] = "." => i = j
           /\ \A i \in 1..Len(d) : d[i] = "-" => i = 1
<1>1. CASE d = <<>>
  <2>1. Len(d) = 0
    BY <1>1
  <2> QED  BY <1>1, <2>1 DEF Readable
<1>2. CASE d # <<>>
  <2>1. Len(d) \in Nat /\ Len(d) > 0 /\ DOMAIN d = 1..Len(d) /\ Head(d) = d[1] /\ Len(Tail(d)) = Len(d) - 1
    BY <1>2
  <2>2. Len(Magnitude(d)) = IF d[1] = "-" THEN Len(d) - 1 ELSE Len(d)
    BY <2>1 DEF Magnitude
  <2> QED  BY <1>2, <2>1, <2>2 DEF Readable
<1> QED  BY <1>1, <1>2

LEMMA ZeroReadable == <<"0">> \in Seq(CalcText) /\ Readable(<<"0">>)
<1>1. PICK z : z = <<"0">>
  OBVIOUS
<1>2. "0" \in CalcText
  BY CalcTexts
<1>3. z \in Seq(CalcText) /\ Len(z) = 1 /\ z[1] = "0"
  BY <1>1, <1>2
<1>4. \A i, j \in 1..Len(z) : z[i] = "." /\ z[j] = "." => i = j
  BY <1>3
<1>5. \A i \in 1..Len(z) : z[i] = "-" => i = 1
  BY <1>3
<1>6. Len(z) \in 1..CalcDigits /\ Len(z) > 0 /\ z[1] # "-"
  BY <1>3, CalcSize
<1>7. Readable(z)
  BY <1>3, <1>4, <1>5, <1>6, ReadableIs
<1> QED  BY <1>1, <1>3, <1>7

LEMMA Appended ==
  ASSUME NEW e \in Seq(CalcText), NEW c \in CalcText, c # "-", Len(e) < CalcDigits,
         e = <<>> \/ Readable(e), c = "." => \A i \in 1..Len(e) : e[i] # "."
  PROVE  Append(e, c) \in Seq(CalcText) /\ Readable(Append(e, c))
<1>1. PICK d : d = Append(e, c)
  OBVIOUS
<1>2. /\ d \in Seq(CalcText) /\ Len(d) = Len(e) + 1 /\ d[Len(e) + 1] = c
      /\ \A i \in 1..Len(e) : d[i] = e[i]
  BY <1>1
<1>3. Len(e) \in Nat
  OBVIOUS
<1>4. \A i, j \in 1..Len(d) : d[i] = "." /\ d[j] = "." => i = j
  <2> SUFFICES ASSUME NEW i \in 1..Len(d), NEW j \in 1..Len(d), d[i] = ".", d[j] = "." PROVE i = j
    OBVIOUS
  <2>1. CASE e = <<>>
    BY <2>1, <1>2
  <2>2. CASE Readable(e)
    <3>1. \A k, l \in 1..Len(e) : e[k] = "." /\ e[l] = "." => k = l
      BY <2>2, ReadableIs
    <3> QED  BY <3>1, <1>2, <1>3
  <2> QED  BY <2>1, <2>2
<1>5. \A i \in 1..Len(d) : d[i] = "-" => i = 1
  <2>1. CASE e = <<>>
    BY <2>1, <1>2
  <2>2. CASE Readable(e)
    BY <2>2, <1>2, <1>3, ReadableIs
  <2> QED  BY <2>1, <2>2
<1>6. /\ d[1] = "-" => Len(d) - 1 \in 1..CalcDigits
      /\ d[1] # "-" => Len(d) \in 1..CalcDigits
  <2>1. CASE e = <<>>
    <3>1. Len(d) = 1 /\ d[1] = c
      BY <2>1, <1>2
    <3> QED  BY <3>1, CalcSize
  <2>2. CASE Readable(e)
    <3>1. Len(e) > 0 /\ (e[1] = "-" => Len(e) - 1 \in 1..CalcDigits)
      BY <2>2, ReadableIs
    <3>2. d[1] = e[1]
      BY <3>1, <1>2, <1>3
    <3> QED  BY <3>1, <3>2, <1>2, <1>3, CalcSize
  <2> QED  BY <2>1, <2>2
<1>7. Readable(d)
  BY <1>2, <1>3, <1>4, <1>5, <1>6, ReadableIs
<1> QED  BY <1>1, <1>2, <1>7

LEMMA TypedFacts ==
  ASSUME NEW d \in Seq(CalcText), d = <<>> \/ Readable(d), NEW c \in {"0", "d", "."}
  PROVE  Typed(d, c) \in Seq(CalcText) /\ Readable(Typed(d, c))
<1>1. c \in CalcText /\ c # "-"
  BY CalcTexts
<1>2. Contained(d, ".") <=> \E i \in 1..Len(d) : d[i] = "."
  BY DEF Contained, ToSet
<1>3. CASE c = "." /\ Contained(d, ".")
  <2>1. d # <<>>
    BY <1>2, <1>3
  <2>2. Typed(d, c) = d
    BY <1>3 DEF Typed
  <2> QED  BY <2>1, <2>2
<1>4. CASE ~(c = "." /\ Contained(d, "."))
  <2>1. PICK e : e = IF d = <<"0">> /\ c # "." THEN <<>> ELSE d
    OBVIOUS
  <2>2. e \in Seq(CalcText) /\ (e = <<>> \/ Readable(e)) /\ (e = <<>> \/ e = d)
    BY <2>1
  <2>3. c = "." => \A i \in 1..Len(e) : e[i] # "."
    BY <2>1, <1>2, <1>4
  <2>4. Typed(d, c) = IF Len(e) < CalcDigits THEN Append(e, c) ELSE e
    BY <2>1, <1>4 DEF Typed
  <2>5. CASE Len(e) < CalcDigits
    BY <2>2, <2>3, <2>4, <2>5, <1>1, Appended
  <2>6. CASE ~(Len(e) < CalcDigits)
    <3>1. e # <<>>
      BY <2>6, CalcSize
    <3> QED  BY <3>1, <2>2, <2>4, <2>6
  <2> QED  BY <2>5, <2>6
<1> QED  BY <1>3, <1>4

LEMMA NegatedFacts ==
  ASSUME NEW d \in Seq(CalcText), Readable(d)
  PROVE  Negated(d) \in Seq(CalcText) /\ Readable(Negated(d))
<1>1. /\ Len(d) \in Nat /\ Len(d) > 0 /\ d # <<>> /\ Head(d) = d[1]
      /\ d[1] = "-" => Len(d) - 1 \in 1..CalcDigits
      /\ d[1] # "-" => Len(d) \in 1..CalcDigits
      /\ \A i, j \in 1..Len(d) : d[i] = "." /\ d[j] = "." => i = j
      /\ \A i \in 1..Len(d) : d[i] = "-" => i = 1
  BY ReadableIs
<1>2. CASE d[1] = "-"
  <2>1. PICK t : t = Tail(d)
    OBVIOUS
  <2>2. t \in Seq(CalcText) /\ Len(t) = Len(d) - 1 /\ \A i \in 1..(Len(d) - 1) : t[i] = d[i + 1]
    BY <1>1, <2>1
  <2>3. \A i \in 1..Len(t) : t[i] # "-"
    BY <1>1, <2>2
  <2>4. \A i, j \in 1..Len(t) : t[i] = "." /\ t[j] = "." => i = j
    <3> SUFFICES ASSUME NEW i \in 1..Len(t), NEW j \in 1..Len(t), t[i] = ".", t[j] = "." PROVE i = j
      OBVIOUS
    <3>1. i + 1 \in 1..Len(d) /\ j + 1 \in 1..Len(d) /\ d[i + 1] = "." /\ d[j + 1] = "."
      BY <1>1, <2>2
    <3>2. i + 1 = j + 1
      BY <3>1, <1>1
    <3> QED  BY <3>2, <1>1, <2>2
  <2>5. Len(t) \in 1..CalcDigits
    BY <1>1, <1>2, <2>2
  <2>6. t[1] # "-"
    BY <2>3, <2>5
  <2>7. Readable(t)
    BY <2>2, <2>3, <2>4, <2>5, <2>6, ReadableIs
  <2> QED  BY <1>1, <1>2, <2>1, <2>2, <2>7 DEF Negated
<1>3. CASE d[1] # "-"
  <2>1. PICK t : t = <<"-">> \o d
    OBVIOUS
  <2>2. "-" \in CalcText
    BY CalcTexts
  <2>3. t \in Seq(CalcText) /\ Len(t) = Len(d) + 1 /\ t[1] = "-" /\ \A i \in 2..(Len(d) + 1) : t[i] = d[i - 1]
    BY <2>1, <2>2, <1>1
  <2>4. \A i \in 1..Len(t) : t[i] = "-" => i = 1
    BY <1>1, <1>3, <2>3
  <2>5. \A i, j \in 1..Len(t) : t[i] = "." /\ t[j] = "." => i = j
    <3> SUFFICES ASSUME NEW i \in 1..Len(t), NEW j \in 1..Len(t), t[i] = ".", t[j] = "." PROVE i = j
      OBVIOUS
    <3>0. i \in 2..(Len(d) + 1) /\ j \in 2..(Len(d) + 1)
      BY <1>1, <2>3
    <3>1. i - 1 \in 1..Len(d) /\ j - 1 \in 1..Len(d) /\ d[i - 1] = "." /\ d[j - 1] = "."
      BY <1>1, <2>3, <3>0
    <3>2. i - 1 = j - 1
      BY <3>1, <1>1
    <3> QED  BY <3>0, <3>2, <1>1, <2>3
  <2>6. Readable(t)
    BY <1>1, <1>3, <2>3, <2>4, <2>5, ReadableIs
  <2> QED  BY <1>1, <1>3, <2>1, <2>3, <2>6 DEF Negated
<1> QED  BY <1>2, <1>3

LEMMA CalcKeeps == CalcInv /\ [CalcNext]_calcVars => CalcInv'
<1> SUFFICES ASSUME CalcInv, [CalcNext]_calcVars PROVE CalcInv'
  OBVIOUS
<1>0. calc_display \in Seq(CalcText) /\ Readable(calc_display) /\ calc_clear_next \in BOOLEAN
  BY DEF CalcInv
<1>1. CASE app_calculator_create
  BY <1>0, <1>1, ZeroReadable DEF app_calculator_create, CalcInv
<1>2. CASE calc_button_Clear
  BY <1>0, <1>2, ZeroReadable DEF calc_button_Clear, CalcInv
<1>3. CASE calc_button_Sign
  BY <1>0, <1>3, NegatedFacts DEF calc_button_Sign, CalcInv
<1>4. CASE calc_button_Percent
  BY <1>0, <1>4, CalcTexts DEF calc_button_Percent, CalcInv
<1>5. CASE calc_do_op
  <2>1. calc_display' \in Seq(CalcText) /\ Readable(calc_display')
    BY <1>5, CalcTexts, ZeroReadable DEF calc_do_op
  <2>2. calc_clear_next' = TRUE
    BY <1>5 DEF calc_do_op
  <2> QED  BY <2>1, <2>2 DEF CalcInv
<1>6. ASSUME NEW c \in {"0", "d", "."}, calc_number(c) PROVE CalcInv'
  <2>1. PICK d : d = Shown
    OBVIOUS
  <2>2. d \in Seq(CalcText) /\ (d = <<>> \/ Readable(d))
    <3>1. CASE calc_clear_next
      <4>1. d = <<>>
        BY <2>1, <3>1 DEF Shown
      <4> QED  BY <4>1
    <3>2. CASE ~calc_clear_next
      <4>1. d = calc_display
        BY <2>1, <3>2 DEF Shown
      <4> QED  BY <4>1, <1>0
    <3> QED  BY <3>1, <3>2
  <2>3. calc_display' = Typed(d, c) /\ calc_clear_next' = FALSE
    BY <2>1, <1>6 DEF calc_number
  <2>4. Typed(d, c) \in Seq(CalcText) /\ Readable(Typed(d, c))
    BY <2>2, TypedFacts
  <2> QED  BY <2>3, <2>4 DEF CalcInv
<1>7. ASSUME NEW op \in {"+", "-", "*", "/"}, calc_button_Operator(op) PROVE CalcInv'
  BY <1>0, <1>7 DEF calc_button_Operator, CalcInv
<1>8. CASE UNCHANGED calcVars
  BY <1>0, <1>8 DEF calcVars, CalcInv
<1> QED  BY <1>1, <1>2, <1>3, <1>4, <1>5, <1>6, <1>7, <1>8 DEF CalcNext

(***************************************************************************)
(* Whatever buttons are pressed, in whatever order, the display shows a    *)
(* number, which calc_parse reads back without going past its end.         *)
(***************************************************************************)
THEOREM DisplayAlwaysReadable == CalcSpec => []DisplayReadable
<1>1. CalcInit => CalcInv
  BY ZeroReadable DEF CalcInit, CalcInv
<1>2. CalcInv => DisplayReadable
  <2> SUFFICES ASSUME CalcInv PROVE DisplayReadable
    OBVIOUS
  <2>1. calc_display \in Seq(CalcText) /\ Readable(calc_display)
    BY DEF CalcInv
  <2>2. /\ calc_display[1] = "-" => Len(calc_display) - 1 \in 1..CalcDigits
        /\ calc_display[1] # "-" => Len(calc_display) \in 1..CalcDigits
    BY <2>1, ReadableIs
  <2>3. Len(calc_display) \in Nat
    BY <2>1
  <2> QED  BY <2>1, <2>2, <2>3, CalcSize DEF DisplayReadable
<1> QED  BY <1>1, <1>2, CalcKeeps, PTL DEF CalcSpec
-----------------------------------------------------------------------------
(***************************************************************************)
(* The text editor, src/src/apps/text_editor.c                             *)
(***************************************************************************)

TeText  == TeChars \cup {Break, "zero"} \cup ToSet(TeSample)
TeCells == 0..(TeSize - 1)
TeBuf   == [TeCells -> TeText]

LEMMA TeTexts ==
  /\ TeChars \subseteq TeText /\ Break \in TeText /\ "zero" \in TeText /\ TeSample \in Seq(TeText)
<1>1. TeChars \subseteq TeText /\ Break \in TeText /\ "zero" \in TeText /\ ToSet(TeSample) \subseteq TeText
  BY Zenon DEF TeText
<1>2. TeSample \in Seq(ToSet(TeSample))
  BY TeAssumption, Zenon
<1> HIDE DEF TeText
<1> QED  BY <1>1, <1>2, SeqMonotonic, Zenon

LEMMA TeSizes == TeSize \in Nat /\ TeVisible \in Nat /\ TeVisible > 1 /\ Len(TeSample) < TeSize
BY TeAssumption

LEMMA ShiftedFacts ==
  ASSUME NEW b \in TeBuf, NEW i \in TeCells, NEW j \in TeCells
  PROVE  /\ Shifted(b, i, j) \in TeBuf
         /\ \A x \in TeCells : Shifted(b, i, j)[x] = IF x = i THEN b[j] ELSE b[x]
BY DEF Shifted, TeBuf

\* A loop that moves, in turn k, the byte at src[k] to dst[k].
Moves(f, buf, n, dst, src) ==
  f[0] = buf /\ \A k \in 1..n : f[k] = Shifted(f[k - 1], dst[k], src[k])

FixedPoint(f, buf, n, dst, src) ==
  f = [k \in 0..n |-> IF k = 0 THEN buf ELSE Shifted(f[k - 1], dst[k], src[k])]

LEMMA ShiftsExist ==
  ASSUME NEW buf \in TeBuf, NEW n \in Nat, NEW dst \in [1..n -> TeCells], NEW src \in [1..n -> TeCells]
  PROVE  \E f : FixedPoint(f, buf, n, dst, src)
<1> DEFINE step == [k \in 1..n |-> [b \in TeBuf |-> Shifted(b, dst[k], src[k])]]
<1>1. step \in [1..n -> [TeBuf -> TeBuf]]
  BY ShiftedFacts
<1>2. PICK g \in [0..n -> TeBuf] : RunOf(g, buf, n, step)
  BY <1>1, LoopRuns
<1>3. ASSUME NEW k \in 1..n PROVE g[k] = Shifted(g[k - 1], dst[k], src[k])
  <2>1. g[k - 1] \in TeBuf /\ g[k] = step[k][g[k - 1]]
    BY <1>2 DEF RunOf
  <2> QED  BY <2>1
<1>4. g[0] = buf /\ \A k \in 0..n : k = 0 \/ k \in 1..n
  BY <1>2 DEF RunOf
<1> HIDE DEF step
<1>5. \A k \in 0..n : g[k] = IF k = 0 THEN buf ELSE Shifted(g[k - 1], dst[k], src[k])
  BY <1>3, <1>4
<1>6. FixedPoint(g, buf, n, dst, src)
  BY <1>5 DEF FixedPoint
<1> QED  BY <1>6

LEMMA ShiftsRun ==
  ASSUME NEW buf \in TeBuf, NEW n \in Nat, NEW dst \in [1..n -> TeCells], NEW src \in [1..n -> TeCells],
         NEW f, FixedPoint(f, buf, n, dst, src)
  PROVE  f \in [0..n -> TeBuf] /\ Moves(f, buf, n, dst, src)
<1>4. f = [k \in 0..n |-> IF k = 0 THEN buf ELSE Shifted(f[k - 1], dst[k], src[k])]
  BY Zenon DEF FixedPoint
<1>5. Moves(f, buf, n, dst, src)
  <2>1. 0 \in 0..n /\ \A k \in 1..n : k \in 0..n /\ k # 0
    OBVIOUS
  <2>2. \A k \in 0..n : f[k] = IF k = 0 THEN buf ELSE Shifted(f[k - 1], dst[k], src[k])
    BY <1>4, Zenon
  <2> QED  BY <2>1, <2>2 DEF Moves
<1> DEFINE S == {k \in 0..n : f[k] \in TeBuf}
<1>6. ASSUME NEW k \in 1..n, k - 1 \in S PROVE k \in S
  <2>1. f[k] = Shifted(f[k - 1], dst[k], src[k]) /\ f[k - 1] \in TeBuf /\ dst[k] \in TeCells /\ src[k] \in TeCells
    BY <1>5, <1>6 DEF Moves
  <2>2. PICK b \in TeBuf, i \in TeCells, j \in TeCells : b = f[k - 1] /\ i = dst[k] /\ j = src[k]
    BY <2>1
  <2>3. f[k] = Shifted(b, i, j) /\ Shifted(b, i, j) \in TeBuf
    BY <2>1, <2>2, ShiftedFacts
  <2> QED  BY <2>3
<1>7. 0 \in S
  BY <1>5 DEF Moves
<1>8. 0..n \subseteq S
  <2> HIDE DEF S
  <2> QED  BY <1>6, <1>7, Induction
<1>9. f \in [0..n -> TeBuf]
  BY <1>4, <1>8
<1> QED  BY <1>5, <1>9

\* Backspace closes the gap: every byte behind it moves one down.
LEMMA ShiftLeftIs ==
  ASSUME NEW buf \in TeBuf, NEW from \in TeCells, NEW to \in TeCells, from <= to
  PROVE  /\ ShiftLeft(buf, from, to) \in TeBuf
         /\ \A x \in TeCells : ShiftLeft(buf, from, to)[x] = IF from <= x /\ x < to THEN buf[x + 1] ELSE buf[x]
<1> USE TeSizes
<1> DEFINE n == to - from
           dst == [k \in 1..n |-> from + k - 1]
           src == [k \in 1..n |-> from + k]
<1>1. n \in Nat /\ dst \in [1..n -> TeCells] /\ src \in [1..n -> TeCells]
  BY DEF TeCells
<1>2. PICK f : f = CHOOSE h : h = [k \in 0..n |-> IF k = 0 THEN buf ELSE Shifted(h[k - 1], from + k - 1, from + k)]
  OBVIOUS
<1>3. ShiftLeft(buf, from, to) = f[n]
  BY <1>2, Zenon DEF ShiftLeft
<1>4. ASSUME NEW h
      PROVE  [k \in 0..n |-> IF k = 0 THEN buf ELSE Shifted(h[k - 1], dst[k], src[k])]
             = [k \in 0..n |-> IF k = 0 THEN buf ELSE Shifted(h[k - 1], from + k - 1, from + k)]
  <2>1. \A k \in 0..n : k # 0 => dst[k] = from + k - 1 /\ src[k] = from + k
    BY <1>1
  <2> HIDE DEF dst, src, n
  <2> QED  BY <2>1
<1>5. PICK g : g = [k \in 0..n |-> IF k = 0 THEN buf ELSE Shifted(g[k - 1], from + k - 1, from + k)]
  <2> HIDE DEF dst, src, n
  <2>1. PICK g : FixedPoint(g, buf, n, dst, src)
    BY <1>1, ShiftsExist
  <2>2. g = [k \in 0..n |-> IF k = 0 THEN buf ELSE Shifted(g[k - 1], from + k - 1, from + k)]
    BY <2>1, <1>4, Zenon DEF FixedPoint
  <2> QED  BY <2>2, Zenon
<1>6. f \in [0..n -> TeBuf] /\ Moves(f, buf, n, dst, src)
  <2>1. f = [k \in 0..n |-> IF k = 0 THEN buf ELSE Shifted(f[k - 1], from + k - 1, from + k)]
    BY <1>2, <1>5, Zenon
  <2> HIDE DEF dst, src, n
  <2>2. FixedPoint(f, buf, n, dst, src)
    BY <2>1, <1>4, Zenon DEF FixedPoint
  <2> QED  BY <2>2, <1>1, ShiftsRun
<1>7. f[0] = buf /\ \A k \in 1..n : f[k] = Shifted(f[k - 1], from + k - 1, from + k)
  BY <1>6 DEF Moves
<1> DEFINE S == {m \in 0..n : \A x \in TeCells : f[m][x] = IF from <= x /\ x < from + m THEN buf[x + 1] ELSE buf[x]}
<1>8. 0 \in S
  BY <1>1, <1>7 DEF TeCells
<1>9. ASSUME NEW k \in 1..n, k - 1 \in S PROVE k \in S
  <2>0. \A x \in TeCells : f[k - 1][x] = IF from <= x /\ x < from + (k - 1) THEN buf[x + 1] ELSE buf[x]
    BY <1>9
  <2>1. f[k] = Shifted(f[k - 1], from + k - 1, from + k) /\ f[k - 1] \in TeBuf
        /\ from + k - 1 \in TeCells /\ from + k \in TeCells
    BY <1>1, <1>6, <1>7 DEF TeCells
  <2>2. \A x \in TeCells : f[k][x] = IF x = from + k - 1 THEN f[k - 1][from + k] ELSE f[k - 1][x]
    <3>1. PICK b \in TeBuf, i \in TeCells, j \in TeCells : b = f[k - 1] /\ i = from + k - 1 /\ j = from + k
      BY <2>1
    <3>2. PICK c : c = Shifted(b, i, j)
      OBVIOUS
    <3>3. \A x \in TeCells : c[x] = IF x = i THEN b[j] ELSE b[x]
      BY <3>2 DEF Shifted, TeBuf
    <3>4. f[k] = c
      BY <2>1, <3>1, <3>2
    <3> QED  BY <3>1, <3>3, <3>4
  <2>3. ASSUME NEW x \in TeCells
        PROVE  f[k][x] = IF from <= x /\ x < from + k THEN buf[x + 1] ELSE buf[x]
    <3>1. CASE x = from + k - 1
      <4>1. f[k][x] = f[k - 1][from + k]
        BY <2>2, <3>1
      <4>2. f[k - 1][from + k] = buf[from + k]
        BY <2>0, <2>1 DEF TeCells
      <4>3. from + k = x + 1 /\ from <= x /\ x < from + k
        BY <3>1 DEF TeCells
      <4> QED  BY <4>1, <4>2, <4>3
    <3>2. CASE x # from + k - 1
      <4>1. f[k][x] = f[k - 1][x]
        BY <2>2, <3>2
      <4>2. x < from + (k - 1) <=> x < from + k
        BY <3>2 DEF TeCells
      <4> QED  BY <4>1, <4>2, <2>0
    <3> QED  BY <3>1, <3>2
  <2> QED  BY <2>3
<1>10. n \in S
  <2> HIDE DEF S, n
  <2>1. 0..n \subseteq S
    BY <1>1, <1>8, <1>9, Induction
  <2> QED  BY <1>1, <2>1
<1>11. from + n = to /\ n \in 0..n
  BY <1>1 DEF TeCells
<1>12. f[n] \in TeBuf /\ \A x \in TeCells : f[n][x] = IF from <= x /\ x < to THEN buf[x + 1] ELSE buf[x]
  BY <1>6, <1>10, <1>11
<1> HIDE DEF n
<1> QED  BY <1>3, <1>12

\* A key opens one: they move one up, the last byte first.
LEMMA ShiftRightIs ==
  ASSUME NEW buf \in TeBuf, NEW from \in TeCells, NEW to \in TeCells, to <= from
  PROVE  /\ ShiftRight(buf, from, to) \in TeBuf
         /\ \A x \in TeCells : ShiftRight(buf, from, to)[x] = IF to < x /\ x <= from THEN buf[x - 1] ELSE buf[x]
<1> USE TeSizes
<1> DEFINE n == from - to
           dst == [k \in 1..n |-> from - k + 1]
           src == [k \in 1..n |-> from - k]
<1>1. n \in Nat /\ dst \in [1..n -> TeCells] /\ src \in [1..n -> TeCells]
  BY DEF TeCells
<1>2. PICK f : f = CHOOSE h : h = [k \in 0..n |-> IF k = 0 THEN buf ELSE Shifted(h[k - 1], from - k + 1, from - k)]
  OBVIOUS
<1>3. ShiftRight(buf, from, to) = f[n]
  BY <1>2, Zenon DEF ShiftRight
<1>4. ASSUME NEW h
      PROVE  [k \in 0..n |-> IF k = 0 THEN buf ELSE Shifted(h[k - 1], dst[k], src[k])]
             = [k \in 0..n |-> IF k = 0 THEN buf ELSE Shifted(h[k - 1], from - k + 1, from - k)]
  <2>1. \A k \in 0..n : k # 0 => dst[k] = from - k + 1 /\ src[k] = from - k
    BY <1>1
  <2> HIDE DEF dst, src, n
  <2> QED  BY <2>1
<1>5. PICK g : g = [k \in 0..n |-> IF k = 0 THEN buf ELSE Shifted(g[k - 1], from - k + 1, from - k)]
  <2> HIDE DEF dst, src, n
  <2>1. PICK g : FixedPoint(g, buf, n, dst, src)
    BY <1>1, ShiftsExist
  <2>2. g = [k \in 0..n |-> IF k = 0 THEN buf ELSE Shifted(g[k - 1], from - k + 1, from - k)]
    BY <2>1, <1>4, Zenon DEF FixedPoint
  <2> QED  BY <2>2, Zenon
<1>6. f \in [0..n -> TeBuf] /\ Moves(f, buf, n, dst, src)
  <2>1. f = [k \in 0..n |-> IF k = 0 THEN buf ELSE Shifted(f[k - 1], from - k + 1, from - k)]
    BY <1>2, <1>5, Zenon
  <2> HIDE DEF dst, src, n
  <2>2. FixedPoint(f, buf, n, dst, src)
    BY <2>1, <1>4, Zenon DEF FixedPoint
  <2> QED  BY <2>2, <1>1, ShiftsRun
<1>7. f[0] = buf /\ \A k \in 1..n : f[k] = Shifted(f[k - 1], from - k + 1, from - k)
  BY <1>6 DEF Moves
<1> DEFINE S == {m \in 0..n : \A x \in TeCells : f[m][x] = IF from - m < x /\ x <= from THEN buf[x - 1] ELSE buf[x]}
<1>8. 0 \in S
  BY <1>1, <1>7 DEF TeCells
<1>9. ASSUME NEW k \in 1..n, k - 1 \in S PROVE k \in S
  <2>0. \A x \in TeCells : f[k - 1][x] = IF from - (k - 1) < x /\ x <= from THEN buf[x - 1] ELSE buf[x]
    BY <1>9
  <2>1. f[k] = Shifted(f[k - 1], from - k + 1, from - k) /\ f[k - 1] \in TeBuf
        /\ from - k + 1 \in TeCells /\ from - k \in TeCells
    BY <1>1, <1>6, <1>7 DEF TeCells
  <2>2. \A x \in TeCells : f[k][x] = IF x = from - k + 1 THEN f[k - 1][from - k] ELSE f[k - 1][x]
    <3>1. PICK b \in TeBuf, i \in TeCells, j \in TeCells : b = f[k - 1] /\ i = from - k + 1 /\ j = from - k
      BY <2>1
    <3>2. PICK c : c = Shifted(b, i, j)
      OBVIOUS
    <3>3. \A x \in TeCells : c[x] = IF x = i THEN b[j] ELSE b[x]
      BY <3>2 DEF Shifted, TeBuf
    <3>4. f[k] = c
      BY <2>1, <3>1, <3>2
    <3> QED  BY <3>1, <3>3, <3>4
  <2>3. ASSUME NEW x \in TeCells
        PROVE  f[k][x] = IF from - k < x /\ x <= from THEN buf[x - 1] ELSE buf[x]
    <3>1. CASE x = from - k + 1
      <4>1. f[k][x] = f[k - 1][from - k]
        BY <2>2, <3>1
      <4>2. f[k - 1][from - k] = buf[from - k]
        BY <2>0, <2>1 DEF TeCells
      <4>3. from - k = x - 1 /\ from - k < x /\ x <= from
        BY <3>1 DEF TeCells
      <4> QED  BY <4>1, <4>2, <4>3
    <3>2. CASE x # from - k + 1
      <4>1. f[k][x] = f[k - 1][x]
        BY <2>2, <3>2
      <4>2. from - (k - 1) < x <=> from - k < x
        BY <3>2 DEF TeCells
      <4> QED  BY <4>1, <4>2, <2>0
    <3> QED  BY <3>1, <3>2
  <2> QED  BY <2>3
<1>10. n \in S
  <2> HIDE DEF S, n
  <2>1. 0..n \subseteq S
    BY <1>1, <1>8, <1>9, Induction
  <2> QED  BY <1>1, <2>1
<1>11. from - n = to /\ n \in 0..n
  BY <1>1 DEF TeCells
<1>12. f[n] \in TeBuf /\ \A x \in TeCells : f[n][x] = IF to < x /\ x <= from THEN buf[x - 1] ELSE buf[x]
  BY <1>6, <1>10, <1>11
<1> HIDE DEF n
<1> QED  BY <1>3, <1>12

\* What the ghost text becomes, character by character.
LEMMA RemoveAtIs ==
  ASSUME NEW s \in Seq(TeText), NEW i \in 1..Len(s)
  PROVE  /\ RemoveAt(s, i) \in Seq(TeText) /\ Len(RemoveAt(s, i)) = Len(s) - 1
         /\ \A x \in 1..(Len(s) - 1) : RemoveAt(s, i)[x] = IF x < i THEN s[x] ELSE s[x + 1]
<1>0. Len(s) \in Nat /\ \A x \in 1..Len(s) : s[x] \in TeText
  BY ElementOfSeq
<1>1. PICK a : a = SubSeq(s, 1, i - 1)
  OBVIOUS
<1>2. PICK b : b = SubSeq(s, i + 1, Len(s))
  OBVIOUS
<1>3. a \in Seq(TeText) /\ Len(a) = i - 1 /\ \A x \in 1..(i - 1) : a[x] = s[x]
  <2>1. \A x \in 1..(i - 1) : s[x] \in TeText
    BY <1>0
  <2>2. /\ SubSeq(s, 1, i - 1) \in Seq(TeText)
        /\ Len(SubSeq(s, 1, i - 1)) = IF 1 <= i - 1 THEN i - 1 - 1 + 1 ELSE 0
        /\ \A x \in 1..(i - 1 - 1 + 1) : SubSeq(s, 1, i - 1)[x] = s[1 + x - 1]
    BY <2>1, SubSeqProperties
  <2> QED  BY <2>2, <1>1
<1>4. b \in Seq(TeText) /\ Len(b) = Len(s) - i /\ \A x \in 1..(Len(s) - i) : b[x] = s[i + x]
  <2>1. \A x \in (i + 1)..Len(s) : s[x] \in TeText
    BY <1>0
  <2>2. /\ SubSeq(s, i + 1, Len(s)) \in Seq(TeText)
        /\ Len(SubSeq(s, i + 1, Len(s))) = IF i + 1 <= Len(s) THEN Len(s) - (i + 1) + 1 ELSE 0
        /\ \A x \in 1..(Len(s) - (i + 1) + 1) : SubSeq(s, i + 1, Len(s))[x] = s[i + 1 + x - 1]
    BY <1>0, <2>1, SubSeqProperties
  <2> QED  BY <1>0, <2>2, <1>2
<1>5. PICK c : c = a \o b
  OBVIOUS
<1>6. /\ c \in Seq(TeText) /\ Len(c) = Len(a) + Len(b)
      /\ \A x \in 1..(Len(a) + Len(b)) : c[x] = IF x <= Len(a) THEN a[x] ELSE b[x - Len(a)]
  BY <1>3, <1>4, <1>5, ConcatProperties
<1>7. RemoveAt(s, i) = c
  BY <1>1, <1>2, <1>5 DEF RemoveAt
<1>8. ASSUME NEW x \in 1..(Len(s) - 1) PROVE c[x] = IF x < i THEN s[x] ELSE s[x + 1]
  <2>0. Len(a) + Len(b) = Len(s) - 1
    BY <1>0, <1>3, <1>4
  <2>1. CASE x < i
    <3>1. c[x] = a[x] /\ x \in 1..(i - 1)
      BY <2>0, <2>1, <1>3, <1>6
    <3> QED  BY <3>1, <2>1, <1>3
  <2>2. CASE ~(x < i)
    <3>1. x - Len(a) \in 1..(Len(s) - i) /\ i + (x - Len(a)) = x + 1
      BY <2>2, <1>0, <1>3
    <3>2. c[x] = b[x - Len(a)]
      <4>1. ~(x <= Len(a))
        BY <2>2, <1>3
      <4> QED  BY <4>1, <2>0, <1>6
    <3> QED  BY <2>2, <3>1, <3>2, <1>4
  <2> QED  BY <2>1, <2>2
<1> QED  BY <1>0, <1>3, <1>4, <1>6, <1>7, <1>8

LEMMA InsertAtIs ==
  ASSUME NEW s \in Seq(TeText), NEW i \in 1..(Len(s) + 1), NEW e \in TeText
  PROVE  /\ InsertAt(s, i, e) \in Seq(TeText) /\ Len(InsertAt(s, i, e)) = Len(s) + 1
         /\ \A x \in 1..(Len(s) + 1) :
              InsertAt(s, i, e)[x] = IF x < i THEN s[x] ELSE IF x = i THEN e ELSE s[x - 1]
<1>0. Len(s) \in Nat /\ \A x \in 1..Len(s) : s[x] \in TeText
  BY ElementOfSeq
<1>1. PICK a : a = SubSeq(s, 1, i - 1)
  OBVIOUS
<1>2. PICK b : b = SubSeq(s, i, Len(s))
  OBVIOUS
<1>3. a \in Seq(TeText) /\ Len(a) = i - 1 /\ \A x \in 1..(i - 1) : a[x] = s[x]
  <2>1. \A x \in 1..(i - 1) : s[x] \in TeText
    BY <1>0
  <2>2. /\ SubSeq(s, 1, i - 1) \in Seq(TeText)
        /\ Len(SubSeq(s, 1, i - 1)) = IF 1 <= i - 1 THEN i - 1 - 1 + 1 ELSE 0
        /\ \A x \in 1..(i - 1 - 1 + 1) : SubSeq(s, 1, i - 1)[x] = s[1 + x - 1]
    BY <1>0, <2>1, SubSeqProperties
  <2> QED  BY <1>0, <2>2, <1>1
<1>4. b \in Seq(TeText) /\ Len(b) = Len(s) - i + 1 /\ \A x \in 1..(Len(s) - i + 1) : b[x] = s[i + x - 1]
  <2>1. \A x \in i..Len(s) : s[x] \in TeText
    BY <1>0
  <2>2. /\ SubSeq(s, i, Len(s)) \in Seq(TeText)
        /\ Len(SubSeq(s, i, Len(s))) = IF i <= Len(s) THEN Len(s) - i + 1 ELSE 0
        /\ \A x \in 1..(Len(s) - i + 1) : SubSeq(s, i, Len(s))[x] = s[i + x - 1]
    BY <1>0, <2>1, SubSeqProperties
  <2> QED  BY <1>0, <2>2, <1>2
<1>5. PICK m : m = <<e>>
  OBVIOUS
<1>6. m \in Seq(TeText) /\ Len(m) = 1 /\ m[1] = e
  BY <1>5
<1>7. PICK c : c = a \o m
  OBVIOUS
<1>8. /\ c \in Seq(TeText) /\ Len(c) = i
      /\ \A x \in 1..i : c[x] = IF x < i THEN s[x] ELSE e
  <2>1. /\ c \in Seq(TeText) /\ Len(c) = Len(a) + Len(m)
        /\ \A x \in 1..(Len(a) + Len(m)) : c[x] = IF x <= Len(a) THEN a[x] ELSE m[x - Len(a)]
    BY <1>3, <1>6, <1>7, ConcatProperties
  <2>2. Len(a) + Len(m) = i
    BY <1>0, <1>3, <1>6
  <2>3. ASSUME NEW x \in 1..i PROVE c[x] = IF x < i THEN s[x] ELSE e
    <3>1. CASE x < i
      BY <1>0, <1>3, <2>1, <2>2, <3>1
    <3>2. CASE x = i
      <4>1. x - Len(a) = 1 /\ ~(x <= Len(a))
        BY <1>0, <1>3, <3>2
      <4> QED  BY <2>1, <2>2, <1>6, <3>2, <4>1
    <3> QED  BY <1>0, <3>1, <3>2
  <2> QED  BY <2>1, <2>2, <2>3
<1>9. PICK d : d = c \o b
  OBVIOUS
<1>10. /\ d \in Seq(TeText) /\ Len(d) = Len(c) + Len(b)
       /\ \A x \in 1..(Len(c) + Len(b)) : d[x] = IF x <= Len(c) THEN c[x] ELSE b[x - Len(c)]
  BY <1>4, <1>8, <1>9, ConcatProperties
<1>11. InsertAt(s, i, e) = d
  BY <1>1, <1>2, <1>5, <1>7, <1>9 DEF InsertAt
<1>12. ASSUME NEW x \in 1..(Len(s) + 1)
       PROVE  d[x] = IF x < i THEN s[x] ELSE IF x = i THEN e ELSE s[x - 1]
  <2>1. CASE x <= i
    BY <2>1, <1>0, <1>4, <1>8, <1>10
  <2>2. CASE ~(x <= i)
    <3>1. x - i \in 1..(Len(s) - i + 1) /\ i + (x - i) - 1 = x - 1
      BY <2>2, <1>0
    <3>2. d[x] = b[x - i]
      BY <2>2, <1>0, <1>4, <1>8, <1>10
    <3>3. d[x] = s[i + (x - i) - 1]
      BY <3>1, <3>2, <1>4
    <3> QED  BY <2>2, <3>1, <3>3
  <2> QED  BY <2>1, <2>2
<1>13. Len(d) = Len(s) + 1
  BY <1>0, <1>4, <1>8, <1>10
<1> QED  BY <1>10, <1>11, <1>12, <1>13

LEMMA CurLineIs ==
  ASSUME NEW buf, NEW at, NEW len \in Int
  PROVE  CurLine(buf, at, len) \in Nat \ {0}
<1> DEFINE T == {i \in 0..(len - 1) : i < at /\ buf[i] = Break}
<1>1. IsFiniteSet(0..(len - 1))
  BY FS_Interval
<1>2. T \subseteq 0..(len - 1)
  OBVIOUS
<1> HIDE DEF T
<1>3. Cardinality(T) \in Nat
  BY <1>1, <1>2, FS_Subset, FS_CardinalityType
<1>4. CurLine(buf, at, len) = 1 + Cardinality(T)
  BY DEF CurLine, T
<1> QED  BY <1>3, <1>4

\* Wherever the cursor goes, scrolling brings its line into the window.
LEMMA AutoScrollIs ==
  ASSUME NEW line \in Nat \ {0}, NEW scroll \in Int
  PROVE  AutoScroll(line, scroll) \in Int /\ line - AutoScroll(line, scroll) \in 1..(TeVisible - 1)
BY TeSizes DEF AutoScroll, Down

TeInv ==
  /\ te_buffer \in TeBuf /\ te_text \in Seq(TeText) /\ te_scroll_y \in Int
  /\ BufferIsText /\ CursorShown

LEMMA EditedFacts ==
  ASSUME NEW buf \in TeBuf, NEW len \in TeCells, NEW at \in 0..len, NEW s \in Seq(TeText),
         Len(s) = len, \A i \in 0..(len - 1) : buf[i] = s[i + 1],
         te_scroll_y \in Int, Edited(buf, len, at), te_text' = s
  PROVE  TeInv'
<1> USE TeSizes
<1>1. /\ te_buffer' \in TeBuf /\ te_buffer'[len] = "zero"
      /\ \A i \in TeCells : i # len => te_buffer'[i] = buf[i]
  BY TeTexts DEF Edited, TeBuf
<1>2. te_len' = len /\ te_cursor' = at /\ len \in Int /\ te_text' = s
  BY DEF Edited, TeCells
<1>3. BufferIsText'
  <2>1. len < TeSize
    BY DEF TeCells
  <2>2. ASSUME NEW i \in 0..(len - 1) PROVE te_buffer'[i] = s[i + 1]
    <3>1. i \in TeCells /\ i # len
      BY DEF TeCells
    <3> QED  BY <3>1, <1>1
  <2> QED  BY <1>1, <1>2, <2>1, <2>2 DEF BufferIsText
<1>4. PICK line : line = CurLine(te_buffer', at, len)
  OBVIOUS
<1>5. line \in Nat \ {0} /\ te_scroll_y' = AutoScroll(line, te_scroll_y)
  BY <1>2, <1>4, CurLineIs DEF Edited
<1>6. te_scroll_y' \in Int /\ line - te_scroll_y' \in 1..(TeVisible - 1)
  BY <1>5, AutoScrollIs
<1>7. CursorShown'
  BY <1>2, <1>4, <1>6 DEF CursorShown
<1> QED  BY <1>1, <1>2, <1>3, <1>6, <1>7 DEF TeInv

\* With the cursor before the text its line is the first.
LEMMA FirstLine ==
  ASSUME NEW buf, NEW len \in Int
  PROVE  CurLine(buf, 0, len) = 1
<1> DEFINE T == {i \in 0..(len - 1) : i < 0 /\ buf[i] = Break}
<1>1. T = {}
  OBVIOUS
<1>2. CurLine(buf, 0, len) = 1 + Cardinality(T)
  BY DEF CurLine
<1> HIDE DEF T
<1> QED  BY <1>1, <1>2, FS_EmptySet

LEMMA SampleIs == Sample \in TeBuf
<1>1. \A i \in 1..Len(TeSample) : TeSample[i] \in TeText
  BY TeTexts, ElementOfSeq
<1>2. Len(TeSample) \in Nat
  BY TeTexts
<1>3. ASSUME NEW i \in 0..(TeSize - 1), i < Len(TeSample) PROVE TeSample[i + 1] \in TeText
  <2>1. i + 1 \in 1..Len(TeSample)
    BY <1>2, <1>3
  <2> QED  BY <1>1, <2>1
<1> QED  BY <1>3, TeTexts DEF Sample, TeBuf, TeCells

LEMMA TeStarts == TeInit => TeInv
<1> SUFFICES ASSUME TeInit PROVE TeInv
  OBVIOUS
<1> USE TeSizes
<1>1. te_buffer = Sample /\ te_len = Len(TeSample) /\ te_cursor = 0 /\ te_scroll_y = 0 /\ te_text = TeSample
  BY DEF TeInit
<1>2. Len(TeSample) \in Nat
  BY TeTexts
<1>3. /\ \A i \in 0..(Len(TeSample) - 1) : Sample[i] = TeSample[i + 1]
      /\ Sample[Len(TeSample)] = "zero"
  BY <1>2 DEF Sample
<1>4. BufferIsText
  BY <1>1, <1>2, <1>3 DEF BufferIsText
<1>5. CursorShown
  BY <1>1, <1>2, FirstLine DEF CursorShown
<1> QED  BY <1>1, <1>4, <1>5, SampleIs, TeTexts DEF TeInv

LEMMA TeKeeps == TeInv /\ [TeNext]_teVars => TeInv'
<1> SUFFICES ASSUME TeInv, [TeNext]_teVars PROVE TeInv'
  OBVIOUS
<1> USE TeSizes
<1>0. /\ te_buffer \in TeBuf /\ te_text \in Seq(TeText) /\ te_scroll_y \in Int
      /\ te_len = Len(te_text) /\ te_len \in TeCells /\ te_cursor \in 0..te_len
      /\ \A i \in 0..(te_len - 1) : te_buffer[i] = te_text[i + 1]
  BY DEF TeInv, BufferIsText, TeCells
<1>1. CASE te_on_key_Backspace
  <2>1. te_cursor \in 1..te_len /\ te_cursor - 1 \in TeCells /\ te_len - 1 \in TeCells /\ te_cursor - 1 \in 0..(te_len - 1)
    BY <1>0, <1>1 DEF te_on_key_Backspace, TeCells
  <2>2. PICK buf : buf = ShiftLeft(te_buffer, te_cursor - 1, te_len - 1)
    OBVIOUS
  <2>3. /\ buf \in TeBuf
        /\ \A x \in TeCells : buf[x] = IF te_cursor - 1 <= x /\ x < te_len - 1 THEN te_buffer[x + 1] ELSE te_buffer[x]
    BY <1>0, <2>1, <2>2, ShiftLeftIs
  <2>4. PICK s : s = RemoveAt(te_text, te_cursor)
    OBVIOUS
  <2>5. /\ s \in Seq(TeText) /\ Len(s) = te_len - 1
        /\ \A x \in 1..(te_len - 1) : s[x] = IF x < te_cursor THEN te_text[x] ELSE te_text[x + 1]
    BY <1>0, <2>1, <2>4, RemoveAtIs
  <2>6. ASSUME NEW i \in 0..(te_len - 1 - 1) PROVE buf[i] = s[i + 1]
    <3>1. i \in TeCells /\ i + 1 \in 1..(te_len - 1) /\ i \in 0..(te_len - 1) /\ i + 1 \in 0..(te_len - 1) /\ i < te_len - 1
      BY <1>0 DEF TeCells
    <3>2. CASE te_cursor - 1 <= i
      <4>1. buf[i] = te_buffer[i + 1] /\ s[i + 1] = te_text[i + 1 + 1]
        BY <1>0, <2>3, <2>5, <3>1, <3>2 DEF TeCells
      <4> QED  BY <4>1, <3>1, <1>0
    <3>3. CASE ~(te_cursor - 1 <= i)
      <4>1. buf[i] = te_buffer[i] /\ s[i + 1] = te_text[i + 1]
        <5>1. ~(te_cursor - 1 <= i /\ i < te_len - 1) /\ i + 1 < te_cursor
          BY <1>0, <3>1, <3>3 DEF TeCells
        <5> QED  BY <2>3, <2>5, <3>1, <5>1
      <4> QED  BY <4>1, <3>1, <1>0
    <3> QED  BY <3>2, <3>3
  <2>7. Edited(buf, te_len - 1, te_cursor - 1) /\ te_text' = s
    BY <1>1, <2>2, <2>4 DEF te_on_key_Backspace
  <2> QED  BY <1>0, <2>1, <2>3, <2>5, <2>6, <2>7, EditedFacts
<1>2. ASSUME NEW key \in TeChars \cup {Break}, te_on_key_Insert(key) PROVE TeInv'
  <2>1. key \in TeText /\ te_len + 1 \in TeCells /\ te_cursor \in TeCells /\ te_cursor + 1 \in 0..(te_len + 1)
        /\ te_cursor + 1 \in 1..(te_len + 1)
    BY <1>0, <1>2, TeTexts DEF te_on_key_Insert, TeCells
  <2>2. PICK gap : gap = ShiftRight(te_buffer, te_len, te_cursor)
    OBVIOUS
  <2>3. /\ gap \in TeBuf
        /\ \A x \in TeCells : gap[x] = IF te_cursor < x /\ x <= te_len THEN te_buffer[x - 1] ELSE te_buffer[x]
    <3>1. te_cursor <= te_len
      BY <1>0 DEF TeCells
    <3>2. PICK from \in TeCells, to \in TeCells : from = te_len /\ to = te_cursor /\ to <= from
      BY <1>0, <2>1, <3>1
    <3>3. gap = ShiftRight(te_buffer, from, to)
      BY <2>2, <3>2
    <3>4. /\ ShiftRight(te_buffer, from, to) \in TeBuf
          /\ \A x \in TeCells : ShiftRight(te_buffer, from, to)[x] = IF to < x /\ x <= from THEN te_buffer[x - 1] ELSE te_buffer[x]
      BY <1>0, <3>2, ShiftRightIs, Zenon
    <3> QED  BY <3>2, <3>3, <3>4
  <2>4. PICK buf : buf = [gap EXCEPT ![te_cursor] = key]
    OBVIOUS
  <2>5. buf \in TeBuf /\ \A x \in TeCells : buf[x] = IF x = te_cursor THEN key ELSE gap[x]
    BY <2>1, <2>3, <2>4 DEF TeBuf
  <2>6. PICK s : s = InsertAt(te_text, te_cursor + 1, key)
    OBVIOUS
  <2>7. /\ s \in Seq(TeText) /\ Len(s) = te_len + 1
        /\ \A x \in 1..(te_len + 1) :
             s[x] = IF x < te_cursor + 1 THEN te_text[x] ELSE IF x = te_cursor + 1 THEN key ELSE te_text[x - 1]
    <3>1. PICK i : i = te_cursor + 1
      OBVIOUS
    <3>2. te_text \in Seq(TeText) /\ i \in 1..(Len(te_text) + 1) /\ key \in TeText
      BY <1>0, <2>1, <3>1
    <3>3. /\ InsertAt(te_text, i, key) \in Seq(TeText) /\ Len(InsertAt(te_text, i, key)) = Len(te_text) + 1
          /\ \A x \in 1..(Len(te_text) + 1) :
               InsertAt(te_text, i, key)[x] = IF x < i THEN te_text[x] ELSE IF x = i THEN key ELSE te_text[x - 1]
      <4>1. te_text \in Seq(TeText)
        BY <3>2
      <4>2. i \in 1..(Len(te_text) + 1)
        BY <3>2
      <4>3. key \in TeText
        BY <3>2
      <4> QED  BY ONLY <4>1, <4>2, <4>3, InsertAtIs
    <3>4. s = InsertAt(te_text, i, key)
      BY <2>6, <3>1
    <3> QED  BY <1>0, <3>1, <3>3, <3>4
  <2>8. ASSUME NEW i \in 0..(te_len + 1 - 1) PROVE buf[i] = s[i + 1]
    <3>1. i \in TeCells /\ i + 1 \in 1..(te_len + 1) /\ i <= te_len /\ i \in Int /\ te_cursor \in Int
      BY <1>0, <2>1 DEF TeCells
    <3>2. CASE i < te_cursor
      <4>1. buf[i] = te_buffer[i] /\ s[i + 1] = te_text[i + 1]
        BY <2>3, <2>5, <2>7, <3>1, <3>2
      <4>2. i \in 0..(te_len - 1)
        BY <1>0, <3>2 DEF TeCells
      <4> QED  BY <4>1, <4>2, <1>0
    <3>3. CASE i = te_cursor
      BY <2>5, <2>7, <3>1, <3>3
    <3>4. CASE te_cursor < i
      <4>1. buf[i] = te_buffer[i - 1] /\ s[i + 1] = te_text[i]
        BY <2>3, <2>5, <2>7, <3>1, <3>4
      <4>2. i - 1 \in 0..(te_len - 1) /\ (i - 1) + 1 = i
        BY <1>0, <3>4 DEF TeCells
      <4> QED  BY <4>1, <4>2, <1>0
    <3> QED  BY <3>1, <3>2, <3>3, <3>4
  <2>9. Edited(buf, te_len + 1, te_cursor + 1) /\ te_text' = s
    BY <1>2, <2>2, <2>4, <2>6 DEF te_on_key_Insert
  <2> QED  BY <1>0, <2>1, <2>5, <2>7, <2>8, <2>9, EditedFacts
<1>3. CASE app_text_editor_create
  <2>1. /\ te_buffer' = [i \in 0..(TeSize - 1) |-> IF i <= Len(TeSample) THEN Sample[i] ELSE te_buffer[i]]
        /\ te_len' = Len(TeSample) /\ te_cursor' = 0 /\ te_scroll_y' = 0 /\ te_text' = TeSample
    BY <1>3 DEF app_text_editor_create
  <2>2. Len(TeSample) \in Nat
    BY TeTexts
  <2>3. te_buffer' \in TeBuf /\ \A i \in 0..Len(TeSample) : te_buffer'[i] = Sample[i]
    BY <1>0, <2>1, <2>2, SampleIs DEF TeBuf, TeCells
  <2>4. /\ \A i \in 0..(Len(TeSample) - 1) : Sample[i] = TeSample[i + 1]
        /\ Sample[Len(TeSample)] = "zero"
    BY <2>2 DEF Sample
  <2>5. /\ \A i \in 0..(Len(TeSample) - 1) : te_buffer'[i] = TeSample[i + 1]
        /\ te_buffer'[Len(TeSample)] = "zero"
    BY <2>2, <2>3, <2>4
  <2>6. BufferIsText'
    <3>1. te_len' < TeSize /\ te_cursor' \in 0..te_len'
      BY <2>1, <2>2
    <3> QED  BY <2>1, <2>5, <3>1 DEF BufferIsText
  <2>7. CursorShown'
    BY <2>1, <2>2, FirstLine DEF CursorShown
  <2> QED  BY <2>1, <2>3, <2>6, <2>7, TeTexts DEF TeInv
<1>4. CASE UNCHANGED teVars
  BY <1>4 DEF teVars, TeInv, BufferIsText, CursorShown
<1> QED  BY <1>1, <1>2, <1>3, <1>4 DEF TeNext

(***************************************************************************)
(* The buffer of the editor is the text that was typed, however often the  *)
(* keys shift its bytes up and down.                                       *)
(***************************************************************************)
THEOREM BufferAlwaysText == TeSpec => []BufferIsText
<1>1. TeInv => BufferIsText
  BY DEF TeInv
<1> QED  BY <1>1, TeStarts, TeKeeps, PTL DEF TeSpec

(***************************************************************************)
(* The line of the cursor is always one of those drawn.                    *)
(***************************************************************************)
THEOREM CursorAlwaysShown == TeSpec => []CursorShown
<1>1. TeInv => CursorShown
  BY DEF TeInv
<1> QED  BY <1>1, TeStarts, TeKeeps, PTL DEF TeSpec
-----------------------------------------------------------------------------
(***************************************************************************)
(* The text screen and the shell, src/src/drivers/vga.c and kernel_shell   *)
(***************************************************************************)

ScreenChars ==
  ShellChars \cup Special \cup {" ", "^", "C"} \cup ToSet(Prompt) \cup ToSet(BootText)
  \cup UNION {ToSet(ShellPrints(cmd)) : cmd \in ShellInputs}

Rows   == 0..(TextHeight - 1)
Cols   == 0..(TextWidth - 1)
TextRow == [Cols -> ScreenChars]
Papers == UNION {[0..n -> TextRow] : n \in Nat}

\* A screen by its parts, and when the parts agree: the buffer is the end of the paper.
Screen(b, r, c, p, s) == [buffer |-> b, row |-> r, col |-> c, paper |-> p, scrolled |-> s]
Printed(b, p, s) ==
  /\ b \in [Rows -> TextRow] /\ s \in Nat /\ p \in [0..(TextHeight - 1 + s) -> TextRow]
  /\ \A i \in Rows : b[i] = p[i + s]

ScreenSet ==
  {v \in [buffer : [Rows -> TextRow], row : Rows, col : Cols, paper : Papers, scrolled : Nat] :
     Printed(v.buffer, v.paper, v.scrolled)}

LEMMA ConsoleSizes ==
  /\ TextWidth \in Nat /\ TextHeight \in Nat \ {0} /\ TabStop \in Nat \ {0} /\ ShellInput \in Nat \ {0}
  /\ Len(Prompt) \in 1..(TextWidth - 1)
BY ConsoleAssumption

LEMMA EndsLineIs ==
  ASSUME NEW str, EndsLine(str), ToSet(str) \subseteq ScreenChars
  PROVE  str \in Seq(ScreenChars) /\ str # <<>> /\ str[Len(str)] = "\n"
<1>1. str \in Seq(ToSet(str)) /\ str # <<>> /\ str[Len(str)] = "\n"
  BY DEF EndsLine
<1>2. str \in Seq(ScreenChars)
  BY <1>1, SeqMonotonic, Zenon
<1> QED  BY <1>1, <1>2

LEMMA ScreenTexts ==
  /\ ShellChars \subseteq ScreenChars /\ Special \subseteq ScreenChars
  /\ " " \in ScreenChars /\ "^" \in ScreenChars /\ "C" \in ScreenChars /\ "\n" \in ScreenChars
  /\ Prompt \in Seq(ScreenChars) /\ \A i \in 1..Len(Prompt) : Prompt[i] \notin Special
  /\ BootText \in Seq(ScreenChars) /\ BootText # <<>> /\ BootText[Len(BootText)] = "\n"
  /\ \A cmd \in ShellInputs :
       /\ ShellPrints(cmd) \in Seq(ScreenChars) /\ ShellPrints(cmd) # <<>>
       /\ ShellPrints(cmd)[Len(ShellPrints(cmd))] = "\n"
<1>1. /\ ShellChars \subseteq ScreenChars /\ Special \subseteq ScreenChars
      /\ " " \in ScreenChars /\ "^" \in ScreenChars /\ "C" \in ScreenChars
      /\ ToSet(Prompt) \subseteq ScreenChars /\ ToSet(BootText) \subseteq ScreenChars
      /\ \A cmd \in ShellInputs : ToSet(ShellPrints(cmd)) \subseteq ScreenChars
  BY Zenon DEF ScreenChars
<1>2. "\n" \in ScreenChars
  <2>1. "\n" \in Special
    BY Zenon DEF Special
  <2> QED  BY <1>1, <2>1, Zenon
<1> HIDE DEF ScreenChars
<1>3. /\ Prompt \in Seq(ToSet(Prompt)) /\ ToSet(Prompt) \cap Special = {}
      /\ EndsLine(BootText) /\ \A cmd \in ShellInputs : EndsLine(ShellPrints(cmd))
  BY ConsoleAssumption, Zenon
<1>4. Prompt \in Seq(ScreenChars)
  BY <1>1, <1>3, SeqMonotonic, Zenon
<1>5. ASSUME NEW i \in 1..Len(Prompt) PROVE Prompt[i] \notin Special
  <2>1. Prompt[i] \in ToSet(Prompt)
    BY <1>3, ElementOfSeq, Zenon
  <2> QED  BY <1>3, <2>1, Zenon
<1>6. BootText \in Seq(ScreenChars) /\ BootText # <<>> /\ BootText[Len(BootText)] = "\n"
  BY <1>1, <1>3, EndsLineIs, Zenon
<1>7. \A cmd \in ShellInputs :
        /\ ShellPrints(cmd) \in Seq(ScreenChars) /\ ShellPrints(cmd) # <<>>
        /\ ShellPrints(cmd)[Len(ShellPrints(cmd))] = "\n"
  BY <1>1, <1>3, EndsLineIs, Zenon
<1> QED  BY <1>1, <1>2, <1>4, <1>5, <1>6, <1>7, Zenon

LEMMA ScreenIs ==
  ASSUME NEW v \in ScreenSet
  PROVE  /\ v = Screen(v.buffer, v.row, v.col, v.paper, v.scrolled)
         /\ v.row \in Rows /\ v.col \in Cols /\ Printed(v.buffer, v.paper, v.scrolled)
BY DEF ScreenSet, Screen

LEMMA ScreenHas ==
  ASSUME NEW b, NEW r \in Rows, NEW c \in Cols, NEW p, NEW s, Printed(b, p, s)
  PROVE  /\ Screen(b, r, c, p, s) \in ScreenSet
<1>1. b \in [Rows -> TextRow] /\ s \in Nat /\ p \in [0..(TextHeight - 1 + s) -> TextRow] /\ TextHeight - 1 + s \in Nat
  BY ConsoleSizes DEF Printed
<1>2. p \in Papers
  BY <1>1 DEF Papers
<1> QED  BY <1>1, <1>2 DEF ScreenSet, Screen

LEMMA ScreenParts ==
  ASSUME NEW b, NEW r, NEW c, NEW p, NEW s
  PROVE  /\ Screen(b, r, c, p, s).buffer = b /\ Screen(b, r, c, p, s).row = r
         /\ Screen(b, r, c, p, s).col = c /\ Screen(b, r, c, p, s).paper = p
         /\ Screen(b, r, c, p, s).scrolled = s
BY DEF Screen

\* Scrolling takes the top row off the screen, not off the paper.
LEMMA ScrolledFacts ==
  ASSUME NEW b, NEW r \in 0..TextHeight, NEW c \in Cols, NEW p, NEW s, Printed(b, p, s)
  PROVE  /\ Scrolled(Screen(b, r, c, p, s)) \in ScreenSet
         /\ Scrolled(Screen(b, r, c, p, s)).col = c
         /\ r < TextHeight => Scrolled(Screen(b, r, c, p, s)) = Screen(b, r, c, p, s)
<1> USE ConsoleSizes
<1>1. CASE r < TextHeight
  <2>1. Scrolled(Screen(b, r, c, p, s)) = Screen(b, r, c, p, s)
    BY <1>1, ScreenParts DEF Scrolled
  <2>2. r \in Rows
    BY <1>1 DEF Rows
  <2> QED  BY <2>1, <2>2, ScreenHas, ScreenParts
<1>2. CASE ~(r < TextHeight)
  <2> DEFINE b2 == vga_scroll(b)
             p2 == [i \in 0..(TextHeight + s) |-> IF i \in DOMAIN p THEN p[i] ELSE BlankRow]
  <2>1. Scrolled(Screen(b, r, c, p, s)) = Screen(b2, TextHeight - 1, c, p2, s + 1)
    BY <1>2 DEF Scrolled, Screen
  <2>2. BlankRow \in TextRow
    BY ScreenTexts DEF BlankRow, TextRow, Cols
  <2>3. b2 \in [Rows -> TextRow] /\ \A i \in Rows : b2[i] = IF i + 1 < TextHeight THEN b[i + 1] ELSE BlankRow
    BY <2>2 DEF vga_scroll, Printed, Rows
  <2>4. s + 1 \in Nat /\ TextHeight - 1 + (s + 1) = TextHeight + s /\ DOMAIN p = 0..(TextHeight - 1 + s)
    BY DEF Printed
  <2>5. p2 \in [0..(TextHeight - 1 + (s + 1)) -> TextRow]
    BY <2>2, <2>4 DEF Printed
  <2>6. ASSUME NEW i \in Rows PROVE b2[i] = p2[i + (s + 1)]
    <3>1. i + (s + 1) \in 0..(TextHeight + s) /\ i \in Int /\ s \in Nat
      BY DEF Rows, Printed
    <3>2. CASE i + 1 < TextHeight
      <4>1. i + 1 \in Rows /\ i + (s + 1) = (i + 1) + s /\ i + (s + 1) \in DOMAIN p
        BY <2>4, <3>1, <3>2 DEF Rows
      <4>2. b2[i] = b[i + 1] /\ p2[i + (s + 1)] = p[i + (s + 1)]
        BY <2>3, <3>1, <3>2, <4>1
      <4> QED  BY <4>1, <4>2 DEF Printed
    <3>3. CASE ~(i + 1 < TextHeight)
      <4>1. i + (s + 1) \notin DOMAIN p
        BY <2>4, <3>1, <3>3 DEF Rows
      <4> QED  BY <2>3, <3>1, <3>3, <4>1
    <3> QED  BY <3>2, <3>3
  <2>7. Printed(b2, p2, s + 1)
    <3> HIDE DEF b2, p2
    <3> QED  BY <2>3, <2>4, <2>5, <2>6 DEF Printed
  <2>8. TextHeight - 1 \in Rows
    BY DEF Rows
  <2> HIDE DEF b2, p2
  <2> QED  BY <1>2, <2>1, <2>7, <2>8, ScreenHas, ScreenParts
<1> QED  BY <1>1, <1>2

\* What follows a character: the wrap at the end of a row and the scroll.
LEMMA SettledFacts ==
  ASSUME NEW b, NEW r \in Rows, NEW c \in Nat, NEW p, NEW s, Printed(b, p, s),
         NEW w, w = Scrolled(Wrapped(Screen(b, r, c, p, s)))
  PROVE  /\ w \in ScreenSet
         /\ c < TextWidth => w = Screen(b, r, c, p, s)
         /\ c >= TextWidth => w.col = 0
<1> USE ConsoleSizes
<1>1. CASE c < TextWidth
  <2>1. Wrapped(Screen(b, r, c, p, s)) = Screen(b, r, c, p, s)
    BY <1>1, ScreenParts DEF Wrapped
  <2>2. r \in 0..TextHeight /\ r < TextHeight /\ c \in Cols /\ ~(c >= TextWidth)
    BY <1>1 DEF Rows, Cols
  <2> QED  BY <2>1, <2>2, ScrolledFacts
<1>2. CASE ~(c < TextWidth)
  <2>1. Wrapped(Screen(b, r, c, p, s)) = Screen(b, r + 1, 0, p, s)
    <3>1. c >= TextWidth
      BY <1>2
    <3>2. PICK v : v = Screen(b, r, c, p, s)
      OBVIOUS
    <3>3. Wrapped(v) = [v EXCEPT !.col = 0, !.row = v.row + 1]
      BY <3>1, <3>2, ScreenParts DEF Wrapped
    <3> QED  BY <3>2, <3>3 DEF Screen
  <2>2. r + 1 \in 0..TextHeight /\ 0 \in Cols
    BY DEF Rows, Cols
  <2> QED  BY <1>2, <2>1, <2>2, ScrolledFacts
<1> QED  BY <1>1, <1>2

\* A cell written on the screen is written on the paper.
LEMMA CellFacts ==
  ASSUME NEW b, NEW r \in Rows, NEW c, NEW p, NEW s, Printed(b, p, s), NEW d \in Cols, NEW ch \in ScreenChars
  PROVE  \E b2, p2 : /\ Cell(Screen(b, r, c, p, s), d, ch) = Screen(b2, r, d, p2, s)
                     /\ Printed(b2, p2, s)
                     /\ b2[r] = [b[r] EXCEPT ![d] = ch]
<1> USE ConsoleSizes
<1>1. PICK q : q = [b[r] EXCEPT ![d] = ch]
  OBVIOUS
<1>2. PICK b2 : b2 = [b EXCEPT ![r] = q]
  OBVIOUS
<1>3. PICK p2 : p2 = [p EXCEPT ![r + s] = q]
  OBVIOUS
<1>4. b[r] = p[r + s] /\ b[r] \in TextRow /\ s \in Nat /\ r + s \in 0..(TextHeight - 1 + s)
  BY DEF Printed, Rows
<1>5. q \in TextRow
  BY <1>1, <1>4 DEF TextRow
<1>6. Cell(Screen(b, r, c, p, s), d, ch) = Screen(b2, r, d, p2, s)
  <2>1. b2 = [b EXCEPT ![r][d] = ch] /\ p2 = [p EXCEPT ![r + s][d] = ch]
    BY <1>1, <1>2, <1>3, <1>4
  <2>2. PICK v : v = Screen(b, r, c, p, s)
    OBVIOUS
  <2>3. v.buffer = b /\ v.row = r /\ v.paper = p /\ v.scrolled = s
    BY <2>2, ScreenParts
  <2>4. Cell(v, d, ch) = [v EXCEPT !.buffer[r][d] = ch, !.paper[r + s][d] = ch, !.col = d]
    BY <2>3, Zenon DEF Cell
  <2>5. Cell(v, d, ch) = [v EXCEPT !.buffer = [b EXCEPT ![r][d] = ch], !.paper = [p EXCEPT ![r + s][d] = ch], !.col = d]
    BY <2>3, <2>4, Zenon
  <2>6. Cell(v, d, ch) = [v EXCEPT !.buffer = b2, !.paper = p2, !.col = d]
    BY <2>1, <2>5, Zenon
  <2> QED  BY <2>2, <2>6 DEF Screen
<1>7. b2 \in [Rows -> TextRow] /\ b2[r] = q /\ p2 \in [0..(TextHeight - 1 + s) -> TextRow]
  BY <1>2, <1>3, <1>4, <1>5 DEF Printed
<1>8. ASSUME NEW i \in Rows PROVE b2[i] = p2[i + s]
  <2>1. i + s \in 0..(TextHeight - 1 + s) /\ (i = r <=> i + s = r + s)
    BY <1>4 DEF Rows
  <2>2. b[i] = p[i + s]
    BY DEF Printed
  <2> QED  BY <1>2, <1>3, <2>1, <2>2 DEF Printed
<1>9. Printed(b2, p2, s)
  BY <1>4, <1>7, <1>8 DEF Printed
<1> QED  BY <1>1, <1>6, <1>7, <1>9

LEMMA SpecialIs == Special = {"\n", "\t", Backspace} /\ Backspace # "\n" /\ Backspace # "\t"
BY DEF Special, Backspace

LEMMA TabIsNat ==
  ASSUME NEW c \in Nat
  PROVE  ((c + TabStop) \div TabStop) * TabStop \in Nat
<1>1. TabStop \in Nat /\ TabStop > 0 /\ c + TabStop \in Nat
  BY ConsoleSizes
<1>2. PICK q : q = (c + TabStop) \div TabStop
  OBVIOUS
<1>3. q \in Nat
  BY <1>1, <1>2
<1>4. q * TabStop \in Nat
  BY <1>1, <1>3
<1> QED  BY <1>2, <1>4

\* A newline takes the cursor to the start of the next row.
LEMMA NewlineFacts ==
  ASSUME NEW v \in ScreenSet, NEW w, w = vga_putchar(v, "\n")
  PROVE  w \in ScreenSet /\ w.col = 0
<1> USE ConsoleSizes
<1>1. PICK b, r, c, p, s : /\ v = Screen(b, r, c, p, s) /\ r \in Rows /\ c \in Cols /\ Printed(b, p, s)
                           /\ v.buffer = b /\ v.row = r /\ v.col = c
  BY ScreenIs
<1>2. "\n" # "\t" /\ "\n" # Backspace
  BY SpecialIs
<1>3. Typeset(v, "\n") = [v EXCEPT !.col = 0, !.row = v.row + 1]
  BY <1>2, Zenon DEF Typeset
<1>4. Typeset(v, "\n") = Screen(b, r + 1, 0, p, s)
  BY <1>1, <1>3 DEF Screen
<1>5. Wrapped(Screen(b, r + 1, 0, p, s)) = Screen(b, r + 1, 0, p, s)
  BY ScreenParts DEF Wrapped
<1>6. r + 1 \in 0..TextHeight /\ 0 \in Cols
  BY <1>1 DEF Rows, Cols
<1>7. w = Scrolled(Screen(b, r + 1, 0, p, s))
  BY <1>4, <1>5 DEF vga_putchar
<1> QED  BY <1>1, <1>6, <1>7, ScrolledFacts

\* A tab may go past the end of the row, which wraps.
LEMMA TabFacts ==
  ASSUME NEW v \in ScreenSet, NEW w, w = vga_putchar(v, "\t")
  PROVE  w \in ScreenSet
<1> USE ConsoleSizes
<1>1. PICK b, r, c, p, s : /\ v = Screen(b, r, c, p, s) /\ r \in Rows /\ c \in Cols /\ Printed(b, p, s)
                           /\ v.buffer = b /\ v.row = r /\ v.col = c
  BY ScreenIs
<1>2. c \in Nat /\ r \in Nat /\ c < TextWidth
  BY <1>1 DEF Cols, Rows
<1>3. w = Scrolled(Wrapped(Typeset(v, "\t")))
  BY DEF vga_putchar
<1>4. PICK d : d = ((v.col + TabStop) \div TabStop) * TabStop
  OBVIOUS
<1>5. Typeset(v, "\t") = [v EXCEPT !.col = d]
  <2>1. "\t" # "\n" /\ "\t" # Backspace
    BY SpecialIs
  <2> QED  BY <2>1, <1>4, Zenon DEF Typeset
<1>6. Typeset(v, "\t") = Screen(b, r, d, p, s)
  BY <1>5, <1>1 DEF Screen
<1>7. d \in Nat
  BY <1>1, <1>2, <1>4, TabIsNat
<1>8. w \in ScreenSet
  BY <1>1, <1>3, <1>6, <1>7, SettledFacts
<1> QED  BY <1>8

\* A backspace blanks the cell before the cursor, but never leaves the row.
LEMMA BackspaceFacts ==
  ASSUME NEW v \in ScreenSet, NEW w, w = vga_putchar(v, Backspace)
  PROVE  /\ w \in ScreenSet
         /\ v.col > 0 =>
              /\ w.col = v.col - 1 /\ w.row = v.row
              /\ w.buffer[w.row] = [v.buffer[v.row] EXCEPT ![v.col - 1] = " "]
<1> USE ConsoleSizes
<1>1. PICK b, r, c, p, s : /\ v = Screen(b, r, c, p, s) /\ r \in Rows /\ c \in Cols /\ Printed(b, p, s)
                           /\ v.buffer = b /\ v.row = r /\ v.col = c
  BY ScreenIs
<1>2. c \in Nat /\ r \in Nat /\ c < TextWidth
  BY <1>1 DEF Cols, Rows
<1>3. w = Scrolled(Wrapped(Typeset(v, Backspace)))
  BY DEF vga_putchar
<1>4. Backspace # "\n" /\ Backspace # "\t" /\ Backspace \in Special
  BY SpecialIs
<1>5. Typeset(v, Backspace) = IF v.col > 0 THEN Cell(v, v.col - 1, " ") ELSE v
  BY <1>4, Zenon DEF Typeset
<1>6. CASE c > 0
  <2>1. c - 1 \in Cols /\ c - 1 \in Nat /\ c - 1 < TextWidth
    BY <1>6, <1>2 DEF Cols
  <2>2. Typeset(v, Backspace) = Cell(Screen(b, r, c, p, s), c - 1, " ")
    BY <1>1, <1>5, <1>6
  <2>3. PICK b2, p2 : /\ Typeset(v, Backspace) = Screen(b2, r, c - 1, p2, s) /\ Printed(b2, p2, s)
                      /\ b2[r] = [b[r] EXCEPT ![c - 1] = " "]
    <3>1. PICK d \in Cols, blank \in ScreenChars : d = c - 1 /\ blank = " "
      BY <2>1, ScreenTexts
    <3>3. r \in Rows /\ Printed(b, p, s) /\ d \in Cols /\ blank \in ScreenChars
      BY <1>1, <3>1
    <3>2. PICK b2, p2 : /\ Cell(Screen(b, r, c, p, s), d, blank) = Screen(b2, r, d, p2, s) /\ Printed(b2, p2, s)
                        /\ b2[r] = [b[r] EXCEPT ![d] = blank]
      BY <3>3, CellFacts
    <3> QED  BY <2>2, <3>1, <3>2
  <2>4. w \in ScreenSet /\ w = Screen(b2, r, c - 1, p2, s)
    <3>1. PICK d \in Nat : d = c - 1 /\ d < TextWidth
      BY <2>1
    <3>2. w = Scrolled(Wrapped(Screen(b2, r, d, p2, s)))
      BY <1>3, <2>3, <3>1
    <3>3. w \in ScreenSet /\ w = Screen(b2, r, d, p2, s)
      <4>1. r \in Rows /\ Printed(b2, p2, s) /\ d \in Nat /\ d < TextWidth
        BY <1>1, <2>3, <3>1
      <4> QED  BY <3>2, <4>1, SettledFacts, Zenon
    <3> QED  BY <3>1, <3>3
  <2>5. w.col = c - 1 /\ w.row = r /\ w.buffer = b2
    BY <2>4, ScreenParts
  <2> QED  BY <1>1, <2>3, <2>4, <2>5
<1>7. CASE ~(c > 0)
  <2>1. Typeset(v, Backspace) = Screen(b, r, c, p, s)
    BY <1>1, <1>5, <1>7
  <2>2. w \in ScreenSet
    BY <1>1, <1>2, <1>3, <2>1, SettledFacts
  <2> QED  BY <1>1, <1>7, <2>2
<1> QED  BY <1>6, <1>7

\* Any other character is written at the cursor, which moves on.
LEMMA CharFacts ==
  ASSUME NEW v \in ScreenSet, NEW ch \in ScreenChars, ch \notin Special, NEW w, w = vga_putchar(v, ch)
  PROVE  /\ w \in ScreenSet
         /\ v.col + 1 < TextWidth =>
              /\ w.col = v.col + 1 /\ w.row = v.row
              /\ w.buffer[w.row] = [v.buffer[v.row] EXCEPT ![v.col] = ch]
         /\ v.col + 1 >= TextWidth => w.col = 0
<1> USE ConsoleSizes
<1>1. PICK b, r, c, p, s : /\ v = Screen(b, r, c, p, s) /\ r \in Rows /\ c \in Cols /\ Printed(b, p, s)
                           /\ v.buffer = b /\ v.row = r /\ v.col = c
  BY ScreenIs
<1>2. c \in Nat /\ r \in Nat /\ c < TextWidth
  BY <1>1 DEF Cols, Rows
<1>3. w = Scrolled(Wrapped(Typeset(v, ch)))
  BY DEF vga_putchar
<1>4. ch # "\n" /\ ch # "\t" /\ ch # Backspace
  BY SpecialIs
<1>5. PICK u : u = Cell(v, v.col, ch)
  OBVIOUS
<1>6. Typeset(v, ch) = [u EXCEPT !.col = u.col + 1]
  BY <1>4, <1>5, Zenon DEF Typeset
<1>7. PICK b2, p2 : /\ u = Screen(b2, r, c, p2, s) /\ Printed(b2, p2, s)
                    /\ b2[r] = [b[r] EXCEPT ![c] = ch]
  BY <1>1, <1>5, CellFacts
<1>8. Typeset(v, ch) = Screen(b2, r, c + 1, p2, s)
  BY <1>6, <1>7 DEF Screen
<1>9. /\ w \in ScreenSet
      /\ c + 1 < TextWidth => w = Screen(b2, r, c + 1, p2, s)
      /\ c + 1 >= TextWidth => w.col = 0
  BY <1>1, <1>2, <1>3, <1>7, <1>8, SettledFacts
<1>10. c + 1 < TextWidth => w.col = c + 1 /\ w.row = r /\ w.buffer = b2
  BY <1>9, ScreenParts
<1> QED  BY <1>1, <1>7, <1>9, <1>10

LEMMA PutcharFacts ==
  ASSUME NEW v \in ScreenSet, NEW ch \in ScreenChars
  PROVE  vga_putchar(v, ch) \in ScreenSet
<1>1. CASE ch = "\n"
  BY <1>1, NewlineFacts
<1>2. CASE ch = "\t"
  BY <1>2, TabFacts
<1>3. CASE ch = Backspace
  BY <1>3, BackspaceFacts
<1>4. CASE ch \notin Special
  BY <1>4, CharFacts
<1> QED  BY <1>1, <1>2, <1>3, <1>4, SpecialIs

\* The loop of vga_puts runs as it is written.
LEMMA ScreensRun ==
  ASSUME NEW v \in ScreenSet, NEW str \in Seq(ScreenChars)
  PROVE  /\ Screens(v, str) \in [0..Len(str) -> ScreenSet] /\ Screens(v, str)[0] = v
         /\ \A k \in 1..Len(str) : Screens(v, str)[k] = vga_putchar(Screens(v, str)[k - 1], str[k])
<1> DEFINE n == Len(str)
           f == Screens(v, str)
           step == [k \in 1..n |-> [x \in ScreenSet |-> vga_putchar(x, str[k])]]
<1>1. step \in [1..n -> [ScreenSet -> ScreenSet]] /\ n \in Nat
  <2>1. ASSUME NEW k \in 1..n, NEW x \in ScreenSet PROVE vga_putchar(x, str[k]) \in ScreenSet
    <3>1. str[k] \in ScreenChars
      OBVIOUS
    <3> QED  BY <3>1, PutcharFacts
  <2> QED  BY <2>1
<1>2. PICK g \in [0..n -> ScreenSet] : RunOf(g, v, n, step)
  BY <1>1, LoopRuns
<1>3. g = [k \in 0..n |-> IF k = 0 THEN v ELSE vga_putchar(g[k - 1], str[k])]
  BY <1>2 DEF RunOf
<1>4. f = CHOOSE h : h = [k \in 0..n |-> IF k = 0 THEN v ELSE vga_putchar(h[k - 1], str[k])]
  BY DEF Screens
<1>5. f = [k \in 0..n |-> IF k = 0 THEN v ELSE vga_putchar(f[k - 1], str[k])]
  BY <1>3, <1>4, Zenon
<1> HIDE DEF f
<1>6. f[0] = v /\ \A k \in 1..n : f[k] = vga_putchar(f[k - 1], str[k])
  BY <1>5
<1> DEFINE S == {k \in 0..n : f[k] \in ScreenSet}
<1>7. ASSUME NEW k \in 1..n, k - 1 \in S PROVE k \in S
  <2>1. f[k - 1] \in ScreenSet /\ str[k] \in ScreenChars
    BY <1>7
  <2>2. f[k] = vga_putchar(f[k - 1], str[k])
    BY <1>6
  <2>3. f[k] \in ScreenSet
    <3>1. PICK x, ch : x = f[k - 1] /\ ch = str[k]
      OBVIOUS
    <3> QED  BY <2>1, <2>2, <3>1, PutcharFacts
  <2> QED  BY <2>3
<1>8. 0..n \subseteq S
  <2>1. 0 \in S
    BY <1>6
  <2> HIDE DEF S
  <2> QED  BY <2>1, <1>7, <1>1, Induction
<1>9. f \in [0..n -> ScreenSet]
  BY <1>5, <1>8
<1> QED  BY <1>6, <1>9 DEF f

\* Printing keeps the screen sound, and a text that ends its line leaves the
\* cursor at the start of one.
LEMMA PutsFacts ==
  ASSUME NEW v \in ScreenSet, NEW str \in Seq(ScreenChars)
  PROVE  /\ vga_puts(v, str) \in ScreenSet
         /\ str # <<>> /\ str[Len(str)] = "\n" => vga_puts(v, str).col = 0
<1> DEFINE n == Len(str)
<1>1. PICK f : f = Screens(v, str)
  OBVIOUS
<1>2. f \in [0..n -> ScreenSet] /\ \A k \in 1..n : f[k] = vga_putchar(f[k - 1], str[k])
  BY <1>1, ScreensRun
<1>3. vga_puts(v, str) = f[n] /\ n \in Nat
  BY <1>1 DEF vga_puts
<1>4. f[n] \in ScreenSet
  BY <1>2, <1>3
<1>5. ASSUME str # <<>>, str[n] = "\n" PROVE f[n].col = 0
  <2>1. n \in 1..n /\ n - 1 \in 0..n
    BY <1>3, <1>5
  <2>2. f[n] = vga_putchar(f[n - 1], str[n]) /\ f[n - 1] \in ScreenSet
    BY <1>2, <2>1
  <2>3. f[n] = vga_putchar(f[n - 1], "\n")
    BY <2>2, <1>5
  <2> QED  BY <2>2, <2>3, NewlineFacts
<1> QED  BY <1>3, <1>4, <1>5

\* The prompt stands at the start of a row.
LEMMA PromptFacts ==
  ASSUME NEW v \in ScreenSet, v.col = 0
  PROVE  vga_puts(v, Prompt) \in ScreenSet /\ vga_puts(v, Prompt).col = Len(Prompt)
<1> DEFINE n == Len(Prompt)
<1>0. Prompt \in Seq(ScreenChars) /\ n \in Nat /\ n < TextWidth /\ \A k \in 1..n : Prompt[k] \notin Special
  <2>1. Prompt \in Seq(ScreenChars) /\ \A k \in 1..Len(Prompt) : Prompt[k] \notin Special
    BY ScreenTexts
  <2>2. n \in Nat /\ n < TextWidth
    BY ConsoleSizes
  <2> QED  BY <2>1, <2>2
<1>1. PICK f : f = Screens(v, Prompt)
  OBVIOUS
<1>2. f \in [0..n -> ScreenSet] /\ f[0] = v /\ \A k \in 1..n : f[k] = vga_putchar(f[k - 1], Prompt[k])
  BY <1>0, <1>1, ScreensRun
<1> DEFINE S == {k \in 0..n : f[k].col = k}
<1>3. ASSUME NEW k \in 1..n, k - 1 \in S PROVE k \in S
  <2>1. /\ f[k - 1] \in ScreenSet /\ f[k - 1].col = k - 1 /\ f[k] = vga_putchar(f[k - 1], Prompt[k])
        /\ Prompt[k] \in ScreenChars /\ Prompt[k] \notin Special
    BY <1>0, <1>2, <1>3
  <2>2. f[k - 1].col + 1 < TextWidth
    BY <1>0, <2>1, ConsoleSizes
  <2>3. f[k].col = f[k - 1].col + 1
    BY <2>1, <2>2, CharFacts
  <2> QED  BY <2>1, <2>3
<1>4. 0 \in S
  BY <1>0, <1>2
<1>5. n \in S
  <2> HIDE DEF S
  <2>1. 0..n \subseteq S
    BY <1>0, <1>3, <1>4, Induction
  <2> QED  BY <1>0, <2>1
<1>6. vga_puts(v, Prompt) = f[n]
  BY <1>1 DEF vga_puts
<1> QED  BY <1>0, <1>2, <1>5, <1>6

LEMMA ShellInputIs ==
  ASSUME NEW line
  PROVE  line \in ShellInputs <=> line \in Seq(ShellChars) /\ Len(line) < ShellInput
BY ConsoleSizes DEF ShellInputs

LEMMA EmptyLine == <<>> \in ShellInputs
<1>1. PICK e : e = <<>>
  OBVIOUS
<1>2. e \in Seq(ShellChars) /\ Len(e) = 0
  BY <1>1
<1>3. Len(e) < ShellInput
  BY <1>2, ConsoleSizes
<1> QED  BY <1>1, <1>2, <1>3, ShellInputIs, Zenon

LEMMA ClearFacts == vga_clear \in ScreenSet /\ vga_clear.col = 0
<1> USE ConsoleSizes
<1>1. PICK b : b = [r \in 0..(TextHeight - 1) |-> BlankRow]
  OBVIOUS
<1>2. vga_clear = Screen(b, 0, 0, b, 0)
  BY <1>1 DEF vga_clear, Screen
<1>3. BlankRow \in TextRow
  BY ScreenTexts DEF BlankRow, TextRow, Cols
<1>4. Printed(b, b, 0)
  BY <1>1, <1>3 DEF Printed, Rows
<1>5. 0 \in Rows /\ 0 \in Cols
  BY DEF Rows, Cols
<1> QED  BY <1>2, <1>4, <1>5, ScreenHas, ScreenParts

LEMMA BootFacts ==
  vga_puts(vga_clear, BootText) \in ScreenSet /\ vga_puts(vga_clear, BootText).col = 0
<1>1. BootText \in Seq(ScreenChars) /\ BootText # <<>> /\ BootText[Len(BootText)] = "\n"
  BY ScreenTexts
<1> QED  BY <1>1, ClearFacts, PutsFacts

ConsoleInv ==
  /\ vga \in ScreenSet /\ input \in ShellInputs /\ straight \in BOOLEAN
  /\ EchoShown

\* An empty line behind the prompt is an empty input.
LEMMA PromptedFacts ==
  ASSUME NEW v \in ScreenSet, v.col = 0, Prompted(v)
  PROVE  ConsoleInv'
<1>1. vga' \in ScreenSet /\ vga'.col = Len(Prompt) /\ input' = <<>> /\ straight' = TRUE
  BY PromptFacts DEF Prompted
<1>2. PICK e : e = <<>>
  OBVIOUS
<1>3. Len(e) = 0 /\ DOMAIN e = {}
  BY <1>2
<1>4. Len(Prompt) \in Nat
  BY ConsoleSizes
<1>5. EchoShown'
  <2>1. input' = e
    BY <1>1, <1>2
  <2>2. vga'.col = Len(Prompt) + Len(input')
    BY <1>1, <1>3, <1>4, <2>1
  <2> QED  BY <1>3, <2>1, <2>2 DEF EchoShown
<1>6. input' \in ShellInputs
  BY <1>1, EmptyLine
<1> QED  BY <1>1, <1>5, <1>6 DEF ConsoleInv

LEMMA ConsoleStarts == ConsoleInit => ConsoleInv
<1> SUFFICES ASSUME ConsoleInit PROVE ConsoleInv
  OBVIOUS
<1>1. vga \in ScreenSet /\ vga.col = Len(Prompt) /\ input = <<>> /\ straight = TRUE
  BY BootFacts, PromptFacts DEF ConsoleInit, ShellBoot
<1>2. PICK e : e = <<>>
  OBVIOUS
<1>3. Len(e) = 0 /\ DOMAIN e = {}
  BY <1>2
<1>4. Len(Prompt) \in Nat
  BY ConsoleSizes
<1>5. EchoShown
  <2>1. input = e
    BY <1>1, <1>2
  <2>2. vga.col = Len(Prompt) + Len(input)
    BY <1>1, <1>3, <1>4, <2>1
  <2> QED  BY <1>3, <2>1, <2>2 DEF EchoShown
<1>6. input \in ShellInputs
  BY <1>1, EmptyLine
<1> QED  BY <1>1, <1>5, <1>6 DEF ConsoleInv

LEMMA CtrlCText ==
  \E str \in Seq(ScreenChars) : str = <<"^", "C", "\n">> /\ str # <<>> /\ str[Len(str)] = "\n"
<1>1. PICK nl : nl = "\n"
  OBVIOUS
<1>2. "^" \in ScreenChars /\ "C" \in ScreenChars /\ nl \in ScreenChars
  BY <1>1, ScreenTexts
<1>3. PICK str : str = <<"^", "C", nl>>
  OBVIOUS
<1>4. str \in Seq(ScreenChars)
  BY <1>2, <1>3, ThreeChars, Zenon
<1>5. Len(str) = 3 /\ str[3] = nl /\ str # <<>>
  BY <1>3
<1>6. str[Len(str)] = "\n"
  BY <1>1, <1>5
<1> QED  BY <1>1, <1>3, <1>4, <1>5, <1>6, Zenon

LEMMA ConsoleKeeps == ConsoleInv /\ [ConsoleNext]_consoleVars => ConsoleInv'
<1> SUFFICES ASSUME ConsoleInv, [ConsoleNext]_consoleVars PROVE ConsoleInv'
  OBVIOUS
<1> USE ConsoleSizes
<1>0. vga \in ScreenSet /\ input \in ShellInputs /\ straight \in BOOLEAN /\ EchoShown
  BY DEF ConsoleInv
<1>a. input \in Seq(ShellChars) /\ Len(input) \in Nat /\ Len(input) < ShellInput
  <2>1. input \in Seq(ShellChars) /\ Len(input) < ShellInput
    BY <1>0, ShellInputIs
  <2> QED  BY <2>1
<1>b. vga.col \in Cols /\ vga.row \in Rows /\ vga.buffer[vga.row] \in [Cols -> ScreenChars]
  BY <1>0, ScreenIs DEF Printed, TextRow
<1>c. DOMAIN input = 1..Len(input) /\ Len(Prompt) \in Nat
  BY <1>a
<1>1. CASE kernel_shell_Enter
  <2>1. PICK v : v = vga_putchar(vga, "\n")
    OBVIOUS
  <2>2. v \in ScreenSet /\ v.col = 0
    BY <1>0, <2>1, NewlineFacts
  <2>4. ShellPrints(input) \in Seq(ScreenChars) /\ ShellPrints(input) # <<>>
        /\ ShellPrints(input)[Len(ShellPrints(input))] = "\n"
    BY <1>0, ScreenTexts
  <2>5. vga_puts(v, ShellPrints(input)) \in ScreenSet /\ vga_puts(v, ShellPrints(input)).col = 0
    BY <2>2, <2>4, PutsFacts
  <2>6. \/ Prompted(v) \/ Prompted(vga_clear) \/ Prompted(vga_puts(vga_clear, BootText))
        \/ Prompted(vga_puts(v, ShellPrints(input)))
    BY <1>1, <2>1 DEF kernel_shell_Enter
  <2> QED  BY <2>2, <2>5, <2>6, ClearFacts, BootFacts, PromptedFacts
<1>2. CASE kernel_shell_CtrlC
  <2>1. PICK str \in Seq(ScreenChars) : str = <<"^", "C", "\n">> /\ str # <<>> /\ str[Len(str)] = "\n"
    BY CtrlCText
  <2>2. vga_puts(vga, str) \in ScreenSet /\ vga_puts(vga, str).col = 0
    BY <1>0, <2>1, PutsFacts
  <2>3. Prompted(vga_puts(vga, str))
    BY <1>2, <2>1 DEF kernel_shell_CtrlC
  <2> QED  BY <2>2, <2>3, PromptedFacts
<1>3. CASE kernel_shell_Backspace
  <2>1. input # <<>> /\ input' = Front(input) /\ vga' = vga_putchar(vga, Backspace) /\ straight' = straight
    BY <1>3 DEF kernel_shell_Backspace
  <2>2. Backspace \in ScreenChars /\ Backspace \in Special
    BY SpecialIs, ScreenTexts
  <2>3. /\ vga' \in ScreenSet
        /\ vga.col > 0 =>
             /\ vga'.col = vga.col - 1 /\ vga'.row = vga.row
             /\ vga'.buffer[vga'.row] = [vga.buffer[vga.row] EXCEPT ![vga.col - 1] = " "]
    <3>1. PICK v, w : v = vga /\ w = vga_putchar(v, Backspace)
      OBVIOUS
    <3>2. v \in ScreenSet
      BY <1>0, <3>1
    <3>3. /\ w \in ScreenSet
          /\ v.col > 0 =>
               /\ w.col = v.col - 1 /\ w.row = v.row
               /\ w.buffer[w.row] = [v.buffer[v.row] EXCEPT ![v.col - 1] = " "]
      BY <3>1, <3>2, BackspaceFacts
    <3>4. w = vga'
      BY <2>1, <3>1
    <3> QED  BY <3>1, <3>3, <3>4
  <2>4. PICK l : l = Front(input)
    OBVIOUS
  <2>5. /\ l \in Seq(ShellChars) /\ Len(l) = Len(input) - 1 /\ Len(input) > 0 /\ DOMAIN l = 1..(Len(input) - 1)
        /\ \A i \in 1..(Len(input) - 1) : l[i] = input[i]
    <3>1. Len(input) > 0
      BY <1>a, <2>1
    <3>2. l = SubSeq(input, 1, Len(input) - 1)
      BY <2>4 DEF Front
    <3>3. \A i \in 1..(Len(input) - 1) : input[i] \in ShellChars
      BY <1>a, ElementOfSeq
    <3>4. /\ l \in Seq(ShellChars) /\ Len(l) = IF 1 <= Len(input) - 1 THEN Len(input) - 1 - 1 + 1 ELSE 0
          /\ \A i \in 1..(Len(input) - 1 - 1 + 1) : l[i] = input[1 + i - 1]
      BY <1>a, <3>2, <3>3, SubSeqProperties
    <3>5. Len(l) = Len(input) - 1 /\ \A i \in 1..(Len(input) - 1) : l[i] = input[i]
      <4>1. PICK n \in Nat : n = Len(input) /\ n > 0
        BY <1>a, <3>1
      <4>2. Len(l) = (IF 1 <= n - 1 THEN n - 1 - 1 + 1 ELSE 0) /\ \A i \in 1..(n - 1 - 1 + 1) : l[i] = input[1 + i - 1]
        BY <3>4, <4>1
      <4>3. Len(l) = n - 1
        BY <4>1, <4>2
      <4>4. ASSUME NEW i \in 1..(n - 1) PROVE l[i] = input[i]
        <5>1. i \in 1..(n - 1 - 1 + 1) /\ 1 + i - 1 = i
          BY <4>1
        <5> QED  BY <4>2, <5>1
      <4> QED  BY <4>1, <4>3, <4>4
    <3> QED  BY <3>1, <3>4, <3>5
  <2>6. input' \in ShellInputs
    <3>1. l \in Seq(ShellChars) /\ Len(l) < ShellInput
      BY <1>a, <2>5
    <3> QED  BY <2>1, <2>4, <3>1, ShellInputIs
  <2>7. ASSUME straight PROVE /\ vga'.col = Len(Prompt) + Len(input')
                              /\ \A i \in DOMAIN input' : vga'.buffer[vga'.row][Len(Prompt) + i - 1] = input'[i]
    <3>1. /\ vga.col = Len(Prompt) + Len(input)
          /\ \A i \in 1..Len(input) : vga.buffer[vga.row][Len(Prompt) + i - 1] = input[i]
      BY <1>0, <1>c, <2>7 DEF EchoShown
    <3>2. vga.col > 0
      BY <1>a, <1>c, <3>1
    <3>3. vga'.col = Len(Prompt) + Len(l)
      <4>1. vga'.col = vga.col - 1
        BY <2>3, <3>2
      <4>2. vga.col - 1 = Len(Prompt) + (Len(input) - 1)
        BY <1>a, <1>c, <3>1
      <4> QED  BY <2>5, <4>1, <4>2
    <3>4. ASSUME NEW i \in 1..(Len(input) - 1)
          PROVE  vga'.buffer[vga'.row][Len(Prompt) + i - 1] = l[i]
      <4>1. PICK q : q = vga.buffer[vga.row] /\ q \in [Cols -> ScreenChars]
        BY <1>b
      <4>2. vga'.buffer[vga'.row] = [q EXCEPT ![vga.col - 1] = " "]
        BY <2>3, <3>2, <4>1
      <4>3. Len(Prompt) + i - 1 \in Cols /\ Len(Prompt) + i - 1 # vga.col - 1 /\ i \in 1..Len(input)
        BY <1>a, <1>b, <1>c, <3>1 DEF Cols
      <4>4. vga'.buffer[vga'.row][Len(Prompt) + i - 1] = q[Len(Prompt) + i - 1]
        BY <4>1, <4>2, <4>3
      <4> QED  BY <2>5, <3>1, <4>1, <4>3, <4>4
    <3> QED  BY <2>1, <2>4, <2>5, <3>3, <3>4
  <2>8. EchoShown'
    BY <2>1, <2>7 DEF EchoShown
  <2> QED  BY <1>0, <2>1, <2>3, <2>6, <2>8 DEF ConsoleInv
<1>4. ASSUME NEW c \in ShellChars, kernel_shell_Char(c) PROVE ConsoleInv'
  <2>0. straight' = (straight /\ c # "\t" /\ vga'.col >= vga.col)
    BY <1>4 DEF kernel_shell_Char
  <2>1. straight' \in BOOLEAN /\ (straight' => straight /\ c # "\t" /\ vga'.col >= vga.col)
    BY <2>0, Zenon
  <2>2. CASE ~(Len(input) < ShellInput - 1)
    <3>1. input' = input /\ vga' = vga
      BY <1>4, <2>2 DEF kernel_shell_Char, Echo
    <3>2. EchoShown'
      BY <1>0, <2>1, <3>1 DEF EchoShown
    <3> QED  BY <1>0, <2>1, <3>1, <3>2 DEF ConsoleInv
  <2>3. CASE Len(input) < ShellInput - 1
    <3>1. input' = Append(input, c) /\ vga' = vga_putchar(vga, c)
      BY <1>4, <2>3 DEF kernel_shell_Char, Echo
    <3>2. c \in ScreenChars /\ (c # "\t" => c \notin Special)
      <4>1. ShellChars \cap Special \subseteq {"\t"}
        BY ConsoleAssumption, Zenon
      <4> QED  BY <4>1, ScreenTexts
    <3>3. /\ vga' \in ScreenSet
          /\ c \notin Special /\ vga.col + 1 < TextWidth =>
               /\ vga'.col = vga.col + 1 /\ vga'.row = vga.row
               /\ vga'.buffer[vga'.row] = [vga.buffer[vga.row] EXCEPT ![vga.col] = c]
          /\ c \notin Special /\ vga.col + 1 >= TextWidth => vga'.col = 0
      <4>1. PICK v, w : v = vga /\ w = vga_putchar(v, c)
        OBVIOUS
      <4>2. v \in ScreenSet
        BY <1>0, <4>1
      <4>3. vga_putchar(v, c) \in ScreenSet
        BY <3>2, <4>2, PutcharFacts
      <4>5. ASSUME c \notin Special
            PROVE  /\ v.col + 1 < TextWidth =>
                        /\ w.col = v.col + 1 /\ w.row = v.row
                        /\ w.buffer[w.row] = [v.buffer[v.row] EXCEPT ![v.col] = c]
                   /\ v.col + 1 >= TextWidth => w.col = 0
        BY <3>2, <4>1, <4>2, <4>5, CharFacts
      <4>4. w = vga'
        BY <3>1, <4>1
      <4> QED  BY <4>1, <4>3, <4>4, <4>5
    <3>4. PICK l : l = Append(input, c)
      OBVIOUS
    <3>5. /\ l \in Seq(ShellChars) /\ Len(l) = Len(input) + 1 /\ DOMAIN l = 1..(Len(input) + 1)
          /\ l[Len(input) + 1] = c /\ \A i \in 1..Len(input) : l[i] = input[i]
      BY <1>a, <3>4
    <3>6. input' \in ShellInputs
      <4>1. l \in Seq(ShellChars) /\ Len(l) < ShellInput
        BY <1>a, <2>3, <3>5
      <4> QED  BY <3>1, <3>4, <4>1, ShellInputIs
    <3>7. ASSUME straight'
          PROVE  /\ vga'.col = Len(Prompt) + Len(input')
                 /\ \A i \in DOMAIN input' : vga'.buffer[vga'.row][Len(Prompt) + i - 1] = input'[i]
      <4>1. straight /\ c \notin Special /\ vga'.col >= vga.col
        BY <2>1, <3>2, <3>7
      <4>2. /\ vga.col = Len(Prompt) + Len(input)
            /\ \A i \in 1..Len(input) : vga.buffer[vga.row][Len(Prompt) + i - 1] = input[i]
        BY <1>0, <1>c, <4>1 DEF EchoShown
      <4>3. vga.col > 0 /\ vga.col \in Nat
        BY <1>a, <1>c, <4>2
      <4>4. vga.col + 1 < TextWidth
        BY <3>3, <4>1, <4>3
      <4>5. PICK q : q = vga.buffer[vga.row] /\ q \in [Cols -> ScreenChars]
        BY <1>b
      <4>6. vga'.col = Len(Prompt) + Len(l) /\ vga'.buffer[vga'.row] = [q EXCEPT ![vga.col] = c]
        BY <1>a, <1>c, <3>3, <3>5, <4>1, <4>2, <4>4, <4>5
      <4>7. ASSUME NEW i \in 1..(Len(input) + 1)
            PROVE  vga'.buffer[vga'.row][Len(Prompt) + i - 1] = l[i]
        <5>1. CASE i = Len(input) + 1
          <6>1. Len(Prompt) + i - 1 = vga.col /\ l[i] = c
            BY <1>a, <1>c, <3>5, <4>2, <5>1
          <6> QED  BY <1>b, <4>5, <4>6, <6>1
        <5>2. CASE i # Len(input) + 1
          <6>1. i \in 1..Len(input) /\ Len(Prompt) + i - 1 \in Cols /\ Len(Prompt) + i - 1 # vga.col
            <7>1. i \in 1..Len(input)
              BY <1>a, <5>2
            <7>2. Len(Prompt) + i - 1 < vga.col /\ Len(Prompt) + i - 1 \in Nat /\ vga.col \in Nat
              BY <1>a, <1>c, <4>2, <7>1
            <7>3. vga.col < TextWidth
              BY <1>b DEF Cols
            <7> QED  BY <7>1, <7>2, <7>3 DEF Cols
          <6>2. vga'.buffer[vga'.row][Len(Prompt) + i - 1] = q[Len(Prompt) + i - 1]
            BY <4>5, <4>6, <6>1
          <6> QED  BY <3>5, <4>2, <4>5, <6>1, <6>2
        <5> QED  BY <5>1, <5>2
      <4> QED  BY <3>1, <3>4, <3>5, <4>6, <4>7
    <3>8. EchoShown'
      BY <3>7 DEF EchoShown
    <3> QED  BY <2>1, <3>3, <3>6, <3>8 DEF ConsoleInv
  <2> QED  BY <2>2, <2>3
<1>5. CASE UNCHANGED consoleVars
  BY <1>0, <1>5 DEF consoleVars, ConsoleInv, EchoShown
<1> QED  BY <1>1, <1>2, <1>3, <1>4, <1>5 DEF ConsoleNext

(***************************************************************************)
(* However lines wrap and the screen scrolls, it shows the last rows that  *)
(* were printed, and the cursor never leaves it.                           *)
(***************************************************************************)
THEOREM ScreenAlwaysTail == ConsoleSpec => []ScreenIsTail
<1>1. ConsoleInv => ScreenIsTail
  <2> SUFFICES ASSUME ConsoleInv PROVE ScreenIsTail
    OBVIOUS
  <2>1. vga.row \in Rows /\ vga.col \in Cols /\ Printed(vga.buffer, vga.paper, vga.scrolled)
    BY ScreenIs DEF ConsoleInv
  <2> QED  BY <2>1 DEF ScreenIsTail, Printed, Rows, Cols
<1> QED  BY <1>1, ConsoleStarts, ConsoleKeeps, PTL DEF ConsoleSpec

(***************************************************************************)
(* The line in front of the cursor is the line that Enter will run.        *)
(***************************************************************************)
THEOREM EchoAlwaysShown == ConsoleSpec => []EchoShown
<1>1. ConsoleInv => EchoShown
  BY DEF ConsoleInv
<1> QED  BY <1>1, ConsoleStarts, ConsoleKeeps, PTL DEF ConsoleSpec

(***************************************************************************)
(* The four together, as the run of the parts checks them.                 *)
(***************************************************************************)
THEOREM AppsAlwaysSound == TermSpec /\ TeSpec /\ CalcSpec /\ ConsoleSpec => []AppsSound
<1>1. TermTypeOK /\ BufferIsText /\ CursorShown /\ DisplayReadable /\ ScreenIsTail /\ EchoShown => AppsSound
  BY DEF AppsSound
<1> QED  BY <1>1, TermInBounds, BufferAlwaysText, CursorAlwaysShown, DisplayAlwaysReadable,
            ScreenAlwaysTail, EchoAlwaysShown, PTL

(***************************************************************************)
(* Memory and arrays, src/src/libc/string.c and stdlib.c                   *)
(***************************************************************************)

LEMMA MoveIs ==
  ASSUME NEW size \in Nat, NEW Byte, NEW m \in [0..(size - 1) -> Byte], NEW d \in 0..(size - 1), NEW s \in 0..(size - 1)
  PROVE  /\ Move(m, d, s) \in [0..(size - 1) -> Byte]
         /\ \A x \in 0..(size - 1) : Move(m, d, s)[x] = IF x = d THEN m[s] ELSE m[x]
BY DEF Move

\* Source and destination lie within the memory.
CopyFits(size, Byte, mem, d, s, n) ==
  /\ size \in Nat /\ d \in Nat /\ s \in Nat /\ n \in Nat
  /\ mem \in [0..(size - 1) -> Byte]
  /\ d + n <= size /\ s + n <= size

\* The copying loop runs as it is written, whatever the order of the bytes.
CopyTurns(f, mem, d, s, n, order) ==
  f[0] = mem /\ \A k \in 1..n : f[k] = Move(f[k - 1], d + order[k], s + order[k])

Copies(size, Byte, mem, d, s, n, order) ==
  \E f \in [0..n -> [0..(size - 1) -> Byte]] :
    CopyTurns(f, mem, d, s, n, order) /\ Copying(mem, d, s, n, order) = f[n]

LEMMA CopyingRuns ==
  ASSUME NEW size, NEW Byte, NEW mem, NEW d, NEW s, NEW n, CopyFits(size, Byte, mem, d, s, n),
         NEW order \in [1..n -> 0..(n - 1)]
  PROVE  Copies(size, Byte, mem, d, s, n, order)
<1>   /\ size \in Nat /\ d \in Nat /\ s \in Nat /\ n \in Nat
      /\ mem \in [0..(size - 1) -> Byte]
      /\ d + n <= size /\ s + n <= size
  BY DEF CopyFits
<1> DEFINE Mem == [0..(size - 1) -> Byte]
           step == [k \in 1..n |-> [m \in Mem |-> Move(m, d + order[k], s + order[k])]]
<1>0. ASSUME NEW k \in 1..n PROVE d + order[k] \in 0..(size - 1) /\ s + order[k] \in 0..(size - 1)
  <2>1. order[k] \in 0..(n - 1)
    OBVIOUS
  <2> QED  BY <2>1
<1>1. step \in [1..n -> [Mem -> Mem]]
  <2>1. ASSUME NEW k \in 1..n, NEW m \in Mem PROVE Move(m, d + order[k], s + order[k]) \in Mem
    <3>1. PICK a \in 0..(size - 1), b \in 0..(size - 1) : a = d + order[k] /\ b = s + order[k]
      BY <1>0
    <3>2. Move(m, a, b) \in Mem
      BY MoveIs
    <3> QED  BY <3>1, <3>2
  <2> HIDE DEF Mem
  <2> QED  BY <2>1
<1> HIDE DEF Mem
<1>2. PICK g \in [0..n -> Mem] : RunOf(g, mem, n, step)
  BY <1>1, LoopRuns DEF Mem
<1>3. ASSUME NEW k \in 1..n PROVE g[k] = Move(g[k - 1], d + order[k], s + order[k])
  <2>1. g[k - 1] \in Mem
    BY <1>2
  <2>2. g[k] = step[k][g[k - 1]]
    BY <1>2, Zenon DEF RunOf
  <2> QED  BY <2>1, <2>2
<1> HIDE DEF step
<1>4. g[0] = mem /\ \A k \in 0..n : k = 0 \/ k \in 1..n
  BY <1>2 DEF RunOf
<1>5. \A k \in 0..n : g[k] = IF k = 0 THEN mem ELSE Move(g[k - 1], d + order[k], s + order[k])
  BY <1>3, <1>4
<1>6. g = [k \in 0..n |-> IF k = 0 THEN mem ELSE Move(g[k - 1], d + order[k], s + order[k])]
  BY <1>5
<1>7. PICK f : f = CHOOSE h : h = [k \in 0..n |-> IF k = 0 THEN mem ELSE Move(h[k - 1], d + order[k], s + order[k])]
  OBVIOUS
<1>8. Copying(mem, d, s, n, order) = f[n]
  BY <1>7, Zenon DEF Copying
<1>9. f = [k \in 0..n |-> IF k = 0 THEN mem ELSE Move(f[k - 1], d + order[k], s + order[k])]
  BY <1>6, <1>7, Zenon
<1>10. CopyTurns(f, mem, d, s, n, order)
  <2>1. 0 \in 0..n /\ \A k \in 1..n : k \in 0..n /\ k # 0
    OBVIOUS
  <2>2. \A k \in 0..n : f[k] = IF k = 0 THEN mem ELSE Move(f[k - 1], d + order[k], s + order[k])
    BY <1>9, Zenon
  <2> QED  BY <2>1, <2>2 DEF CopyTurns
<1> DEFINE S == {k \in 0..n : f[k] \in Mem}
<1>11. ASSUME NEW k \in 1..n, k - 1 \in S PROVE k \in S
  <2>1. f[k] = Move(f[k - 1], d + order[k], s + order[k]) /\ f[k - 1] \in Mem
    BY <1>10, <1>11 DEF CopyTurns
  <2>2. PICK m \in Mem, a \in 0..(size - 1), b \in 0..(size - 1) : m = f[k - 1] /\ a = d + order[k] /\ b = s + order[k]
    BY <1>0, <2>1
  <2>3. Move(m, a, b) \in Mem
    BY <2>2, MoveIs DEF Mem
  <2> QED  BY <2>1, <2>2, <2>3
<1>12. 0 \in S
  BY <1>10 DEF CopyTurns, Mem
<1>13. 0..n \subseteq S
  <2> HIDE DEF S
  <2> QED  BY <1>11, <1>12, Induction
<1>14. f \in [0..n -> Mem]
  BY <1>9, <1>13
<1> QED  BY <1>8, <1>10, <1>14 DEF Mem, Copies

CopyOf(mem, d, s, n) == [i \in DOMAIN mem |-> IF i \in d..(d + n - 1) THEN mem[s + i - d] ELSE mem[i]]

CopiedBy(mem, d, s, n, order) == Copying(mem, d, s, n, order) = CopyOf(mem, d, s, n)

\* Upwards every byte is read before it is overwritten, unless the destination
\* begins inside the source.
LEMMA UpwardsCopies ==
  ASSUME NEW size, NEW Byte, NEW mem, NEW d, NEW s, NEW n, CopyFits(size, Byte, mem, d, s, n),
         d \notin (s + 1)..(s + n - 1)
  PROVE  CopiedBy(mem, d, s, n, Upwards(n))
<1>   /\ size \in Nat /\ d \in Nat /\ s \in Nat /\ n \in Nat
      /\ mem \in [0..(size - 1) -> Byte]
      /\ d + n <= size /\ s + n <= size
  BY DEF CopyFits
<1> DEFINE Cells == 0..(size - 1)
<1>1. PICK order : order = Upwards(n)
  OBVIOUS
<1>2. order \in [1..n -> 0..(n - 1)] /\ \A k \in 1..n : order[k] = k - 1
  BY <1>1 DEF Upwards
<1>3. PICK f \in [0..n -> [0..(size - 1) -> Byte]] :
        CopyTurns(f, mem, d, s, n, order) /\ Copying(mem, d, s, n, order) = f[n]
  <2>1. CopyFits(size, Byte, mem, d, s, n) /\ order \in [1..n -> 0..(n - 1)]
    BY <1>2
  <2>2. Copies(size, Byte, mem, d, s, n, order)
    BY ONLY <2>1, CopyingRuns, Zenon
  <2> QED  BY <2>2, Zenon DEF Copies
<1> DEFINE S == {m \in 0..n : \A x \in Cells : f[m][x] = IF x \in d..(d + m - 1) THEN mem[s + x - d] ELSE mem[x]}
<1>4. 0 \in S
  BY <1>3 DEF CopyTurns
<1>5. ASSUME NEW k \in 1..n, k - 1 \in S PROVE k \in S
  <2>1. \A x \in Cells : f[k - 1][x] = IF x \in d..(d + (k - 1) - 1) THEN mem[s + x - d] ELSE mem[x]
    BY <1>5
  <2>2. PICK a \in Cells, b \in Cells : a = d + (k - 1) /\ b = s + (k - 1)
    OBVIOUS
  <2>3. PICK m \in [0..(size - 1) -> Byte] : m = f[k - 1]
    BY <1>3
  <2>4. f[k] = Move(m, a, b)
    BY <1>2, <1>3, <2>2, <2>3 DEF CopyTurns
  <2>5. \A x \in Cells : f[k][x] = IF x = a THEN m[b] ELSE m[x]
    BY <2>3, <2>4 DEF Move
  <2>6. b \notin d..(d + (k - 1) - 1)
    BY <2>2
  <2>7. m[b] = mem[b]
    BY <2>1, <2>2, <2>3, <2>6
  <2>8. ASSUME NEW x \in Cells PROVE f[k][x] = IF x \in d..(d + k - 1) THEN mem[s + x - d] ELSE mem[x]
    <3>1. CASE x = a
      <4>1. s + x - d = b /\ x \in d..(d + k - 1)
        BY <2>2, <3>1
      <4> QED  BY <2>5, <2>7, <3>1, <4>1
    <3>2. CASE x # a
      <4>1. x \in d..(d + k - 1) <=> x \in d..(d + (k - 1) - 1)
        BY <2>2, <3>2
      <4> QED  BY <2>1, <2>3, <2>5, <3>2, <4>1
    <3> QED  BY <3>1, <3>2
  <2>9. k \in 0..n
    OBVIOUS
  <2> QED  BY <2>8, <2>9, Zenon
<1>6. n \in S
  <2> HIDE DEF S
  <2>1. 0..n \subseteq S
    BY <1>4, <1>5, Induction
  <2> QED  BY <2>1
<1>7. f[n] = [i \in 0..(size - 1) |-> IF i \in d..(d + n - 1) THEN mem[s + i - d] ELSE mem[i]]
  BY <1>3, <1>6
<1>8. DOMAIN mem = 0..(size - 1)
  OBVIOUS
<1> QED  BY <1>1, <1>3, <1>7, <1>8 DEF CopyOf, CopiedBy

\* Downwards, unless the source begins inside the destination.
LEMMA DownwardsCopies ==
  ASSUME NEW size, NEW Byte, NEW mem, NEW d, NEW s, NEW n, CopyFits(size, Byte, mem, d, s, n),
         s <= d
  PROVE  CopiedBy(mem, d, s, n, Downwards(n))
<1>   /\ size \in Nat /\ d \in Nat /\ s \in Nat /\ n \in Nat
      /\ mem \in [0..(size - 1) -> Byte]
      /\ d + n <= size /\ s + n <= size
  BY DEF CopyFits
<1> DEFINE Cells == 0..(size - 1)
<1>1. PICK order : order = Downwards(n)
  OBVIOUS
<1>2. order \in [1..n -> 0..(n - 1)] /\ \A k \in 1..n : order[k] = n - k
  BY <1>1 DEF Downwards
<1>3. PICK f \in [0..n -> [0..(size - 1) -> Byte]] :
        CopyTurns(f, mem, d, s, n, order) /\ Copying(mem, d, s, n, order) = f[n]
  <2>1. CopyFits(size, Byte, mem, d, s, n) /\ order \in [1..n -> 0..(n - 1)]
    BY <1>2
  <2>2. Copies(size, Byte, mem, d, s, n, order)
    BY ONLY <2>1, CopyingRuns, Zenon
  <2> QED  BY <2>2, Zenon DEF Copies
<1> DEFINE S == {m \in 0..n : \A x \in Cells : f[m][x] = IF x \in (d + n - m)..(d + n - 1) THEN mem[s + x - d] ELSE mem[x]}
<1>4. 0 \in S
  BY <1>3 DEF CopyTurns
<1>5. ASSUME NEW k \in 1..n, k - 1 \in S PROVE k \in S
  <2>1. \A x \in Cells : f[k - 1][x] = IF x \in (d + n - (k - 1))..(d + n - 1) THEN mem[s + x - d] ELSE mem[x]
    BY <1>5
  <2>2. PICK a \in Cells, b \in Cells : a = d + (n - k) /\ b = s + (n - k)
    OBVIOUS
  <2>3. PICK m \in [0..(size - 1) -> Byte] : m = f[k - 1]
    BY <1>3
  <2>4. f[k] = Move(m, a, b)
    BY <1>2, <1>3, <2>2, <2>3 DEF CopyTurns
  <2>5. \A x \in Cells : f[k][x] = IF x = a THEN m[b] ELSE m[x]
    BY <2>3, <2>4 DEF Move
  <2>6. b \notin (d + n - (k - 1))..(d + n - 1)
    BY <2>2
  <2>7. m[b] = mem[b]
    BY <2>1, <2>2, <2>3, <2>6
  <2>8. ASSUME NEW x \in Cells PROVE f[k][x] = IF x \in (d + n - k)..(d + n - 1) THEN mem[s + x - d] ELSE mem[x]
    <3>1. CASE x = a
      <4>1. s + x - d = b /\ x \in (d + n - k)..(d + n - 1)
        BY <2>2, <3>1
      <4> QED  BY <2>5, <2>7, <3>1, <4>1
    <3>2. CASE x # a
      <4>1. x \in (d + n - k)..(d + n - 1) <=> x \in (d + n - (k - 1))..(d + n - 1)
        BY <2>2, <3>2
      <4> QED  BY <2>1, <2>3, <2>5, <3>2, <4>1
    <3> QED  BY <3>1, <3>2
  <2>9. k \in 0..n
    OBVIOUS
  <2> QED  BY <2>8, <2>9, Zenon
<1>6. n \in S
  <2> HIDE DEF S
  <2>1. 0..n \subseteq S
    BY <1>4, <1>5, Induction
  <2> QED  BY <2>1
<1>7. f[n] = [i \in 0..(size - 1) |-> IF i \in d..(d + n - 1) THEN mem[s + i - d] ELSE mem[i]]
  <2>1. d + n - n = d
    OBVIOUS
  <2> QED  BY <1>3, <1>6, <2>1
<1>8. DOMAIN mem = 0..(size - 1)
  OBVIOUS
<1> QED  BY <1>1, <1>3, <1>7, <1>8 DEF CopyOf, CopiedBy

(***************************************************************************)
(* memmove copies exactly, however source and destination overlap, and     *)
(* memcpy when the destination does not begin inside the source: for every *)
(* memory, every two addresses and every length.                           *)
(***************************************************************************)
THEOREM MovesAlwaysExact ==
  ASSUME NEW size \in Nat, NEW Byte, NEW mem \in [0..(size - 1) -> Byte],
         NEW d \in Nat, NEW s \in Nat, NEW n \in Nat, d + n <= size, s + n <= size
  PROVE  MovesExact(mem, d, s, n)
<1>0. CopyFits(size, Byte, mem, d, s, n)
  BY DEF CopyFits
<1>1. d \notin (s + 1)..(s + n - 1) => memcpy(mem, d, s, n) = CopyOf(mem, d, s, n)
  <2> SUFFICES ASSUME d \notin (s + 1)..(s + n - 1) PROVE memcpy(mem, d, s, n) = CopyOf(mem, d, s, n)
    OBVIOUS
  <2>1. CopiedBy(mem, d, s, n, Upwards(n))
    BY <1>0, UpwardsCopies, Zenon
  <2> QED  BY <2>1, Zenon DEF memcpy, CopiedBy
<1>2. memmove(mem, d, s, n) = CopyOf(mem, d, s, n)
  <2>1. CASE d < s
    <3>1. d \notin (s + 1)..(s + n - 1) /\ Order(d, s, n) = Upwards(n)
      BY <2>1 DEF Order
    <3>2. CopiedBy(mem, d, s, n, Upwards(n))
      BY <1>0, <3>1, UpwardsCopies, Zenon
    <3> QED  BY <3>1, <3>2, Zenon DEF memmove, CopiedBy
  <2>2. CASE ~(d < s)
    <3>1. s <= d /\ Order(d, s, n) = Downwards(n)
      BY <2>2 DEF Order
    <3>2. CopiedBy(mem, d, s, n, Downwards(n))
      BY <1>0, <3>1, DownwardsCopies, Zenon
    <3> QED  BY <3>1, <3>2, Zenon DEF memmove, CopiedBy
  <2> QED  BY <2>1, <2>2
<1> QED  BY <1>1, <1>2 DEF MovesExact, CopyOf

\* In an ordered array every entry is at most the ones behind it.
LEMMA OrderedFar ==
  ASSUME NEW arr \in Seq(Int), Ordered(arr)
  PROVE  \A i \in 1..Len(arr), j \in 1..Len(arr) : i <= j => arr[i] <= arr[j]
<1> SUFFICES ASSUME NEW i \in 1..Len(arr) PROVE \A j \in 1..Len(arr) : i <= j => arr[i] <= arr[j]
  OBVIOUS
<1>0. PICK n \in Nat : n = Len(arr)
  OBVIOUS
<1>1. arr \in [1..n -> Int] /\ i \in 1..n
  BY <1>0
<1> DEFINE S == {k \in 0..(n - i) : arr[i] <= arr[i + k]}
<1>2. 0 \in S
  BY <1>1
<1>3. ASSUME NEW k \in 1..(n - i), k - 1 \in S PROVE k \in S
  <2>1. PICK x \in 1..(n - 1) : x = i + (k - 1) /\ x + 1 = i + k
    BY <1>1
  <2>2. arr[x] <= arr[x + 1]
    BY <1>0 DEF Ordered
  <2>3. arr[i] <= arr[x]
    BY <1>3, <2>1
  <2>4. arr[i] \in Int /\ arr[x] \in Int /\ arr[x + 1] \in Int
    BY <1>1
  <2>5. arr[i] <= arr[i + k]
    BY <2>1, <2>2, <2>3, <2>4
  <2> QED  BY <2>5
<1>4. n - i \in Nat
  BY <1>1
<1>5. 0..(n - i) \subseteq S
  <2> HIDE DEF S
  <2> QED  BY <1>2, <1>3, <1>4, Induction
<1>6. ASSUME NEW j \in 1..n, i <= j PROVE arr[i] <= arr[j]
  <2>1. j - i \in S
    <3>1. j - i \in 0..(n - i)
      BY <1>1, <1>6
    <3> HIDE DEF S
    <3> QED  BY <1>5, <3>1, Zenon
  <2>2. i + (j - i) = j
    BY <1>1
  <2> QED  BY <2>1, <2>2
<1> QED  BY <1>0, <1>6

\* What a turn of bsearch works on.
SearchState(n) == [lo : 0..n, hi : 0..n, found : (-1)..(n - 1)]

LEMMA HalvedIs ==
  ASSUME NEW n \in Nat, NEW arr \in [1..n -> Int], NEW key \in Int, NEW r \in SearchState(n)
  PROVE  /\ Halved(key, arr, r) \in SearchState(n)
         /\ \/ (r.lo >= r.hi \/ r.found # -1) /\ Halved(key, arr, r) = r
            \/ /\ r.lo < r.hi /\ r.found = -1
               /\ \E mid \in r.lo..(r.hi - 1), q \in SearchState(n) :
                     /\ q = Halved(key, arr, r)
                     /\ \/ key = arr[mid + 1] /\ q.found = mid
                        \/ key < arr[mid + 1] /\ q.lo = r.lo /\ q.hi = mid /\ q.found = -1
                        \/ key > arr[mid + 1] /\ q.lo = mid + 1 /\ q.hi = r.hi /\ q.found = -1
<1>1. PICK lo \in 0..n, hi \in 0..n, found \in (-1)..(n - 1) : r = [lo |-> lo, hi |-> hi, found |-> found]
  BY DEF SearchState
<1>2. r.lo = lo /\ r.hi = hi /\ r.found = found
  BY <1>1
<1>3. CASE lo >= hi \/ found # -1
  BY <1>2, <1>3 DEF Halved
<1>4. CASE lo < hi /\ found = -1
  <2>1. PICK mid \in lo..(hi - 1) : mid = (r.lo + r.hi) \div 2
    BY <1>2, <1>4
  <2>2. mid \in 0..(n - 1) /\ mid + 1 \in 1..n /\ mid \in 0..n /\ mid + 1 \in 0..n /\ mid \in (-1)..(n - 1)
    BY <2>1
  <2>3. arr[mid + 1] \in Int
    BY <2>2
  <2>4. ~(r.lo >= r.hi \/ r.found # -1)
    BY <1>2, <1>4
  <2>5. PICK q : q = Halved(key, arr, r)
    OBVIOUS
  <2>6. q = IF key = arr[mid + 1] THEN [r EXCEPT !.found = mid]
            ELSE IF key < arr[mid + 1] THEN [r EXCEPT !.hi = mid] ELSE [r EXCEPT !.lo = mid + 1]
    BY <2>1, <2>4, <2>5, Zenon DEF Halved
  <2>7. CASE key = arr[mid + 1]
    <3>1. q = [lo |-> lo, hi |-> hi, found |-> mid]
      BY <1>1, <2>6, <2>7
    <3>2. q \in SearchState(n) /\ q.found = mid
      BY <2>2, <3>1 DEF SearchState
    <3> QED  BY <1>2, <1>4, <2>5, <2>7, <3>2
  <2>8. CASE key < arr[mid + 1]
    <3>1. q = [lo |-> lo, hi |-> mid, found |-> -1]
      BY <1>1, <1>4, <2>3, <2>6, <2>8
    <3>2. q \in SearchState(n) /\ q.lo = lo /\ q.hi = mid /\ q.found = -1
      BY <2>2, <3>1 DEF SearchState
    <3> QED  BY <1>2, <1>4, <2>5, <2>8, <3>2
  <2>9. CASE key > arr[mid + 1]
    <3>1. q = [lo |-> mid + 1, hi |-> hi, found |-> -1]
      BY <1>1, <1>4, <2>3, <2>6, <2>9
    <3>2. q \in SearchState(n) /\ q.lo = mid + 1 /\ q.hi = hi /\ q.found = -1
      BY <2>2, <3>1 DEF SearchState
    <3> QED  BY <1>2, <1>4, <2>5, <2>9, <3>2
  <2> QED  BY <2>3, <2>7, <2>8, <2>9
<1> QED  BY <1>3, <1>4

\* The loop of bsearch runs as it is written.
LEMMA SearchRuns ==
  ASSUME NEW n \in Nat, NEW arr \in [1..n -> Int], NEW key \in Int, Len(arr) = n
  PROVE  \E f \in [0..n -> SearchState(n)] :
           /\ f[0] = [lo |-> 0, hi |-> n, found |-> -1]
           /\ \A k \in 1..n : f[k] = Halved(key, arr, f[k - 1])
           /\ bsearch(key, arr) = f[n].found
<1> DEFINE T == SearchState(n)
           t == [lo |-> 0, hi |-> n, found |-> -1]
           step == [k \in 1..n |-> [r \in T |-> Halved(key, arr, r)]]
<1>0. t \in T
  BY DEF SearchState
<1>1. \A r \in T : Halved(key, arr, r) \in T
  BY HalvedIs
<1> HIDE DEF T, t
<1>2. step \in [1..n -> [T -> T]]
  BY <1>1
<1> HIDE DEF step
<1>3. PICK g \in [0..n -> T] : RunOf(g, t, n, step)
  BY <1>0, <1>2, LoopRuns
<1>4. ASSUME NEW k \in 1..n PROVE g[k] = Halved(key, arr, g[k - 1])
  <2>1. g[k - 1] \in T
    BY <1>3
  <2>2. g[k] = step[k][g[k - 1]]
    BY <1>3, Zenon DEF RunOf
  <2> QED  BY <2>1, <2>2 DEF step
<1>5. g[0] = t /\ \A k \in 0..n : k = 0 \/ k \in 1..n
  BY <1>3 DEF RunOf
<1>6. \A k \in 0..n : g[k] = IF k = 0 THEN t ELSE Halved(key, arr, g[k - 1])
  BY <1>4, <1>5
<1>7. g = [k \in 0..n |-> IF k = 0 THEN t ELSE Halved(key, arr, g[k - 1])]
  BY <1>6
<1>8. PICK f : f = CHOOSE h : h = [k \in 0..n |-> IF k = 0 THEN t ELSE Halved(key, arr, h[k - 1])]
  OBVIOUS
<1>9. f = [k \in 0..n |-> IF k = 0 THEN t ELSE Halved(key, arr, f[k - 1])]
  BY <1>7, <1>8, Zenon
<1>10. bsearch(key, arr) = f[n].found
  <2>1. Len(arr) = n /\ Members(arr) = n
    BY DEF Members
  <2> QED  BY <1>8, <2>1, Zenon DEF bsearch, t
<1>11. f[0] = t /\ \A k \in 1..n : f[k] = Halved(key, arr, f[k - 1])
  <2>1. 0 \in 0..n /\ \A k \in 1..n : k \in 0..n /\ k # 0
    OBVIOUS
  <2>2. \A k \in 0..n : f[k] = IF k = 0 THEN t ELSE Halved(key, arr, f[k - 1])
    BY <1>9, Zenon
  <2> QED  BY <2>1, <2>2
<1> DEFINE S == {k \in 0..n : f[k] \in T}
<1>12. 0 \in S
  BY <1>0, <1>11
<1>13. ASSUME NEW k \in 1..n, k - 1 \in S PROVE k \in S
  <2>1. f[k - 1] \in T
    BY <1>13
  <2> QED  BY <1>1, <1>11, <2>1
<1>14. 0..n \subseteq S
  <2> HIDE DEF S
  <2> QED  BY <1>12, <1>13, Induction
<1>15. f \in [0..n -> T]
  BY <1>9, <1>14
<1> QED  BY <1>10, <1>11, <1>15 DEF T, t

\* The key has been found, or it is in the range that is left, which is
\* smaller than the turns that are left.
Narrowed(n, arr, key, r, k) ==
  \/ r.found \in 0..(n - 1) /\ arr[r.found + 1] = key
  \/ /\ r.found = -1
     /\ \A i \in 1..n : arr[i] = key => r.lo < i /\ i <= r.hi
     /\ r.lo >= r.hi \/ r.hi - r.lo <= n - k

LEMMA HalvedNarrows ==
  ASSUME NEW n \in Nat, NEW arr \in [1..n -> Int], NEW key \in Int,
         \A i \in 1..n, j \in 1..n : i <= j => arr[i] <= arr[j],
         NEW r \in SearchState(n), NEW k \in 1..n, Narrowed(n, arr, key, r, k - 1)
  PROVE  Narrowed(n, arr, key, Halved(key, arr, r), k)
<1>0. r.lo \in 0..n /\ r.hi \in 0..n /\ r.found \in (-1)..(n - 1)
  BY DEF SearchState
<1>1. CASE (r.lo >= r.hi \/ r.found # -1) /\ Halved(key, arr, r) = r
  BY <1>0, <1>1 DEF Narrowed
<1>2. CASE /\ r.lo < r.hi /\ r.found = -1
           /\ \E mid \in r.lo..(r.hi - 1), q \in SearchState(n) :
                 /\ q = Halved(key, arr, r)
                 /\ \/ key = arr[mid + 1] /\ q.found = mid
                    \/ key < arr[mid + 1] /\ q.lo = r.lo /\ q.hi = mid /\ q.found = -1
                    \/ key > arr[mid + 1] /\ q.lo = mid + 1 /\ q.hi = r.hi /\ q.found = -1
  <2>1. PICK mid \in r.lo..(r.hi - 1), q \in SearchState(n) :
                 /\ q = Halved(key, arr, r)
                 /\ \/ key = arr[mid + 1] /\ q.found = mid
                    \/ key < arr[mid + 1] /\ q.lo = r.lo /\ q.hi = mid /\ q.found = -1
                    \/ key > arr[mid + 1] /\ q.lo = mid + 1 /\ q.hi = r.hi /\ q.found = -1
    BY <1>2
  <2>2. mid \in 0..(n - 1) /\ mid + 1 \in 1..n
    BY <1>0, <2>1
  <2>3. /\ \A i \in 1..n : arr[i] = key => r.lo < i /\ i <= r.hi
        /\ r.hi - r.lo <= n - (k - 1)
    BY <1>0, <1>2 DEF Narrowed
  <2>4. CASE key = arr[mid + 1] /\ q.found = mid
    BY <2>1, <2>2, <2>4 DEF Narrowed
  <2>5. CASE key < arr[mid + 1] /\ q.lo = r.lo /\ q.hi = mid /\ q.found = -1
    <3>1. ASSUME NEW i \in 1..n, arr[i] = key PROVE q.lo < i /\ i <= q.hi
      <4>1. ~(mid + 1 <= i)
        BY <2>2, <2>5, <3>1
      <4> QED  BY <2>2, <2>3, <2>5, <3>1, <4>1
    <3>2. q.hi - q.lo <= n - k
      <4>1. PICK lo \in 0..n, hi \in 0..n : lo = r.lo /\ hi = r.hi
        BY <1>0
      <4>2. hi - lo <= n - (k - 1) /\ mid <= hi - 1
        BY <2>1, <2>3, <4>1
      <4>3. mid - lo <= n - k
        BY ONLY n \in Nat, k \in 1..n, lo \in 0..n, hi \in 0..n, <2>2, <4>2
      <4> QED  BY <2>5, <4>1, <4>3
    <3> QED  BY <2>1, <2>5, <3>1, <3>2 DEF Narrowed
  <2>6. CASE key > arr[mid + 1] /\ q.lo = mid + 1 /\ q.hi = r.hi /\ q.found = -1
    <3>1. ASSUME NEW i \in 1..n, arr[i] = key PROVE q.lo < i /\ i <= q.hi
      <4>1. ~(i <= mid + 1)
        BY <2>2, <2>6, <3>1
      <4> QED  BY <2>2, <2>3, <2>6, <3>1, <4>1
    <3>2. q.hi - q.lo <= n - k
      BY <1>0, <2>1, <2>3, <2>6
    <3> QED  BY <2>1, <2>6, <3>1, <3>2 DEF Narrowed
  <2> QED  BY <2>1, <2>4, <2>5, <2>6
<1> QED  BY <1>1, <1>2, HalvedIs

(***************************************************************************)
(* bsearch in an ordered array, of whatever length, returns an entry equal *)
(* to the key if there is one, and nothing if there is none.               *)
(***************************************************************************)
THEOREM SearchAlwaysExact ==
  ASSUME NEW arr \in Seq(Int), NEW key \in Int
  PROVE  FindsExact(key, arr)
<1> SUFFICES ASSUME Ordered(arr)
             PROVE  IF key \in ToSet(arr)
                    THEN bsearch(key, arr) + 1 \in DOMAIN arr /\ arr[bsearch(key, arr) + 1] = key
                    ELSE bsearch(key, arr) = -1
  BY DEF FindsExact
<1>1. PICK n \in Nat : n = Len(arr)
  OBVIOUS
<1>2. arr \in [1..n -> Int] /\ DOMAIN arr = 1..n
  BY <1>1
<1>3. \A i \in 1..n, j \in 1..n : i <= j => arr[i] <= arr[j]
  BY <1>1, OrderedFar
<1>4. PICK f \in [0..n -> SearchState(n)] :
           /\ f[0] = [lo |-> 0, hi |-> n, found |-> -1]
           /\ \A k \in 1..n : f[k] = Halved(key, arr, f[k - 1])
           /\ bsearch(key, arr) = f[n].found
  BY <1>1, <1>2, SearchRuns
<1> DEFINE S == {k \in 0..n : Narrowed(n, arr, key, f[k], k)}
<1>5. 0 \in S
  BY <1>4 DEF Narrowed
<1>6. ASSUME NEW k \in 1..n, k - 1 \in S PROVE k \in S
  <2>1. PICK r \in SearchState(n) : r = f[k - 1]
    BY <1>4
  <2>2. Narrowed(n, arr, key, r, k - 1)
    BY <1>6, <2>1
  <2>3. Narrowed(n, arr, key, Halved(key, arr, r), k)
    BY <1>2, <1>3, <2>2, HalvedNarrows
  <2>4. f[k] = Halved(key, arr, r)
    BY <1>4, <2>1
  <2> QED  BY <2>3, <2>4
<1>7. Narrowed(n, arr, key, f[n], n)
  <2>1. 0..n \subseteq S
    <3> HIDE DEF S
    <3> QED  BY <1>5, <1>6, Induction
  <2>2. n \in 0..n
    OBVIOUS
  <2> QED  BY <2>1, <2>2
<1>8. PICK lo \in 0..n, hi \in 0..n, found \in (-1)..(n - 1) : f[n].lo = lo /\ f[n].hi = hi /\ f[n].found = found
  <2>1. f[n] \in SearchState(n)
    BY <1>4
  <2> QED  BY <2>1 DEF SearchState
<1>9. \/ found \in 0..(n - 1) /\ arr[found + 1] = key
      \/ found = -1 /\ \A i \in 1..n : arr[i] # key
  BY <1>7, <1>8 DEF Narrowed
<1>10. key \in ToSet(arr) <=> \E i \in 1..n : arr[i] = key
  BY <1>2 DEF ToSet
<1> QED  BY <1>2, <1>4, <1>8, <1>9, <1>10

\* The inner loop of qsort: the first of the smallest entries from i on.
LEMMA SmallestIs ==
  ASSUME NEW n \in Nat, NEW arr \in [1..n -> Int], Len(arr) = n, NEW i \in 1..n
  PROVE  Smallest(arr, i) \in i..n /\ \A j \in i..n : arr[Smallest(arr, i)] <= arr[j]
<1> DEFINE T == i..n
           steps == n - i
           step == [k \in 1..steps |-> [m \in T |-> IF arr[i + k] < arr[m] THEN i + k ELSE m]]
<1>0. steps \in Nat /\ i \in T
  OBVIOUS
<1>1. ASSUME NEW k \in 1..steps PROVE i + k \in T
  OBVIOUS
<1>2. step \in [1..steps -> [T -> T]]
  <2> HIDE DEF T, steps
  <2> QED  BY <1>1
<1>3. PICK g \in [0..steps -> T] : RunOf(g, i, steps, step)
  <2> HIDE DEF T, steps, step
  <2> QED  BY <1>0, <1>2, LoopRuns
<1> DEFINE h == [j \in i..n |-> g[j - i]]
           Body(f, j) == IF j = i THEN i ELSE IF arr[j] < arr[f[j - 1]] THEN j ELSE f[j - 1]
<1>4. ASSUME NEW j \in i..n PROVE h[j] = Body(h, j)
  <2>1. CASE j = i
    BY <1>3, <2>1 DEF RunOf
  <2>2. CASE j # i
    <3>1. PICK k \in 1..steps : k = j - i /\ i + k = j /\ k - 1 = (j - 1) - i
      BY <2>2
    <3>2. j - 1 \in i..n
      BY <2>2
    <3>3. h[j] = g[k] /\ h[j - 1] = g[k - 1]
      BY <3>1, <3>2
    <3>4. k - 1 \in 0..steps
      OBVIOUS
    <3>5. g[k - 1] \in T
      BY <1>3, <3>4
    <3>6. g[k] = step[k][g[k - 1]]
      BY <1>3, Zenon DEF RunOf
    <3>7. g[k] = IF arr[i + k] < arr[g[k - 1]] THEN i + k ELSE g[k - 1]
      BY <3>5, <3>6
    <3> QED  BY <2>2, <3>1, <3>3, <3>7
  <2> QED  BY <2>1, <2>2
<1>5. h = [j \in i..n |-> Body(h, j)]
  <2>1. h = [j \in i..n |-> h[j]]
    OBVIOUS
  <2> HIDE DEF h, Body
  <2> QED  BY <1>4, <2>1
<1> HIDE DEF h
<1>6. PICK f : f = CHOOSE x : x = [j \in i..n |-> Body(x, j)]
  OBVIOUS
<1>7. f = [j \in i..n |-> Body(f, j)]
  BY <1>5, <1>6, Zenon
<1>8. Smallest(arr, i) = f[n]
  BY <1>6, Zenon DEF Smallest
<1>9. \A j \in i..n : f[j] = Body(f, j)
  <2> HIDE DEF Body
  <2> QED  BY <1>7, Zenon
<1> DEFINE S == {k \in 0..steps : f[i + k] \in i..n /\ \A j \in i..(i + k) : arr[f[i + k]] <= arr[j]}
<1>10. 0 \in S
  <2>1. f[i] = i /\ i + 0 = i /\ i..i = {i}
    BY <1>9
  <2> QED  BY <2>1
<1>11. ASSUME NEW k \in 1..steps, k - 1 \in S PROVE k \in S
  <2>1. PICK x \in i..n : x = i + k /\ x - 1 = i + (k - 1) /\ x # i
    OBVIOUS
  <2>2. PICK y \in i..n : y = f[x - 1]
    BY <1>11, <2>1
  <2>3. \A j \in i..(x - 1) : arr[y] <= arr[j]
    BY <1>11, <2>1, <2>2
  <2>4. f[x] = IF arr[x] < arr[y] THEN x ELSE y
    BY <1>9, <2>1, <2>2
  <2>5. x \in 1..n /\ y \in 1..n /\ arr[x] \in Int /\ arr[y] \in Int
    OBVIOUS
  <2>6. ASSUME NEW j \in i..x PROVE arr[f[x]] <= arr[j]
    <3>1. j \in 1..n /\ arr[j] \in Int /\ (j = x \/ j \in i..(x - 1))
      BY <2>1
    <3> QED  BY <2>3, <2>4, <2>5, <3>1
  <2>7. f[x] \in i..n
    BY <2>1, <2>2, <2>4
  <2> QED  BY <2>1, <2>6, <2>7
<1>12. steps \in S
  <2>1. 0..steps \subseteq S
    <3> HIDE DEF S, steps
    <3> QED  BY <1>0, <1>10, <1>11, Induction
  <2>2. steps \in 0..steps
    OBVIOUS
  <2> HIDE DEF S, steps
  <2> QED  BY <2>1, <2>2
<1>13. i + steps = n
  OBVIOUS
<1> QED  BY <1>8, <1>12, <1>13

\* swap exchanges two entries: every value is in the array as often as before.
LEMMA SwapIs ==
  ASSUME NEW n \in Nat, NEW arr \in [1..n -> Int], NEW i \in 1..n, NEW j \in 1..n
  PROVE  /\ swap(arr, i, j) \in [1..n -> Int]
         /\ \A x \in 1..n : swap(arr, i, j)[x] = IF x = j THEN arr[i] ELSE IF x = i THEN arr[j] ELSE arr[x]
BY DEF swap

LEMMA SwapCounts ==
  ASSUME NEW n \in Nat, NEW arr \in [1..n -> Int], NEW i \in 1..n, NEW j \in 1..n, NEW v
  PROVE  Count(swap(arr, i, j), v) = Count(arr, v)
<1> DEFINE New == {x \in 1..n : swap(arr, i, j)[x] = v}
           Old == {x \in 1..n : arr[x] = v}
           turned(x) == IF x = j THEN i ELSE IF x = i THEN j ELSE x
           p == [x \in Old |-> turned(x)]
<1>1. DOMAIN arr = 1..n /\ DOMAIN swap(arr, i, j) = 1..n
  BY SwapIs
<1>2. \A x \in 1..n : /\ turned(x) \in 1..n /\ turned(turned(x)) = x
                      /\ swap(arr, i, j)[turned(x)] = arr[x] /\ swap(arr, i, j)[x] = arr[turned(x)]
  <2>1. ASSUME NEW x \in 1..n PROVE turned(x) \in 1..n /\ turned(turned(x)) = x
    OBVIOUS
  <2>2. PICK b : b = swap(arr, i, j)
    OBVIOUS
  <2>3. \A x \in 1..n : b[x] = IF x = j THEN arr[i] ELSE IF x = i THEN arr[j] ELSE arr[x]
    BY <2>2 DEF swap
  <2>4. ASSUME NEW x \in 1..n PROVE b[turned(x)] = arr[x] /\ b[x] = arr[turned(x)]
    BY <2>3
  <2> QED  BY <2>1, <2>2, <2>4
<1> HIDE DEF turned
<1>3. p \in [Old -> New]
  BY <1>2
<1>4. p \in Bijection(Old, New)
  <2>1. \A x, y \in Old : p[x] = p[y] => x = y
    BY <1>2
  <2>2. \A y \in New : \E x \in Old : p[x] = y
    BY <1>2
  <2> HIDE DEF p, Old, New
  <2> QED  BY <1>3, <2>1, <2>2 DEF Bijection, Injection, Surjection, IsInjective
<1>5. ExistsBijection(Old, New)
  BY <1>4, Zenon DEF ExistsBijection
<1>6. IsFiniteSet(Old)
  <2>1. IsFiniteSet(1..n)
    BY FS_Interval
  <2>2. Old \in SUBSET (1..n)
    OBVIOUS
  <2> HIDE DEF Old
  <2> QED  BY <2>1, <2>2, FS_Subset
<1>7. Cardinality(New) = Cardinality(Old)
  <2> HIDE DEF Old, New
  <2> QED  BY <1>5, <1>6, FS_Bijection
<1> QED  BY <1>1, <1>7 DEF Count

\* The outer loop of qsort runs as it is written.
LEMMA SortRuns ==
  ASSUME NEW n \in Nat, n > 1, NEW arr \in [1..n -> Int], Len(arr) = n
  PROVE  \E f \in [0..(n - 1) -> [1..n -> Int]] :
           /\ f[0] = arr
           /\ \A k \in 1..(n - 1) : f[k] = swap(f[k - 1], k, Smallest(f[k - 1], k))
           /\ qsort(arr) = f[n - 1]
<1> DEFINE T == [1..n -> Int]
           rounds == n - 1
           step == [k \in 1..rounds |-> [a \in T |-> swap(a, k, Smallest(a, k))]]
<1>0. rounds \in Nat /\ \A k \in 1..rounds : k \in 1..n
  OBVIOUS
<1>1. ASSUME NEW k \in 1..rounds, NEW a \in T PROVE swap(a, k, Smallest(a, k)) \in T
  <2>1. Len(a) = n /\ k \in 1..n
    OBVIOUS
  <2>2. Smallest(a, k) \in k..n
    BY <2>1, SmallestIs
  <2>3. PICK m \in 1..n : m = Smallest(a, k)
    BY <2>2
  <2>4. swap(a, k, m) \in T
    BY <2>1, SwapIs
  <2> QED  BY <2>3, <2>4
<1> HIDE DEF T, rounds
<1>2. step \in [1..rounds -> [T -> T]]
  BY <1>1
<1> HIDE DEF step
<1>3. arr \in T
  BY DEF T
<1>4. PICK g \in [0..rounds -> T] : RunOf(g, arr, rounds, step)
  BY <1>0, <1>2, <1>3, LoopRuns
<1>5. ASSUME NEW k \in 1..rounds PROVE g[k] = swap(g[k - 1], k, Smallest(g[k - 1], k))
  <2>1. k - 1 \in 0..rounds
    BY <1>0
  <2>2. g[k - 1] \in T
    BY <1>4, <2>1
  <2>3. g[k] = step[k][g[k - 1]]
    BY <1>4, Zenon DEF RunOf
  <2> QED  BY <2>2, <2>3 DEF step
<1>6. g[0] = arr /\ \A k \in 0..rounds : k = 0 \/ k \in 1..rounds
  BY <1>0, <1>4 DEF RunOf
<1>7. \A k \in 0..rounds : g[k] = IF k = 0 THEN arr ELSE swap(g[k - 1], k, Smallest(g[k - 1], k))
  BY <1>5, <1>6
<1>8. g = [k \in 0..rounds |-> IF k = 0 THEN arr ELSE swap(g[k - 1], k, Smallest(g[k - 1], k))]
  BY <1>7
<1>9. PICK f : f = CHOOSE h : h = [k \in 0..rounds |-> IF k = 0 THEN arr ELSE swap(h[k - 1], k, Smallest(h[k - 1], k))]
  OBVIOUS
<1>10. f = [k \in 0..rounds |-> IF k = 0 THEN arr ELSE swap(f[k - 1], k, Smallest(f[k - 1], k))]
  BY <1>8, <1>9, Zenon
<1>11. qsort(arr) = f[rounds]
  <2>1. ~(n <= 1)
    OBVIOUS
  <2> QED  BY <1>9, <2>1, Zenon DEF qsort, rounds
<1>12. f[0] = arr /\ \A k \in 1..rounds : f[k] = swap(f[k - 1], k, Smallest(f[k - 1], k))
  <2>1. 0 \in 0..rounds /\ \A k \in 1..rounds : k \in 0..rounds /\ k # 0
    BY <1>0
  <2>2. \A k \in 0..rounds : f[k] = IF k = 0 THEN arr ELSE swap(f[k - 1], k, Smallest(f[k - 1], k))
    BY <1>10, Zenon
  <2> QED  BY <2>1, <2>2
<1> DEFINE S == {k \in 0..rounds : f[k] \in T}
<1>13. 0 \in S
  BY <1>0, <1>3, <1>12
<1>14. ASSUME NEW k \in 1..rounds, k - 1 \in S PROVE k \in S
  <2>1. f[k - 1] \in T /\ k \in 0..rounds
    BY <1>0, <1>14
  <2> QED  BY <1>1, <1>12, <2>1
<1>15. 0..rounds \subseteq S
  <2> HIDE DEF S
  <2> QED  BY <1>0, <1>13, <1>14, Induction
<1>16. f \in [0..rounds -> T]
  BY <1>10, <1>15
<1> QED  BY <1>11, <1>12, <1>16 DEF T, rounds

\* After k turns the first k entries are in place: none is above an entry
\* behind it.
Placed(n, arr, k) == \A x \in 1..k, y \in 1..n : x <= y => arr[x] <= arr[y]

LEMMA TurnPlaces ==
  ASSUME NEW n \in Nat, NEW arr \in [1..n -> Int], NEW k \in 1..n, Placed(n, arr, k - 1)
  PROVE  Placed(n, swap(arr, k, Smallest(arr, k)), k)
<1>1. Len(arr) = n
  OBVIOUS
<1>2. Smallest(arr, k) \in k..n /\ \A j \in k..n : arr[Smallest(arr, k)] <= arr[j]
  BY <1>1, SmallestIs
<1>3. PICK m \in k..n : m = Smallest(arr, k) /\ \A j \in k..n : arr[m] <= arr[j]
  BY <1>2
<1>4. PICK b \in [1..n -> Int] : b = swap(arr, k, m)
  BY SwapIs
<1>5. \A x \in 1..n : b[x] = IF x = m THEN arr[k] ELSE IF x = k THEN arr[m] ELSE arr[x]
  BY <1>4 DEF swap
<1>6. ASSUME NEW x \in 1..k, NEW y \in 1..n, x <= y PROVE b[x] <= b[y]
  <2> DEFINE turned(z) == IF z = m THEN k ELSE IF z = k THEN m ELSE z
  <2>1. \A z \in 1..n : b[z] = arr[turned(z)] /\ turned(z) \in 1..n
    BY <1>5
  <2>2. PICK u \in 1..n, w \in 1..n : u = turned(x) /\ w = turned(y)
    BY <2>1
  <2>3. b[x] = arr[u] /\ b[y] = arr[w]
    BY <2>1, <2>2
  <2>4. CASE x = k
    <3>1. u = m /\ w \in k..n
      BY <1>6, <2>2, <2>4
    <3> QED  BY <1>3, <2>3, <3>1
  <2>5. CASE x # k
    <3>1. u = x /\ x \in 1..(k - 1) /\ x <= w
      BY <1>6, <2>2, <2>5
    <3> QED  BY <2>3, <3>1 DEF Placed
  <2> QED  BY <2>4, <2>5
<1> QED  BY <1>3, <1>4, <1>6 DEF Placed

(***************************************************************************)
(* qsort orders every array of numbers, whatever its length, and neither   *)
(* loses nor invents an entry.                                             *)
(***************************************************************************)
THEOREM SortAlwaysExact ==
  ASSUME NEW arr \in Seq(Int)
  PROVE  SortsExact(arr)
<1>1. PICK n \in Nat : n = Len(arr)
  OBVIOUS
<1>2. arr \in [1..n -> Int]
  BY <1>1
<1>3. CASE n <= 1
  <2>1. qsort(arr) = arr
    BY <1>1, <1>3 DEF qsort
  <2>2. 1..(Len(arr) - 1) = {}
    BY <1>1, <1>3
  <2>3. Ordered(arr)
    BY <2>2 DEF Ordered
  <2> QED  BY <2>1, <2>3 DEF SortsExact
<1>4. CASE n > 1
  <2>1. PICK f \in [0..(n - 1) -> [1..n -> Int]] :
           /\ f[0] = arr
           /\ \A k \in 1..(n - 1) : f[k] = swap(f[k - 1], k, Smallest(f[k - 1], k))
           /\ qsort(arr) = f[n - 1]
    BY <1>1, <1>2, <1>4, SortRuns
  <2> DEFINE S == {k \in 0..(n - 1) : Placed(n, f[k], k) /\ \A v \in ToSet(arr) : Count(f[k], v) = Count(arr, v)}
  <2>2. 0 \in S
    BY <1>4, <2>1 DEF Placed
  <2>3. ASSUME NEW k \in 1..(n - 1), k - 1 \in S PROVE k \in S
    <3>1. PICK a \in [1..n -> Int] : a = f[k - 1]
      BY <2>1
    <3>2. k \in 1..n /\ Len(a) = n /\ k \in 0..(n - 1)
      OBVIOUS
    <3>3. Placed(n, a, k - 1) /\ \A v \in ToSet(arr) : Count(a, v) = Count(arr, v)
      BY <2>3, <3>1
    <3>4. Placed(n, swap(a, k, Smallest(a, k)), k)
      BY <3>2, <3>3, TurnPlaces
    <3>5. Smallest(a, k) \in k..n
      BY <3>2, SmallestIs
    <3>6. PICK m \in 1..n : m = Smallest(a, k)
      BY <3>2, <3>5
    <3>7. \A v : Count(swap(a, k, m), v) = Count(a, v)
      BY <3>2, SwapCounts
    <3>8. f[k] = swap(a, k, m)
      BY <2>1, <3>1, <3>6
    <3> QED  BY <3>2, <3>3, <3>4, <3>6, <3>7, <3>8, Zenon
  <2>4. n - 1 \in S
    <3>1. 0..(n - 1) \subseteq S
      <4>1. n - 1 \in Nat
        BY <1>4
      <4> HIDE DEF S
      <4> QED  BY <2>2, <2>3, <4>1, Induction
    <3>2. n - 1 \in 0..(n - 1)
      BY <1>4
    <3> HIDE DEF S
    <3> QED  BY <3>1, <3>2
  <2>5. PICK a \in [1..n -> Int] : a = f[n - 1]
    <3>1. n - 1 \in 0..(n - 1)
      BY <1>4
    <3> QED  BY <2>1, <3>1
  <2>6. Len(a) = n
    OBVIOUS
  <2>7. Ordered(a)
    <3>1. ASSUME NEW i \in 1..(n - 1) PROVE a[i] <= a[i + 1]
      <4>1. i + 1 \in 1..n /\ i <= i + 1
        OBVIOUS
      <4>2. Placed(n, a, n - 1)
        BY <2>4, <2>5
      <4> QED  BY <4>1, <4>2 DEF Placed
    <3> QED  BY <2>6, <3>1 DEF Ordered
  <2>8. \A v \in ToSet(arr) : Count(a, v) = Count(arr, v)
    BY <2>4, <2>5
  <2> QED  BY <1>1, <2>1, <2>5, <2>6, <2>7, <2>8 DEF SortsExact
<1> QED  BY <1>3, <1>4

(***************************************************************************)
(* Strings, src/src/libc/string.c                                          *)
(***************************************************************************)

\* A loop over offsets that goes on while go[i] and returns val[i] where it
\* stops: it has a run, and stops at the first offset where it may not go on.
ScanOf(f, n, go, val) == \A i \in 0..n : f[i] = IF go[i] THEN f[i + 1] ELSE val[i]

StopsAt(m, i, n, go) == m \in i..n /\ ~go[m] /\ \A j \in i..n : ~go[j] => m <= j

LEMMA ScanStops ==
  ASSUME NEW n \in Nat, NEW go, ~go[n], NEW i \in 0..n
  PROVE  \E m \in i..n : StopsAt(m, i, n, go)
<1> DEFINE S == {j \in i..n : ~go[j]}
<1>1. S \subseteq Nat /\ S # {}
  OBVIOUS
<1>2. PICK m \in S : \A j \in S : m <= j
  <2> HIDE DEF S
  <2> QED  BY <1>1, LeastExists
<1> QED  BY <1>2 DEF StopsAt

LEMMA ScanExists ==
  ASSUME NEW n \in Nat, NEW go, ~go[n], NEW val
  PROVE  \E g : g = [i \in 0..n |-> g[i]] /\ ScanOf(g, n, go, val)
<1> DEFINE nx(i) == CHOOSE m \in i..n : StopsAt(m, i, n, go)
           g == [i \in 0..n |-> val[nx(i)]]
<1>1. ASSUME NEW i \in 0..n PROVE nx(i) \in i..n /\ StopsAt(nx(i), i, n, go)
  BY ScanStops, Zenon
<1> HIDE DEF nx
<1>2. ASSUME NEW i \in 0..n PROVE g[i] = IF go[i] THEN g[i + 1] ELSE val[i]
  <2>1. CASE go[i]
    <3>1. i # n
      BY <2>1
    <3>2. i + 1 \in 0..n
      BY <3>1
    <3>3. StopsAt(nx(i), i, n, go) /\ StopsAt(nx(i + 1), i + 1, n, go)
      BY <1>1, <3>2
    <3>4. PICK x, y : x = nx(i) /\ y = nx(i + 1)
      OBVIOUS
    <3>5. x \in i..n /\ ~go[x] /\ \A j \in i..n : ~go[j] => x <= j
      BY <3>3, <3>4 DEF StopsAt
    <3>6. y \in (i + 1)..n /\ ~go[y] /\ \A j \in (i + 1)..n : ~go[j] => y <= j
      BY <3>3, <3>4 DEF StopsAt
    <3>7. x # i
      BY <2>1, <3>5
    <3>8. x \in (i + 1)..n /\ y \in i..n
      BY <3>5, <3>6, <3>7
    <3>9. x <= y /\ y <= x
      BY <3>5, <3>6, <3>8
    <3>10. x = y
      BY <3>8, <3>9
    <3>11. g[i] = val[x] /\ g[i + 1] = val[y]
      BY <3>2, <3>4
    <3> QED  BY <2>1, <3>10, <3>11
  <2>2. CASE ~go[i]
    <3>1. PICK x : x = nx(i)
      OBVIOUS
    <3>2. x \in i..n /\ \A j \in i..n : ~go[j] => x <= j
      BY <1>1, <3>1 DEF StopsAt
    <3>3. x = i
      BY <2>2, <3>2
    <3> QED  BY <2>2, <3>1, <3>3
  <2> QED  BY <2>1, <2>2
<1>3. g = [i \in 0..n |-> g[i]]
  OBVIOUS
<1> HIDE DEF g
<1>4. ScanOf(g, n, go, val)
  BY <1>2 DEF ScanOf
<1> QED  BY <1>3, <1>4

LEMMA ScanEnds ==
  ASSUME NEW n \in Nat, NEW go, ~go[n], NEW val, NEW f, ScanOf(f, n, go, val), NEW s \in 0..n
  PROVE  \E m \in s..n : f[s] = val[m] /\ ~go[m] /\ \A j \in s..(m - 1) : go[j]
<1>1. PICK m \in s..n : StopsAt(m, s, n, go)
  BY ScanStops
<1>2. ~go[m] /\ \A j \in s..n : ~go[j] => m <= j
  BY <1>1 DEF StopsAt
<1>3. \A j \in s..(m - 1) : go[j]
  BY <1>2
<1> DEFINE S == {k \in 0..(m - s) : f[s] = f[s + k]}
<1>4. 0 \in S
  OBVIOUS
<1>5. ASSUME NEW k \in 1..(m - s), k - 1 \in S PROVE k \in S
  <2>1. PICK x \in s..(m - 1) : x = s + (k - 1) /\ x + 1 = s + k
    OBVIOUS
  <2>2. f[x] = f[x + 1]
    BY <1>3 DEF ScanOf
  <2> QED  BY <1>5, <2>1, <2>2
<1>6. m - s \in S
  <2>1. m - s \in Nat /\ m - s \in 0..(m - s)
    OBVIOUS
  <2> HIDE DEF S
  <2>2. 0..(m - s) \subseteq S
    BY <1>4, <1>5, <2>1, Induction
  <2> QED  BY <2>1, <2>2
<1>7. f[s] = f[m]
  <2>1. s + (m - s) = m
    OBVIOUS
  <2> QED  BY <1>6, <2>1
<1>8. f[m] = val[m]
  BY <1>2 DEF ScanOf
<1> QED  BY <1>2, <1>3, <1>7, <1>8

Str == Seq(Nat \ {0})

LEMMA AtIs ==
  ASSUME NEW s \in Str, NEW i \in Nat
  PROVE  /\ At(s, i) \in Nat
         /\ At(s, i) = 0 <=> i >= Len(s)
         /\ i < Len(s) => At(s, i) = s[i + 1]
<1>1. CASE i < Len(s)
  <2>1. i + 1 \in 1..Len(s)
    BY <1>1 DEF Str
  <2>2. s[i + 1] \in Nat \ {0} /\ Len(s) \in Nat
    BY <2>1 DEF Str
  <2> QED  BY <1>1, <2>2 DEF At
<1>2. CASE ~(i < Len(s))
  BY <1>2 DEF At, Str
<1> QED  BY <1>1, <1>2

\* strcmp returns the difference at the first offset where the strings
\* differ or end.
Compared(a, b, m) ==
  /\ \A j \in 0..(m - 1) : At(a, j) # 0 /\ At(a, j) = At(b, j)
  /\ ~(At(a, m) # 0 /\ At(a, m) = At(b, m))

LEMMA StrcmpIs ==
  ASSUME NEW a \in Str, NEW b \in Str
  PROVE  \E m \in 0..Len(a) : strcmp(a, b) = At(a, m) - At(b, m) /\ Compared(a, b, m)
<1>1. PICK n \in Nat : n = Len(a)
  BY DEF Str
<1> DEFINE go == [i \in 0..n |-> At(a, i) # 0 /\ At(a, i) = At(b, i)]
           val == [i \in 0..n |-> At(a, i) - At(b, i)]
<1>2. ~go[n]
  <2>1. At(a, n) = 0 /\ n \in 0..n
    BY <1>1, AtIs
  <2> QED  BY <2>1
<1>3. \A i \in 0..n : go[i] = (At(a, i) # 0 /\ At(a, i) = At(b, i)) /\ val[i] = At(a, i) - At(b, i)
  OBVIOUS
<1> HIDE DEF go, val
<1>4. PICK g : g = [i \in 0..n |-> g[i]] /\ ScanOf(g, n, go, val)
  BY <1>2, ScanExists
<1>5. \A i \in 0..n : g[i] = IF At(a, i) # 0 /\ At(a, i) = At(b, i) THEN g[i + 1] ELSE At(a, i) - At(b, i)
  BY <1>3, <1>4, Zenon DEF ScanOf
<1>6. g = [i \in 0..n |-> IF At(a, i) # 0 /\ At(a, i) = At(b, i) THEN g[i + 1] ELSE At(a, i) - At(b, i)]
  BY <1>4, <1>5
<1>7. PICK f : f = CHOOSE h : h = [i \in 0..n |-> IF At(a, i) # 0 /\ At(a, i) = At(b, i) THEN h[i + 1] ELSE At(a, i) - At(b, i)]
  OBVIOUS
<1>8. strcmp(a, b) = f[0]
  BY <1>1, <1>7, Zenon DEF strcmp
<1>9. f = [i \in 0..n |-> IF At(a, i) # 0 /\ At(a, i) = At(b, i) THEN f[i + 1] ELSE At(a, i) - At(b, i)]
  BY <1>6, <1>7, Zenon
<1>10. ScanOf(f, n, go, val)
  <2>1. \A i \in 0..n : f[i] = IF At(a, i) # 0 /\ At(a, i) = At(b, i) THEN f[i + 1] ELSE At(a, i) - At(b, i)
    BY <1>9, Zenon
  <2> QED  BY <1>3, <2>1, Zenon DEF ScanOf
<1>11. PICK m \in 0..n : f[0] = val[m] /\ ~go[m] /\ \A j \in 0..(m - 1) : go[j]
  <2>1. 0 \in 0..n
    OBVIOUS
  <2> QED  BY <1>2, <1>10, <2>1, ScanEnds
<1>12. \A j \in 0..(m - 1) : j \in 0..n
  OBVIOUS
<1> QED  BY <1>1, <1>3, <1>8, <1>11, <1>12 DEF Compared

NCompared(a, b, n, m) ==
  /\ strncmp(a, b, n) = IF m = n THEN 0 ELSE At(a, m) - At(b, m)
  /\ \A j \in 0..(m - 1) : At(a, j) # 0 /\ At(a, j) = At(b, j)
  /\ m = n \/ ~(At(a, m) # 0 /\ At(a, m) = At(b, m))

LEMMA StrncmpIs ==
  ASSUME NEW a \in Str, NEW b \in Str, NEW n \in Nat
  PROVE  \E m \in 0..n : NCompared(a, b, n, m)
<1> DEFINE go == [i \in 0..n |-> i < n /\ At(a, i) # 0 /\ At(a, i) = At(b, i)]
           val == [i \in 0..n |-> IF i = n THEN 0 ELSE At(a, i) - At(b, i)]
<1>2. ~go[n]
  <2>1. n \in 0..n /\ ~(n < n)
    OBVIOUS
  <2> QED  BY <2>1, Zenon
<1>3. \A i \in 0..n : /\ go[i] = (i < n /\ At(a, i) # 0 /\ At(a, i) = At(b, i))
                      /\ val[i] = IF i = n THEN 0 ELSE At(a, i) - At(b, i)
  BY Zenon
<1> HIDE DEF go, val
<1>4. PICK g : g = [i \in 0..n |-> g[i]] /\ ScanOf(g, n, go, val)
  BY <1>2, ScanExists
<1>5. \A i \in 0..n : g[i] = IF i < n /\ At(a, i) # 0 /\ At(a, i) = At(b, i) THEN g[i + 1]
                             ELSE IF i = n THEN 0 ELSE At(a, i) - At(b, i)
  BY <1>3, <1>4, Zenon DEF ScanOf
<1>6. g = [i \in 0..n |-> IF i < n /\ At(a, i) # 0 /\ At(a, i) = At(b, i) THEN g[i + 1]
                          ELSE IF i = n THEN 0 ELSE At(a, i) - At(b, i)]
  BY <1>4, <1>5
<1>7. PICK f : f = CHOOSE h : h = [i \in 0..n |-> IF i < n /\ At(a, i) # 0 /\ At(a, i) = At(b, i) THEN h[i + 1]
                                                  ELSE IF i = n THEN 0 ELSE At(a, i) - At(b, i)]
  OBVIOUS
<1>8. strncmp(a, b, n) = f[0]
  BY <1>7, Zenon DEF strncmp, strncmp_Most
<1>9. f = [i \in 0..n |-> IF i < n /\ At(a, i) # 0 /\ At(a, i) = At(b, i) THEN f[i + 1]
                          ELSE IF i = n THEN 0 ELSE At(a, i) - At(b, i)]
  BY <1>6, <1>7, Zenon
<1>10. ScanOf(f, n, go, val)
  <2>1. \A i \in 0..n : f[i] = IF i < n /\ At(a, i) # 0 /\ At(a, i) = At(b, i) THEN f[i + 1]
                               ELSE IF i = n THEN 0 ELSE At(a, i) - At(b, i)
    BY <1>9, Zenon
  <2> QED  BY <1>3, <2>1, Zenon DEF ScanOf
<1>11. PICK m \in 0..n : f[0] = val[m] /\ ~go[m] /\ \A j \in 0..(m - 1) : go[j]
  <2>1. 0 \in 0..n
    OBVIOUS
  <2> QED  BY <1>2, <1>10, <2>1, ScanEnds
<1>12. \A j \in 0..(m - 1) : j \in 0..n
  OBVIOUS
<1>13. m = n \/ (m < n /\ ~(At(a, m) # 0 /\ At(a, m) = At(b, m)))
  <2>1. m = n \/ m < n
    OBVIOUS
  <2> QED  BY <1>3, <1>11, <2>1
<1>14. \A j \in 0..(m - 1) : At(a, j) # 0 /\ At(a, j) = At(b, j)
  BY <1>3, <1>11, <1>12, Zenon
<1>15. strncmp(a, b, n) = IF m = n THEN 0 ELSE At(a, m) - At(b, m)
  BY <1>3, <1>8, <1>11, Zenon
<1> QED  BY <1>13, <1>14, <1>15 DEF NCompared

LEMMA MinIs ==
  ASSUME NEW S, S \subseteq Nat, S # {}
  PROVE  Min(S) \in S /\ \A y \in S : Min(S) <= y
<1>1. \E x \in S : \A y \in S : x <= y
  BY LeastExists
<1> QED  BY <1>1, Zenon DEF Min

LEMMA CutIs ==
  ASSUME NEW s \in Str, NEW n \in Nat
  PROVE  /\ Cut(s, n) \in Str /\ Len(Cut(s, n)) = (IF n < Len(s) THEN n ELSE Len(s))
         /\ \A i \in Nat : At(Cut(s, n), i) = IF i < n THEN At(s, i) ELSE 0
<1>1. PICK len \in Nat : len = IF n < Len(s) THEN n ELSE Len(s)
  BY DEF Str
<1>2. len <= Len(s)
  BY <1>1 DEF Str
<1>3. PICK t : t = Cut(s, n)
  OBVIOUS
<1>4. t = SubSeq(s, 1, len)
  BY <1>1, <1>3 DEF Cut
<1>5. t \in Str /\ Len(t) = len /\ \A k \in 1..len : t[k] = s[k]
  BY <1>2, <1>4, SubSeqProperties DEF Str
<1>6. ASSUME NEW i \in Nat PROVE At(t, i) = IF i < n THEN At(s, i) ELSE 0
  <2>1. CASE i < len
    <3>1. i + 1 \in 1..len /\ i < n /\ i < Len(s)
      BY <1>1, <2>1 DEF Str
    <3> QED  BY <1>5, <2>1, <3>1 DEF At
  <2>2. CASE ~(i < len)
    <3>1. At(t, i) = 0
      BY <1>5, <2>2 DEF At
    <3>2. ~(i < n) \/ ~(i < Len(s))
      BY <1>1, <2>2 DEF Str
    <3> QED  BY <3>1, <3>2 DEF At
  <2> QED  BY <2>1, <2>2
<1> QED  BY <1>1, <1>3, <1>5, <1>6

\* Where the loops of two comparisons stop is determined.
LEMMA StopsOnce ==
  ASSUME NEW a \in Str, NEW b \in Str, NEW c \in Str, NEW d \in Str, NEW m \in Nat, NEW k \in Nat,
         Compared(a, b, m), Compared(c, d, k),
         \A i \in Nat : (At(a, i) # 0 /\ At(a, i) = At(b, i)) <=> (At(c, i) # 0 /\ At(c, i) = At(d, i))
  PROVE  m = k
<1>1. ~(m < k)
  BY DEF Compared
<1>2. ~(k < m)
  BY DEF Compared
<1> QED  BY <1>1, <1>2

(***************************************************************************)
(* strcmp orders any two strings by their first difference, a string       *)
(* before its extensions, and strncmp compares what strcmp would see of    *)
(* the strings cut to n characters, for every n.                           *)
(***************************************************************************)
THEOREM ComparesAlwaysExact ==
  ASSUME NEW a \in Str, NEW b \in Str, NEW n \in Nat
  PROVE  ComparesExact(a, b, n)
<1> DEFINE Differ == {i \in 0..Len(a) : At(a, i) # At(b, i)}
<1>0. PICK len \in Nat : len = Len(a)
  BY DEF Str
<1>1. Sign(strcmp(a, b)) = IF Differ = {} THEN 0 ELSE Sign(At(a, Min(Differ)) - At(b, Min(Differ)))
  <2>1. PICK m \in 0..len : strcmp(a, b) = At(a, m) - At(b, m) /\ Compared(a, b, m)
    BY <1>0, StrcmpIs
  <2>2. At(a, m) \in Nat /\ At(b, m) \in Nat
    BY AtIs
  <2>3. CASE Differ = {}
    <3>1. At(a, m) = At(b, m)
      BY <1>0, <2>3
    <3> QED  BY <2>1, <2>2, <2>3, <3>1 DEF Sign
  <2>4. CASE Differ # {}
    <3>1. PICK d : d = Min(Differ)
      OBVIOUS
    <3>2. d \in Differ /\ \A y \in Differ : d <= y
      <4>1. Differ \subseteq Nat
        BY <1>0
      <4> HIDE DEF Differ
      <4> QED  BY <2>4, <3>1, <4>1, MinIs
    <3>3. d \in 0..len /\ At(a, d) # At(b, d) /\ \A j \in 0..len : j < d => At(a, j) = At(b, j)
      BY <1>0, <3>2
    <3>4. ~(d < m)
      BY <2>1, <3>3 DEF Compared
    <3>5. ~(m < d)
      <4>1. ASSUME m < d PROVE FALSE
        <5>1. At(a, m) = 0
          BY <2>1, <3>3, <4>1 DEF Compared
        <5>2. m >= Len(a)
          BY <5>1, AtIs
        <5> QED  BY <1>0, <3>3, <4>1, <5>2
      <4> QED  BY <4>1
    <3>6. m = d
      BY <3>3, <3>4, <3>5
    <3> QED  BY <2>1, <2>4, <3>1, <3>6
  <2> QED  BY <2>3, <2>4
<1>2. Sign(strncmp(a, b, n)) = Sign(strcmp(Cut(a, n), Cut(b, n)))
  <2>1. PICK c \in Str, d \in Str : c = Cut(a, n) /\ d = Cut(b, n)
    BY CutIs
  <2>2. \A i \in Nat : /\ At(c, i) = IF i < n THEN At(a, i) ELSE 0
                       /\ At(d, i) = IF i < n THEN At(b, i) ELSE 0
    BY <2>1, CutIs
  <2>3. PICK m \in 0..n : NCompared(a, b, n, m)
    BY StrncmpIs
  <2>4. PICK k \in Nat : strcmp(c, d) = At(c, k) - At(d, k) /\ Compared(c, d, k)
    BY StrcmpIs DEF Str
  <2>5. Compared(c, d, m)
    BY <2>2, <2>3 DEF Compared, NCompared
  <2>6. m = k
    BY <2>4, <2>5, StopsOnce
  <2>7. strncmp(a, b, n) = strcmp(c, d)
    BY <2>2, <2>3, <2>4, <2>6 DEF NCompared
  <2> QED  BY <2>1, <2>7
<1> QED  BY <1>1, <1>2 DEF ComparesExact

LEMMA LeastIs ==
  ASSUME NEW S, S \subseteq Nat, NEW x \in S, \A y \in S : x <= y
  PROVE  Least(S) = x
<1>1. Min(S) \in S /\ Min(S) <= x /\ S # {}
  BY MinIs
<1>2. Min(S) \in Nat /\ x \in Nat /\ x <= Min(S)
  BY <1>1
<1> QED  BY <1>1, <1>2 DEF Least

LEMMA GreatestIs ==
  ASSUME NEW S, S \subseteq Nat, NEW x \in S, \A y \in S : y <= x
  PROVE  Greatest(S) = x
<1>1. \E z \in S : \A y \in S : z >= y
  OBVIOUS
<1>2. Max(S) \in S /\ \A y \in S : Max(S) >= y
  BY <1>1, Zenon DEF Max
<1>3. Max(S) >= x /\ Max(S) <= x /\ Max(S) \in Nat /\ x \in Nat /\ S # {}
  BY <1>2
<1> QED  BY <1>3 DEF Greatest

LEMMA StrchrIs ==
  ASSUME NEW s \in Str, NEW c \in Nat
  PROVE  strchr(s, c) = Least({i \in 0..Len(s) : At(s, i) = c})
<1>1. PICK n \in Nat : n = Len(s)
  BY DEF Str
<1> DEFINE go == [i \in 0..n |-> At(s, i) # 0 /\ At(s, i) # c]
           val == [i \in 0..n |-> IF At(s, i) # 0 \/ c = 0 THEN i ELSE NULL]
<1>2. ~go[n]
  <2>1. At(s, n) = 0 /\ n \in 0..n
    BY <1>1, AtIs
  <2> QED  BY <2>1
<1>3. \A i \in 0..n : /\ go[i] = (At(s, i) # 0 /\ At(s, i) # c)
                      /\ val[i] = IF At(s, i) # 0 \/ c = 0 THEN i ELSE NULL
  BY Zenon
<1> HIDE DEF go, val
<1>4. PICK g : g = [i \in 0..n |-> g[i]] /\ ScanOf(g, n, go, val)
  BY <1>2, ScanExists
<1>5. \A i \in 0..n : g[i] = IF At(s, i) # 0 /\ At(s, i) # c THEN g[i + 1] ELSE IF At(s, i) # 0 \/ c = 0 THEN i ELSE NULL
  BY <1>3, <1>4, Zenon DEF ScanOf
<1>6. g = [i \in 0..n |-> IF At(s, i) # 0 /\ At(s, i) # c THEN g[i + 1] ELSE IF At(s, i) # 0 \/ c = 0 THEN i ELSE NULL]
  BY <1>4, <1>5, Zenon
<1>7. PICK f : f = CHOOSE h : h = [i \in 0..n |-> IF At(s, i) # 0 /\ At(s, i) # c THEN h[i + 1] ELSE IF At(s, i) # 0 \/ c = 0 THEN i ELSE NULL]
  OBVIOUS
<1>8. strchr(s, c) = f[0]
  BY <1>1, <1>7, Zenon DEF strchr
<1>9. f = [i \in 0..n |-> IF At(s, i) # 0 /\ At(s, i) # c THEN f[i + 1] ELSE IF At(s, i) # 0 \/ c = 0 THEN i ELSE NULL]
  BY <1>6, <1>7, Zenon
<1>10. ScanOf(f, n, go, val)
  <2>1. \A i \in 0..n : f[i] = IF At(s, i) # 0 /\ At(s, i) # c THEN f[i + 1] ELSE IF At(s, i) # 0 \/ c = 0 THEN i ELSE NULL
    BY <1>9, Zenon
  <2> QED  BY <1>3, <2>1, Zenon DEF ScanOf
<1>11. PICK m \in 0..n : f[0] = val[m] /\ ~go[m] /\ \A j \in 0..(m - 1) : go[j]
  <2>1. 0 \in 0..n
    OBVIOUS
  <2> QED  BY <1>2, <1>10, <2>1, ScanEnds
<1>12. \A j \in 0..(m - 1) : j \in 0..n /\ At(s, j) # c
  <2>1. \A j \in 0..(m - 1) : j \in 0..n
    OBVIOUS
  <2> QED  BY <1>3, <1>11, <2>1, Zenon
<1>13. (At(s, m) = 0 \/ At(s, m) = c) /\ strchr(s, c) = IF At(s, m) # 0 \/ c = 0 THEN m ELSE NULL
  BY <1>3, <1>8, <1>11, Zenon
<1> DEFINE M == {i \in 0..n : At(s, i) = c}
<1>14. \A y \in M : m <= y
  BY <1>12
<1>15. CASE At(s, m) = c
  <2>1. m \in M /\ M \subseteq Nat
    BY <1>15
  <2>2. strchr(s, c) = m
    BY <1>13, <1>15
  <2> HIDE DEF M
  <2>3. Least(M) = m
    BY <1>14, <2>1, LeastIs
  <2> QED  BY <1>1, <2>2, <2>3 DEF M
<1>16. CASE At(s, m) # c
  <2>1. At(s, m) = 0 /\ c # 0
    BY <1>13, <1>16
  <2>2. m = n
    <3>1. m >= Len(s)
      BY <2>1, AtIs
    <3> QED  BY <1>1, <3>1
  <2>3. M = {}
    BY <1>14, <1>16, <2>2
  <2>4. strchr(s, c) = NULL
    BY <1>13, <2>1
  <2> HIDE DEF M
  <2> QED  BY <1>1, <2>3, <2>4 DEF Least, M
<1> QED  BY <1>15, <1>16

LEMMA StrrchrIs ==
  ASSUME NEW s \in Str, NEW c \in Nat
  PROVE  strrchr(s, c) = Greatest({i \in 0..Len(s) : At(s, i) = c})
<1>1. PICK n \in Nat : n = Len(s)
  BY DEF Str
<1> DEFINE M == {i \in 0..n : At(s, i) = c}
<1>2. CASE c = 0
  <2>1. \A i \in 0..n : At(s, i) = 0 <=> i = n
    BY <1>1, AtIs
  <2>2. M \subseteq Nat /\ n \in M /\ \A y \in M : y <= n
    BY <1>2, <2>1
  <2>3. Greatest(M) = n
    <3> HIDE DEF M
    <3> QED  BY <2>2, GreatestIs
  <2>4. strrchr(s, c) = n
    BY <1>1, <1>2 DEF strrchr
  <2> QED  BY <1>1, <2>3, <2>4
<1>3. CASE c # 0
  <2> DEFINE step == [k \in 1..n |-> [l \in Int |-> IF At(s, k - 1) = c THEN k - 1 ELSE l]]
  <2>1. step \in [1..n -> [Int -> Int]]
    OBVIOUS
  <2>2. NULL \in Int
    BY DEF NULL
  <2>3. PICK g \in [0..n -> Int] : RunOf(g, NULL, n, step)
    <3> HIDE DEF step
    <3> QED  BY <2>1, <2>2, LoopRuns
  <2>4. g[0] = NULL /\ \A k \in 1..n : g[k] = IF At(s, k - 1) = c THEN k - 1 ELSE g[k - 1]
    <3>1. ASSUME NEW k \in 1..n PROVE g[k] = IF At(s, k - 1) = c THEN k - 1 ELSE g[k - 1]
      <4>1. g[k - 1] \in Int
        BY <2>3
      <4>2. g[k] = step[k][g[k - 1]]
        BY <2>3, Zenon DEF RunOf
      <4> QED  BY <4>1, <4>2
    <3> QED  BY <2>3, <3>1 DEF RunOf
  <2>5. \A k \in 0..n : k = 0 \/ k \in 1..n
    OBVIOUS
  <2> HIDE DEF step
  <2>6. \A k \in 0..n : g[k] = IF k = 0 THEN NULL ELSE IF At(s, k - 1) = c THEN k - 1 ELSE g[k - 1]
    BY <2>4, <2>5
  <2>7. g = [k \in 0..n |-> IF k = 0 THEN NULL ELSE IF At(s, k - 1) = c THEN k - 1 ELSE g[k - 1]]
    BY <2>6
  <2>8. PICK f : f = CHOOSE h : h = [k \in 0..n |-> IF k = 0 THEN NULL ELSE IF At(s, k - 1) = c THEN k - 1 ELSE h[k - 1]]
    OBVIOUS
  <2>9. f = [k \in 0..n |-> IF k = 0 THEN NULL ELSE IF At(s, k - 1) = c THEN k - 1 ELSE f[k - 1]]
    BY <2>7, <2>8, Zenon
  <2>10. strrchr(s, c) = f[n]
    BY <1>1, <1>3, <2>8, Zenon DEF strrchr
  <2>11. f[0] = NULL /\ \A k \in 1..n : f[k] = IF At(s, k - 1) = c THEN k - 1 ELSE f[k - 1]
    <3>1. 0 \in 0..n /\ \A k \in 1..n : k \in 0..n /\ k # 0
      OBVIOUS
    <3>2. \A k \in 0..n : f[k] = IF k = 0 THEN NULL ELSE IF At(s, k - 1) = c THEN k - 1 ELSE f[k - 1]
      BY <2>9, Zenon
    <3> QED  BY <3>1, <3>2, Zenon
  <2> DEFINE S == {k \in 0..n : \/ f[k] = NULL /\ \A j \in 0..(k - 1) : At(s, j) # c
                                \/ /\ f[k] \in 0..(k - 1) /\ At(s, f[k]) = c
                                   /\ \A j \in 0..(k - 1) : At(s, j) = c => j <= f[k]}
  <2>12. 0 \in S
    BY <2>11
  <2>13. ASSUME NEW k \in 1..n, k - 1 \in S PROVE k \in S
    <3>1. PICK i \in 0..(n - 1) : i = k - 1 /\ k = i + 1
      OBVIOUS
    <3>2. f[k] = IF At(s, i) = c THEN i ELSE f[i]
      BY <2>11, <3>1
    <3>3. \A j \in 0..i : j = i \/ j \in 0..(i - 1)
      OBVIOUS
    <3>4. \/ f[i] = NULL /\ \A j \in 0..(i - 1) : At(s, j) # c
          \/ f[i] \in 0..(i - 1) /\ At(s, f[i]) = c /\ \A j \in 0..(i - 1) : At(s, j) = c => j <= f[i]
      BY <2>13, <3>1
    <3>5. \/ f[k] = NULL /\ \A j \in 0..i : At(s, j) # c
          \/ f[k] \in 0..i /\ At(s, f[k]) = c /\ \A j \in 0..i : At(s, j) = c => j <= f[k]
      <4>1. CASE At(s, i) = c
        BY <3>2, <4>1
      <4>2. CASE At(s, i) # c
        <5>1. f[k] = f[i]
          BY <3>2, <4>2
        <5>2. CASE f[i] = NULL /\ \A j \in 0..(i - 1) : At(s, j) # c
          BY <3>3, <4>2, <5>1, <5>2
        <5>3. CASE f[i] \in 0..(i - 1) /\ At(s, f[i]) = c /\ \A j \in 0..(i - 1) : At(s, j) = c => j <= f[i]
          <6>1. f[i] \in 0..i
            BY <5>3
          <6> QED  BY <3>3, <4>2, <5>1, <5>3, <6>1
        <5> QED  BY <3>4, <5>2, <5>3
      <4> QED  BY <4>1, <4>2
    <3>6. k \in 0..n /\ k - 1 = i
      BY <3>1
    <3> QED  BY <3>5, <3>6
  <2>14. n \in S
    <3>1. n \in 0..n
      OBVIOUS
    <3> HIDE DEF S
    <3>2. 0..n \subseteq S
      BY <2>12, <2>13, Induction
    <3> QED  BY <3>1, <3>2
  <2>15. \A y \in M : y \in 0..(n - 1)
    <3>1. At(s, n) = 0
      BY <1>1, AtIs
    <3> QED  BY <1>3, <3>1
  <2>16. CASE f[n] = NULL /\ \A j \in 0..(n - 1) : At(s, j) # c
    <3>1. M = {}
      BY <2>15, <2>16
    <3> HIDE DEF M
    <3> QED  BY <1>1, <2>10, <2>16, <3>1 DEF Greatest, M
  <2>17. CASE f[n] \in 0..(n - 1) /\ At(s, f[n]) = c /\ \A j \in 0..(n - 1) : At(s, j) = c => j <= f[n]
    <3>1. M \subseteq Nat /\ f[n] \in M /\ \A y \in M : y <= f[n]
      BY <2>15, <2>17
    <3>2. Greatest(M) = f[n]
      <4> HIDE DEF M
      <4> QED  BY <3>1, GreatestIs
    <3> QED  BY <1>1, <2>10, <3>2
  <2> QED  BY <2>14, <2>16, <2>17
<1> QED  BY <1>2, <1>3

LEMMA RestIs ==
  ASSUME NEW h \in Str, NEW i \in 0..Len(h)
  PROVE  /\ SubSeq(h, i + 1, Len(h)) \in Str /\ Len(SubSeq(h, i + 1, Len(h))) = Len(h) - i
         /\ \A j \in Nat : At(SubSeq(h, i + 1, Len(h)), j) = At(h, i + j)
<1>1. PICK t : t = SubSeq(h, i + 1, Len(h))
  OBVIOUS
<1>2. PICK n \in Nat : n = Len(h)
  BY DEF Str
<1>3. t \in Str /\ Len(t) = n - i /\ \A k \in 1..(n - i) : t[k] = h[i + k]
  <2>1. t \in Str /\ Len(t) = IF i + 1 <= n THEN n - (i + 1) + 1 ELSE 0
    BY <1>1, <1>2, SubSeqProperties DEF Str
  <2>2. Len(t) = n - i
    BY <1>2, <2>1
  <2>3. ASSUME NEW k \in 1..(n - i) PROVE t[k] = h[i + k]
    <3>1. t[k] = h[(i + 1) + k - 1]
      BY <1>1, <1>2, <2>2, SubSeqProperties DEF Str
    <3>2. (i + 1) + k - 1 = i + k
      BY <1>2
    <3> QED  BY <3>1, <3>2
  <2> QED  BY <2>1, <2>2, <2>3
<1>4. ASSUME NEW j \in Nat PROVE At(t, j) = At(h, i + j)
  <2>1. CASE j < n - i
    <3>1. j + 1 \in 1..(n - i) /\ i + j < n /\ i + (j + 1) = i + j + 1
      BY <1>2, <2>1
    <3>2. t[j + 1] = h[i + j + 1]
      BY <1>3, <3>1
    <3> QED  BY <1>2, <1>3, <2>1, <3>1, <3>2 DEF At
  <2>2. CASE ~(j < n - i)
    <3>1. ~(i + j < n)
      BY <1>2, <2>2
    <3> QED  BY <1>2, <1>3, <2>2, <3>1 DEF At
  <2> QED  BY <2>1, <2>2
<1> QED  BY <1>1, <1>2, <1>3, <1>4

Occurs(h, i, needle) == i + Len(needle) <= Len(h) /\ SubSeq(h, i + 1, i + Len(needle)) = needle

LEMMA OccursIs ==
  ASSUME NEW h \in Str, NEW needle \in Str, NEW i \in 0..Len(h)
  PROVE  Occurs(h, i, needle) <=> \A j \in 0..(Len(needle) - 1) : At(h, i + j) = At(needle, j)
<1>1. PICK n \in Nat, k \in Nat : n = Len(h) /\ k = Len(needle)
  BY DEF Str
<1>2. PICK t : t = SubSeq(h, i + 1, i + k)
  OBVIOUS
<1>3. ASSUME i + k <= n PROVE t \in Str /\ Len(t) = k /\ \A j \in 0..(k - 1) : t[j + 1] = At(h, i + j)
  <2>1. t \in Str /\ Len(t) = k
    <3>1. i + 1 \in 1..(n + 1) /\ i + k \in i..n
      BY <1>1, <1>3
    <3>2. t \in Str /\ Len(t) = IF i + 1 <= i + k THEN (i + k) - (i + 1) + 1 ELSE 0
      BY <1>1, <1>2, <1>3, <3>1, SubSeqProperties DEF Str
    <3> QED  BY <1>1, <3>2
  <2>2. ASSUME NEW j \in 0..(k - 1) PROVE t[j + 1] = At(h, i + j)
    <3>1. j + 1 \in 1..k /\ i + j < n /\ (i + 1) + (j + 1) - 1 = i + j + 1
      BY <1>1, <1>3
    <3>2. t[j + 1] = h[i + j + 1]
      <4>1. t[j + 1] = h[(i + 1) + (j + 1) - 1]
        BY <1>1, <1>2, <1>3, <2>1, <3>1, SubSeqProperties DEF Str
      <4> QED  BY <3>1, <4>1
    <3> QED  BY <1>1, <3>1, <3>2 DEF At
  <2> QED  BY <2>1, <2>2
<1>4. \A j \in 0..(k - 1) : j + 1 \in 1..k /\ At(needle, j) = needle[j + 1] /\ At(needle, j) # 0
  <2>1. ASSUME NEW j \in 0..(k - 1) PROVE j + 1 \in 1..k /\ At(needle, j) = needle[j + 1] /\ At(needle, j) # 0
    <3>1. j \in Nat /\ j + 1 \in 1..k /\ j < k
      OBVIOUS
    <3>2. j < Len(needle) /\ ~(j >= Len(needle))
      BY <1>1, <3>1
    <3> QED  BY <3>1, <3>2, AtIs
  <2> QED  BY <2>1
<1>5. ASSUME Occurs(h, i, needle) PROVE \A j \in 0..(k - 1) : At(h, i + j) = At(needle, j)
  <2>1. i + k <= n /\ t = needle
    BY <1>1, <1>2, <1>5 DEF Occurs
  <2> QED  BY <1>3, <1>4, <2>1
<1>6. ASSUME \A j \in 0..(k - 1) : At(h, i + j) = At(needle, j) PROVE Occurs(h, i, needle)
  <2>1. i + k <= n
    <3>1. CASE k = 0
      BY <1>1, <3>1
    <3>2. CASE k # 0
      <4>1. k - 1 \in 0..(k - 1)
        BY <3>2
      <4>2. At(h, i + (k - 1)) # 0
        BY <1>4, <1>6, <4>1
      <4>3. i + (k - 1) \in Nat
        BY <1>1, <4>1
      <4>4. ~(i + (k - 1) >= Len(h))
        BY <4>2, <4>3, AtIs
      <4> QED  BY <1>1, <4>4
    <3> QED  BY <3>1, <3>2
  <2>2. \A x \in 1..k : t[x] = needle[x]
    <3>1. ASSUME NEW x \in 1..k PROVE t[x] = needle[x]
      <4>1. PICK j \in 0..(k - 1) : x = j + 1
        <5>1. x - 1 \in 0..(k - 1) /\ x = (x - 1) + 1
          OBVIOUS
        <5> QED  BY <5>1
      <4> QED  BY <1>3, <1>4, <1>6, <2>1, <4>1
    <3> QED  BY <3>1
  <2>3. t = needle
    <3>1. t \in [1..k -> Nat \ {0}] /\ needle \in [1..k -> Nat \ {0}]
      BY <1>1, <1>3, <2>1 DEF Str
    <3> QED  BY <2>2, <3>1
  <2> QED  BY <1>1, <1>2, <2>1, <2>3 DEF Occurs
<1> QED  BY <1>1, <1>5, <1>6

LEMMA BeginsIs ==
  ASSUME NEW h \in Str, NEW needle \in Str, NEW i \in 0..Len(h)
  PROVE  Begins(h, i, needle) = Occurs(h, i, needle)
<1>1. PICK k \in Nat : k = Len(needle)
  BY DEF Str
<1>2. PICK t \in Str : t = SubSeq(h, i + 1, Len(h))
  BY RestIs
<1>3. \A j \in Nat : At(t, j) = At(h, i + j)
  BY <1>2, RestIs
<1>4. PICK m \in 0..k : NCompared(t, needle, k, m)
  BY StrncmpIs
<1>5. Begins(h, i, needle) <=> strncmp(t, needle, k) = 0
  BY <1>1, <1>2 DEF Begins
<1>6. Occurs(h, i, needle) <=> \A j \in 0..(k - 1) : At(t, j) = At(needle, j)
  <2>1. Occurs(h, i, needle) <=> \A j \in 0..(k - 1) : At(h, i + j) = At(needle, j)
    BY <1>1, OccursIs
  <2>2. \A j \in 0..(k - 1) : At(t, j) = At(h, i + j)
    BY <1>3
  <2> QED  BY <2>1, <2>2
<1>7. CASE m = k
  <2>1. strncmp(t, needle, k) = 0 /\ \A j \in 0..(k - 1) : At(t, j) = At(needle, j)
    BY <1>4, <1>7 DEF NCompared
  <2> QED  BY <1>5, <1>6, <2>1 DEF Begins, Occurs
<1>8. CASE m # k
  <2>1. m \in 0..(k - 1)
    BY <1>8
  <2>2. At(needle, m) # 0 /\ At(needle, m) \in Nat /\ At(t, m) \in Nat
    BY <1>1, <2>1, AtIs
  <2>3. strncmp(t, needle, k) = At(t, m) - At(needle, m) /\ ~(At(t, m) # 0 /\ At(t, m) = At(needle, m))
    BY <1>4, <1>8 DEF NCompared
  <2>4. At(t, m) # At(needle, m)
    BY <2>2, <2>3
  <2>5. strncmp(t, needle, k) # 0
    BY <2>2, <2>3, <2>4
  <2> QED  BY <1>5, <1>6, <2>1, <2>4, <2>5 DEF Begins, Occurs
<1> QED  BY <1>7, <1>8

LEMMA StrstrIs ==
  ASSUME NEW h \in Str, NEW needle \in Str
  PROVE  strstr(h, needle) = Least({i \in 0..Len(h) : Occurs(h, i, needle)})
<1>1. PICK n \in Nat : n = Len(h)
  BY DEF Str
<1> DEFINE M == {i \in 0..n : Occurs(h, i, needle)}
<1>2. CASE needle = <<>>
  <2>1. strstr(h, needle) = 0
    BY <1>2 DEF strstr
  <2>2. Occurs(h, 0, needle)
    <3>1. Len(needle) = 0 /\ 0 \in 0..Len(h)
      BY <1>1, <1>2
    <3>2. \A j \in 0..(Len(needle) - 1) : At(h, 0 + j) = At(needle, j)
      BY <3>1
    <3> QED  BY <3>1, <3>2, OccursIs
  <2>3. M \subseteq Nat /\ 0 \in M /\ \A y \in M : 0 <= y
    BY <2>2
  <2>4. Least(M) = 0
    <3> HIDE DEF M
    <3> QED  BY <2>3, LeastIs
  <2> QED  BY <1>1, <2>1, <2>4
<1>3. CASE needle # <<>>
  <2> DEFINE go == [i \in 0..n |-> At(h, i) # 0 /\ ~Begins(h, i, needle)]
             val == [i \in 0..n |-> IF At(h, i) # 0 THEN i ELSE NULL]
  <2>2. ~go[n]
    <3>1. At(h, n) = 0 /\ n \in 0..n
      BY <1>1, AtIs
    <3> QED  BY <3>1
  <2>3. \A i \in 0..n : /\ go[i] = (At(h, i) # 0 /\ ~Begins(h, i, needle))
                        /\ val[i] = IF At(h, i) # 0 THEN i ELSE NULL
    BY Zenon
  <2> HIDE DEF go, val
  <2>4. PICK g : g = [i \in 0..n |-> g[i]] /\ ScanOf(g, n, go, val)
    BY <2>2, ScanExists
  <2>5. \A i \in 0..n : g[i] = IF At(h, i) # 0 /\ ~Begins(h, i, needle) THEN g[i + 1] ELSE IF At(h, i) # 0 THEN i ELSE NULL
    BY <2>3, <2>4, Zenon DEF ScanOf
  <2>6. g = [i \in 0..n |-> IF At(h, i) # 0 /\ ~Begins(h, i, needle) THEN g[i + 1] ELSE IF At(h, i) # 0 THEN i ELSE NULL]
    BY <2>4, <2>5, Zenon
  <2>7. PICK f : f = CHOOSE x : x = [i \in 0..n |-> IF At(h, i) # 0 /\ ~Begins(h, i, needle) THEN x[i + 1] ELSE IF At(h, i) # 0 THEN i ELSE NULL]
    OBVIOUS
  <2>8. strstr(h, needle) = f[0]
    BY <1>1, <1>3, <2>7, Zenon DEF strstr
  <2>9. f = [i \in 0..n |-> IF At(h, i) # 0 /\ ~Begins(h, i, needle) THEN f[i + 1] ELSE IF At(h, i) # 0 THEN i ELSE NULL]
    BY <2>6, <2>7, Zenon
  <2>10. ScanOf(f, n, go, val)
    <3>1. \A i \in 0..n : f[i] = IF At(h, i) # 0 /\ ~Begins(h, i, needle) THEN f[i + 1] ELSE IF At(h, i) # 0 THEN i ELSE NULL
      BY <2>9, Zenon
    <3> QED  BY <2>3, <3>1, Zenon DEF ScanOf
  <2>11. PICK m \in 0..n : f[0] = val[m] /\ ~go[m] /\ \A j \in 0..(m - 1) : go[j]
    <3>1. 0 \in 0..n
      OBVIOUS
    <3> QED  BY <2>2, <2>10, <3>1, ScanEnds
  <2>12. \A j \in 0..(m - 1) : j \in 0..n /\ ~Occurs(h, j, needle)
    <3>1. \A j \in 0..(m - 1) : j \in 0..n
      OBVIOUS
    <3>2. \A j \in 0..(m - 1) : ~Begins(h, j, needle)
      BY <2>3, <2>11, <3>1, Zenon
    <3> QED  BY <1>1, <3>1, <3>2, BeginsIs
  <2>13. (At(h, m) = 0 \/ Begins(h, m, needle)) /\ strstr(h, needle) = IF At(h, m) # 0 THEN m ELSE NULL
    BY <2>3, <2>8, <2>11, Zenon
  <2>14. \A y \in M : m <= y
    BY <2>12
  <2>15. CASE At(h, m) # 0
    <3>1. Occurs(h, m, needle)
      BY <1>1, <2>13, <2>15, BeginsIs
    <3>2. m \in M /\ M \subseteq Nat
      BY <3>1
    <3>3. Least(M) = m
      <4> HIDE DEF M
      <4> QED  BY <2>14, <3>2, LeastIs
    <3> QED  BY <1>1, <2>13, <2>15, <3>3
  <2>16. CASE At(h, m) = 0
    <3>1. m = n
      <4>1. m >= Len(h)
        BY <2>16, AtIs
      <4> QED  BY <1>1, <4>1
    <3>2. Len(needle) \in Nat /\ Len(needle) > 0
      BY <1>3 DEF Str
    <3>3. ~Occurs(h, n, needle)
      BY <1>1, <3>2 DEF Occurs
    <3>4. M = {}
      BY <2>14, <3>1, <3>3
    <3> HIDE DEF M
    <3> QED  BY <1>1, <2>13, <2>16, <3>4 DEF Least, M
  <2> QED  BY <2>15, <2>16
<1> QED  BY <1>2, <1>3

(***************************************************************************)
(* strchr, strrchr and strstr return the first, the last and the first     *)
(* match in any string, the terminating zero among the characters, and     *)
(* nothing exactly if there is none.                                       *)
(***************************************************************************)
THEOREM SearchesAlwaysExact ==
  ASSUME NEW h \in Str, NEW needle \in Str, NEW c \in Nat
  PROVE  SearchesExact(h, needle, c)
BY StrchrIs, StrrchrIs, StrstrIs DEF SearchesExact, Occurs

\* Loops that write v[1], v[2], ... upwards from d.
FillOf(f, mem, d, n, v) ==
  f[0] = mem /\ \A j \in 1..n : f[j] = [f[j - 1] EXCEPT ![d + j - 1] = v[j]]

FilledUpTo(mem, d, n, v) == [i \in DOMAIN mem |-> IF i \in d..(d + n - 1) THEN v[i - d + 1] ELSE mem[i]]

FillsOn(mem, d, j, v) == FilledUpTo(mem, d, j, v) = [FilledUpTo(mem, d, j - 1, v) EXCEPT ![d + j - 1] = v[j]]

LEMMA FillStep ==
  ASSUME NEW size \in Nat, NEW mem, DOMAIN mem = 0..(size - 1), NEW d \in Nat, NEW n \in Nat, NEW v, NEW j \in 1..n
  PROVE  FillsOn(mem, d, j, v)
<1> DEFINE a == FilledUpTo(mem, d, j - 1, v)
           b == FilledUpTo(mem, d, j, v)
<1>1. /\ a = [i \in 0..(size - 1) |-> IF i \in d..(d + (j - 1) - 1) THEN v[i - d + 1] ELSE mem[i]]
      /\ b = [i \in 0..(size - 1) |-> IF i \in d..(d + j - 1) THEN v[i - d + 1] ELSE mem[i]]
  BY DEF FilledUpTo
<1> HIDE DEF a, b
<1>2. ASSUME NEW i \in 0..(size - 1) PROVE b[i] = IF i = d + j - 1 THEN v[j] ELSE a[i]
  <2>1. CASE i = d + j - 1
    <3>1. i - d + 1 = j /\ i \in d..(d + j - 1)
      BY <2>1
    <3> QED  BY <1>1, <2>1, <3>1
  <2>2. CASE i # d + j - 1
    <3>1. i \in d..(d + j - 1) <=> i \in d..(d + (j - 1) - 1)
      BY <2>2
    <3> QED  BY <1>1, <2>2, <3>1
  <2> QED  BY <2>1, <2>2
<1>3. b = [i \in 0..(size - 1) |-> IF i = d + j - 1 THEN v[j] ELSE a[i]]
  BY <1>1, <1>2
<1>4. DOMAIN a = 0..(size - 1)
  BY <1>1
<1>5. b = [a EXCEPT ![d + j - 1] = v[j]]
  BY <1>3, <1>4
<1> QED  BY <1>5 DEF a, b, FillsOn

LEMMA FillStarts ==
  ASSUME NEW size \in Nat, NEW mem, mem = [i \in 0..(size - 1) |-> mem[i]], NEW d \in Nat, NEW v
  PROVE  FilledUpTo(mem, d, 0, v) = mem
<1>1. DOMAIN mem = 0..(size - 1)
  BY Zenon
<1>2. \A i \in 0..(size - 1) : i \notin d..(d + 0 - 1)
  OBVIOUS
<1>3. \A i \in 0..(size - 1) : (IF i \in d..(d + 0 - 1) THEN v[i - d + 1] ELSE mem[i]) = mem[i]
  BY <1>2, Zenon
<1>4. FilledUpTo(mem, d, 0, v) = [i \in 0..(size - 1) |-> mem[i]]
  BY <1>1, <1>3 DEF FilledUpTo
<1> QED  BY <1>4, Zenon

LEMMA FillExists ==
  ASSUME NEW size \in Nat, NEW mem, mem = [i \in 0..(size - 1) |-> mem[i]], NEW d \in Nat, NEW n \in Nat, NEW v
  PROVE  \E g : g = [j \in 0..n |-> g[j]] /\ FillOf(g, mem, d, n, v)
<1> DEFINE g == [j \in 0..n |-> FilledUpTo(mem, d, j, v)]
<1>1. DOMAIN mem = 0..(size - 1)
  BY Zenon
<1>2. g[0] = mem
  BY FillStarts
<1>3. ASSUME NEW j \in 1..n PROVE g[j] = [g[j - 1] EXCEPT ![d + j - 1] = v[j]]
  <2>1. j \in 0..n /\ j - 1 \in 0..n
    OBVIOUS
  <2>2. g[j] = FilledUpTo(mem, d, j, v) /\ g[j - 1] = FilledUpTo(mem, d, j - 1, v)
    BY <2>1
  <2> HIDE DEF g
  <2>3. FilledUpTo(mem, d, j, v) = [FilledUpTo(mem, d, j - 1, v) EXCEPT ![d + j - 1] = v[j]]
    <3>1. FillsOn(mem, d, j, v)
      BY <1>1, FillStep, Zenon
    <3> QED  BY <3>1, Zenon DEF FillsOn
  <2> QED  BY <2>2, <2>3, Zenon
<1>4. g = [j \in 0..n |-> g[j]]
  OBVIOUS
<1> HIDE DEF g
<1> QED  BY <1>2, <1>3, <1>4 DEF FillOf

LEMMA FillEnds ==
  ASSUME NEW size \in Nat, NEW mem, mem = [i \in 0..(size - 1) |-> mem[i]], NEW d \in Nat, NEW n \in Nat, NEW v,
         NEW f, FillOf(f, mem, d, n, v)
  PROVE  f[n] = FilledUpTo(mem, d, n, v)
<1> DEFINE S == {j \in 0..n : f[j] = FilledUpTo(mem, d, j, v)}
<1>1. DOMAIN mem = 0..(size - 1)
  BY Zenon
<1>2. 0 \in S
  BY FillStarts DEF FillOf
<1>3. ASSUME NEW j \in 1..n, j - 1 \in S PROVE j \in S
  <2>1. f[j] = [f[j - 1] EXCEPT ![d + j - 1] = v[j]]
    BY Zenon DEF FillOf
  <2>2. f[j - 1] = FilledUpTo(mem, d, j - 1, v)
    BY <1>3
  <2>3. FilledUpTo(mem, d, j, v) = [FilledUpTo(mem, d, j - 1, v) EXCEPT ![d + j - 1] = v[j]]
    <3>1. FillsOn(mem, d, j, v)
      BY <1>1, FillStep, Zenon
    <3> QED  BY <3>1, Zenon DEF FillsOn
  <2>4. f[j] = FilledUpTo(mem, d, j, v)
    BY <2>1, <2>2, <2>3, Zenon
  <2>5. j \in 0..n
    OBVIOUS
  <2> QED  BY <2>4, <2>5, Zenon
<1>4. n \in S
  <2>1. n \in 0..n
    OBVIOUS
  <2> HIDE DEF S
  <2>2. 0..n \subseteq S
    BY <1>2, <1>3, Induction
  <2> QED  BY <2>1, <2>2
<1> QED  BY <1>4

WrittenTo(size, mem, d, src, k) ==
  Written(mem, d, src, k) = [i \in 0..(size - 1) |-> IF i \in d..(d + k - 1) THEN At(src, i - d) ELSE mem[i]]

\* What the loops of strcpy and strncpy have written after k characters.
LEMMA WrittenIs ==
  ASSUME NEW size \in Nat, NEW mem, mem = [i \in 0..(size - 1) |-> mem[i]], NEW d \in Nat, NEW src, NEW k \in Nat
  PROVE  WrittenTo(size, mem, d, src, k)
<1> DEFINE v == [j \in 1..k |-> At(src, j - 1)]
<1>0. \A j \in 1..k : v[j] = At(src, j - 1)
  OBVIOUS
<1> HIDE DEF v
<1>1. PICK g : g = [j \in 0..k |-> g[j]] /\ FillOf(g, mem, d, k, v)
  BY FillExists
<1>2. \A j \in 0..k : j = 0 \/ j \in 1..k
  OBVIOUS
<1>3. \A j \in 0..k : g[j] = IF j = 0 THEN mem ELSE [g[j - 1] EXCEPT ![d + j - 1] = At(src, j - 1)]
  BY <1>0, <1>1, <1>2, Zenon DEF FillOf
<1>4. g = [j \in 0..k |-> IF j = 0 THEN mem ELSE [g[j - 1] EXCEPT ![d + j - 1] = At(src, j - 1)]]
  BY <1>1, <1>3, Zenon
<1>5. PICK f : f = CHOOSE h : h = [j \in 0..k |-> IF j = 0 THEN mem ELSE [h[j - 1] EXCEPT ![d + j - 1] = At(src, j - 1)]]
  OBVIOUS
<1>6. f = [j \in 0..k |-> IF j = 0 THEN mem ELSE [f[j - 1] EXCEPT ![d + j - 1] = At(src, j - 1)]]
  BY <1>4, <1>5, Zenon
<1>7. Written(mem, d, src, k) = f[k]
  BY <1>5, Zenon DEF Written
<1>8. FillOf(f, mem, d, k, v)
  <2>1. 0 \in 0..k /\ \A j \in 1..k : j \in 0..k /\ j # 0
    OBVIOUS
  <2>2. \A j \in 0..k : f[j] = IF j = 0 THEN mem ELSE [f[j - 1] EXCEPT ![d + j - 1] = At(src, j - 1)]
    BY <1>6, Zenon
  <2> QED  BY <1>0, <2>1, <2>2, Zenon DEF FillOf
<1>9. f[k] = FilledUpTo(mem, d, k, v)
  BY <1>8, FillEnds
<1>10. DOMAIN mem = 0..(size - 1)
  BY Zenon
<1>11. ASSUME NEW i \in 0..(size - 1), i \in d..(d + k - 1) PROVE v[i - d + 1] = At(src, i - d)
  <2>1. i - d + 1 \in 1..k /\ (i - d + 1) - 1 = i - d
    BY <1>11
  <2> QED  BY <1>0, <2>1
<1>12. FilledUpTo(mem, d, k, v) = [i \in 0..(size - 1) |-> IF i \in d..(d + k - 1) THEN At(src, i - d) ELSE mem[i]]
  BY <1>10, <1>11 DEF FilledUpTo
<1> QED  BY <1>7, <1>9, <1>12, Zenon DEF WrittenTo

SetTo(size, mem, d, c, k) ==
  memset(mem, d, c, k) = [i \in 0..(size - 1) |-> IF i \in d..(d + k - 1) THEN c ELSE mem[i]]

LEMMA MemsetIs ==
  ASSUME NEW size \in Nat, NEW mem, mem = [i \in 0..(size - 1) |-> mem[i]], NEW d \in Nat, NEW c, NEW k \in Nat
  PROVE  SetTo(size, mem, d, c, k)
<1> DEFINE v == [j \in 1..k |-> c]
<1>0. \A j \in 1..k : v[j] = c
  OBVIOUS
<1> HIDE DEF v
<1>1. PICK g : g = [j \in 0..k |-> g[j]] /\ FillOf(g, mem, d, k, v)
  BY FillExists
<1>2. \A j \in 0..k : j = 0 \/ j \in 1..k
  OBVIOUS
<1>3. \A j \in 0..k : g[j] = IF j = 0 THEN mem ELSE [g[j - 1] EXCEPT ![d + j - 1] = c]
  BY <1>0, <1>1, <1>2, Zenon DEF FillOf
<1>4. g = [j \in 0..k |-> IF j = 0 THEN mem ELSE [g[j - 1] EXCEPT ![d + j - 1] = c]]
  BY <1>1, <1>3, Zenon
<1>5. PICK f : f = CHOOSE h : h = [j \in 0..k |-> IF j = 0 THEN mem ELSE [h[j - 1] EXCEPT ![d + j - 1] = c]]
  OBVIOUS
<1>6. f = [j \in 0..k |-> IF j = 0 THEN mem ELSE [f[j - 1] EXCEPT ![d + j - 1] = c]]
  BY <1>4, <1>5, Zenon
<1>7. memset(mem, d, c, k) = f[k]
  BY <1>5, Zenon DEF memset
<1>8. FillOf(f, mem, d, k, v)
  <2>1. 0 \in 0..k /\ \A j \in 1..k : j \in 0..k /\ j # 0
    OBVIOUS
  <2>2. \A j \in 0..k : f[j] = IF j = 0 THEN mem ELSE [f[j - 1] EXCEPT ![d + j - 1] = c]
    BY <1>6, Zenon
  <2> QED  BY <1>0, <2>1, <2>2, Zenon DEF FillOf
<1>9. f[k] = FilledUpTo(mem, d, k, v)
  BY <1>8, FillEnds
<1>10. DOMAIN mem = 0..(size - 1)
  BY Zenon
<1>11. ASSUME NEW i \in 0..(size - 1), i \in d..(d + k - 1) PROVE v[i - d + 1] = c
  <2>1. i - d + 1 \in 1..k
    BY <1>11
  <2> QED  BY <1>0, <2>1
<1>12. FilledUpTo(mem, d, k, v) = [i \in 0..(size - 1) |-> IF i \in d..(d + k - 1) THEN c ELSE mem[i]]
  BY <1>10, <1>11 DEF FilledUpTo
<1> QED  BY <1>7, <1>9, <1>12, Zenon DEF SetTo

\* The loop of strcat that looks for the end of a string stops at its zero.
LEMMA EndIs ==
  ASSUME NEW size \in Nat, NEW mem, DOMAIN mem = 0..(size - 1), NEW len \in 0..(size - 1),
         mem[len] = 0, \A i \in 0..(len - 1) : mem[i] # 0
  PROVE  End(mem, 0) = len
<1>1. PICK n \in Nat : n = size - 1
  OBVIOUS
<1>2. DOMAIN mem = 0..n /\ len \in 0..n
  BY <1>1
<1> DEFINE go == [i \in 0..n |-> mem[i] # 0 /\ i + 1 \in 0..n]
           val == [i \in 0..n |-> i]
<1>3. ~go[n]
  <2>1. n \in 0..n /\ n + 1 \notin 0..n
    OBVIOUS
  <2> QED  BY <2>1, Zenon
<1>4. \A i \in 0..n : go[i] = (mem[i] # 0 /\ i + 1 \in 0..n) /\ val[i] = i
  BY Zenon
<1> HIDE DEF go, val
<1>5. PICK g : g = [i \in 0..n |-> g[i]] /\ ScanOf(g, n, go, val)
  BY <1>3, ScanExists
<1>6. \A i \in 0..n : g[i] = IF mem[i] # 0 /\ i + 1 \in 0..n THEN g[i + 1] ELSE i
  BY <1>4, <1>5, Zenon DEF ScanOf
<1>7. g = [i \in 0..n |-> IF mem[i] # 0 /\ i + 1 \in 0..n THEN g[i + 1] ELSE i]
  BY <1>5, <1>6, Zenon
<1>8. PICK f : f = CHOOSE h : h = [i \in 0..n |-> IF mem[i] # 0 /\ i + 1 \in 0..n THEN h[i + 1] ELSE i]
  OBVIOUS
<1>9. End(mem, 0) = f[0]
  BY <1>2, <1>8, Zenon DEF End
<1>10. f = [i \in 0..n |-> IF mem[i] # 0 /\ i + 1 \in 0..n THEN f[i + 1] ELSE i]
  BY <1>7, <1>8, Zenon
<1>11. ScanOf(f, n, go, val)
  <2>1. \A i \in 0..n : f[i] = IF mem[i] # 0 /\ i + 1 \in 0..n THEN f[i + 1] ELSE i
    BY <1>10, Zenon
  <2> QED  BY <1>4, <2>1, Zenon DEF ScanOf
<1>12. PICK m \in 0..n : f[0] = val[m] /\ ~go[m] /\ \A j \in 0..(m - 1) : go[j]
  <2>1. 0 \in 0..n
    OBVIOUS
  <2> QED  BY <1>3, <1>11, <2>1, ScanEnds
<1>13. End(mem, 0) = m
  BY <1>4, <1>9, <1>12, Zenon
<1>14. ~(len < m)
  <2>1. ~go[len]
    BY <1>2, <1>4, Zenon
  <2>2. len < m => len \in 0..(m - 1)
    OBVIOUS
  <2> QED  BY <1>12, <2>1, <2>2
<1>15. ~(m < len)
  <2>1. ASSUME m < len PROVE FALSE
    <3>1. m \in 0..(len - 1) /\ m + 1 \in 0..n
      BY <1>2, <2>1
    <3>2. go[m]
      BY <1>4, <3>1, Zenon
    <3> QED  BY <1>12, <3>2
  <2> QED  BY <2>1
<1>16. m = len
  BY <1>2, <1>14, <1>15
<1> QED  BY <1>13, <1>16

LEMMA AtConcat ==
  ASSUME NEW a \in Str, NEW b \in Str, NEW i \in Nat
  PROVE  At(a \o b, i) = IF i < Len(a) THEN At(a, i) ELSE At(b, i - Len(a))
<1>1. PICK m \in Nat, n \in Nat : m = Len(a) /\ n = Len(b)
  BY DEF Str
<1>2. Len(a \o b) = m + n /\ \A k \in 1..(m + n) : (a \o b)[k] = IF k <= m THEN a[k] ELSE b[k - m]
  BY <1>1 DEF Str
<1>3. CASE i < m
  <2>1. i + 1 \in 1..(m + n) /\ i + 1 <= m /\ i < m + n
    BY <1>3
  <2> QED  BY <1>1, <1>2, <1>3, <2>1 DEF At
<1>4. CASE ~(i < m) /\ i < m + n
  <2>1. i + 1 \in 1..(m + n) /\ ~(i + 1 <= m) /\ i - m < n /\ (i + 1) - m = (i - m) + 1
    BY <1>4
  <2> QED  BY <1>1, <1>2, <1>4, <2>1 DEF At
<1>5. CASE ~(i < m + n)
  <2>1. ~(i < m) /\ ~(i - m < n)
    BY <1>5
  <2> QED  BY <1>1, <1>2, <1>5, <2>1 DEF At
<1> QED  BY <1>3, <1>4, <1>5

(***************************************************************************)
(* strcpy, strcat and strncpy write what they are to write and nothing     *)
(* more, for every string that fits the memory, with the byte that strncpy *)
(* writes beyond its n when the string is shorter.                         *)
(***************************************************************************)
THEOREM CopiesAlwaysExact ==
  ASSUME NEW size \in Nat, NEW mem \in [0..(size - 1) -> Nat], NEW a \in Str, NEW b \in Str, NEW n \in Nat,
         Len(a) + Len(b) + 1 <= size, n + 1 <= size
  PROVE  CopiesExact(mem, a, b, n)
<1>1. PICK la \in Nat, lb \in Nat : la = Len(a) /\ lb = Len(b) /\ la + lb + 1 <= size
  BY DEF Str
<1>2. mem = [i \in 0..(size - 1) |-> mem[i]] /\ DOMAIN mem = 0..(size - 1)
  OBVIOUS
<1>3. ASSUME NEW k \in Nat
      PROVE  Written(mem, 0, a, k) = [i \in 0..(size - 1) |-> IF i < k THEN At(a, i) ELSE mem[i]]
  <2>1. Written(mem, 0, a, k) = [i \in 0..(size - 1) |-> IF i \in 0..(0 + k - 1) THEN At(a, i - 0) ELSE mem[i]]
    <3>1. WrittenTo(size, mem, 0, a, k)
      BY <1>2, WrittenIs, Zenon
    <3> QED  BY <3>1, Zenon DEF WrittenTo
  <2>2. \A i \in 0..(size - 1) : (i \in 0..(0 + k - 1) <=> i < k) /\ i - 0 = i
    OBVIOUS
  <2> QED  BY <2>1, <2>2
<1>4. PICK m : m = strcpy(mem, 0, a)
  OBVIOUS
<1>5. m = [i \in 0..(size - 1) |-> IF i < la + 1 THEN At(a, i) ELSE mem[i]]
  BY <1>1, <1>3, <1>4 DEF strcpy
<1>6. strcpy(mem, 0, a) = Filled(mem, a, la + 1)
  BY <1>2, <1>4, <1>5 DEF Filled
<1>7. strcat(m, 0, b) = Filled(mem, a \o b, la + lb + 1)
  <2>1. m = [i \in 0..(size - 1) |-> m[i]] /\ DOMAIN m = 0..(size - 1)
    BY <1>5
  <2>2. End(m, 0) = la
    <3>1. la \in 0..(size - 1) /\ m[la] = 0
      <4>1. la \in 0..(size - 1) /\ la < la + 1
        BY <1>1
      <4>2. At(a, la) = 0
        BY <1>1, AtIs
      <4> QED  BY <1>5, <4>1, <4>2
    <3>2. ASSUME NEW i \in 0..(la - 1) PROVE m[i] # 0
      <4>1. i \in 0..(size - 1) /\ i < la + 1 /\ i \in Nat /\ i < la
        BY <1>1
      <4>2. At(a, i) # 0
        BY <1>1, <4>1, AtIs
      <4> QED  BY <1>5, <4>1, <4>2
    <3> QED  BY <2>1, <3>1, <3>2, EndIs
  <2>3. strcat(m, 0, b) = [i \in 0..(size - 1) |-> IF i \in la..(la + (lb + 1) - 1) THEN At(b, i - la) ELSE m[i]]
    <3>1. Written(m, la, b, lb + 1) = [i \in 0..(size - 1) |-> IF i \in la..(la + (lb + 1) - 1) THEN At(b, i - la) ELSE m[i]]
      <4>1. lb + 1 \in Nat
        OBVIOUS
      <4>2. WrittenTo(size, m, la, b, lb + 1)
        BY <2>1, <4>1, WrittenIs, Zenon
      <4> QED  BY <4>2, Zenon DEF WrittenTo
    <3> QED  BY <1>1, <2>2, <3>1 DEF strcat, strcpy
  <2>4. ASSUME NEW i \in 0..(size - 1)
        PROVE  (IF i \in la..(la + (lb + 1) - 1) THEN At(b, i - la) ELSE m[i])
               = IF i < la + lb + 1 THEN At(a \o b, i) ELSE mem[i]
    <3>1. At(a \o b, i) = IF i < la THEN At(a, i) ELSE At(b, i - la)
      BY <1>1, AtConcat
    <3>2. CASE i < la
      <4>1. i \notin la..(la + (lb + 1) - 1) /\ i < la + lb + 1 /\ i < la + 1
        BY <3>2
      <4> QED  BY <1>5, <3>1, <3>2, <4>1
    <3>3. CASE i \in la..(la + (lb + 1) - 1)
      <4>1. ~(i < la) /\ i < la + lb + 1
        BY <3>3
      <4> QED  BY <3>1, <3>3, <4>1
    <3>4. CASE ~(i < la) /\ i \notin la..(la + (lb + 1) - 1)
      <4>1. ~(i < la + lb + 1) /\ ~(i < la + 1)
        BY <3>4
      <4> QED  BY <1>5, <3>4, <4>1
    <3> QED  BY <3>2, <3>3, <3>4
  <2> QED  BY <1>2, <2>3, <2>4 DEF Filled
<1>8. CASE n <= la
  <2>1. strncpy(mem, 0, a, n) = Written(mem, 0, a, n)
    BY <1>1, <1>8 DEF strncpy
  <2>2. ~(la < n)
    BY <1>8
  <2>3. strncpy(mem, 0, a, n) = Filled(mem, a, IF la < n THEN n + 1 ELSE n)
    BY <1>2, <1>3, <2>1, <2>2 DEF Filled
  <2> QED  BY <1>1, <1>4, <1>6, <1>7, <2>3 DEF CopiesExact
<1>9. CASE ~(n <= la)
  <2>1. PICK k \in Nat : k = n - la /\ la + 1 \in Nat /\ (la + 1) + k - 1 = n
    BY <1>9
  <2>2. strncpy(mem, 0, a, n) = memset(m, la + 1, 0, k)
    <3>1. 0 + la + 1 = la + 1
      OBVIOUS
    <3> QED  BY <1>1, <1>4, <1>9, <2>1, <3>1 DEF strncpy, Padding
  <2>3. memset(m, la + 1, 0, k) = [i \in 0..(size - 1) |-> IF i \in (la + 1)..n THEN 0 ELSE m[i]]
    <3>1. m = [i \in 0..(size - 1) |-> m[i]]
      BY <1>5
    <3>2. memset(m, la + 1, 0, k) = [i \in 0..(size - 1) |-> IF i \in (la + 1)..((la + 1) + k - 1) THEN 0 ELSE m[i]]
      <4>1. SetTo(size, m, la + 1, 0, k)
        BY <2>1, <3>1, MemsetIs, Zenon
      <4> QED  BY <4>1, Zenon DEF SetTo
    <3> QED  BY <2>1, <3>2
  <2>4. ASSUME NEW i \in 0..(size - 1)
        PROVE  (IF i \in (la + 1)..n THEN 0 ELSE m[i]) = IF i < n + 1 THEN At(a, i) ELSE mem[i]
    <3>1. CASE i \in (la + 1)..n
      <4>1. i < n + 1 /\ i >= Len(a) /\ i \in Nat
        BY <1>1, <3>1
      <4>2. At(a, i) = 0
        BY <4>1, AtIs
      <4> QED  BY <3>1, <4>1, <4>2
    <3>2. CASE i < la + 1
      <4>1. i \notin (la + 1)..n /\ i < n + 1
        BY <1>9, <3>2
      <4> QED  BY <1>5, <3>2, <4>1
    <3>3. CASE ~(i < la + 1) /\ i \notin (la + 1)..n
      <4>1. ~(i < n + 1)
        BY <3>3
      <4> QED  BY <1>5, <3>3, <4>1
    <3> QED  BY <3>1, <3>2, <3>3
  <2>5. la < n
    BY <1>9
  <2>6. strncpy(mem, 0, a, n) = Filled(mem, a, IF la < n THEN n + 1 ELSE n)
    BY <1>2, <2>2, <2>3, <2>4, <2>5 DEF Filled
  <2> QED  BY <1>1, <1>4, <1>6, <1>7, <2>6 DEF CopiesExact
<1> QED  BY <1>8, <1>9

(***************************************************************************)
(* The checksums, src/src/net/net.c                                        *)
(***************************************************************************)

\* Division with a divisor that is not a constant.
LEMMA DivModIs ==
  ASSUME NEW s \in Nat, NEW B \in Nat, B > 0
  PROVE  s = B * (s \div B) + (s % B) /\ s % B \in 0..(B - 1) /\ s \div B \in Nat
<1>1. s = B * (s \div B) + (s % B)
  OBVIOUS
<1>2. s % B \in 0..(B - 1)
  OBVIOUS
<1>3. s \div B \in Int /\ s \div B >= 0
  OBVIOUS
<1> QED  BY <1>1, <1>2, <1>3

LEMMA MultiplesApart ==
  ASSUME NEW x \in Nat, NEW y \in Nat, NEW B \in Nat, x < y
  PROVE  B * x + B <= B * y
<1>1. PICK z \in Nat : y = x + 1 + z
  <2>1. y - x - 1 \in Nat /\ y = x + 1 + (y - x - 1)
    OBVIOUS
  <2> QED  BY <2>1
<1>2. B * y = B * x + B + B * z
  BY <1>1
<1>3. B * z \in Nat /\ B * x \in Nat
  OBVIOUS
<1> QED  BY <1>2, <1>3

LEMMA QuotientUnique ==
  ASSUME NEW B \in Nat, NEW q \in Nat, NEW r \in 0..(B - 1), NEW p \in Nat, NEW t \in 0..(B - 1),
         B * q + r = B * p + t
  PROVE  q = p /\ r = t
<1>0. B * q \in Nat /\ B * p \in Nat
  OBVIOUS
<1>1. ~(q < p)
  <2>1. ASSUME q < p PROVE FALSE
    <3>1. B * q + B <= B * p
      BY <2>1, MultiplesApart
    <3> QED  BY <1>0, <3>1
  <2> QED  BY <2>1
<1>2. ~(p < q)
  <2>1. ASSUME p < q PROVE FALSE
    <3>1. B * p + B <= B * q
      BY <2>1, MultiplesApart
    <3> QED  BY <1>0, <3>1
  <2> QED  BY <2>1
<1>3. q = p
  BY <1>1, <1>2
<1> QED  BY <1>0, <1>3

Divided(s, B, q, r) == B \in Nat /\ q \in Nat /\ r \in 0..(B - 1) /\ s = B * q + r

LEMMA QuotientIs ==
  ASSUME NEW s, NEW B, NEW q, NEW r, Divided(s, B, q, r)
  PROVE  s \div B = q /\ s % B = r
<1> B \in Nat /\ q \in Nat /\ r \in 0..(B - 1) /\ s = B * q + r
  BY DEF Divided
<1>1. s \in Nat /\ B > 0
  <2>1. B * q \in Nat
    OBVIOUS
  <2> QED  BY <2>1
<1>2. s = B * (s \div B) + (s % B) /\ s % B \in 0..(B - 1) /\ s \div B \in Nat
  BY <1>1, DivModIs
<1> QED  BY <1>2, QuotientUnique

LEMMA WordIs == ByteSize \in Nat /\ ByteSize > 1 /\ Word = ByteSize * ByteSize /\ Word \in Nat /\ Word > 1
<1>1. ByteSize \in Nat /\ ByteSize > 1 /\ Word = ByteSize * ByteSize
  BY ChecksumAssumption DEF ByteSize, Word
<1>2. PICK B \in Nat : B = ByteSize /\ B > 1
  BY <1>1
<1>3. B * B \in Nat /\ B * B > 1
  BY <1>2
<1> QED  BY <1>1, <1>2, <1>3

\* Folding adds the two words of a sum, and the carry of that.
LEMMA FoldedIs ==
  ASSUME NEW x, NEW q \in 0..(Word - 1), NEW r \in 0..(Word - 1), x = Word * q + r
  PROVE  Folded(x) = IF q + r < Word THEN q + r ELSE q + r - Word + 1
<1>1. PICK W \in Nat : W = Word /\ W > 1
  BY WordIs
<1>2. x \div W = q /\ x % W = r
  <2>1. Divided(x, W, q, r)
    BY <1>1 DEF Divided
  <2> QED  BY <2>1, QuotientIs
<1>3. PICK s \in Nat : s = q + r
  BY <1>1
<1>4. Once(x) = s
  BY <1>1, <1>2, <1>3 DEF Once
<1>5. Folded(x) = (s + s \div W) % W
  BY <1>1, <1>4 DEF Folded
<1>6. CASE s < W
  <2>1. PICK z \in Nat : z = 0 /\ s = W * z + s /\ s \in 0..(W - 1)
    BY <1>6
  <2>2. s \div W = z /\ s % W = s
    <3>1. Divided(s, W, z, s)
      BY <2>1 DEF Divided
    <3> QED  BY <3>1, QuotientIs
  <2>3. s + 0 = s
    OBVIOUS
  <2> QED  BY <1>1, <1>3, <1>5, <1>6, <2>1, <2>2, <2>3
<1>7. CASE ~(s < W)
  <2>0. PICK o \in Nat : o = 1
    OBVIOUS
  <2>1. PICK t \in 0..(W - 1), t1 \in 0..(W - 1) : s = W * o + t /\ t1 = t + 1 /\ s + 1 = W * o + t1
    <3>1. s - W \in 0..(W - 1) /\ s = W * 1 + (s - W) /\ (s - W) + 1 \in 0..(W - 1) /\ s + 1 = W * 1 + ((s - W) + 1)
      BY <1>1, <1>3, <1>7
    <3>2. PICK t \in 0..(W - 1), t1 \in 0..(W - 1) : s = W * 1 + t /\ t1 = t + 1 /\ s + 1 = W * 1 + t1
      BY <3>1
    <3> QED  BY <2>0, <3>2
  <2>2. s \div W = o
    <3>1. Divided(s, W, o, t)
      BY <2>1 DEF Divided
    <3> QED  BY <3>1, QuotientIs
  <2>3. (s + 1) % W = t1
    <3>1. Divided(s + 1, W, o, t1)
      BY <2>1 DEF Divided
    <3> QED  BY <3>1, QuotientIs
  <2>4. t1 = q + r - W + 1
    BY <1>1, <1>3, <2>0, <2>1
  <2> QED  BY <1>1, <1>3, <1>5, <1>7, <2>0, <2>2, <2>3, <2>4
<1> QED  BY <1>6, <1>7

\* A sum that fits two words, with its checksum added, folds to all ones.
LEMMA FoldsToOnes ==
  ASSUME NEW u \in Nat, u < Word * Word
  PROVE  Folded(u) \in 0..(Word - 1) /\ Folded(u + ((Word - 1) - Folded(u))) = Word - 1
<1>1. PICK W \in Nat : W = Word /\ W > 1
  BY WordIs
<1>2. PICK q \in Nat, r \in 0..(W - 1) : u = W * q + r
  <2>1. u = W * (u \div W) + (u % W) /\ u % W \in 0..(W - 1) /\ u \div W \in Nat
    BY <1>1, DivModIs
  <2> QED  BY <2>1
<1>3. q \in 0..(W - 1)
  <2>1. ASSUME q >= W PROVE FALSE
    <3>1. W * W \in Nat /\ W * q \in Nat
      OBVIOUS
    <3>2. W * W <= W * q
      <4>1. CASE q = W
        BY <3>1, <4>1
      <4>2. CASE W < q
        <5>1. W * W + W <= W * q
          BY <4>2, MultiplesApart
        <5> QED  BY <3>1, <5>1
      <4> QED  BY <2>1, <4>1, <4>2
    <3> QED  BY <1>1, <1>2, <3>1, <3>2
  <2> QED  BY <2>1
<1>4. PICK c : c = Folded(u)
  OBVIOUS
<1>5. c = IF q + r < W THEN q + r ELSE q + r - W + 1
  BY <1>1, <1>2, <1>3, <1>4, FoldedIs
<1>6. c \in 0..(W - 1)
  BY <1>1, <1>3, <1>5
<1>7. PICK x \in Nat : x = u + ((W - 1) - c)
  <2>1. u + ((W - 1) - c) \in Nat
    BY <1>6
  <2> QED  BY <2>1
<1>8. W * q \in Nat /\ W * (q + 1) = W * q + W
  OBVIOUS
<1>9. CASE q + r < W
  <2>1. (W - 1) - q \in 0..(W - 1) /\ x = W * q + ((W - 1) - q)
    BY <1>2, <1>3, <1>5, <1>7, <1>8, <1>9
  <2>2. Folded(x) = q + ((W - 1) - q)
    <3>1. q + ((W - 1) - q) < W
      BY <1>1, <1>3
    <3> QED  BY <1>1, <1>3, <2>1, <3>1, FoldedIs
  <2>3. Folded(x) = W - 1
    BY <1>3, <2>2
  <2> QED  BY <1>1, <1>4, <1>6, <1>7, <2>3
<1>10. CASE ~(q + r < W) /\ q < W - 1
  <2>1. q + 1 \in 0..(W - 1) /\ (W - 2) - q \in 0..(W - 1) /\ x = W * (q + 1) + ((W - 2) - q)
    BY <1>2, <1>3, <1>5, <1>7, <1>8, <1>10
  <2>2. Folded(x) = (q + 1) + ((W - 2) - q)
    <3>1. (q + 1) + ((W - 2) - q) < W
      BY <1>1, <1>3
    <3> QED  BY <1>1, <2>1, <3>1, FoldedIs
  <2>3. Folded(x) = W - 1
    BY <1>3, <2>2
  <2> QED  BY <1>1, <1>4, <1>6, <1>7, <2>3
<1>11. CASE ~(q + r < W) /\ q = W - 1
  <2>1. W - 1 \in 0..(W - 1) /\ x = W * q + (W - 1)
    BY <1>1, <1>2, <1>3, <1>5, <1>7, <1>8, <1>11
  <2>2. Folded(x) = q + (W - 1) - W + 1
    <3>1. ~(q + (W - 1) < W)
      BY <1>1, <1>11
    <3> QED  BY <1>1, <1>3, <2>1, <3>1, FoldedIs
  <2>3. Folded(x) = W - 1
    BY <1>11, <2>2
  <2> QED  BY <1>1, <1>4, <1>6, <1>7, <2>3
<1> QED  BY <1>3, <1>9, <1>10, <1>11

Bytes == 0..(ByteSize - 1)

\* The loop over the words runs as it is written.
SumRun(f, bytes, n) ==
  f[0] = 0 /\ \A k \in 1..n : f[k] = f[k - 1] + bytes[2 * k - 1] + bytes[2 * k] * ByteSize

LEMMA SumRuns ==
  ASSUME NEW bytes \in Seq(Bytes), NEW n \in Nat, n = Len(bytes) \div 2
  PROVE  \E f \in [0..n -> Nat] : /\ SumRun(f, bytes, n)
                                  /\ SumOf(bytes) = f[n] + IF Len(bytes) % 2 = 1 THEN bytes[Len(bytes)] ELSE 0
<1>0. PICK B \in Nat : B = ByteSize
  BY WordIs
<1>1. \A k \in 1..n : 2 * k - 1 \in 1..Len(bytes) /\ 2 * k \in 1..Len(bytes)
  OBVIOUS
<1>2. \A k \in 1..n : bytes[2 * k - 1] \in Nat /\ bytes[2 * k] \in Nat
  BY <1>0, <1>1 DEF Bytes
<1> DEFINE add == [k \in 1..n |-> bytes[2 * k - 1] + bytes[2 * k] * B]
           step == [k \in 1..n |-> [s \in Nat |-> s + bytes[2 * k - 1] + bytes[2 * k] * ByteSize]]
<1>3. ASSUME NEW k \in 1..n, NEW s \in Nat PROVE s + bytes[2 * k - 1] + bytes[2 * k] * ByteSize \in Nat
  <2>1. PICK a \in Nat, b \in Nat : a = bytes[2 * k - 1] /\ b = bytes[2 * k]
    BY <1>2
  <2>2. b * B \in Nat
    OBVIOUS
  <2>3. s + a + b * B \in Nat
    BY <2>2
  <2> QED  BY <1>0, <2>1, <2>3
<1>4. step \in [1..n -> [Nat -> Nat]]
  BY <1>3
<1>5. PICK g \in [0..n -> Nat] : RunOf(g, 0, n, step)
  <2> HIDE DEF step
  <2> QED  BY <1>4, LoopRuns
<1>6. g[0] = 0 /\ \A k \in 1..n : g[k] = g[k - 1] + bytes[2 * k - 1] + bytes[2 * k] * ByteSize
  <2>1. ASSUME NEW k \in 1..n PROVE g[k] = g[k - 1] + bytes[2 * k - 1] + bytes[2 * k] * ByteSize
    <3>1. g[k - 1] \in Nat
      <4>1. k - 1 \in 0..n
        OBVIOUS
      <4> HIDE DEF step
      <4> QED  BY <1>5, <4>1
    <3>2. g[k] = step[k][g[k - 1]]
      BY <1>5, Zenon DEF RunOf
    <3> QED  BY <3>1, <3>2, Zenon
  <2> QED  BY <1>5, <2>1 DEF RunOf
<1> HIDE DEF step, add
<1>7. \A k \in 0..n : k = 0 \/ k \in 1..n
  OBVIOUS
<1>8. \A k \in 0..n : g[k] = IF k = 0 THEN 0 ELSE g[k - 1] + bytes[2 * k - 1] + bytes[2 * k] * ByteSize
  BY <1>6, <1>7, Zenon
<1>9. g = [k \in 0..n |-> IF k = 0 THEN 0 ELSE g[k - 1] + bytes[2 * k - 1] + bytes[2 * k] * ByteSize]
  BY <1>8
<1>10. PICK f : f = CHOOSE h : h = [k \in 0..n |-> IF k = 0 THEN 0 ELSE h[k - 1] + bytes[2 * k - 1] + bytes[2 * k] * ByteSize]
  OBVIOUS
<1>11. f = [k \in 0..n |-> IF k = 0 THEN 0 ELSE f[k - 1] + bytes[2 * k - 1] + bytes[2 * k] * ByteSize]
  BY <1>9, <1>10, Zenon
<1>12. SumOf(bytes) = f[n] + IF Len(bytes) % 2 = 1 THEN bytes[Len(bytes)] ELSE 0
  BY <1>10, Zenon DEF SumOf
<1>13. SumRun(f, bytes, n)
  <2>1. 0 \in 0..n /\ \A k \in 1..n : k \in 0..n /\ k # 0
    OBVIOUS
  <2>2. \A k \in 0..n : f[k] = IF k = 0 THEN 0 ELSE f[k - 1] + bytes[2 * k - 1] + bytes[2 * k] * ByteSize
    BY <1>11, Zenon
  <2> QED  BY <2>1, <2>2, Zenon DEF SumRun
<1> DEFINE S == {k \in 0..n : f[k] \in Nat}
<1>14. 0 \in S
  BY <1>13 DEF SumRun
<1>15. ASSUME NEW k \in 1..n, k - 1 \in S PROVE k \in S
  <2>1. PICK s \in Nat : s = f[k - 1]
    BY <1>15
  <2>2. f[k] = s + bytes[2 * k - 1] + bytes[2 * k] * ByteSize
    BY <1>13, <2>1, Zenon DEF SumRun
  <2>3. k \in 0..n
    OBVIOUS
  <2> QED  BY <1>3, <2>2, <2>3, Zenon
<1>16. 0..n \subseteq S
  <2> HIDE DEF S
  <2> QED  BY <1>14, <1>15, Induction
<1>17. f \in [0..n -> Nat]
  BY <1>11, <1>16
<1> QED  BY <1>12, <1>13, <1>17

\* The bytes of a word are bytes and make it up.
LEMMA WordBytes ==
  ASSUME NEW s \in 0..(Word - 1)
  PROVE  /\ s % ByteSize \in Bytes /\ s \div ByteSize \in Bytes
         /\ s = (s % ByteSize) + (s \div ByteSize) * ByteSize
<1>1. PICK B \in Nat : B = ByteSize /\ B > 1 /\ Word = B * B /\ Word \in Nat
  BY WordIs
<1>2. PICK q, r : q = s \div B /\ r = s % B
  OBVIOUS
<1>3. s = B * q + r /\ r \in 0..(B - 1) /\ q \in Nat
  <2>1. s \in Nat
    BY <1>1
  <2>2. s = B * (s \div B) + (s % B) /\ s % B \in 0..(B - 1) /\ s \div B \in Nat
    BY <1>1, <2>1, DivModIs
  <2> QED  BY <1>2, <2>2
<1>4. q < B
  <2>1. ASSUME q >= B PROVE FALSE
    <3>1. B * q \in Nat /\ B * B \in Nat
      BY <1>3
    <3>2. B * B <= B * q
      <4>1. CASE q = B
        BY <3>1, <4>1
      <4>2. CASE B < q
        <5>1. B * B + B <= B * q
          BY <1>3, <4>2, MultiplesApart
        <5> QED  BY <3>1, <5>1
      <4> QED  BY <1>3, <2>1, <4>1, <4>2
    <3>3. s <= Word - 1
      BY <1>1
    <3> QED  BY <1>1, <1>3, <3>1, <3>2, <3>3
  <2> QED  BY <1>3, <2>1
<1>5. q \in 0..(B - 1)
  BY <1>3, <1>4
<1>6. B * q = q * B /\ B * q \in Nat
  BY <1>3
<1>7. s = r + q * B
  BY <1>3, <1>6
<1> QED  BY <1>1, <1>2, <1>3, <1>5, <1>7 DEF Bytes

LEMMA ByteNat ==
  ASSUME NEW b \in Bytes
  PROVE  b \in Nat
<1>1. ByteSize \in Nat
  BY WordIs
<1> QED  BY <1>1 DEF Bytes

LEMMA SummedIs ==
  ASSUME NEW bytes \in Seq(Bytes), NEW p \in 1..(Len(bytes) \div 2), NEW s \in 0..(Word - 1)
  PROVE  /\ Summed(bytes, p, s) \in Seq(Bytes) /\ Len(Summed(bytes, p, s)) = Len(bytes)
         /\ Summed(bytes, p, s)[2 * p - 1] = s % ByteSize /\ Summed(bytes, p, s)[2 * p] = s \div ByteSize
         /\ \A i \in 1..Len(bytes) : i # 2 * p - 1 /\ i # 2 * p => Summed(bytes, p, s)[i] = bytes[i]
<1>1. PICK n \in Nat : n = Len(bytes)
  OBVIOUS
<1>2. PICK lo \in Bytes, hi \in Bytes : lo = s % ByteSize /\ hi = s \div ByteSize
  BY WordBytes
<1>3. PICK x \in 1..n, y \in 1..n : x = 2 * p - 1 /\ y = 2 * p /\ x # y
  BY <1>1
<1>4. Summed(bytes, p, s) = [bytes EXCEPT ![x] = lo, ![y] = hi]
  BY <1>2, <1>3 DEF Summed
<1>5. bytes \in [1..n -> Bytes]
  BY <1>1
<1>6. PICK c : c = [bytes EXCEPT ![x] = lo, ![y] = hi]
  OBVIOUS
<1>7. c \in [1..n -> Bytes] /\ c[x] = lo /\ c[y] = hi /\ \A i \in 1..n : i # x /\ i # y => c[i] = bytes[i]
  BY <1>3, <1>5, <1>6
<1>8. c \in Seq(Bytes) /\ Len(c) = n
  BY <1>7
<1> QED  BY <1>1, <1>2, <1>3, <1>4, <1>6, <1>7, <1>8

LEMMA ZeroWord == 0 \in 0..(Word - 1) /\ 0 % ByteSize = 0 /\ 0 \div ByteSize = 0
<1>1. PICK B \in Nat : B = ByteSize /\ B > 1 /\ 0 \in 0..(Word - 1)
  BY WordIs
<1>2. PICK z \in Nat : z = 0 /\ z = B * z + z /\ z \in 0..(B - 1)
  BY <1>1
<1>3. Divided(z, B, z, z)
  BY <1>2 DEF Divided
<1>4. z \div B = z /\ z % B = z
  BY <1>3, QuotientIs
<1> QED  BY <1>1, <1>2, <1>4

LEMMA SumNat ==
  ASSUME NEW bytes \in Seq(Bytes)
  PROVE  SumOf(bytes) \in Nat
<1>0. ByteSize \in Nat
  BY WordIs
<1>1. PICK n \in Nat : n = Len(bytes) \div 2
  OBVIOUS
<1>2. PICK f \in [0..n -> Nat] : /\ SumRun(f, bytes, n)
                                 /\ SumOf(bytes) = f[n] + IF Len(bytes) % 2 = 1 THEN bytes[Len(bytes)] ELSE 0
  BY <1>1, SumRuns
<1>3. f[n] \in Nat
  OBVIOUS
<1>4. CASE Len(bytes) % 2 = 1
  <2>1. Len(bytes) \in 1..Len(bytes)
    BY <1>4
  <2>2. bytes[Len(bytes)] \in Nat
    BY <1>0, <2>1 DEF Bytes
  <2> QED  BY <1>2, <1>3, <1>4, <2>2
<1>5. CASE Len(bytes) % 2 # 1
  BY <1>2, <1>3, <1>5
<1> QED  BY <1>4, <1>5

\* A checksum in a word that was zero adds itself to the sum.
LEMMA SumWithChecksum ==
  ASSUME NEW bytes \in Seq(Bytes), NEW p \in 1..(Len(bytes) \div 2), NEW s \in 0..(Word - 1)
  PROVE  SumOf(Summed(bytes, p, s)) = SumOf(Summed(bytes, p, 0)) + s
<1>0. ByteSize \in Nat /\ Word \in Nat /\ s \in Nat
  BY WordIs
<1>1. PICK len \in Nat, n \in Nat : len = Len(bytes) /\ n = len \div 2 /\ p \in 1..n
  OBVIOUS
<1>2. PICK c \in Seq(Bytes) : c = Summed(bytes, p, s)
  BY SummedIs
<1>3. PICK d \in Seq(Bytes) : d = Summed(bytes, p, 0)
  BY ZeroWord, SummedIs
<1>4. Len(c) = len /\ c[2 * p - 1] = s % ByteSize /\ c[2 * p] = s \div ByteSize
  BY <1>1, <1>2, SummedIs
<1>5. Len(d) = len /\ d[2 * p - 1] = 0 /\ d[2 * p] = 0
  <2>1. Len(d) = len /\ d[2 * p - 1] = 0 % ByteSize /\ d[2 * p] = 0 \div ByteSize
    BY <1>1, <1>3, ZeroWord, SummedIs
  <2> QED  BY <2>1, ZeroWord
<1>6. \A i \in 1..len : i # 2 * p - 1 /\ i # 2 * p => c[i] = d[i]
  <2>1. \A i \in 1..len : i # 2 * p - 1 /\ i # 2 * p => c[i] = bytes[i]
    BY <1>1, <1>2, SummedIs
  <2>2. \A i \in 1..len : i # 2 * p - 1 /\ i # 2 * p => d[i] = bytes[i]
    BY <1>1, <1>3, ZeroWord, SummedIs
  <2> QED  BY <2>1, <2>2
<1>7. PICK f \in [0..n -> Nat] : /\ SumRun(f, c, n)
                                 /\ SumOf(c) = f[n] + IF len % 2 = 1 THEN c[len] ELSE 0
  BY <1>1, <1>4, SumRuns
<1>8. PICK g \in [0..n -> Nat] : /\ SumRun(g, d, n)
                                 /\ SumOf(d) = g[n] + IF len % 2 = 1 THEN d[len] ELSE 0
  BY <1>1, <1>5, SumRuns
<1> DEFINE S == {k \in 0..n : f[k] = g[k] + IF k >= p THEN s ELSE 0}
<1>9. 0 \in S
  BY <1>1, <1>7, <1>8 DEF SumRun
<1>10. ASSUME NEW k \in 1..n, k - 1 \in S PROVE k \in S
  <2>1. f[k] = f[k - 1] + c[2 * k - 1] + c[2 * k] * ByteSize /\ g[k] = g[k - 1] + d[2 * k - 1] + d[2 * k] * ByteSize
    BY <1>7, <1>8, Zenon DEF SumRun
  <2>2. 2 * k - 1 \in 1..len /\ 2 * k \in 1..len /\ k \in 0..n /\ k - 1 \in 0..n
    BY <1>1
  <2>3. PICK u \in Nat, w \in Nat : u = f[k - 1] /\ w = g[k - 1]
    BY <2>2
  <2>4. u = w + IF k - 1 >= p THEN s ELSE 0
    BY <1>10, <2>3
  <2>5. PICK x \in Nat, y \in Nat : x = d[2 * k - 1] /\ y = d[2 * k] * ByteSize
    <3>1. PICK a \in Nat, b \in Nat : a = d[2 * k - 1] /\ b = d[2 * k]
      <4>1. d[2 * k - 1] \in Bytes /\ d[2 * k] \in Bytes
        BY <1>5, <2>2
      <4> QED  BY <4>1, ByteNat
    <3>2. b * ByteSize \in Nat
      BY <1>0
    <3> QED  BY <3>1, <3>2
  <2>6. CASE k = p
    <3>1. f[k] = u + (s % ByteSize) + (s \div ByteSize) * ByteSize
      BY <1>4, <2>1, <2>3, <2>6
    <3>2. PICK a \in Nat, b \in Nat : a = s % ByteSize /\ b = (s \div ByteSize) * ByteSize /\ s = a + b
      <4>1. s % ByteSize \in Nat /\ s \div ByteSize \in Nat /\ s = (s % ByteSize) + (s \div ByteSize) * ByteSize
        BY WordBytes, ByteNat
      <4>2. PICK v \in Nat : v = s \div ByteSize
        BY <4>1
      <4>3. v * ByteSize \in Nat
        BY <1>0
      <4> QED  BY <4>1, <4>2, <4>3
    <3>3. f[k] = u + a + b
      BY <3>1, <3>2
    <3>4. g[k] = w + 0 + 0
      <4>1. 0 * ByteSize = 0
        BY <1>0
      <4> QED  BY <1>5, <2>1, <2>3, <2>6, <4>1
    <3>5. u = w
      BY <2>4, <2>6
    <3>6. f[k] = g[k] + s
      <4>1. g[k] = w
        BY <3>4
      <4>2. f[k] = w + (a + b)
        BY <3>3, <3>5
      <4> QED  BY <3>2, <4>1, <4>2
    <3> QED  BY <2>2, <2>6, <3>6
  <2>7. CASE k # p
    <3>1. 2 * k - 1 # 2 * p - 1 /\ 2 * k - 1 # 2 * p /\ 2 * k # 2 * p - 1 /\ 2 * k # 2 * p
      BY <2>7
    <3>2. c[2 * k - 1] = x /\ c[2 * k] * ByteSize = y
      BY <1>6, <2>2, <2>5, <3>1
    <3>3. f[k] = u + x + y /\ g[k] = w + x + y
      BY <2>1, <2>3, <2>5, <3>2
    <3>4. k - 1 >= p <=> k >= p
      BY <2>7
    <3>5. f[k] = g[k] + IF k >= p THEN s ELSE 0
      BY <1>0, <2>4, <3>3, <3>4
    <3> QED  BY <2>2, <3>5
  <2> QED  BY <2>6, <2>7
<1>11. f[n] = g[n] + s
  <2>1. n \in 0..n /\ n >= p
    BY <1>1
  <2>2. 0..n \subseteq S
    <3> HIDE DEF S
    <3> QED  BY <1>9, <1>10, Induction
  <2>3. n \in S
    <3> HIDE DEF S
    <3> QED  BY <2>1, <2>2
  <2> QED  BY <2>1, <2>3
<1>12. CASE len % 2 = 1
  <2>1. len \in 1..len /\ len # 2 * p - 1 /\ len # 2 * p
    BY <1>1, <1>12
  <2>2. c[len] = d[len] /\ d[len] \in Nat
    <3>1. d[len] \in Bytes
      BY <1>5, <2>1
    <3> QED  BY <1>6, <2>1, <3>1, ByteNat
  <2>3. g[n] \in Nat
    OBVIOUS
  <2>4. SumOf(c) = SumOf(d) + s
    BY <1>0, <1>7, <1>8, <1>11, <1>12, <2>2, <2>3
  <2> QED  BY <1>2, <1>3, <2>4
<1>13. CASE len % 2 # 1
  <2>1. g[n] \in Nat
    OBVIOUS
  <2>2. SumOf(c) = SumOf(d) + s
    BY <1>0, <1>7, <1>8, <1>11, <1>13, <2>1
  <2> QED  BY <1>2, <1>3, <2>2
<1> QED  BY <1>12, <1>13

(***************************************************************************)
(* A header or segment of any length whose checksum net_checksum or        *)
(* tcp_checksum computed, wherever in it the checksum has its place, sums  *)
(* up to nothing, as long as the sum fits the two words of its uint32_t:   *)
(* folding the carries twice is enough.                                    *)
(***************************************************************************)
THEOREM ChecksumAlwaysVerifies ==
  ASSUME NEW pseudo \in Seq(Bytes), NEW bytes \in Seq(Bytes), NEW p \in 1..(Len(bytes) \div 2),
         SumOf(pseudo) + SumOf(Summed(bytes, p, 0)) < Word * Word
  PROVE  VerifiesExact(pseudo, bytes, p)
<1>0. PICK W \in Nat : W = Word
  BY WordIs
<1>1. PICK a \in Nat, u \in Nat : a = SumOf(pseudo) /\ u = SumOf(Summed(bytes, p, 0))
  BY SumNat, ZeroWord, SummedIs
<1>2. a + u \in Nat /\ a + u < Word * Word /\ u < Word * Word
  <2>1. W * W \in Nat
    OBVIOUS
  <2> QED  BY <1>0, <1>1, <2>1
<1>3. net_checksum(Summed(bytes, p, net_checksum(Summed(bytes, p, 0)))) = 0
  <2>1. Folded(u) \in 0..(Word - 1) /\ Folded(u + ((Word - 1) - Folded(u))) = Word - 1
    BY <1>2, FoldsToOnes
  <2>2. PICK s \in 0..(Word - 1) : s = (Word - 1) - Folded(u)
    BY <1>0, <2>1
  <2>3. net_checksum(Summed(bytes, p, 0)) = s
    BY <1>1, <2>2 DEF net_checksum
  <2>4. SumOf(Summed(bytes, p, s)) = u + s
    BY <1>1, SumWithChecksum
  <2>5. net_checksum(Summed(bytes, p, s)) = (Word - 1) - (Word - 1)
    BY <2>1, <2>2, <2>4 DEF net_checksum
  <2> QED  BY <1>0, <2>3, <2>5
<1>4. tcp_checksum(pseudo, Summed(bytes, p, tcp_checksum(pseudo, Summed(bytes, p, 0)))) = 0
  <2>0. PICK t \in Nat : t = a + u /\ t < Word * Word
    BY <1>2
  <2>1. Folded(t) \in 0..(Word - 1) /\ Folded(t + ((Word - 1) - Folded(t))) = Word - 1
    BY <2>0, FoldsToOnes
  <2>2. PICK s \in 0..(Word - 1) : s = (Word - 1) - Folded(t)
    BY <1>0, <2>1
  <2>3. tcp_checksum(pseudo, Summed(bytes, p, 0)) = s
    BY <1>1, <2>0, <2>2 DEF tcp_checksum
  <2>4. SumOf(Summed(bytes, p, s)) = u + s
    BY <1>1, SumWithChecksum
  <2>5. a + (u + s) = t + s
    BY <1>0, <2>0
  <2>6. tcp_checksum(pseudo, Summed(bytes, p, s)) = (Word - 1) - (Word - 1)
    BY <1>1, <2>1, <2>2, <2>4, <2>5 DEF tcp_checksum
  <2> QED  BY <1>0, <2>3, <2>6
<1> QED  BY <1>3, <1>4 DEF VerifiesExact

=============================================================================
