-------------------------- MODULE ManagementNetwork --------------------------
(***************************************************************************)
(* The management processor's network: FPGATask takes one frame per main   *)
(* loop pass from the Ethernet controller in the FPGA and follows the link *)
(* flag, LatentRedTCPProtocol hands connections to the SSH server and to   *)
(* the iperf server by their local port.  The TCP/IP stack and both        *)
(* servers' base classes are submodules: a connection is an entry of the   *)
(* stack's table, and a server remembers the entries it was given.         *)
(***************************************************************************)
EXTENDS Integers, Sequences

CONSTANTS
    Peers,           \* the stations that connect, each by one connection at a time
    NoPeer,          \* a slot of the SSH server that is free
    SSH_TABLE_SIZE,  \* connections the SSH server has room for (2 in the code)
    RX_BUFFERS       \* frames the controller holds (APB_RX_BUFCOUNT, 2 in the code)

ASSUME NetworkAssumption ==
    NoPeer \notin Peers /\ SSH_TABLE_SIZE \in Nat \ {0} /\ RX_BUFFERS \in Nat \ {0}

SSH_PORT == 22
IPERF3_PORT == 5201
Ports == {SSH_PORT, IPERF3_PORT, 80}     \* 80 stands for every other port
Closed == 0

VARIABLES
    frames,      \* frames waiting in the controller, m_irq while there are any
    link,        \* m_ethLinkState, the controller's link flag
    g_basetLinkUp,
    stackUp,     \* what OnLinkUp and OnLinkDown told the stack last
    flickered,   \* history: the flag changed between FPGATask's reads of it
    table,       \* the local port of each peer's entry in the TCP table
    slots,       \* the entry each SSH connection state holds
    iperf        \* the entries the iperf server holds

networkVars == <<frames, link, g_basetLinkUp, stackUp, flickered, table, slots, iperf>>
linkVars == <<link, g_basetLinkUp, stackUp, flickered>>
tcpVars == <<table, slots, iperf>>
Slots == 1 .. SSH_TABLE_SIZE

TcpInit ==
    /\ table = [p \in Peers |-> Closed]
    /\ slots = [i \in Slots |-> NoPeer]
    /\ iperf = {}

RegisterProtocolHandlers ==
    /\ table' = [p \in Peers |-> Closed]
    /\ slots' = [i \in Slots |-> NoPeer]
    /\ iperf' = {}

NetworkInit ==
    /\ frames = <<>>
    /\ link \in BOOLEAN
    /\ g_basetLinkUp = FALSE /\ stackUp = FALSE /\ flickered = FALSE
    /\ TcpInit

NetworkTypeOK ==
    /\ Len(frames) <= RX_BUFFERS
    /\ link \in BOOLEAN /\ g_basetLinkUp \in BOOLEAN
    /\ stackUp \in BOOLEAN /\ flickered \in BOOLEAN
    /\ table \in [Peers -> Ports \union {Closed}]
    /\ slots \in [Slots -> Peers \union {NoPeer}]
    /\ iperf \subseteq Peers

-----------------------------------------------------------------------------
(* LatentRedTCPProtocol.                                                   *)

IsPortOpen(port) == port \in {SSH_PORT, IPERF3_PORT}

\* The SSH server closes a connection it has no room for.
SshAccepted(p) ==
    \/ \E i \in Slots :
          /\ slots[i] = NoPeer /\ \A j \in 1 .. i - 1 : slots[j] # NoPeer
          /\ slots' = [slots EXCEPT ![i] = p]
          /\ table' = [table EXCEPT ![p] = SSH_PORT]
    \/ /\ \A i \in Slots : slots[i] # NoPeer
       /\ UNCHANGED <<slots, table>>

OnConnectionAccepted(p, port) ==
    \/ port = SSH_PORT /\ SshAccepted(p) /\ UNCHANGED iperf
    \/ /\ port = IPERF3_PORT
       /\ iperf' = iperf \union {p}
       /\ table' = [table EXCEPT ![p] = IPERF3_PORT]
       /\ UNCHANGED slots

SshForgets(p) == slots' = [i \in Slots |-> IF slots[i] = p THEN NoPeer ELSE slots[i]]

\* The base class frees the entry first; its local port is read after that.
ClosedWithoutSsh(p) ==                                                  \* mutant
    /\ table' = [table EXCEPT ![p] = Closed]
    /\ UNCHANGED slots
    /\ iperf' = iperf \ {p}
OnConnectionClosed(p) ==
    /\ table' = [table EXCEPT ![p] = Closed]
    /\ \/ table[p] = SSH_PORT /\ SshForgets(p) /\ UNCHANGED iperf
       \/ table[p] = IPERF3_PORT /\ iperf' = iperf \ {p} /\ UNCHANGED slots

\* "exit": the SSH server forgets the connection, the entry stays until the peer
\* has closed its side too.
GracefulDisconnect(p) == SshForgets(p) /\ UNCHANGED <<table, iperf>>

\* A frame of the stack: a connection opens or closes, anything else is dropped.
\* A data frame to the SSH server is the shell's and is left to OnRxShellData.
Frame(shellLines) ==
    [type : {"syn"}, peer : Peers, port : Ports]
    \union [type : {"fin"}, peer : Peers]
    \union [type : {"data"}, peer : Peers, line : shellLines]
    \union [type : {"bad"}]

IsShellData(f) == f.type = "data" /\ table[f.peer] = SSH_PORT /\ \E i \in Slots : slots[i] = f.peer

OnRxFrame(f) ==
    \/ /\ f.type = "syn" /\ table[f.peer] = Closed /\ IsPortOpen(f.port)
       /\ OnConnectionAccepted(f.peer, f.port)
    \/ /\ f.type = "fin" /\ table[f.peer] # Closed
       /\ OnConnectionClosed(f.peer)
    \/ /\ \/ f.type = "bad"
          \/ f.type = "data" /\ ~IsShellData(f)
          \/ f.type = "syn" /\ (table[f.peer] # Closed \/ ~IsPortOpen(f.port))
          \/ f.type = "fin" /\ table[f.peer] = Closed
       /\ UNCHANGED tcpVars

\* The peer stopped answering: the stack gives up retransmitting.
AgingCloses(p) == table[p] # Closed /\ OnConnectionClosed(p) /\ UNCHANGED <<frames, linkVars>>

-----------------------------------------------------------------------------
(* FPGATask::Iteration: a frame, then three reads of the link flag.        *)

FrameWaiting == frames # <<>>

\* A pass in which the flag stands still is what the stack is told about.
NoticeUp ==
    /\ stackUp' = ((link /\ ~g_basetLinkUp) \/ stackUp)
    /\ UNCHANGED <<frames, link, g_basetLinkUp, flickered, tcpVars>>

NeverNoticeDown == UNCHANGED networkVars                                \* mutant
NoticeDown ==
    /\ stackUp' = (stackUp /\ ~(~link /\ g_basetLinkUp))
    /\ UNCHANGED <<frames, link, g_basetLinkUp, flickered, tcpVars>>

SaveLink ==
    /\ g_basetLinkUp' = link
    /\ UNCHANGED <<frames, link, stackUp, flickered, tcpVars>>

LinkFlips(within) ==
    /\ link' = ~link
    /\ flickered' = (flickered \/ within)
    /\ UNCHANGED <<frames, g_basetLinkUp, stackUp, tcpVars>>

FrameArrives(f) ==
    /\ link /\ Len(frames) < RX_BUFFERS
    /\ frames' = Append(frames, f)
    /\ UNCHANGED <<linkVars, tcpVars>>

\* A restart of the processor empties its tables; the controller keeps its frames.
NetworkRestart ==
    /\ g_basetLinkUp' = FALSE /\ stackUp' = FALSE /\ flickered' = FALSE
    /\ RegisterProtocolHandlers
    /\ UNCHANGED <<frames, link>>

-----------------------------------------------------------------------------
(* Properties.                                                             *)

\* Whatever opens, closes, times out or is refused in whatever order, a server
\* only holds entries that are open on its own port, no two states hold the same
\* entry, and iperf holds all of its: nothing is sent to an entry that was freed
\* and given to somebody else (LatentRedTCPProtocol.cpp:66-103).
ServersKnowTheirSockets ==
    /\ \A i \in Slots : slots[i] # NoPeer => table[slots[i]] = SSH_PORT
    /\ \A i, j \in Slots : slots[i] = slots[j] /\ slots[i] # NoPeer => i = j
    /\ iperf = {p \in Peers : table[p] = IPERF3_PORT}

=============================================================================
