------------------------------ MODULE FIFOReader ------------------------------
(***************************************************************************)
(* The read side of a line card's input buffer                             *)
(* (rtl/engine/fabric/LineCardFIFOReader.sv): it takes frames out of the   *)
(* ports' FIFOs, asks the MAC table where each of them goes and sends them *)
(* to the crossbar, one RAM read per clock.                                *)
(*                                                                         *)
(* One Clock step is one edge of the fabric clock.  In front of the reader *)
(* are the FIFOs as their readers see them (FrameQueue, one per port),     *)
(* beside it the MAC table with its clock crossings, which answers in      *)
(* order after any delay, behind it a crossbar that never holds a word     *)
(* back (SwitchFabric ties tready to one) but decides with xbar_ready      *)
(* when a frame may start.                                                 *)
(***************************************************************************)
EXTENDS Integers, Sequences

CONSTANTS
    NUM_PORTS,      \* ports of the line card (24)
    DEPTH,          \* words in a port's FIFO
    LATENCY,        \* clocks from read request to data: cascade plus rd_en itself
    TIDS,           \* transaction IDs the MAC table tells apart (4: two bits)
    Traffic,        \* the frames each port may receive
    Overlap,        \* may a frame start in the clock that sends the last word of another
    FlapsBusy       \* may a link go down while words of its port's frames are still to be read

PortNumbers == 0..(NUM_PORTS - 1)

ASSUME ReaderAssumption ==
    /\ NUM_PORTS \in Nat \ {0} /\ DEPTH \in Nat \ {0} /\ LATENCY \in Nat \ {0} /\ TIDS \in Nat \ {0}
    /\ Overlap \in BOOLEAN /\ FlapsBusy \in BOOLEAN
ASSUME TrafficAssumption ==
    Traffic \in [PortNumbers -> SUBSET [len : 1..1518, vlan : Nat \ {0}, dst : Nat]]

VARIABLES
    mem, wr_ptr_committed, rd_ptr,      \* the FIFOs
    pipe,           \* reads on their way through the RAM cascade, newest first
    port_states,
    port_hdr, port_word0, port_word1, prefetch_buf,     \* what was read of each frame
    port_dst,       \* port_dst_port and port_dst_is_broadcast
    main_rr_port, prefetch_wr_count,
    fwd_state, fwd_port, fwd_bytesToRead, fwd_bytesToSend, prefetch_rd_addr,
    axi_tx,
    lookups,        \* requests to the MAC table not yet answered
    owed,           \* history: frames queued at each port and not yet sent
    sent            \* history: words of the frame on axi_tx sent before this one

fifoVars == <<mem, wr_ptr_committed>>
portVars == <<port_states, port_hdr, port_word0, port_word1, prefetch_buf, port_dst>>
mainVars == <<main_rr_port, prefetch_wr_count>>
fwdVars  == <<fwd_state, fwd_port, fwd_bytesToRead, fwd_bytesToSend, prefetch_rd_addr>>
vars == <<fifoVars, rd_ptr, pipe, portVars, mainVars, fwdVars, axi_tx, lookups, owed, sent>>

-----------------------------------------------------------------------------
(* Frames and words.  Word 0 of a frame in the FIFO is its header, the     *)
(* others are eight bytes each, the last one padded.                       *)

Word(p, fr, k) == [port |-> p, frame |-> fr, k |-> k]
NoFrame  == [len |-> 0, vlan |-> 0, dst |-> 0]
NoWord   == Word(0, NoFrame, 0)
DataWords(fr) == (fr.len + 7) \div 8

Ptr(x)  == x % (2 * DEPTH)
Addr(x) == x % DEPTH
Bytes(x) == x % 2048            \* the byte counters have eleven bits

fifo_rd_size(p) == Ptr(wr_ptr_committed[p] - rd_ptr[p])

NoRead == [mtype |-> "NONE", port |-> 0, slot |-> 0, data |-> NoWord]
\* rd_valid, meta_rdata and rd_data: the metadata FIFO is in step with the RAM.
rd == pipe[LATENCY]

Idle == [valid |-> FALSE, data |-> NoWord, bytes |-> 0, last |-> FALSE]

-----------------------------------------------------------------------------
Init ==
    /\ mem = [p \in PortNumbers |-> [a \in 0..(DEPTH - 1) |-> NoWord]]
    /\ wr_ptr_committed = [p \in PortNumbers |-> 0] /\ rd_ptr = [p \in PortNumbers |-> 0]
    /\ pipe = [i \in 1..LATENCY |-> NoRead]
    /\ port_states = [p \in PortNumbers |-> "IDLE"]
    /\ port_hdr = [p \in PortNumbers |-> NoFrame]
    /\ port_word0 = [p \in PortNumbers |-> NoWord] /\ port_word1 = [p \in PortNumbers |-> NoWord]
    /\ prefetch_buf = [p \in PortNumbers |-> [i \in 0..4 |-> NoWord]]
    /\ port_dst = [p \in PortNumbers |-> 0]
    /\ main_rr_port = 0 /\ prefetch_wr_count = 0
    /\ fwd_state = "IDLE" /\ fwd_port = 0 /\ fwd_bytesToRead = 0 /\ fwd_bytesToSend = 0
    /\ prefetch_rd_addr = 0
    /\ axi_tx = [word |-> Idle, user |-> 0, dest |-> 0]
    /\ lookups = <<>>
    /\ owed = [p \in PortNumbers |-> <<>>] /\ sent = 0

-----------------------------------------------------------------------------
(* The FIFOs' write side.                                                  *)

Queue(p, fr) ==
    LET words == [k \in 1..(DataWords(fr) + 1) |-> Word(p, fr, k - 1)]
        at(a) == {k \in DOMAIN words : Addr(wr_ptr_committed[p] + k - 1) = a} IN
    /\ fifo_rd_size(p) + Len(words) <= DEPTH
    /\ mem' = [mem EXCEPT ![p] = [a \in DOMAIN @ |->
                  IF at(a) # {} THEN words[CHOOSE k \in at(a) : TRUE] ELSE @[a]]]
    /\ wr_ptr_committed' = [wr_ptr_committed EXCEPT ![p] = Ptr(@ + Len(words))]

\* A link that goes down resets the pointers of its port and nothing else.
Unplug(p) ==
    /\ FlapsBusy \/ (port_states[p] = "IDLE" /\ fifo_rd_size(p) = 0)
    /\ wr_ptr_committed' = [wr_ptr_committed EXCEPT ![p] = 0]
    /\ UNCHANGED mem

\* What the lines do in this clock: at most one frame is queued or one link goes down.
Nothing == [kind |-> "none", port |-> 0, frame |-> NoFrame]
Frame(p, fr) == [kind |-> "frame", port |-> p, frame |-> fr]
Down(p) == [kind |-> "down", port |-> p, frame |-> NoFrame]
LineEvents == {Nothing} \cup UNION {{Frame(p, fr) : fr \in Traffic[p]} \cup {Down(p)} : p \in PortNumbers}

Lines(line) ==
    \/ line.kind = "none" /\ UNCHANGED fifoVars
    \/ line.kind = "frame" /\ Queue(line.port, line.frame)
    \/ line.kind = "down" /\ Unplug(line.port)

-----------------------------------------------------------------------------
(* Who does what in this clock.                                            *)

\* Only the middle of a frame keeps the main state machine from the RAM.
Blocked == fwd_state \in {"HEADER_1", "PREFETCH_DATA", "BODY"}

LastWord  == fwd_state \in {"BODY", "TAIL"} /\ fwd_bytesToSend <= 8
mayStartInTail == fwd_state = "TAIL" /\ fwd_bytesToSend <= 8
canStartForwarding == fwd_state = "IDLE" \/ mayStartInTail

rrState == port_states[main_rr_port]
Turn(state) == ~Blocked /\ rrState = state

\* go is xbar_ready in the clock in which a frame can start.
MayGoNotAgain == Turn("FWD_READY") /\ canStartForwarding /\ main_rr_port # fwd_port
MayGo == Turn("FWD_READY") /\ canStartForwarding
\* A frame that starts while TAIL sends a last word replaces it: Overlap says whether
\* xbar_ready can be high in that clock.
MayStart == MayGo /\ (Overlap \/ fwd_state = "IDLE")

\* The reads that a frame's first words take, one clock after the other.
Fetches  == [DATA_READY |-> "HEADER", HEADER |-> "WORD0", WORD_0 |-> "WORD1", WORD_1 |-> "PREFETCH"]
AfterFetch == [DATA_READY |-> "HEADER", HEADER |-> "WORD_0", WORD_0 |-> "WORD_1", WORD_1 |-> "PREFETCH"]
Fetching == ~Blocked /\ rrState \in DOMAIN Fetches
PrefetchTooShort == 3
PrefetchDepth == 4
PrefetchingOneMore == Turn("PREFETCH") /\ prefetch_wr_count <= PrefetchDepth
Prefetching == Turn("PREFETCH") /\ prefetch_wr_count < PrefetchDepth

-----------------------------------------------------------------------------
(* Reads and read pointers.                                                *)

Read(mtype, p, slot) == [mtype |-> mtype, port |-> p, slot |-> slot, data |-> mem[p][Addr(rd_ptr[p])]]

Issue(go) ==
    pipe' = <<IF Blocked /\ fwd_bytesToRead > 0 THEN Read("BODY", fwd_port, 0)
              ELSE IF Fetching THEN Read(Fetches[rrState], main_rr_port, 0)
              ELSE IF Prefetching THEN Read("PREFETCH", main_rr_port, prefetch_wr_count + 1)
              ELSE IF go THEN Read("BODY", main_rr_port, 0)
              ELSE NoRead>> \o SubSeq(pipe, 1, LATENCY - 1)

\* A frame of 64 bytes or less has its last word read in the clock it starts and
\* passed over in the next.
rd_ptr_incNotInHeader1(p, go) ==
    \/ p = fwd_port /\ Blocked /\ fwd_bytesToRead > 0
    \/ p = main_rr_port /\ (Fetching \/ Prefetching \/ (go /\ port_hdr[p].len > 64))
rd_ptr_inc(p, go) ==
    \/ p = fwd_port /\ Blocked /\ (fwd_state = "HEADER_1" \/ fwd_bytesToRead > 0)
    \/ p = main_rr_port /\ (Fetching \/ Prefetching \/ (go /\ port_hdr[p].len > 64))

ReadPointers(go, line) ==
    rd_ptr' = [p \in PortNumbers |-> IF line = Down(p) THEN 0 ELSE IF rd_ptr_inc(p, go) THEN Ptr(rd_ptr[p] + 1) ELSE rd_ptr[p]]

\* What comes out of the RAM goes where its metadata says.
Storage ==
    LET took(mtype, reg) == IF rd.mtype = mtype THEN [reg EXCEPT ![rd.port] = rd.data] ELSE reg IN
    /\ port_hdr' = IF rd.mtype = "HEADER" THEN [port_hdr EXCEPT ![rd.port] = rd.data.frame] ELSE port_hdr
    /\ port_word0' = took("WORD0", port_word0)
    /\ port_word1' = took("WORD1", port_word1)
    /\ prefetch_buf' = IF rd.mtype = "PREFETCH"
                       THEN [prefetch_buf EXCEPT ![rd.port][rd.slot] = rd.data] ELSE prefetch_buf

\* The second word completes the addresses: ask the MAC table.
Lookup == [tid |-> rd.port, vlan |-> port_hdr[rd.port].vlan, word0 |-> port_word0[rd.port], word1 |-> rd.data]

\* The table keeps two bits of the transaction ID, the port, and replies with these.
Echo(tid) == tid % TIDS

\* The table answers the oldest request; a miss (0) means broadcast.
Answer(answered) ==
    /\ answered => lookups # <<>>
    /\ port_dst' = IF answered
                   THEN [port_dst EXCEPT ![Echo(Head(lookups).tid)] = Head(lookups).word0.frame.dst] ELSE port_dst
    /\ lookups' = (IF answered THEN Tail(lookups) ELSE lookups)
                  \o (IF rd.mtype = "WORD1" THEN <<Lookup>> ELSE <<>>)

-----------------------------------------------------------------------------
(* The ports' states: of several reasons to change one the later in the    *)
(* code wins.                                                              *)

PortStates(go, answered) ==
    port_states' = [p \in PortNumbers |->
        IF p = main_rr_port /\ Fetching THEN AfterFetch[rrState]
        ELSE IF p = main_rr_port /\ go THEN "FORWARDING"
        ELSE IF rd.mtype = "WORD1" /\ rd.port = p THEN "MAC_LOOKUP"
        ELSE IF LastWord /\ p = fwd_port THEN "IDLE"
        ELSE IF answered /\ Echo(Head(lookups).tid) = p THEN "FWD_READY"
        ELSE IF port_states[p] = "IDLE" /\ fifo_rd_size(p) # 0 THEN "DATA_READY"
        ELSE port_states[p]]

NextPort == (main_rr_port + 1) % NUM_PORTS
RoundRobin ==
    /\ main_rr_port' = IF Blocked \/ Fetching \/ Prefetching THEN main_rr_port ELSE NextPort
    /\ prefetch_wr_count' = IF Turn("WORD_1") THEN 0
                            ELSE IF Prefetching THEN prefetch_wr_count + 1 ELSE prefetch_wr_count

-----------------------------------------------------------------------------
(* The forwarding engine.                                                  *)

\* A word of a frame on the bus; the strobes of a last word count its bytes, and
\* eight of them are no partial word.
Strobes(n) == IF n < 8 THEN n ELSE 0
Send(data)      == [valid |-> TRUE, data |-> data, bytes |-> 8, last |-> FALSE]
SendLast(data)  == [valid |-> TRUE, data |-> data, bytes |-> Strobes(fwd_bytesToSend), last |-> TRUE]

LessEight == IF fwd_bytesToRead >= 8 THEN fwd_bytesToRead - 8 ELSE 0

FwdIdle ==
    /\ fwd_state = "IDLE"
    /\ axi_tx' = [axi_tx EXCEPT !.word = Idle]
    /\ UNCHANGED fwdVars

FwdHeader1 ==
    /\ fwd_state = "HEADER_1"
    /\ axi_tx' = [axi_tx EXCEPT !.word = Send(port_word1[fwd_port])]
    /\ fwd_bytesToRead' = LessEight
    /\ fwd_bytesToSend' = Bytes(fwd_bytesToSend - 8)
    /\ fwd_state' = "PREFETCH_DATA"
    /\ prefetch_rd_addr' = 0
    /\ UNCHANGED fwd_port

FwdPrefetchData ==
    /\ fwd_state = "PREFETCH_DATA"
    /\ axi_tx' = [axi_tx EXCEPT !.word = Send(prefetch_buf[fwd_port][prefetch_rd_addr])]
    /\ fwd_bytesToRead' = LessEight
    /\ fwd_bytesToSend' = Bytes(fwd_bytesToSend - 8)
    /\ prefetch_rd_addr' = prefetch_rd_addr + 1
    /\ fwd_state' = IF prefetch_rd_addr = PrefetchDepth THEN "BODY" ELSE fwd_state
    /\ UNCHANGED fwd_port

\* Words straight from the RAM: the first was asked for exactly LATENCY clocks ago.
FwdWord ==
    /\ fwd_state \in {"BODY", "TAIL"} /\ ~LastWord
    /\ axi_tx' = [axi_tx EXCEPT !.word = Send(rd.data)]
    /\ fwd_bytesToSend' = fwd_bytesToSend - 8
    /\ fwd_bytesToRead' = IF fwd_state = "BODY" THEN LessEight ELSE fwd_bytesToRead
    /\ fwd_state' = IF fwd_bytesToRead = 0 THEN "TAIL" ELSE fwd_state
    /\ UNCHANGED <<fwd_port, prefetch_rd_addr>>

FwdLastWord ==
    /\ LastWord
    /\ axi_tx' = [axi_tx EXCEPT !.word = SendLast(rd.data)]
    /\ fwd_bytesToSend' = 0
    /\ fwd_bytesToRead' = IF fwd_state = "BODY" THEN LessEight ELSE fwd_bytesToRead
    /\ fwd_state' = "IDLE"
    /\ UNCHANGED <<fwd_port, prefetch_rd_addr>>

\* A frame starts; whatever a TAIL put on the bus in the same clock is replaced,
\* except for its tlast.
FwdStart ==
    /\ MayGo
    /\ axi_tx' = [word |-> [Send(port_word0[main_rr_port]) EXCEPT !.last = LastWord],
                  user |-> port_hdr[main_rr_port].vlan, dest |-> port_dst[main_rr_port]]
    /\ fwd_bytesToRead' = IF port_hdr[main_rr_port].len > 64 THEN port_hdr[main_rr_port].len - 64 ELSE 0
    /\ fwd_bytesToSend' = Bytes(port_hdr[main_rr_port].len - 8)
    /\ fwd_state' = "HEADER_1"
    /\ fwd_port' = main_rr_port
    /\ UNCHANGED prefetch_rd_addr

Forward(go) ==
    \/ go /\ FwdStart
    \/ ~go /\ (FwdIdle \/ FwdHeader1 \/ FwdPrefetchData \/ FwdWord \/ FwdLastWord)

-----------------------------------------------------------------------------
\* The word on the bus is taken in this clock; the last one settles a frame.
Settle(line) ==
    LET w == axi_tx.word
        done(p) == w.valid /\ w.last /\ w.data.port = p /\ owed[p] # <<>> IN
    /\ sent' = IF w.valid /\ ~w.last THEN sent + 1 ELSE IF w.valid THEN 0 ELSE sent
    /\ owed' = [p \in PortNumbers |->
                  IF line = Down(p) THEN <<>>
                  ELSE (IF done(p) THEN Tail(owed[p]) ELSE owed[p])
                       \o (IF line.kind = "frame" /\ line.port = p THEN <<line.frame>> ELSE <<>>)]

Clock(go, answered, line) ==
    /\ go => MayStart
    /\ Lines(line)
    /\ Issue(go) /\ ReadPointers(go, line) /\ Storage /\ Answer(answered)
    /\ PortStates(go, answered) /\ RoundRobin
    /\ Forward(go)
    /\ Settle(line)

Next == \E go, answered \in BOOLEAN, line \in LineEvents : Clock(go, answered, line)

Spec == Init /\ [][Next]_vars
-----------------------------------------------------------------------------
(* Properties.                                                             *)

Frames == {NoFrame} \cup UNION {Traffic[p] : p \in PortNumbers}
Words  == [port : PortNumbers, frame : Frames, k : 0..190]
Reads  == [mtype : {"NONE", "HEADER", "WORD0", "WORD1", "PREFETCH", "BODY"}, port : PortNumbers,
           slot : 0..4, data : Words]
States == {"IDLE", "DATA_READY", "HEADER", "WORD_0", "WORD_1", "PREFETCH", "MAC_LOOKUP",
           "FWD_READY", "FORWARDING"}

\* Every register holds a value of its type (LineCardFIFOReader.sv:118-210, 354-416).
TypeOK ==
    /\ mem \in [PortNumbers -> [0..(DEPTH - 1) -> Words]]
    /\ wr_ptr_committed \in [PortNumbers -> 0..(2 * DEPTH - 1)]
    /\ rd_ptr \in [PortNumbers -> 0..(2 * DEPTH - 1)]
    /\ pipe \in [1..LATENCY -> Reads]
    /\ port_states \in [PortNumbers -> States]
    /\ port_hdr \in [PortNumbers -> Frames]
    /\ port_word0 \in [PortNumbers -> Words] /\ port_word1 \in [PortNumbers -> Words]
    /\ prefetch_buf \in [PortNumbers -> [0..4 -> Words]]
    /\ port_dst \in [PortNumbers -> Nat]
    /\ main_rr_port \in PortNumbers /\ prefetch_wr_count \in 0..PrefetchDepth
    /\ fwd_state \in {"IDLE", "HEADER_1", "PREFETCH_DATA", "BODY", "TAIL"}
    /\ fwd_port \in PortNumbers
    /\ fwd_bytesToRead \in 0..2047 /\ fwd_bytesToSend \in 0..2047
    /\ prefetch_rd_addr \in 0..(PrefetchDepth + 1)
    /\ axi_tx \in [word : [valid : BOOLEAN, data : Words, bytes : 0..8, last : BOOLEAN],
                    user : Nat, dest : Nat]
    /\ lookups \in Seq([tid : PortNumbers, vlan : Nat, word0 : Words, word1 : Words])
    /\ owed \in [PortNumbers -> Seq(Frames)] /\ sent \in Nat

\* The crossbar gets every frame whole: its words in order, the strobes of the last
\* one counting what is left, tlast on that word and on no other, and with all of
\* them the VLAN and the destination of that frame (LineCardInputBuffering.sv:39-41),
\* although reads, replies and words of several ports are on their way at once.
FramesIntact ==
    axi_tx.word.valid =>
    \E p \in PortNumbers :
        /\ owed[p] # <<>>
        /\ LET fr == Head(owed[p]) IN
           /\ axi_tx.word.data = Word(p, fr, sent + 1)
           /\ axi_tx.word.last <=> sent + 1 = DataWords(fr)
           /\ axi_tx.word.bytes = IF axi_tx.word.last THEN fr.len - 8 * sent ELSE 8
           /\ axi_tx.user = fr.vlan /\ axi_tx.dest = fr.dst

\* The frames of a port that it has still to start or finish reading.
Unsent(p) ==
    IF axi_tx.word.last /\ axi_tx.word.data.port = p /\ owed[p] # <<>> THEN Tail(owed[p]) ELSE owed[p]

\* Between frames the read pointer stands on a header: the pointer is moved at ten
\* places (lines 443-473), and over a whole frame they add up to its words.
\* In the middle of one the MAC table is asked once for the frame whose port waits
\* for the answer, with addresses and VLAN of that same frame.
KeepsItsPlace ==
    /\ \A p \in PortNumbers : port_states[p] = "IDLE" =>
          IF Unsent(p) = <<>> THEN fifo_rd_size(p) = 0
          ELSE /\ fifo_rd_size(p) > DataWords(Head(Unsent(p)))
               /\ mem[p][Addr(rd_ptr[p])] = Word(p, Head(Unsent(p)), 0)
    /\ \A i \in DOMAIN lookups :
          LET p == lookups[i].tid  fr == Head(owed[p]) IN
          /\ port_states[p] = "MAC_LOOKUP" /\ owed[p] # <<>>
          /\ \A j \in DOMAIN lookups : lookups[j].tid = p => i = j
          /\ lookups[i].vlan = fr.vlan
          /\ lookups[i].word0 = Word(p, fr, 1) /\ lookups[i].word1 = Word(p, fr, 2)

\* The fabric clock runs, the MAC table answers, and when a port's turn comes again
\* and again the crossbar is not full every time.
FairSpec ==
    /\ Spec /\ WF_vars(Next)
    /\ WF_vars(\E go \in BOOLEAN, line \in LineEvents : Clock(go, TRUE, line))
    /\ \A p \in PortNumbers : SF_vars(main_rr_port = p /\ \E answered \in BOOLEAN, line \in LineEvents :
                                                      Clock(TRUE, answered, line))

\* Every frame that is queued is sent in the end.
EveryFrameSent ==
    \A p \in PortNumbers : port_states[p] # "IDLE" ~> axi_tx.word.last /\ axi_tx.word.data.port = p
=============================================================================
