--------------------------- MODULE FIFOReader_proofs ---------------------------
(***************************************************************************)
(* The line card's FIFO reader, for any number of ports, any RAM and any   *)
(* traffic the lines may bring.                                            *)
(***************************************************************************)
EXTENDS FIFOReader, SequenceTheorems, TLAPS

-----------------------------------------------------------------------------
(* Pointers, frames and words.                                             *)

Pointers  == 0 .. (2 * DEPTH - 1)
Addresses == 0 .. (DEPTH - 1)

\* Pointers wrap at twice the depth of the RAM, both ways.
LEMMA PtrFacts ==
    \A x \in Int :
        /\ Ptr(x) \in Pointers
        /\ 0 <= x /\ x < 2 * DEPTH => Ptr(x) = x
        /\ 2 * DEPTH <= x /\ x < 4 * DEPTH => Ptr(x) = x - 2 * DEPTH
        /\ -2 * DEPTH <= x /\ x < 0 => Ptr(x) = x + 2 * DEPTH
<1> DEFINE d == 2 * DEPTH
<1>1. d \in Nat /\ d > 0
  BY ReaderAssumption
<1> SUFFICES ASSUME NEW x \in Int
             PROVE  /\ Ptr(x) \in Pointers
                    /\ 0 <= x /\ x < d => Ptr(x) = x
                    /\ d <= x /\ x < d + d => Ptr(x) = x - d
                    /\ -d <= x /\ x < 0 => Ptr(x) = x + d
  BY ReaderAssumption
<1>2. Ptr(x) = x % d /\ Pointers = 0 .. (d - 1)
  BY DEF Ptr, Pointers
<1> HIDE DEF d
<1> QED BY <1>1, <1>2

\* Addresses wrap at the depth of the RAM.
LEMMA AddrFacts ==
    \A x \in Int :
        /\ Addr(x) \in Addresses
        /\ 0 <= x /\ x < DEPTH => Addr(x) = x
        /\ DEPTH <= x /\ x < 2 * DEPTH => Addr(x) = x - DEPTH
        /\ 2 * DEPTH <= x /\ x < 3 * DEPTH => Addr(x) = x - 2 * DEPTH
        /\ 3 * DEPTH <= x /\ x < 4 * DEPTH => Addr(x) = x - 3 * DEPTH
BY ReaderAssumption DEF Addr, Addresses

\* Port 0 exists.
LEMMA PortFacts == 0 \in PortNumbers /\ PortNumbers \subseteq Nat
BY ReaderAssumption DEF PortNumbers

\* Eight bytes to a word, the last one may be partial.
LEMMA EightToAWord ==
    \A x \in Nat : /\ (x + 7) \div 8 \in Nat
                   /\ x <= 8 * ((x + 7) \div 8) /\ 8 * ((x + 7) \div 8) < x + 8
OBVIOUS

\* Every frame is short enough for the byte counters.
LEMMA FrameFacts ==
    ASSUME NEW fr \in Frames
    PROVE  /\ fr.len \in 0 .. 1518 /\ fr.vlan \in Nat /\ fr.dst \in Nat
           /\ DataWords(fr) \in 0 .. 190
           /\ fr.len <= 8 * DataWords(fr) /\ 8 * DataWords(fr) < fr.len + 8
<1>1. fr.len \in 0 .. 1518 /\ fr.vlan \in Nat /\ fr.dst \in Nat
  BY TrafficAssumption DEF Frames, NoFrame
<1>2. PICK x \in 0 .. 1518 : x = fr.len
  BY <1>1
<1>3. PICK d \in Nat : d = DataWords(fr) /\ x <= 8 * d /\ 8 * d < x + 8
  <2>1. DataWords(fr) = (x + 7) \div 8
    BY <1>2 DEF DataWords
  <2>2. x \in Nat
    OBVIOUS
  <2> QED BY <2>1, <2>2, EightToAWord
<1>4. d \in 0 .. 190
  BY <1>3
<1> QED BY <1>1, <1>2, <1>3, <1>4

\* The frames of a port are frames.
LEMMA TrafficFrames ==
    \A p \in PortNumbers : Traffic[p] \subseteq Frames
BY DEF Frames

\* The parts of a word.
LEMMA WordFacts ==
    /\ NoFrame \in Frames /\ NoWord \in Words
    /\ \A p \in PortNumbers, fr \in Frames, k \in 0 .. 190 : Word(p, fr, k) \in Words
<1>1. NoFrame \in Frames
  BY DEF Frames
<1> QED BY <1>1, PortFacts DEF Words, Word, NoWord

\* What the lines do concerns one port or none.
LEMMA LineCases ==
    ASSUME NEW line \in LineEvents
    PROVE  \/ line = Nothing
           \/ \E p \in PortNumbers : \E fr \in Traffic[p] : line = Frame(p, fr)
           \/ \E p \in PortNumbers : line = Down(p)
BY DEF LineEvents

\* A link that goes down is no frame.
LEMMA LineKinds ==
    ASSUME NEW line \in LineEvents
    PROVE  /\ line.port \in PortNumbers /\ line.frame \in Frames
           /\ line.kind = "frame" => line.frame \in Traffic[line.port]
           /\ \A p \in PortNumbers : line = Down(p) <=> line.kind = "down" /\ line.port = p
<1>1. CASE line = Nothing
  BY <1>1, PortFacts, WordFacts DEF Nothing, Down
<1>2. CASE \E p \in PortNumbers : \E fr \in Traffic[p] : line = Frame(p, fr)
  BY <1>2, TrafficFrames DEF Frame, Down
<1>3. CASE \E p \in PortNumbers : line = Down(p)
  BY <1>3, WordFacts DEF Down
<1> QED BY <1>1, <1>2, <1>3, LineCases

-----------------------------------------------------------------------------
(* Types.                                                                  *)

Requests == [tid : PortNumbers, vlan : Nat, word0 : Words, word1 : Words]
BusWords == [valid : BOOLEAN, data : Words, bytes : 0 .. 8, last : BOOLEAN]
BusType == [word : BusWords, user : Nat, dest : Nat]

\* TypeOK in groups.  Besides, the prefetched word being sent is one there is.
FifoTyped ==
    /\ mem \in [PortNumbers -> [Addresses -> Words]]
    /\ wr_ptr_committed \in [PortNumbers -> Pointers]
    /\ rd_ptr \in [PortNumbers -> Pointers]
PipeTyped == pipe \in [1 .. LATENCY -> Reads]
PortTyped ==
    /\ port_states \in [PortNumbers -> States]
    /\ main_rr_port \in PortNumbers /\ prefetch_wr_count \in 0 .. 4
StoreTyped ==
    /\ port_hdr \in [PortNumbers -> Frames]
    /\ port_word0 \in [PortNumbers -> Words] /\ port_word1 \in [PortNumbers -> Words]
    /\ prefetch_buf \in [PortNumbers -> [0 .. 4 -> Words]]
LookupTyped == port_dst \in [PortNumbers -> Nat] /\ lookups \in Seq(Requests)
FwdTyped ==
    /\ fwd_state \in {"IDLE", "HEADER_1", "PREFETCH_DATA", "BODY", "TAIL"}
    /\ fwd_port \in PortNumbers
    /\ fwd_bytesToRead \in 0 .. 2047 /\ fwd_bytesToSend \in 0 .. 2047
    /\ prefetch_rd_addr \in 0 .. 5
    /\ fwd_state = "PREFETCH_DATA" => prefetch_rd_addr \in 0 .. 4
BusTyped == axi_tx \in BusType
OwedTyped == owed \in [PortNumbers -> Seq(Frames)] /\ sent \in Nat
Types ==
    /\ FifoTyped /\ PipeTyped /\ PortTyped /\ StoreTyped /\ LookupTyped
    /\ FwdTyped /\ BusTyped /\ OwedTyped

\* What comes out of the RAM is a read.
LEMMA RdType ==
    ASSUME Types
    PROVE  /\ rd \in Reads
           /\ rd.mtype \in {"NONE", "HEADER", "WORD0", "WORD1", "PREFETCH", "BODY"}
           /\ rd.port \in PortNumbers /\ rd.slot \in 0 .. 4 /\ rd.data \in Words
           /\ rd.data.frame \in Frames
<1>1. LATENCY \in 1 .. LATENCY
  BY ReaderAssumption
<1>2. rd \in Reads
  BY <1>1 DEF Types, PipeTyped, rd
<1> QED BY <1>2 DEF Reads, Words

\* A frame is written into words of the RAM.
LEMMA LinesTypes ==
    ASSUME Types, NEW line \in LineEvents, Lines(line)
    PROVE  /\ mem' \in [PortNumbers -> [Addresses -> Words]]
           /\ wr_ptr_committed' \in [PortNumbers -> Pointers]
<1> DEFINE Ram == [PortNumbers -> [Addresses -> Words]]
           Ptrs == [PortNumbers -> Pointers]
<1>1. mem \in Ram /\ wr_ptr_committed \in Ptrs
  BY DEF Types, FifoTyped
<1>0. 0 \in Pointers
  BY ReaderAssumption DEF Pointers
<1>2. CASE line.kind = "none"
  BY <1>1, <1>2 DEF Lines, fifoVars
<1>3. CASE line.kind = "down"
  <2>1. Unplug(line.port) /\ line.port \in PortNumbers
    BY <1>3, LineKinds DEF Lines
  <2>2. mem' \in Ram
    BY <1>1, <2>1 DEF Unplug
  <2>3. wr_ptr_committed' \in Ptrs
    BY <1>0, <1>1, <2>1 DEF Unplug
  <2> QED BY <2>2, <2>3
<1>4. CASE line.kind = "frame"
  <2> DEFINE p == line.port
             fr == line.frame
             words == [k \in 1 .. (DataWords(fr) + 1) |-> Word(p, fr, k - 1)]
             At(a) == {k \in DOMAIN words : Addr(wr_ptr_committed[p] + k - 1) = a}
  <2>1. p \in PortNumbers /\ fr \in Frames
    BY LineKinds
  <2>2. Queue(p, fr)
    BY <1>4 DEF Lines
  <2>3. \A k \in DOMAIN words : words[k] \in Words
    <3>1. PICK d \in 0 .. 190 : d = DataWords(fr)
      BY <2>1, FrameFacts
    <3>2. \A k \in 1 .. (d + 1) : k - 1 \in 0 .. 190
      OBVIOUS
    <3> QED BY <2>1, <3>1, <3>2, WordFacts
  <2>4. \A a : At(a) # {} => words[CHOOSE k \in At(a) : TRUE] \in Words
    <3> HIDE DEF words
    <3> QED BY <2>3
  <2>5. mem' = [mem EXCEPT ![p] = [a \in DOMAIN @ |->
                   IF At(a) # {} THEN words[CHOOSE k \in At(a) : TRUE] ELSE @[a]]]
    BY <2>2 DEF Queue
  <2>6. Len(words) \in Int
    <3>1. PICK d \in 0 .. 190 : d = DataWords(fr)
      BY <2>1, FrameFacts
    <3>2. d + 1 \in Nat /\ words = [k \in 1 .. (d + 1) |-> words[k]]
      BY <3>1
    <3> HIDE DEF words
    <3>3. words \in [1 .. (d + 1) -> Words]
      BY <2>3, <3>2
    <3>4. Len(words) = d + 1
      BY <3>2, <3>3
    <3> QED BY <3>2, <3>4
  <2>7. wr_ptr_committed' = [wr_ptr_committed EXCEPT ![p] = Ptr(@ + Len(words))]
    BY <2>2 DEF Queue
  <2> HIDE DEF p, fr, words, At
  <2>8. mem' \in Ram
    <3>1. [a \in DOMAIN mem[p] |-> IF At(a) # {} THEN words[CHOOSE k \in At(a) : TRUE] ELSE mem[p][a]]
             \in [Addresses -> Words]
      BY <1>1, <2>1, <2>4
    <3> QED BY <1>1, <2>1, <2>5, <3>1
  <2>9. wr_ptr_committed[p] + Len(words) \in Int
    BY <1>1, <2>1, <2>6, ReaderAssumption DEF Pointers
  <2>10. Ptr(wr_ptr_committed[p] + Len(words)) \in Pointers
    BY <2>9, PtrFacts
  <2> QED BY <1>1, <2>1, <2>7, <2>8, <2>10
<1> QED BY <1>2, <1>3, <1>4 DEF Lines

\* The reads in flight move on by one place.
LEMMA PipeShift ==
    ASSUME Types, NEW x, pipe' = <<x>> \o SubSeq(pipe, 1, LATENCY - 1)
    PROVE  /\ pipe'[1] = x
           /\ \A i \in 2 .. LATENCY : pipe'[i] = pipe[i - 1]
           /\ x \in Reads => pipe' \in [1 .. LATENCY -> Reads]
<1> DEFINE Any0 == Reads \cup {x}
           front == SubSeq(pipe, 1, LATENCY - 1)
<1>1. LATENCY \in Nat \ {0}
  BY ReaderAssumption
<1>2. pipe \in Seq(Any0) /\ Len(pipe) = LATENCY
  BY <1>1 DEF Types, PipeTyped
<1>3. front \in Seq(Any0) /\ Len(front) = LATENCY - 1 /\ \A i \in 1 .. LATENCY - 1 : front[i] = pipe[i]
  BY <1>1, <1>2
<1>4. <<x>> \in Seq(Any0) /\ Len(<<x>>) = 1 /\ <<x>>[1] = x
  OBVIOUS
<1> HIDE DEF front, Any0
<1>5. /\ <<x>> \o front \in Seq(Any0) /\ Len(<<x>> \o front) = LATENCY
      /\ \A i \in 1 .. LATENCY : (<<x>> \o front)[i] = IF i <= 1 THEN <<x>>[i] ELSE front[i - 1]
  BY <1>1, <1>3, <1>4, ConcatProperties
<1>6. pipe' = <<x>> \o front
  BY DEF front
<1>7. pipe'[1] = x /\ \A i \in 2 .. LATENCY : pipe'[i] = pipe[i - 1]
  BY <1>1, <1>3, <1>4, <1>5, <1>6
<1>8. x \in Reads => Any0 = Reads
  BY DEF Any0
<1>9. pipe' = [i \in 1 .. LATENCY |-> pipe'[i]]
  BY <1>5, <1>6
<1>10. \A i \in 1 .. LATENCY : (<<x>> \o front)[i] \in Any0
  BY <1>5
<1>11. x \in Reads => \A i \in 1 .. LATENCY : pipe'[i] \in Reads
  BY <1>6, <1>8, <1>10
<1> QED BY <1>7, <1>9, <1>11

\* The read that is issued with this edge.
Issued(go) ==
    IF Blocked /\ fwd_bytesToRead > 0 THEN Read("BODY", fwd_port, 0)
    ELSE IF Fetching THEN Read(Fetches[rrState], main_rr_port, 0)
    ELSE IF Prefetching THEN Read("PREFETCH", main_rr_port, prefetch_wr_count + 1)
    ELSE IF go THEN Read("BODY", main_rr_port, 0)
    ELSE NoRead

\* Whatever is issued is a read.
LEMMA IssuedType ==
    ASSUME Types, NEW go
    PROVE  Issued(go) \in Reads
<1>1. ASSUME NEW p \in PortNumbers PROVE mem[p][Addr(rd_ptr[p])] \in Words
  <2>1. rd_ptr[p] \in Int /\ mem[p] \in [Addresses -> Words]
    <3>1. rd_ptr[p] \in Pointers /\ mem[p] \in [Addresses -> Words]
      BY DEF Types, FifoTyped
    <3> QED BY <3>1, ReaderAssumption DEF Pointers
  <2> QED BY <2>1, AddrFacts DEF Addresses
<1>2. NoRead \in Reads
  BY WordFacts, PortFacts DEF NoRead, Reads
<1>3. \A mtype \in {"HEADER", "WORD0", "WORD1", "PREFETCH", "BODY"}, p \in PortNumbers, x \in 0 .. 4 :
         Read(mtype, p, x) \in Reads
  BY <1>1 DEF Read, Reads
<1>4. Fetching => Fetches[rrState] \in {"HEADER", "WORD0", "WORD1", "PREFETCH", "BODY"}
  BY DEF Fetching, Fetches
<1>5. Prefetching => prefetch_wr_count + 1 \in 0 .. 4
  BY DEF Types, PortTyped, Prefetching, PrefetchDepth
<1>6. fwd_port \in PortNumbers /\ main_rr_port \in PortNumbers
  BY DEF Types, PortTyped, FwdTyped
<1> QED BY <1>2, <1>3, <1>4, <1>5, <1>6 DEF Issued

\* The reads in flight.
LEMMA IssueTypes ==
    ASSUME Types, NEW go, Issue(go)
    PROVE  pipe' \in [1 .. LATENCY -> Reads]
<1>1. pipe' = <<Issued(go)>> \o SubSeq(pipe, 1, LATENCY - 1)
  BY DEF Issue, Issued
<1> QED BY <1>1, IssuedType, PipeShift

\* The read pointers wrap.
LEMMA PointerTypes ==
    ASSUME Types, NEW go, NEW line, ReadPointers(go, line)
    PROVE  rd_ptr' \in [PortNumbers -> Pointers]
<1>1. \A p \in PortNumbers : Ptr(rd_ptr[p] + 1) \in Pointers
  <2>1. \A p \in PortNumbers : rd_ptr[p] \in Pointers
    BY DEF Types, FifoTyped
  <2>2. \A x \in Pointers : x + 1 \in Int
    BY ReaderAssumption DEF Pointers
  <2> QED BY <2>1, <2>2, PtrFacts
<1>2. 0 \in Pointers
  BY ReaderAssumption DEF Pointers
<1>3. rd_ptr \in [PortNumbers -> Pointers]
  BY DEF Types, FifoTyped
<1> QED BY <1>1, <1>2, <1>3 DEF ReadPointers

\* What was read of each frame.
LEMMA StorageTypes ==
    ASSUME Types, Storage
    PROVE  /\ port_hdr' \in [PortNumbers -> Frames]
           /\ port_word0' \in [PortNumbers -> Words] /\ port_word1' \in [PortNumbers -> Words]
           /\ prefetch_buf' \in [PortNumbers -> [0 .. 4 -> Words]]
<1>0. /\ port_hdr \in [PortNumbers -> Frames]
      /\ port_word0 \in [PortNumbers -> Words] /\ port_word1 \in [PortNumbers -> Words]
      /\ prefetch_buf \in [PortNumbers -> [0 .. 4 -> Words]]
  BY DEF Types, StoreTyped
<1> USE RdType, <1>0
<1>1. port_hdr' \in [PortNumbers -> Frames]
  BY DEF Storage
<1>2. port_word0' \in [PortNumbers -> Words]
  BY DEF Storage
<1>3. port_word1' \in [PortNumbers -> Words]
  BY DEF Storage
<1>4. prefetch_buf' \in [PortNumbers -> [0 .. 4 -> Words]]
  <2>1. [prefetch_buf[rd.port] EXCEPT ![rd.slot] = rd.data] \in [0 .. 4 -> Words]
    OBVIOUS
  <2> QED BY <2>1 DEF Storage
<1> QED BY <1>1, <1>2, <1>3, <1>4

\* The requests to the MAC table and its answers.
LEMMA AnswerTypes ==
    ASSUME Types, NEW answered \in BOOLEAN, Answer(answered)
    PROVE  port_dst' \in [PortNumbers -> Nat] /\ lookups' \in Seq(Requests)
<1>1. lookups \in Seq(Requests) /\ port_dst \in [PortNumbers -> Nat]
  BY DEF Types, LookupTyped, Requests
<1>2. lookups # <<>> => Head(lookups) \in Requests /\ Tail(lookups) \in Seq(Requests)
  BY <1>1
<1>3. Lookup \in Requests
  <2>1. port_hdr[rd.port] \in Frames /\ port_word0[rd.port] \in Words
    <3>1. port_hdr \in [PortNumbers -> Frames] /\ port_word0 \in [PortNumbers -> Words]
      BY DEF Types, StoreTyped
    <3> QED BY <3>1, RdType
  <2>2. port_hdr[rd.port].vlan \in Nat
    BY <2>1, FrameFacts
  <2> QED BY <2>1, <2>2, RdType DEF Lookup, Requests
<1>4. port_dst' \in [PortNumbers -> Nat]
  <2>1. CASE answered
    <3>1. Head(lookups).tid \in PortNumbers /\ Head(lookups).word0.frame \in Frames
      BY <1>2, <2>1 DEF Answer, Requests, Words
    <3>2. Head(lookups).word0.frame.dst \in Nat
      BY <3>1, FrameFacts
    <3> QED BY <1>1, <2>1, <3>1, <3>2 DEF Answer
  <2> QED BY <1>1, <2>1 DEF Answer
<1>5. lookups' \in Seq(Requests)
  BY <1>1, <1>2, <1>3 DEF Answer
<1> QED BY <1>4, <1>5

\* The ports' states and the round robin.
LEMMA PortTypes ==
    ASSUME Types, NEW go, NEW answered, PortStates(go, answered), RoundRobin
    PROVE  /\ port_states' \in [PortNumbers -> States]
           /\ main_rr_port' \in PortNumbers /\ prefetch_wr_count' \in 0 .. 4
<1>1. Fetching => AfterFetch[rrState] \in States
  BY DEF Fetching, Fetches, AfterFetch, States
<1>2. port_states' \in [PortNumbers -> States]
  <2>1. \A p \in PortNumbers : port_states[p] \in States
    BY DEF Types, PortTyped
  <2>2. /\ "IDLE" \in States /\ "DATA_READY" \in States /\ "MAC_LOOKUP" \in States
        /\ "FWD_READY" \in States /\ "FORWARDING" \in States
    BY DEF States
  <2> QED BY <1>1, <2>1, <2>2 DEF PortStates
<1>3. NextPort \in PortNumbers
  <2>1. main_rr_port \in PortNumbers
    BY DEF Types, PortTyped
  <2> QED BY <2>1, ReaderAssumption DEF NextPort, PortNumbers
<1>4. main_rr_port' \in PortNumbers
  BY <1>3 DEF RoundRobin, Types, PortTyped
<1>5. prefetch_wr_count' \in 0 .. 4
  BY DEF RoundRobin, Prefetching, PrefetchDepth, Types, PortTyped
<1> QED BY <1>2, <1>4, <1>5

\* Words of the RAM on the bus.
LEMMA BusWordTypes ==
    ASSUME Types, NEW w \in Words
    PROVE  /\ Send(w) \in BusWords /\ SendLast(w) \in BusWords /\ Idle \in BusWords
           /\ [Send(w) EXCEPT !.last = LastWord] \in BusWords
           /\ [axi_tx EXCEPT !.word = Send(w)] \in BusType
           /\ [axi_tx EXCEPT !.word = SendLast(w)] \in BusType
           /\ [axi_tx EXCEPT !.word = Idle] \in BusType
<1>1. Strobes(fwd_bytesToSend) \in 0 .. 8
  <2>1. fwd_bytesToSend \in 0 .. 2047
    BY DEF Types, FwdTyped
  <2> QED BY <2>1 DEF Strobes
<1>2. Send(w) \in BusWords /\ SendLast(w) \in BusWords /\ Idle \in BusWords
  BY <1>1, WordFacts DEF Send, SendLast, Idle, BusWords
<1>3. [Send(w) EXCEPT !.last = LastWord] \in BusWords
  <2>1. LastWord \in BOOLEAN
    BY DEF LastWord
  <2> HIDE DEF LastWord
  <2> QED BY <1>2, <2>1 DEF Send, BusWords
<1>4. axi_tx \in BusType
  BY DEF Types, BusTyped, BusType, BusWords
<1> QED BY <1>2, <1>3, <1>4 DEF BusType

\* The forwarding engine: its counters neither overflow nor go below zero.
LEMMA ForwardTypes ==
    ASSUME Types, NEW go, Forward(go)
    PROVE  FwdTyped' /\ axi_tx' \in BusType
<1> DEFINE Goal == FwdTyped'
<1>1. /\ fwd_state \in {"IDLE", "HEADER_1", "PREFETCH_DATA", "BODY", "TAIL"}
      /\ fwd_port \in PortNumbers /\ main_rr_port \in PortNumbers
      /\ fwd_bytesToRead \in 0 .. 2047 /\ fwd_bytesToSend \in 0 .. 2047
      /\ prefetch_rd_addr \in 0 .. 5
      /\ fwd_state = "PREFETCH_DATA" => prefetch_rd_addr \in 0 .. 4
  BY DEF Types, FwdTyped, PortTyped, PrefetchDepth
<1>2. LessEight \in 0 .. 2047 /\ Bytes(fwd_bytesToSend - 8) \in 0 .. 2047
  BY <1>1 DEF LessEight, Bytes
<1>3. CASE FwdIdle
  <2>1. Goal
    BY <1>1, <1>3 DEF FwdIdle, fwdVars, FwdTyped
  <2>2. axi_tx' \in BusType
    BY <1>3, BusWordTypes, WordFacts DEF FwdIdle
  <2> QED BY <2>1, <2>2
<1>4. CASE FwdHeader1
  <2>1. Goal
    BY <1>1, <1>2, <1>4 DEF FwdHeader1, PrefetchDepth, FwdTyped
  <2>2. port_word1[fwd_port] \in Words
    BY <1>1 DEF Types, StoreTyped
  <2>3. axi_tx' \in BusType
    BY <1>4, <2>2, BusWordTypes DEF FwdHeader1
  <2> QED BY <2>1, <2>3
<1>5. CASE FwdPrefetchData
  <2>1. Goal
    BY <1>1, <1>2, <1>5 DEF FwdPrefetchData, PrefetchDepth, FwdTyped
  <2>2. prefetch_buf[fwd_port][prefetch_rd_addr] \in Words
    <3>1. prefetch_rd_addr \in 0 .. 4 /\ prefetch_buf \in [PortNumbers -> [0 .. 4 -> Words]]
      BY <1>1, <1>5 DEF FwdPrefetchData, Types, StoreTyped
    <3> QED BY <1>1, <3>1
  <2>3. axi_tx' \in BusType
    BY <1>5, <2>2, BusWordTypes DEF FwdPrefetchData
  <2> QED BY <2>1, <2>3
<1>6. CASE FwdWord
  <2>1. fwd_bytesToSend > 8
    <3>1. ~(fwd_bytesToSend <= 8)
      BY <1>6 DEF FwdWord, LastWord
    <3> QED BY <1>1, <3>1
  <2>2. Goal
    BY <1>1, <1>2, <1>6, <2>1 DEF FwdWord, PrefetchDepth, FwdTyped
  <2>3. axi_tx' \in BusType
    BY <1>6, BusWordTypes, RdType DEF FwdWord
  <2> QED BY <2>2, <2>3
<1>7. CASE FwdLastWord
  <2>1. Goal
    BY <1>1, <1>2, <1>7 DEF FwdLastWord, PrefetchDepth, FwdTyped
  <2>2. axi_tx' \in BusType
    BY <1>7, BusWordTypes, RdType DEF FwdLastWord
  <2> QED BY <2>1, <2>2
<1>8. CASE FwdStart
  <2> DEFINE hdr == port_hdr[main_rr_port]
  <2>1. hdr \in Frames /\ hdr.len \in 0 .. 1518 /\ hdr.vlan \in Nat
    BY FrameFacts DEF Types, StoreTyped, PortTyped
  <2>2. Bytes(hdr.len - 8) \in 0 .. 2047
    <3>1. PICK x \in 0 .. 1518 : x = hdr.len
      BY <2>1
    <3> HIDE DEF hdr
    <3>2. Bytes(x - 8) \in 0 .. 2047
      BY DEF Bytes
    <3> QED BY <3>1, <3>2
  <2>3. Goal
    <3>1. (IF hdr.len > 64 THEN hdr.len - 64 ELSE 0) \in 0 .. 2047
      BY <2>1
    <3>2. /\ fwd_state' = "HEADER_1" /\ fwd_port' = main_rr_port
          /\ fwd_bytesToRead' = IF hdr.len > 64 THEN hdr.len - 64 ELSE 0
          /\ fwd_bytesToSend' = Bytes(hdr.len - 8) /\ prefetch_rd_addr' = prefetch_rd_addr
      BY <1>8 DEF FwdStart
    <3> HIDE DEF hdr
    <3> QED BY <1>1, <2>2, <3>1, <3>2 DEF FwdTyped
  <2>4. port_word0[main_rr_port] \in Words /\ port_dst[main_rr_port] \in Nat
    BY DEF Types, StoreTyped, PortTyped, LookupTyped
  <2>5. [Send(port_word0[main_rr_port]) EXCEPT !.last = LastWord] \in BusWords
    BY <2>4, BusWordTypes
  <2>6. axi_tx' \in BusType
    BY <1>8, <2>1, <2>4, <2>5 DEF FwdStart, BusType
  <2> QED BY <2>3, <2>6
<1> QED BY <1>3, <1>4, <1>5, <1>6, <1>7, <1>8 DEF Forward

\* What is owed is a queue of frames.
LEMMA SettleTypes ==
    ASSUME Types, NEW line \in LineEvents, Settle(line)
    PROVE  owed' \in [PortNumbers -> Seq(Frames)] /\ sent' \in Nat
<1>1. \A p \in PortNumbers : owed[p] \in Seq(Frames) /\ (owed[p] # <<>> => Tail(owed[p]) \in Seq(Frames))
  BY DEF Types, OwedTyped
<1>2. line.frame \in Frames
  BY LineKinds
<1>3. owed' \in [PortNumbers -> Seq(Frames)]
  BY <1>1, <1>2 DEF Settle
<1>4. sent' \in Nat
  <2>1. sent \in Nat
    BY DEF Types, OwedTyped
  <2> QED BY <2>1 DEF Settle
<1> QED BY <1>3, <1>4

\* Init is typed, and no step leaves the types.
LEMMA TypesStart == Init => Types
<1> SUFFICES ASSUME Init PROVE Types
  OBVIOUS
<1> USE DEF Init
<1>1. 0 \in Pointers /\ NoRead \in Reads
  BY ReaderAssumption, WordFacts, PortFacts DEF NoRead, Reads, Pointers
<1>2. FifoTyped /\ PipeTyped
  BY <1>1, WordFacts DEF FifoTyped, PipeTyped, Addresses
<1>3. StoreTyped
  BY WordFacts DEF StoreTyped
<1>4. BusTyped
  BY WordFacts DEF BusTyped, BusType, BusWords, Idle
<1>5. OwedTyped /\ LookupTyped
  BY DEF OwedTyped, LookupTyped
<1>6. PortTyped /\ FwdTyped
  BY PortFacts DEF PortTyped, FwdTyped, States
<1> QED BY <1>2, <1>3, <1>4, <1>5, <1>6 DEF Types

\* No step leaves the types.
LEMMA TypesStep == Types /\ [Next]_vars => Types'
<1> SUFFICES ASSUME Types, [Next]_vars PROVE Types'
  OBVIOUS
<1>1. CASE UNCHANGED vars
  <2>1. UNCHANGED <<mem, wr_ptr_committed, rd_ptr, pipe, lookups, owed, sent, axi_tx>>
    BY <1>1 DEF vars, fifoVars
  <2>2. UNCHANGED <<port_states, port_hdr, port_word0, port_word1, prefetch_buf, port_dst>>
    BY <1>1 DEF vars, portVars
  <2>3. UNCHANGED <<main_rr_port, prefetch_wr_count>>
    BY <1>1 DEF vars, mainVars
  <2>4. UNCHANGED <<fwd_state, fwd_port, fwd_bytesToRead, fwd_bytesToSend, prefetch_rd_addr>>
    BY <1>1 DEF vars, fwdVars
  <2>5. FifoTyped' /\ PipeTyped' /\ PortTyped' /\ StoreTyped'
    BY <2>1, <2>2, <2>3 DEF Types, FifoTyped, PipeTyped, PortTyped, StoreTyped
  <2>6. LookupTyped' /\ FwdTyped' /\ BusTyped' /\ OwedTyped'
    BY <2>1, <2>2, <2>4 DEF Types, LookupTyped, FwdTyped, BusTyped, OwedTyped
  <2> QED BY <2>5, <2>6 DEF Types
<1>2. ASSUME NEW go \in BOOLEAN, NEW answered \in BOOLEAN, NEW line \in LineEvents, Clock(go, answered, line)
      PROVE  Types'
  <2> USE <1>2 DEF Clock
  <2>1. FifoTyped'
    BY LinesTypes, PointerTypes DEF FifoTyped
  <2>2. PipeTyped'
    BY IssueTypes DEF PipeTyped
  <2>3. PortTyped'
    BY PortTypes DEF PortTyped
  <2>4. StoreTyped'
    BY StorageTypes DEF StoreTyped
  <2>5. LookupTyped'
    BY AnswerTypes DEF LookupTyped
  <2>6. FwdTyped' /\ BusTyped'
    BY ForwardTypes DEF BusTyped
  <2>7. OwedTyped'
    BY SettleTypes DEF OwedTyped
  <2> QED
    BY <2>1, <2>2, <2>3, <2>4, <2>5, <2>6, <2>7 DEF Types
<1> QED BY <1>1, <1>2 DEF Next

\* The types are those the module states.
LEMMA TypesImply == Types => TypeOK
<1> SUFFICES ASSUME Types PROVE TypeOK
  OBVIOUS
<1>1. FifoTyped /\ PipeTyped /\ PortTyped /\ StoreTyped /\ LookupTyped /\ FwdTyped /\ BusTyped /\ OwedTyped
  BY DEF Types
<1>2. PrefetchDepth = 4 /\ PrefetchDepth + 1 = 5
  BY DEF PrefetchDepth
<1>3. /\ mem \in [PortNumbers -> [0 .. (DEPTH - 1) -> Words]]
      /\ wr_ptr_committed \in [PortNumbers -> 0 .. (2 * DEPTH - 1)]
      /\ rd_ptr \in [PortNumbers -> 0 .. (2 * DEPTH - 1)]
      /\ pipe \in [1 .. LATENCY -> Reads]
  BY <1>1, Zenon DEF FifoTyped, PipeTyped, Pointers, Addresses
<1>4. /\ port_states \in [PortNumbers -> States]
      /\ port_hdr \in [PortNumbers -> Frames]
      /\ port_word0 \in [PortNumbers -> Words] /\ port_word1 \in [PortNumbers -> Words]
      /\ prefetch_buf \in [PortNumbers -> [0 .. 4 -> Words]]
      /\ port_dst \in [PortNumbers -> Nat]
      /\ main_rr_port \in PortNumbers /\ prefetch_wr_count \in 0 .. PrefetchDepth
  BY <1>1, <1>2, Zenon DEF PortTyped, StoreTyped, LookupTyped
<1>5. /\ fwd_state \in {"IDLE", "HEADER_1", "PREFETCH_DATA", "BODY", "TAIL"}
      /\ fwd_port \in PortNumbers
      /\ fwd_bytesToRead \in 0 .. 2047 /\ fwd_bytesToSend \in 0 .. 2047
      /\ prefetch_rd_addr \in 0 .. (PrefetchDepth + 1)
  BY <1>1, <1>2 DEF FwdTyped
<1>6. /\ axi_tx \in [word : [valid : BOOLEAN, data : Words, bytes : 0 .. 8, last : BOOLEAN],
                      user : Nat, dest : Nat]
      /\ lookups \in Seq([tid : PortNumbers, vlan : Nat, word0 : Words, word1 : Words])
      /\ owed \in [PortNumbers -> Seq(Frames)] /\ sent \in Nat
  BY <1>1, Zenon DEF BusTyped, OwedTyped, LookupTyped, BusType, BusWords, Requests
<1> QED
  BY <1>3, <1>4, <1>5, <1>6, SMTT(60) DEF TypeOK

\* Every register of the reader keeps its type and its width
\* (LineCardFIFOReader.sv:118-210, 354-416).
THEOREM ReaderTypeCorrect == Spec => []TypeOK
BY TypesImply, TypesStart, TypesStep, PTL DEF Spec

-----------------------------------------------------------------------------
(* Frames that lie in a port's RAM one after the other.  The word at the   *)
(* read pointer is number passed of the first of them, s[i] is how far     *)
(* from the header of the first one the header of the i-th lies.           *)

Layout(frames, p, m, rp, size, passed, s) ==
    /\ s[1] = 0 /\ s[Len(frames) + 1] = size + passed
    /\ \A i \in 1 .. Len(frames) :
          /\ s[i + 1] = s[i] + DataWords(frames[i]) + 1 /\ s[i + 1] <= size + passed
          /\ \A k \in 0 .. DataWords(frames[i]) : s[i] + k >= passed =>
                m[Addr(rp + (s[i] + k - passed))] = Word(p, frames[i], k)
LaidOut(frames, p, m, rp, size, passed) ==
    \E s \in [1 .. (Len(frames) + 1) -> Int] : Layout(frames, p, m, rp, size, passed, s)

\* A pointer that has been passed is one word less away.
LEMMA CountFromNext ==
    ASSUME NEW p \in Pointers, NEW q \in Pointers, Ptr(q - p) > 0
    PROVE  Ptr(q - Ptr(p + 1)) = Ptr(q - p) - 1
BY PtrFacts, ReaderAssumption DEF Pointers

\* Words more.
LEMMA CountToThere ==
    ASSUME NEW p \in Pointers, NEW q \in Pointers, NEW n \in Nat, Ptr(q - p) + n <= DEPTH
    PROVE  Ptr(Ptr(q + n) - p) = Ptr(q - p) + n
BY PtrFacts, ReaderAssumption DEF Pointers

\* The address of a word does not depend on the lap the pointer is on.
LEMMA AddrOfPtr ==
    ASSUME NEW p \in Pointers, NEW k \in 0 .. DEPTH
    PROVE  Addr(Ptr(p + 1) + k) = Addr(p + 1 + k)
BY PtrFacts, AddrFacts, ReaderAssumption DEF Pointers

\* A word behind the last one, seen from the read pointer.
LEMMA AddrFromThere ==
    ASSUME NEW p \in Pointers, NEW q \in Pointers, NEW k \in Nat, Ptr(q - p) + k < DEPTH
    PROVE  Addr(p + (Ptr(q - p) + k)) = Addr(q + k)
BY PtrFacts, AddrFacts, ReaderAssumption DEF Pointers

\* Two words of the RAM that the pointers tell apart are two words.
LEMMA AddrDistinct ==
    ASSUME NEW p \in Pointers, NEW i \in Addresses, NEW j \in Addresses, Addr(p + i) = Addr(p + j)
    PROVE  i = j
BY AddrFacts, ReaderAssumption DEF Pointers, Addresses

\* The number of words of a frame is a small number.
LEMMA WordCount == \A fr \in Frames : \E d \in 0 .. 190 : d = DataWords(fr)
<1> SUFFICES ASSUME NEW fr \in Frames PROVE DataWords(fr) \in 0 .. 190
  OBVIOUS
<1> QED BY FrameFacts

\* Nothing is laid out without a word.
LEMMA LaidEmpty ==
    ASSUME NEW p, NEW m, NEW rp
    PROVE  /\ LaidOut(<<>>, p, m, rp, 0, 0)
           /\ \A size \in Nat : LaidOut(<<>>, p, m, rp, size, 0) => size = 0
<1>1. LaidOut(<<>>, p, m, rp, 0, 0)
  <2> DEFINE s == [i \in 1 .. 1 |-> 0]
  <2>1. Len(<<>>) = 0 /\ s[1] = 0
    OBVIOUS
  <2>2. s \in [1 .. (Len(<<>>) + 1) -> Int]
    BY <2>1
  <2>3. Layout(<<>>, p, m, rp, 0, 0, s)
    BY <2>1 DEF Layout
  <2> QED BY <2>2, <2>3 DEF LaidOut
<1>2. ASSUME NEW size \in Nat, LaidOut(<<>>, p, m, rp, size, 0) PROVE size = 0
  <2>1. Len(<<>>) = 0
    OBVIOUS
  <2> QED BY <1>2, <2>1 DEF LaidOut, Layout
<1> QED BY <1>1, <1>2

\* The next word of the first frame is at the read pointer.
LEMMA LaidHead ==
    ASSUME NEW p \in PortNumbers, NEW frames \in Seq(Frames), frames # <<>>, NEW m,
           NEW rp \in Pointers, NEW size \in 0 .. DEPTH, NEW passed \in Nat,
           LaidOut(frames, p, m, rp, size, passed), passed <= DataWords(Head(frames))
    PROVE  /\ m[Addr(rp)] = Word(p, Head(frames), passed)
           /\ DataWords(Head(frames)) + 1 <= size + passed
<1>1. PICK s \in [1 .. (Len(frames) + 1) -> Int] : Layout(frames, p, m, rp, size, passed, s)
  BY DEF LaidOut
<1>2. 1 \in 1 .. Len(frames) /\ Head(frames) = frames[1] /\ frames[1] \in Frames
  OBVIOUS
<1>3. PICK d \in 0 .. 190 : d = DataWords(frames[1])
  BY <1>2, WordCount
<1>4. s[1] = 0
  BY <1>1 DEF Layout
<1>5. s[1 + 1] = s[1] + d + 1 /\ s[1 + 1] <= size + passed
  BY <1>1, <1>2, <1>3 DEF Layout
<1>6. d + 1 <= size + passed
  BY <1>4, <1>5
<1>7. passed \in 0 .. d
  BY <1>2, <1>3
<1>8. s[1] + passed >= passed => m[Addr(rp + (s[1] + passed - passed))] = Word(p, frames[1], passed)
  BY <1>1, <1>2, <1>3, <1>7 DEF Layout
<1>9. rp \in Int
  BY ReaderAssumption DEF Pointers
<1>10. s[1] + passed >= passed /\ rp + (s[1] + passed - passed) = rp
  BY <1>4, <1>9
<1> QED BY <1>2, <1>3, <1>6, <1>8, <1>10

\* Reading a word moves the read pointer within the first frame, or to its end.
LEMMA LaidRead ==
    ASSUME NEW p \in PortNumbers, NEW frames \in Seq(Frames), frames # <<>>, NEW m,
           NEW rp \in Pointers, NEW size \in 0 .. DEPTH, NEW passed \in Nat,
           LaidOut(frames, p, m, rp, size, passed), passed <= DataWords(Head(frames))
    PROVE  LaidOut(frames, p, m, Ptr(rp + 1), size - 1, passed + 1)
<1>1. PICK s \in [1 .. (Len(frames) + 1) -> Int] : Layout(frames, p, m, rp, size, passed, s)
  BY DEF LaidOut
<1>2. s[1] = 0 /\ s[Len(frames) + 1] = (size - 1) + (passed + 1)
  BY <1>1 DEF Layout
<1>3. ASSUME NEW i \in 1 .. Len(frames)
      PROVE  /\ s[i + 1] = s[i] + DataWords(frames[i]) + 1 /\ s[i + 1] <= (size - 1) + (passed + 1)
             /\ \A k \in 0 .. DataWords(frames[i]) : s[i] + k >= passed + 1 =>
                   m[Addr(Ptr(rp + 1) + (s[i] + k - (passed + 1)))] = Word(p, frames[i], k)
  <2>1. frames[i] \in Frames
    OBVIOUS
  <2>2. PICK d \in 0 .. 190 : d = DataWords(frames[i])
    BY <2>1, WordCount
  <2>3. i \in 1 .. (Len(frames) + 1) /\ i + 1 \in 1 .. (Len(frames) + 1)
    OBVIOUS
  <2>4. s[i] \in Int /\ s[i + 1] \in Int
    BY <2>3
  <2>5. s[i + 1] = s[i] + d + 1 /\ s[i + 1] <= size + passed
    BY <1>1, <2>2 DEF Layout
  <2>6. ASSUME NEW k \in 0 .. d, s[i] + k >= passed + 1
        PROVE  m[Addr(Ptr(rp + 1) + (s[i] + k - (passed + 1)))] = Word(p, frames[i], k)
    <3>1. PICK a \in Int : a = s[i]
      BY <2>4
    <3>2. a + d + 1 <= size + passed /\ a + k >= passed + 1 /\ DEPTH \in Nat /\ k \in Nat
      BY <2>4, <2>5, <2>6, <3>1, ReaderAssumption
    <3>3. a + k - (passed + 1) \in 0 .. DEPTH
      BY <3>2
    <3>4. Addr(Ptr(rp + 1) + (a + k - (passed + 1))) = Addr(rp + 1 + (a + k - (passed + 1)))
      BY <3>3, AddrOfPtr
    <3>5. rp + 1 + (a + k - (passed + 1)) = rp + (a + k - passed)
      <4>1. rp \in Int
        BY ReaderAssumption DEF Pointers
      <4> QED BY <4>1
    <3>6. s[i] + k >= passed
      BY <3>1, <3>2
    <3>7. m[Addr(rp + (s[i] + k - passed))] = Word(p, frames[i], k)
      BY <1>1, <2>2, <3>6 DEF Layout
    <3> QED BY <3>1, <3>4, <3>5, <3>7
  <2> QED BY <2>2, <2>4, <2>5, <2>6
<1>4. Layout(frames, p, m, Ptr(rp + 1), size - 1, passed + 1, s)
  BY <1>2, <1>3 DEF Layout
<1> QED BY <1>4 DEF LaidOut

\* After its last word the next frame is the first.
LEMMA LaidDone ==
    ASSUME NEW p \in PortNumbers, NEW frames \in Seq(Frames), frames # <<>>, NEW m,
           NEW rp \in Pointers, NEW size \in 0 .. DEPTH,
           LaidOut(frames, p, m, rp, size, DataWords(Head(frames)) + 1)
    PROVE  LaidOut(Tail(frames), p, m, rp, size, 0)
<1>1. PICK d \in 0 .. 190 : d = DataWords(Head(frames))
  <2>1. Head(frames) \in Frames
    OBVIOUS
  <2> QED BY <2>1, WordCount
<1>2. PICK s \in [1 .. (Len(frames) + 1) -> Int] : Layout(frames, p, m, rp, size, d + 1, s)
  BY <1>1 DEF LaidOut
<1>3. PICK n \in Nat : n = Len(Tail(frames)) /\ Len(frames) = n + 1
  <2>1. Len(frames) \in Nat \ {0} /\ Len(Tail(frames)) = Len(frames) - 1
    OBVIOUS
  <2> WITNESS Len(frames) - 1 \in Nat
  <2> QED BY <2>1
<1>4. \A i \in 1 .. n : Tail(frames)[i] = frames[i + 1] /\ frames[i + 1] \in Frames
  BY <1>3
<1> DEFINE t == [i \in 1 .. (n + 1) |-> s[i + 1] - (d + 1)]
<1>5. \A i \in 1 .. (n + 1) : s[i + 1] \in Int /\ t[i] = s[i + 1] - (d + 1)
  BY <1>3
<1>6. t \in [1 .. (n + 1) -> Int]
  BY <1>5
<1> HIDE DEF t
<1>7. t[1] = 0
  <2>1. s[1] = 0
    BY <1>2 DEF Layout
  <2>2. s[1 + 1] = s[1] + d + 1
    BY <1>1, <1>2, <1>3 DEF Layout
  <2> QED BY <1>5, <2>1, <2>2
<1>8. t[n + 1] = size
  <2>1. PICK j \in 1 .. (n + 1) : j = n + 1
    OBVIOUS
  <2>2. s[j + 1] = size + (d + 1)
    BY <1>2, <1>3, <2>1 DEF Layout
  <2>3. t[j] = s[j + 1] - (d + 1)
    BY <1>5
  <2> QED BY <2>1, <2>2, <2>3
<1>9. ASSUME NEW i \in 1 .. n
      PROVE  /\ t[i + 1] = t[i] + DataWords(Tail(frames)[i]) + 1 /\ t[i + 1] <= size
             /\ \A k \in 0 .. DataWords(Tail(frames)[i]) : t[i] + k >= 0 =>
                   m[Addr(rp + (t[i] + k))] = Word(p, Tail(frames)[i], k)
  <2>1. PICK e \in 0 .. 190 : e = DataWords(frames[i + 1])
    BY <1>4, WordCount
  <2>2. i + 1 \in 1 .. Len(frames)
    BY <1>3
  <2>3. PICK a \in Int, b \in Int : a = s[i + 1] /\ b = s[i + 1 + 1]
    <3>1. PICK j \in 1 .. (n + 1) : j = i + 1
      OBVIOUS
    <3>2. s[j + 1] \in Int /\ s[i + 1] \in Int
      BY <1>5
    <3> QED BY <3>1, <3>2
  <2>4. b = a + e + 1 /\ b <= size + (d + 1)
    BY <1>2, <2>1, <2>2, <2>3 DEF Layout
  <2>5. t[i] = a - (d + 1)
    BY <1>5, <2>3
  <2>6. t[i + 1] = b - (d + 1)
    <3>1. PICK j \in 1 .. (n + 1) : j = i + 1
      OBVIOUS
    <3>2. t[j] = s[j + 1] - (d + 1)
      BY <1>5
    <3> QED BY <2>3, <3>1, <3>2
  <2>7. ASSUME NEW k \in 0 .. e, t[i] + k >= 0
        PROVE  m[Addr(rp + (t[i] + k))] = Word(p, frames[i + 1], k)
    <3>1. s[i + 1] + k >= d + 1
      BY <2>3, <2>5, <2>7
    <3>2. m[Addr(rp + (a + k - (d + 1)))] = Word(p, frames[i + 1], k)
      BY <1>2, <2>1, <2>2, <2>3, <3>1 DEF Layout
    <3>3. a + k - (d + 1) = (a - (d + 1)) + k
      OBVIOUS
    <3> QED BY <2>5, <3>2, <3>3
  <2>8. t[i + 1] = t[i] + e + 1 /\ t[i + 1] <= size
    BY <2>4, <2>5, <2>6
  <2> QED BY <1>4, <2>1, <2>7, <2>8
<1>10. Layout(Tail(frames), p, m, rp, size, 0, t)
  <2>1. size + 0 = size /\ \A i \in 1 .. n, k \in Int : t[i] + k - 0 = t[i] + k
    BY <1>6
  <2> QED BY <1>3, <1>7, <1>8, <1>9, <2>1 DEF Layout
<1> QED BY <1>3, <1>6, <1>10 DEF LaidOut

\* The RAM after a frame has been written to it.
Written(m, wp, p, fr) ==
    LET words == [k \in 1 .. (DataWords(fr) + 1) |-> Word(p, fr, k - 1)]
        at(a) == {k \in DOMAIN words : Addr(wp + k - 1) = a} IN
    [a \in DOMAIN m |-> IF at(a) # {} THEN words[CHOOSE k \in at(a) : TRUE] ELSE m[a]]

\* It holds the words of the frame from the write pointer on, and elsewhere what it did.
LEMMA WrittenFacts ==
    ASSUME NEW m \in [Addresses -> Words], NEW wp \in Pointers, NEW p \in PortNumbers,
           NEW fr \in Frames, DataWords(fr) + 1 <= DEPTH
    PROVE  /\ \A k \in 0 .. DataWords(fr) : Written(m, wp, p, fr)[Addr(wp + k)] = Word(p, fr, k)
           /\ \A a \in Addresses : (\A k \in 0 .. DataWords(fr) : a # Addr(wp + k)) =>
                 Written(m, wp, p, fr)[a] = m[a]
<1>1. PICK d \in 0 .. 190 : d = DataWords(fr)
  BY WordCount
<1>2. d + 1 <= DEPTH /\ DEPTH \in Nat /\ wp \in Int
  BY <1>1, ReaderAssumption DEF Pointers
<1> DEFINE words == [k \in 1 .. (d + 1) |-> Word(p, fr, k - 1)]
           At(a) == {k \in 1 .. (d + 1) : Addr(wp + k - 1) = a}
<1>3. DOMAIN words = 1 .. (d + 1) /\ DOMAIN m = Addresses
  OBVIOUS
<1>4. Written(m, wp, p, fr) =
         [a \in Addresses |-> IF At(a) # {} THEN words[CHOOSE k \in At(a) : TRUE] ELSE m[a]]
  BY <1>1, <1>3 DEF Written
<1>5. \A k \in 1 .. (d + 1) : words[k] = Word(p, fr, k - 1)
  OBVIOUS
<1> HIDE DEF words
<1>6. \A k \in 1 .. (d + 1) : k - 1 \in Addresses /\ wp + k - 1 = wp + (k - 1) /\ Addr(wp + (k - 1)) \in Addresses
  <2>1. \A k \in 1 .. (d + 1) : k - 1 \in Addresses /\ wp + k - 1 = wp + (k - 1) /\ wp + (k - 1) \in Int
    BY <1>2 DEF Addresses
  <2> QED BY <2>1, AddrFacts
<1>7. ASSUME NEW j \in 1 .. (d + 1), NEW k \in At(Addr(wp + (j - 1))) PROVE k = j
  <2>1. k \in 1 .. (d + 1) /\ Addr(wp + (k - 1)) = Addr(wp + (j - 1))
    BY <1>6
  <2>2. k - 1 = j - 1
    BY <1>6, <2>1, AddrDistinct
  <2> QED BY <2>1, <2>2
<1>8. ASSUME NEW k \in 0 .. d PROVE Written(m, wp, p, fr)[Addr(wp + k)] = Word(p, fr, k)
  <2>1. PICK j \in 1 .. (d + 1) : j = k + 1 /\ j - 1 = k
    OBVIOUS
  <2>2. j \in At(Addr(wp + (j - 1)))
    BY <1>6
  <2>3. (CHOOSE x \in At(Addr(wp + (j - 1))) : TRUE) = j
    <3>1. (CHOOSE x \in At(Addr(wp + (j - 1))) : TRUE) \in At(Addr(wp + (j - 1)))
      BY <2>2
    <3> QED BY <1>7, <3>1
  <2> HIDE DEF At
  <2>4. Written(m, wp, p, fr)[Addr(wp + (j - 1))] = words[j]
    BY <1>4, <1>6, <2>2, <2>3
  <2> QED BY <1>5, <2>1, <2>4
<1>9. ASSUME NEW a \in Addresses, \A k \in 0 .. d : a # Addr(wp + k) PROVE Written(m, wp, p, fr)[a] = m[a]
  <2>1. At(a) = {}
    <3>1. SUFFICES ASSUME NEW k \in At(a) PROVE FALSE
      OBVIOUS
    <3>2. k \in 1 .. (d + 1) /\ Addr(wp + (k - 1)) = a
      BY <1>6
    <3>3. k - 1 \in 0 .. d
      BY <3>2
    <3> QED BY <1>9, <3>2, <3>3
  <2> HIDE DEF At
  <2> QED BY <1>4, <2>1
<1> QED BY <1>1, <1>8, <1>9

\* A frame lies behind what could be read before, which is still there.
LiesBehind(m2, m, p, fr, rp, size) ==
    /\ \A x \in Nat : x < size => m2[Addr(rp + x)] = m[Addr(rp + x)]
    /\ \A k \in 0 .. DataWords(fr) : m2[Addr(rp + (size + k))] = Word(p, fr, k)

\* So it is written when it is queued.
LEMMA WrittenBehind ==
    ASSUME NEW p \in PortNumbers, NEW fr \in Frames, NEW m \in [Addresses -> Words],
           NEW rp \in Pointers, NEW wp \in Pointers, NEW size \in Nat, size = Ptr(wp - rp),
           NEW d \in Nat, d = DataWords(fr), size + d + 1 <= DEPTH
    PROVE  LiesBehind(Written(m, wp, p, fr), m, p, fr, rp, size)
<1> DEFINE mem2 == Written(m, wp, p, fr)
<1>1. DEPTH \in Nat /\ rp \in Int /\ DataWords(fr) + 1 <= DEPTH
  BY ReaderAssumption DEF Pointers
<1>2. /\ \A k \in 0 .. DataWords(fr) : mem2[Addr(wp + k)] = Word(p, fr, k)
      /\ \A a \in Addresses : (\A k \in 0 .. DataWords(fr) : a # Addr(wp + k)) => mem2[a] = m[a]
  BY <1>1, WrittenFacts
<1> HIDE DEF mem2
<1>3. ASSUME NEW k \in 0 .. d PROVE Addr(rp + (size + k)) = Addr(wp + k) /\ size + k \in Addresses
  <2>1. size + k < DEPTH /\ k \in Nat
    BY <1>1
  <2>2. Addr(rp + (size + k)) = Addr(wp + k)
    BY <2>1, AddrFromThere
  <2>3. PICK y \in Nat : y = size + k
    BY <2>1
  <2>4. y \in Addresses
    BY <1>1, <2>1, <2>3 DEF Addresses
  <2> QED BY <2>2, <2>3, <2>4
<1>4. ASSUME NEW x \in Nat, x < size PROVE mem2[Addr(rp + x)] = m[Addr(rp + x)]
  <2>1. x \in Addresses
    BY <1>1, <1>4 DEF Addresses
  <2>2. Addr(rp + x) \in Addresses
    <3>1. rp + x \in Int
      BY <1>1
    <3> QED BY <3>1, AddrFacts
  <2>3. ASSUME NEW k \in 0 .. d, Addr(rp + x) = Addr(wp + k) PROVE FALSE
    <3>1. x = size + k
      BY <1>3, <2>1, <2>3, AddrDistinct
    <3> QED BY <1>4, <3>1
  <2>4. \A k \in 0 .. DataWords(fr) : Addr(rp + x) # Addr(wp + k)
    BY <2>3
  <2> QED BY <1>2, <2>2, <2>4
<1> QED BY <1>2, <1>3, <1>4 DEF mem2, LiesBehind

\* A frame that is queued lies behind the others and leaves them alone.
LEMMA LaidMore ==
    ASSUME NEW p \in PortNumbers, NEW frames \in Seq(Frames), NEW fr \in Frames,
           NEW m \in [Addresses -> Words], NEW rp \in Pointers, NEW wp \in Pointers, NEW passed \in Nat,
           LaidOut(frames, p, m, rp, Ptr(wp - rp), passed), Ptr(wp - rp) + DataWords(fr) + 1 <= DEPTH
    PROVE  LaidOut(Append(frames, fr), p, Written(m, wp, p, fr), rp, Ptr(wp - rp) + DataWords(fr) + 1, passed)
<1>1. PICK d \in 0 .. 190 : d = DataWords(fr)
  BY WordCount
<1>2. PICK size \in Nat : size = Ptr(wp - rp)
  <2>1. wp - rp \in Int
    BY ReaderAssumption DEF Pointers
  <2>2. Ptr(wp - rp) \in Pointers
    BY <2>1, PtrFacts
  <2> QED BY <2>2 DEF Pointers
<1>3. PICK s \in [1 .. (Len(frames) + 1) -> Int] : Layout(frames, p, m, rp, size, passed, s)
  BY <1>2 DEF LaidOut
<1>4. PICK n \in Nat : n = Len(frames)
  OBVIOUS
<1>5. size + d + 1 <= DEPTH /\ DEPTH \in Nat /\ rp \in Int
  BY <1>1, <1>2, ReaderAssumption DEF Pointers
<1> DEFINE all == Append(frames, fr)
           mem2 == Written(m, wp, p, fr)
           t == [i \in 1 .. (n + 2) |-> IF i <= n + 1 THEN s[i] ELSE size + passed + d + 1]
<1>6. Len(all) = n + 1 /\ all[n + 1] = fr /\ \A i \in 1 .. n : all[i] = frames[i] /\ frames[i] \in Frames
  BY <1>4
<1>7. \A i \in 1 .. (n + 1) : s[i] \in Int /\ t[i] = s[i]
  BY <1>4
<1>8. t[n + 2] = size + passed + d + 1
  BY <1>4
<1>9. t \in [1 .. (n + 2) -> Int]
  <2>1. size + passed + d + 1 \in Int
    OBVIOUS
  <2>2. \A i \in 1 .. (n + 2) : i <= n + 1 => i \in 1 .. (n + 1)
    OBVIOUS
  <2>3. \A i \in 1 .. (n + 2) : (IF i <= n + 1 THEN s[i] ELSE size + passed + d + 1) \in Int
    BY <1>7, <2>1, <2>2
  <2> QED BY <2>3
<1> HIDE DEF t, all, mem2
<1>10. LiesBehind(mem2, m, p, fr, rp, size)
  <2>1. d \in Nat /\ rp \in Pointers /\ wp \in Pointers
    OBVIOUS
  <2> QED BY <1>1, <1>2, <1>5, <2>1, WrittenBehind DEF mem2
<1>11. /\ \A x \in Nat : x < size => mem2[Addr(rp + x)] = m[Addr(rp + x)]
       /\ \A k \in 0 .. d : mem2[Addr(rp + (size + k))] = Word(p, fr, k)
  BY <1>1, <1>10 DEF LiesBehind
<1>12. t[1] = 0 /\ t[(n + 1) + 1] = (size + d + 1) + passed
  <2>1. s[1] = 0
    BY <1>3 DEF Layout
  <2>2. t[1] = s[1]
    BY <1>7
  <2>3. (n + 1) + 1 = n + 2 /\ size + passed + d + 1 = (size + d + 1) + passed
    OBVIOUS
  <2> QED BY <1>8, <2>1, <2>2, <2>3
<1>13. ASSUME NEW i \in 1 .. (n + 1)
       PROVE  /\ t[i + 1] = t[i] + DataWords(all[i]) + 1 /\ t[i + 1] <= (size + d + 1) + passed
              /\ \A k \in 0 .. DataWords(all[i]) : t[i] + k >= passed =>
                    mem2[Addr(rp + (t[i] + k - passed))] = Word(p, all[i], k)
  <2>1. CASE i = n + 1
    <3>1. t[i] = size + passed
      <4>1. s[n + 1] = size + passed
        BY <1>3, <1>4 DEF Layout
      <4> QED BY <1>7, <2>1, <4>1
    <3>2. t[i + 1] = size + passed + d + 1
      <4>1. i + 1 = n + 2
        BY <2>1
      <4> QED BY <1>8, <4>1
    <3>3. ASSUME NEW k \in 0 .. d PROVE mem2[Addr(rp + (t[i] + k - passed))] = Word(p, fr, k)
      <4>1. t[i] + k - passed = size + k
        BY <3>1
      <4> QED BY <1>11, <4>1
    <3>4. t[i + 1] = t[i] + d + 1 /\ t[i + 1] <= (size + d + 1) + passed
      BY <3>1, <3>2
    <3> QED BY <1>1, <1>6, <2>1, <3>3, <3>4
  <2>2. CASE i # n + 1
    <3>1. i \in 1 .. n /\ i + 1 \in 1 .. (n + 1)
      BY <2>2
    <3>2. PICK e \in 0 .. 190 : e = DataWords(frames[i]) /\ all[i] = frames[i]
      BY <1>6, <3>1, WordCount
    <3>3. PICK a \in Int, b \in Int : a = s[i] /\ b = s[i + 1] /\ a = t[i] /\ b = t[i + 1]
      BY <1>7, <3>1
    <3>4. b = a + e + 1 /\ b <= size + passed
      BY <1>3, <1>4, <3>1, <3>2, <3>3 DEF Layout
    <3>5. ASSUME NEW k \in 0 .. e, a + k >= passed
          PROVE  mem2[Addr(rp + (a + k - passed))] = Word(p, frames[i], k)
      <4>1. m[Addr(rp + (a + k - passed))] = Word(p, frames[i], k)
        BY <1>3, <1>4, <3>1, <3>2, <3>3, <3>5 DEF Layout
      <4>2. PICK x \in Nat : x = a + k - passed
        BY <3>5
      <4>3. x < size
        BY <3>4, <4>2
      <4> QED BY <1>11, <4>1, <4>2, <4>3
    <3>6. b <= (size + d + 1) + passed
      BY <3>4
    <3> QED BY <3>2, <3>3, <3>4, <3>5, <3>6
  <2> QED BY <2>1, <2>2
<1>14. Layout(all, p, mem2, rp, size + d + 1, passed, t)
  BY <1>6, <1>12, <1>13 DEF Layout
<1>15. t \in [1 .. (Len(all) + 1) -> Int]
  <2>1. Len(all) + 1 = n + 2
    BY <1>6
  <2> QED BY <1>9, <2>1
<1>16. LaidOut(all, p, mem2, rp, size + d + 1, passed)
  BY <1>14, <1>15 DEF LaidOut
<1> QED BY <1>1, <1>2, <1>16 DEF all, mem2

-----------------------------------------------------------------------------
(* What the reader can work with: the RAM cascade's seven clocks, a        *)
(* crossbar that is not ready in the clock that sends a last word, links   *)
(* that go down when nothing is left to read, no more ports than the MAC   *)
(* table tells apart, and frames of more than 56 bytes.                    *)

Setting ==
    /\ LATENCY = 7 /\ Overlap = FALSE /\ FlapsBusy = FALSE
    /\ NUM_PORTS <= TIDS
    /\ \A p \in PortNumbers : \A fr \in Traffic[p] : fr.len > 56

\* The strobes of a full last word are those of an empty one.
NoFullLastWord == \A p \in PortNumbers : \A fr \in Traffic[p] : fr.len % 8 # 0

\* The first frame of a port, and how many of its words the bus has been sent.
Cur(p) == Head(owed[p])
Position == sent + 1

FetchStates == {"HEADER", "WORD_0", "WORD_1", "PREFETCH"}
Received == {"MAC_LOOKUP", "FWD_READY", "FORWARDING"}
FetchTypes == {"HEADER", "WORD0", "WORD1", "PREFETCH"}

\* What is owed: frames of the port, one at least while it is busy.
OwedInv ==
    /\ \A p \in PortNumbers : owed[p] \in Seq(Traffic[p])
    /\ \A p \in PortNumbers : port_states[p] # "IDLE" => owed[p] # <<>>

\* FramesIntact, but for the strobes of a last word: they are what Strobes says.
FramesInOrder ==
    axi_tx.word.valid =>
    \E p \in PortNumbers :
        /\ owed[p] # <<>>
        /\ LET fr == Head(owed[p]) IN
           /\ axi_tx.word.data = Word(p, fr, sent + 1)
           /\ axi_tx.word.last <=> sent + 1 = DataWords(fr)
           /\ axi_tx.word.bytes = IF axi_tx.word.last THEN Strobes(fr.len - 8 * sent) ELSE 8
           /\ axi_tx.user = fr.vlan /\ axi_tx.dest = fr.dst

\* The word on the bus belongs to the frame being forwarded or is the last of one.
BusInv ==
    /\ FramesInOrder
    /\ axi_tx.word.last => /\ axi_tx.word.valid /\ fwd_state = "IDLE"
                           /\ port_states[axi_tx.word.data.port] = "IDLE"
    /\ fwd_state # "IDLE" => axi_tx.word.valid /\ axi_tx.word.data.port = fwd_port
    /\ ~axi_tx.word.valid => sent = 0
    /\ axi_tx.word.valid /\ fwd_state = "IDLE" => axi_tx.word.last

\* How far the forwarding engine is when word f of a frame is on the bus.
Step(f) ==
    /\ fwd_state = "HEADER_1" <=> f = 1
    /\ fwd_state = "PREFETCH_DATA" <=> f \in 2 .. 6
    /\ fwd_state = "PREFETCH_DATA" => prefetch_rd_addr = f - 2
    /\ fwd_state = "TAIL" => f > 7 /\ fwd_bytesToRead = 0

\* The counters of the engine and the words it will need.
Underway(fr, f) ==
    /\ f < DataWords(fr)
    /\ fwd_bytesToSend = fr.len - 8 * f
    /\ fwd_bytesToRead = IF fr.len > 8 * f + 56 THEN fr.len - (8 * f + 56) ELSE 0
    /\ Step(f)
    /\ f = 1 => port_word1[fwd_port] = Word(fwd_port, fr, 2)
    /\ \A j \in 1 .. 7 : j <= f /\ f - j <= DataWords(fr) - 8 =>
          pipe[j].data = Word(fwd_port, fr, 8 + f - j)
ForwardInv ==
    /\ \A p \in PortNumbers : port_states[p] = "FORWARDING" <=> fwd_state # "IDLE" /\ p = fwd_port
    /\ fwd_state # "IDLE" => Underway(Cur(fwd_port), Position)

\* A port that fetches is at one of nine stages; at stage s its read number s - i is
\* at place i of the pipe.
FetchType(k) == IF k = 0 THEN "HEADER" ELSE IF k = 1 THEN "WORD0" ELSE IF k = 2 THEN "WORD1" ELSE "PREFETCH"
FetchRead(p, k) ==
    [mtype |-> FetchType(k), port |-> p, slot |-> IF k > 3 THEN k - 3 ELSE 0, data |-> Word(p, Cur(p), k)]
AtStage(p, s) ==
    /\ s = 1 <=> port_states[p] = "HEADER"
    /\ s = 2 <=> port_states[p] = "WORD_0"
    /\ s = 3 <=> port_states[p] = "WORD_1"
    /\ s \in 4 .. 9 <=> port_states[p] = "PREFETCH"
    /\ s \in 4 .. 8 => prefetch_wr_count = s - 4
    /\ s = 9 => prefetch_wr_count = 4
    /\ s < 9 => main_rr_port = p
Fetched(p, s) ==
    /\ AtStage(p, s)
    /\ \A i \in 1 .. 7 : s - i \in 0 .. 7 => pipe[i] = FetchRead(p, s - i)
    /\ \A i \in 1 .. 7 : pipe[i].mtype \in FetchTypes /\ pipe[i].port = p => s - i \in 0 .. 7
    /\ s > 7 => port_hdr[p] = Cur(p)
    /\ s > 8 => port_word0[p] = Word(p, Cur(p), 1)
FetchInv ==
    /\ \A p \in PortNumbers : port_states[p] \in FetchStates => ~Blocked /\ \E s \in 1 .. 9 : Fetched(p, s)
    /\ \A p, q \in PortNumbers : port_states[p] \in FetchStates /\ port_states[q] \in FetchStates => p = q

\* A prefetched word is stored before its turn on the bus comes.
Due(p) ==
    IF port_states[p] = "MAC_LOOKUP" THEN 7 ELSE IF port_states[p] = "FWD_READY" THEN 8 ELSE 8 + Position

\* Other fetched words on their way are prefetched ones of a port that waits or sends.
PipeInv ==
    \A i \in 1 .. 7 : pipe[i].mtype \in FetchTypes =>
        \/ port_states[pipe[i].port] \in FetchStates
        \/ /\ pipe[i].mtype = "PREFETCH" /\ port_states[pipe[i].port] \in Received
           /\ pipe[i].data = Word(pipe[i].port, Cur(pipe[i].port), 3 + pipe[i].slot)
           /\ i + pipe[i].slot >= Due(pipe[i].port)

\* What a port keeps of its frame.
Coming(p, x) == \E i \in 1 .. 7 : pipe[i].mtype = "PREFETCH" /\ pipe[i].port = p /\ pipe[i].slot = x
KeptInv ==
    \A p \in PortNumbers :
        /\ port_states[p] \in {"MAC_LOOKUP", "FWD_READY"} =>
              port_hdr[p] = Cur(p) /\ port_word0[p] = Word(p, Cur(p), 1) /\ port_word1[p] = Word(p, Cur(p), 2)
        /\ port_states[p] = "FWD_READY" => port_dst[p] = Cur(p).dst
        /\ port_states[p] \in Received =>
              \A x \in 0 .. 4 : prefetch_buf[p][x] = Word(p, Cur(p), 3 + x) \/ Coming(p, x)

\* The MAC table is asked once for each frame that waits for it.
Asked(l) ==
    /\ port_states[l.tid] = "MAC_LOOKUP"
    /\ l.vlan = Cur(l.tid).vlan
    /\ l.word0 = Word(l.tid, Cur(l.tid), 1) /\ l.word1 = Word(l.tid, Cur(l.tid), 2)
LookupInv ==
    /\ \A i \in DOMAIN lookups : Asked(lookups[i])
    /\ \A i, j \in DOMAIN lookups : lookups[i].tid = lookups[j].tid => i = j

\* How many words of its first frame the read pointer of a port has passed.
PassedWhileForwarding(fr, f) ==
    IF f = 1 /\ DataWords(fr) = 8 THEN 8 ELSE IF 8 + f <= DataWords(fr) THEN 8 + f ELSE DataWords(fr) + 1
Passed(p) ==
    IF port_states[p] \in {"IDLE", "DATA_READY"} THEN 0
    ELSE IF port_states[p] = "HEADER" THEN 1
    ELSE IF port_states[p] = "WORD_0" THEN 2
    ELSE IF port_states[p] = "WORD_1" THEN 3
    ELSE IF port_states[p] = "PREFETCH" THEN 4 + prefetch_wr_count
    ELSE IF port_states[p] = "FORWARDING" THEN PassedWhileForwarding(Cur(p), Position)
    ELSE 8

\* Every port's RAM holds the rest of the frames it owes, from its read pointer on.
LaidInv ==
    \A p \in PortNumbers :
        /\ fifo_rd_size(p) <= DEPTH
        /\ LaidOut(Unsent(p), p, mem[p], rd_ptr[p], fifo_rd_size(p), Passed(p))

\* The inductive invariant.
Inv == /\ Types /\ OwedInv /\ BusInv /\ ForwardInv /\ FetchInv /\ PipeInv /\ KeptInv /\ LookupInv /\ LaidInv

-----------------------------------------------------------------------------
(* What the proofs about a step need of the state before it.               *)

\* A queue of one, and a queue without its head.
LEMMA OneAndTail ==
    ASSUME NEW S
    PROVE  /\ \A x \in S : <<x>> \in Seq(S)
           /\ \A s \in Seq(S) : s # <<>> =>
                 Tail(s) \in Seq(S) /\ Head(s) = s[1] /\ Head(s) \in S /\ 1 \in DOMAIN s
OBVIOUS

\* A frame of the traffic has eight data words at least.
Size(fr, d, x) ==
    /\ d = DataWords(fr) /\ d \in 8 .. 190 /\ x = fr.len /\ x \in 0 .. 1518
    /\ 8 * d - 8 < x /\ x <= 8 * d
Sized(fr) == fr \in Frames /\ \E d, x : Size(fr, d, x)

\* Every frame of the traffic is sized like this.
LEMMA FrameSize ==
    ASSUME Setting, NEW p \in PortNumbers, NEW fr \in Traffic[p]
    PROVE  Sized(fr)
<1>1. fr \in Frames
  BY TrafficFrames
<1>2. PICK d \in 0 .. 190 : d = DataWords(fr)
  BY <1>1, WordCount
<1>3. PICK x \in 0 .. 1518 : x = fr.len
  BY <1>1, FrameFacts
<1>4. x <= 8 * d /\ 8 * d < x + 8
  BY <1>1, <1>2, <1>3, FrameFacts
<1>5. x > 56
  BY <1>3 DEF Setting
<1>6. d \in 8 .. 190 /\ 8 * d - 8 < x /\ x <= 8 * d
  BY <1>4, <1>5
<1>7. Size(fr, d, x)
  BY <1>2, <1>3, <1>6 DEF Size
<1> QED BY <1>1, <1>7 DEF Sized

\* The frame a busy port is at is one of its traffic.
LEMMA CurFrame ==
    ASSUME Setting, OwedInv, NEW p \in PortNumbers, owed[p] # <<>>
    PROVE  /\ Cur(p) \in Traffic[p] /\ Sized(Cur(p))
           /\ Cur(p) = owed[p][1] /\ 1 \in DOMAIN owed[p]
<1>1. owed[p] \in Seq(Traffic[p])
  BY DEF OwedInv
<1>2. Cur(p) \in Traffic[p] /\ Cur(p) = owed[p][1] /\ 1 \in DOMAIN owed[p]
  BY <1>1, OneAndTail DEF Cur
<1> QED BY <1>2, FrameSize

\* A frame starts only when none is being forwarded.
LEMMA StartsAlone ==
    ASSUME Setting, Inv, MayStart
    PROVE  /\ fwd_state = "IDLE" /\ port_states[main_rr_port] = "FWD_READY" /\ ~Blocked /\ ~LastWord
           /\ main_rr_port \in PortNumbers /\ owed[main_rr_port] # <<>>
<1>1. main_rr_port \in PortNumbers
  BY DEF Inv, Types, PortTyped
<1>2. port_states[main_rr_port] = "FWD_READY" /\ ~Blocked
  BY DEF MayStart, MayGo, Turn, rrState
<1>3. owed[main_rr_port] # <<>>
  BY <1>1, <1>2 DEF Inv, OwedInv
<1>4. fwd_state = "IDLE"
  BY DEF MayStart, Setting
<1>5. ~LastWord
  BY <1>4 DEF LastWord
<1> QED BY <1>1, <1>2, <1>3, <1>4, <1>5

\* Frames that a line brings to a port in this clock.
New(line, p) == IF line.kind = "frame" /\ line.port = p THEN <<line.frame>> ELSE <<>>

\* A port that is busy is not at the end of a frame.
LEMMA BusyUnsent ==
    ASSUME Inv, NEW p \in PortNumbers, port_states[p] # "IDLE"
    PROVE  Unsent(p) = owed[p] /\ owed[p] # <<>>
BY DEF Inv, BusInv, OwedInv, Unsent

\* The words in a RAM are counted by a natural number.
LEMMA SizeType ==
    ASSUME Types, NEW p \in PortNumbers
    PROVE  /\ fifo_rd_size(p) \in Nat /\ rd_ptr[p] \in Pointers /\ wr_ptr_committed[p] \in Pointers
           /\ mem[p] \in [Addresses -> Words]
<1>1. rd_ptr[p] \in Pointers /\ wr_ptr_committed[p] \in Pointers /\ mem[p] \in [Addresses -> Words]
  BY DEF Types, FifoTyped
<1>2. wr_ptr_committed[p] - rd_ptr[p] \in Int
  BY <1>1, ReaderAssumption DEF Pointers
<1>3. fifo_rd_size(p) \in Pointers
  BY <1>2, PtrFacts DEF fifo_rd_size
<1>4. Pointers \subseteq Nat
  BY ReaderAssumption DEF Pointers
<1> QED BY <1>1, <1>3, <1>4

\* An idle port with nothing to read has sent what it owed.
LEMMA NothingToRead ==
    ASSUME Inv, NEW p \in PortNumbers, port_states[p] = "IDLE", fifo_rd_size(p) = 0
    PROVE  Unsent(p) = <<>>
<1>1. Passed(p) = 0
  BY DEF Passed
<1>2. LaidOut(Unsent(p), p, mem[p], rd_ptr[p], 0, 0)
  BY <1>1 DEF Inv, LaidInv
<1>3. Unsent(p) \in Seq(Frames)
  <2>1. owed[p] \in Seq(Frames)
    BY DEF Inv, Types, OwedTyped
  <2>2. owed[p] # <<>> => Tail(owed[p]) \in Seq(Frames)
    BY <2>1, OneAndTail
  <2> QED BY <2>1, <2>2 DEF Unsent
<1>4. ASSUME Unsent(p) # <<>> PROVE FALSE
  <2>1. PICK d \in 0 .. 190 : d = DataWords(Head(Unsent(p)))
    BY <1>3, <1>4, OneAndTail, WordCount
  <2>2. rd_ptr[p] \in Pointers /\ 0 \in Nat /\ 0 \in 0 .. DEPTH /\ 0 <= DataWords(Head(Unsent(p)))
    BY <2>1, SizeType, ReaderAssumption DEF Inv
  <2>3. DataWords(Head(Unsent(p))) + 1 <= 0 + 0
    BY <1>2, <1>3, <1>4, <2>2, LaidHead
  <2> QED BY <2>1, <2>3
<1> QED BY <1>4

\* What a port owes after the step: what is unsent and what is queued.
LEMMA Owing ==
    ASSUME Setting, Inv, NEW line \in LineEvents, Lines(line), Settle(line), NEW p \in PortNumbers
    PROVE  /\ owed'[p] = Unsent(p) \o New(line, p)
           /\ Unsent(p) \in Seq(Traffic[p]) /\ New(line, p) \in Seq(Traffic[p])
<1> DEFINE w == axi_tx.word
           done == w.valid /\ w.last /\ w.data.port = p /\ owed[p] # <<>>
<1>1. done <=> w.last /\ w.data.port = p /\ owed[p] # <<>>
  BY DEF Inv, BusInv
<1>2. owed[p] \in Seq(Traffic[p])
  BY DEF Inv, OwedInv
<1>3. Unsent(p) = IF done THEN Tail(owed[p]) ELSE owed[p]
  BY <1>1 DEF Unsent
<1>4. Unsent(p) \in Seq(Traffic[p])
  <2>1. owed[p] # <<>> => Tail(owed[p]) \in Seq(Traffic[p])
    BY <1>2, OneAndTail
  <2> QED BY <1>2, <1>3, <2>1
<1>5. New(line, p) \in Seq(Traffic[p])
  <2>1. line.kind = "frame" /\ line.port = p => line.frame \in Traffic[p]
    BY LineKinds
  <2>2. CASE line.kind = "frame" /\ line.port = p
    <3>1. New(line, p) = <<line.frame>> /\ line.frame \in Traffic[p]
      BY <2>1, <2>2 DEF New
    <3> QED BY <3>1, OneAndTail
  <2>3. CASE ~(line.kind = "frame" /\ line.port = p)
    <3>1. New(line, p) = <<>>
      BY <2>3 DEF New
    <3> QED BY <3>1
  <2> QED BY <2>2, <2>3
<1>6. owed'[p] = IF line = Down(p) THEN <<>> ELSE Unsent(p) \o New(line, p)
  BY <1>3 DEF Settle, New
<1>7. CASE line = Down(p)
  <2>1. line.kind = "down" /\ line.port = p
    BY <1>7 DEF Down
  <2>2. port_states[p] = "IDLE" /\ fifo_rd_size(p) = 0
    BY <2>1 DEF Lines, Unplug, Setting
  <2>3. Unsent(p) = <<>>
    BY <2>2, NothingToRead
  <2>4. New(line, p) = <<>>
    BY <2>1 DEF New
  <2> QED BY <1>4, <1>5, <1>6, <1>7, <2>3, <2>4
<1>8. CASE line # Down(p)
  BY <1>4, <1>5, <1>6, <1>8
<1> QED BY <1>7, <1>8

\* A busy port stays at its frame.
LEMMA CurKept ==
    ASSUME Setting, Inv, NEW line \in LineEvents, Lines(line), Settle(line), NEW p \in PortNumbers,
           port_states[p] # "IDLE"
    PROVE  owed'[p] # <<>> /\ Cur(p)' = Cur(p)
<1>1. owed'[p] = owed[p] \o New(line, p) /\ owed[p] \in Seq(Traffic[p]) /\ New(line, p) \in Seq(Traffic[p])
  BY Owing, BusyUnsent
<1>2. owed[p] # <<>>
  BY BusyUnsent
<1>3. PICK a \in Seq(Traffic[p]), b \in Seq(Traffic[p]) : a = owed[p] /\ b = New(line, p)
  BY <1>1
<1>4. (a \o b)[1] = a[1] /\ a \o b # <<>> /\ a \o b \in Seq(Traffic[p])
  <2>1. a # <<>>
    BY <1>2, <1>3
  <2> QED BY <2>1
<1>5. owed'[p][1] = owed[p][1] /\ owed'[p] # <<>>
  BY <1>1, <1>3, <1>4
<1>6. Head(owed'[p]) = owed'[p][1] /\ Head(owed[p]) = owed[p][1]
  OBVIOUS
<1> QED BY <1>5, <1>6 DEF Cur

-----------------------------------------------------------------------------
(* How the ports' states move.                                             *)

\* What comes out of the RAM is at the seventh place of the pipe.
LEMMA SeventhPlace ==
    ASSUME Setting, Inv
    PROVE  rd = pipe[7] /\ pipe \in [1 .. 7 -> Reads]
BY DEF Setting, rd, Inv, Types, PipeTyped

\* Reads with different types have different numbers.
LEMMA FetchReads ==
    ASSUME NEW p, NEW k \in 0 .. 7
    PROVE  LET r == FetchRead(p, k) IN
           /\ r.mtype = FetchType(k) /\ r.mtype \in FetchTypes
           /\ r.port = p /\ r.slot = (IF k > 3 THEN k - 3 ELSE 0) /\ r.data = Word(p, Cur(p), k)
           /\ r.mtype = "HEADER" <=> k = 0
           /\ r.mtype = "WORD0" <=> k = 1
           /\ r.mtype = "WORD1" <=> k = 2
           /\ r.mtype = "PREFETCH" <=> k \in 3 .. 7
<1> DEFINE r == FetchRead(p, k)
<1>1. r.mtype = FetchType(k) /\ r.port = p /\ r.slot = (IF k > 3 THEN k - 3 ELSE 0) /\ r.data = Word(p, Cur(p), k)
  BY DEF FetchRead
<1> HIDE DEF r
<1>2. /\ r.mtype = "HEADER" <=> k = 0
      /\ r.mtype = "WORD0" <=> k = 1
      /\ r.mtype = "WORD1" <=> k = 2
      /\ r.mtype = "PREFETCH" <=> k \in 3 .. 7
  BY <1>1 DEF FetchType
<1>3. r.mtype \in FetchTypes
  BY <1>1 DEF FetchType, FetchTypes
<1> QED BY <1>1, <1>2, <1>3 DEF r

\* The second word of a port comes out of the RAM when its fetch is at the last stage.
LEMMA WordOneAtNine ==
    ASSUME Setting, Inv, NEW p \in PortNumbers
    PROVE  /\ \A s \in 1 .. 9 : Fetched(p, s) => (rd.mtype = "WORD1" /\ rd.port = p <=> s = 9)
           /\ rd.mtype = "WORD1" /\ rd.port = p => port_states[p] = "PREFETCH" /\ Fetched(p, 9)
<1>1. ASSUME NEW s \in 1 .. 9, Fetched(p, s) PROVE rd.mtype = "WORD1" /\ rd.port = p <=> s = 9
  <2>1. \A i \in 1 .. 7 : s - i \in 0 .. 7 => pipe[i] = FetchRead(p, s - i)
    BY <1>1 DEF Fetched
  <2>2. s - 7 \in 0 .. 7 => rd = FetchRead(p, s - 7)
    BY <2>1, SeventhPlace
  <2>3. CASE s = 9
    <3>1. rd = FetchRead(p, 2)
      BY <2>2, <2>3
    <3> QED BY <2>3, <3>1, FetchReads
  <2>4. ASSUME rd.mtype = "WORD1", rd.port = p PROVE s = 9
    <3>1. s - 7 \in 0 .. 7
      BY <1>1, <2>4, SeventhPlace DEF Fetched, FetchTypes
    <3>2. PICK k \in 0 .. 7 : k = s - 7
      BY <3>1
    <3>3. rd = FetchRead(p, k)
      BY <2>2, <3>2
    <3>4. k = 2
      BY <2>4, <3>3, FetchReads
    <3> QED BY <3>2, <3>4
  <2> QED BY <2>3, <2>4
<1>2. ASSUME rd.mtype = "WORD1", rd.port = p PROVE port_states[p] = "PREFETCH" /\ Fetched(p, 9)
  <2>1. port_states[p] \in FetchStates
    BY <1>2, SeventhPlace DEF Inv, PipeInv, FetchTypes
  <2>2. PICK s \in 1 .. 9 : Fetched(p, s)
    BY <2>1 DEF Inv, FetchInv
  <2>3. s = 9
    BY <1>1, <1>2, <2>2
  <2> QED BY <2>2, <2>3 DEF Fetched, AtStage
<1> QED BY <1>1, <1>2

\* A port that fetches has the RAM's attention for eight clocks.
LEMMA FetchTurns ==
    ASSUME Inv, NEW p \in PortNumbers, NEW s \in 1 .. 9, Fetched(p, s)
    PROVE  /\ port_states[p] \in FetchStates /\ ~Blocked
           /\ s < 9 => main_rr_port = p
           /\ s < 4 => Fetching /\ ~Prefetching
           /\ s \in 4 .. 7 => ~Fetching /\ Prefetching
           /\ s = 8 => ~Fetching /\ ~Prefetching
           /\ main_rr_port = p => ~MayStart
           /\ s = 9 /\ main_rr_port = p => ~Fetching /\ ~Prefetching
<1>1. AtStage(p, s)
  BY DEF Fetched
<1>2. port_states[p] \in FetchStates
  BY <1>1 DEF AtStage, FetchStates
<1>3. ~Blocked
  BY <1>2 DEF Inv, FetchInv
<1>4. s < 9 => main_rr_port = p
  BY <1>1 DEF AtStage
<1>5. s < 4 => rrState \in {"HEADER", "WORD_0", "WORD_1"}
  BY <1>1 DEF AtStage, rrState
<1>6. main_rr_port = p /\ s >= 4 => rrState = "PREFETCH"
  BY <1>1 DEF AtStage, rrState
<1>7. s \in 4 .. 7 => prefetch_wr_count < 4
  BY <1>1 DEF AtStage
<1>8. s \in 8 .. 9 => prefetch_wr_count = 4
  BY <1>1 DEF AtStage
<1>9. DOMAIN Fetches = {"DATA_READY", "HEADER", "WORD_0", "WORD_1"}
  BY DEF Fetches
<1>10. Fetching <=> ~Blocked /\ rrState \in {"DATA_READY", "HEADER", "WORD_0", "WORD_1"}
  BY <1>9 DEF Fetching
<1>11. Prefetching <=> ~Blocked /\ rrState = "PREFETCH" /\ prefetch_wr_count < 4
  BY DEF Prefetching, Turn, PrefetchDepth
<1>12. main_rr_port = p => ~MayStart
  BY <1>2 DEF MayStart, MayGo, Turn, rrState, FetchStates
<1>13. s < 4 => Fetching /\ ~Prefetching
  BY <1>3, <1>5, <1>10, <1>11
<1>14. s \in 4 .. 7 => ~Fetching /\ Prefetching
  BY <1>3, <1>4, <1>6, <1>7, <1>10, <1>11
<1>15. s \in 8 .. 9 /\ main_rr_port = p => ~Fetching /\ ~Prefetching
  BY <1>6, <1>8, <1>10, <1>11
<1> QED BY <1>2, <1>3, <1>4, <1>12, <1>13, <1>14, <1>15

\* A port that is one of few gets its own transaction ID back.
LEMMA EchoIsSame ==
    ASSUME Setting, NEW p \in PortNumbers
    PROVE  Echo(p) = p
<1>1. p \in Nat /\ TIDS \in Nat \ {0} /\ p < TIDS
  BY ReaderAssumption DEF Setting, PortNumbers
<1> QED BY <1>1 DEF Echo

\* Only a port that waits for the MAC table gets an answer.
LEMMA AnswerToWhom ==
    ASSUME Setting, Inv, NEW answered, Answer(answered), answered
    PROVE  /\ lookups # <<>> /\ Head(lookups) = lookups[1] /\ 1 \in DOMAIN lookups /\ Asked(Head(lookups))
           /\ Echo(Head(lookups).tid) = Head(lookups).tid
<1>1. lookups # <<>>
  BY DEF Answer
<1>2. Head(lookups) = lookups[1] /\ 1 \in DOMAIN lookups
  BY <1>1, OneAndTail DEF Inv, Types, LookupTyped
<1>3. Head(lookups).tid \in PortNumbers
  <2>1. lookups \in Seq(Requests)
    BY DEF Inv, Types, LookupTyped, Requests
  <2>2. Head(lookups) \in Requests
    BY <1>1, <2>1
  <2> QED BY <2>2 DEF Requests
<1>4. Echo(Head(lookups).tid) = Head(lookups).tid
  BY <1>3, EchoIsSame
<1> QED BY <1>1, <1>2, <1>4 DEF Inv, LookupInv

\* From each state of a port there is one way on.
LEMMA Moves ==
    ASSUME Setting, Inv, NEW go, NEW answered, go => MayStart, Answer(answered), PortStates(go, answered),
           NEW p \in PortNumbers
    PROVE  /\ port_states[p] = "IDLE" =>
                 port_states'[p] = IF fifo_rd_size(p) # 0 THEN "DATA_READY" ELSE "IDLE"
           /\ port_states[p] = "DATA_READY" =>
                 port_states'[p] = IF p = main_rr_port /\ Fetching THEN "HEADER" ELSE "DATA_READY"
           /\ port_states[p] = "HEADER" => port_states'[p] = "WORD_0"
           /\ port_states[p] = "WORD_0" => port_states'[p] = "WORD_1"
           /\ port_states[p] = "WORD_1" => port_states'[p] = "PREFETCH"
           /\ port_states[p] = "PREFETCH" =>
                 port_states'[p] = IF rd.mtype = "WORD1" /\ rd.port = p THEN "MAC_LOOKUP" ELSE "PREFETCH"
           /\ port_states[p] = "MAC_LOOKUP" =>
                 port_states'[p] = IF answered /\ Head(lookups).tid = p THEN "FWD_READY" ELSE "MAC_LOOKUP"
           /\ port_states[p] = "FWD_READY" =>
                 port_states'[p] = IF p = main_rr_port /\ go THEN "FORWARDING" ELSE "FWD_READY"
           /\ port_states[p] = "FORWARDING" =>
                 port_states'[p] = IF LastWord THEN "IDLE" ELSE "FORWARDING"
<1> DEFINE S == port_states[p]
<1>1. p = main_rr_port /\ Fetching => S \in {"DATA_READY", "HEADER", "WORD_0", "WORD_1"}
  BY DEF Fetching, rrState, Fetches
<1>2. p = main_rr_port /\ go => S = "FWD_READY"
  BY DEF MayStart, MayGo, Turn, rrState
<1>3. rd.mtype = "WORD1" /\ rd.port = p => S = "PREFETCH"
  BY WordOneAtNine
<1>4. LastWord /\ p = fwd_port => S = "FORWARDING"
  BY DEF LastWord, Inv, ForwardInv
<1>5. answered /\ Head(lookups).tid = p => S = "MAC_LOOKUP"
  BY AnswerToWhom DEF Asked
<1>6. S = "FORWARDING" => p = fwd_port
  BY DEF Inv, ForwardInv
<1>7. S \in {"HEADER", "WORD_0", "WORD_1"} => p = main_rr_port /\ Fetching
  <2> SUFFICES ASSUME S \in {"HEADER", "WORD_0", "WORD_1"} PROVE p = main_rr_port /\ Fetching
    OBVIOUS
  <2>1. PICK s \in 1 .. 9 : Fetched(p, s)
    BY DEF Inv, FetchInv, FetchStates
  <2>2. s < 4
    BY <2>1 DEF Fetched, AtStage
  <2> QED BY <2>1, <2>2, FetchTurns
<1>8. port_states'[p] =
        IF p = main_rr_port /\ Fetching THEN AfterFetch[S]
        ELSE IF p = main_rr_port /\ go THEN "FORWARDING"
        ELSE IF rd.mtype = "WORD1" /\ rd.port = p THEN "MAC_LOOKUP"
        ELSE IF LastWord /\ p = fwd_port THEN "IDLE"
        ELSE IF answered /\ Head(lookups).tid = p THEN "FWD_READY"
        ELSE IF S = "IDLE" /\ fifo_rd_size(p) # 0 THEN "DATA_READY"
        ELSE S
  BY AnswerToWhom DEF PortStates, rrState
<1>9. /\ AfterFetch["DATA_READY"] = "HEADER" /\ AfterFetch["HEADER"] = "WORD_0"
      /\ AfterFetch["WORD_0"] = "WORD_1" /\ AfterFetch["WORD_1"] = "PREFETCH"
  BY DEF AfterFetch
<1> HIDE DEF S
<1>10. S = "IDLE" => port_states'[p] = IF fifo_rd_size(p) # 0 THEN "DATA_READY" ELSE "IDLE"
  BY <1>1, <1>2, <1>3, <1>4, <1>5, <1>8
<1>11. S = "DATA_READY" => port_states'[p] = IF p = main_rr_port /\ Fetching THEN "HEADER" ELSE "DATA_READY"
  BY <1>1, <1>2, <1>3, <1>4, <1>5, <1>8, <1>9
<1>12. /\ S = "HEADER" => port_states'[p] = "WORD_0"
       /\ S = "WORD_0" => port_states'[p] = "WORD_1"
       /\ S = "WORD_1" => port_states'[p] = "PREFETCH"
  BY <1>7, <1>8, <1>9
<1>13. S = "PREFETCH" => port_states'[p] = IF rd.mtype = "WORD1" /\ rd.port = p THEN "MAC_LOOKUP" ELSE "PREFETCH"
  BY <1>1, <1>2, <1>3, <1>4, <1>5, <1>8
<1>14. S = "MAC_LOOKUP" => port_states'[p] = IF answered /\ Head(lookups).tid = p THEN "FWD_READY" ELSE "MAC_LOOKUP"
  BY <1>1, <1>2, <1>3, <1>4, <1>5, <1>8
<1>15. S = "FWD_READY" => port_states'[p] = IF p = main_rr_port /\ go THEN "FORWARDING" ELSE "FWD_READY"
  BY <1>1, <1>2, <1>3, <1>4, <1>5, <1>8
<1>16. S = "FORWARDING" => port_states'[p] = IF LastWord THEN "IDLE" ELSE "FORWARDING"
  BY <1>1, <1>2, <1>3, <1>4, <1>5, <1>6, <1>8
<1> QED BY <1>10, <1>11, <1>12, <1>13, <1>14, <1>15, <1>16 DEF S

-----------------------------------------------------------------------------
(* The reads that are issued.                                              *)

\* What lies in the RAM of a busy port begins with the rest of its frame.
LEMMA LaidBusy ==
    ASSUME Setting, Inv, NEW p \in PortNumbers, port_states[p] # "IDLE"
    PROVE  /\ owed[p] \in Seq(Frames) /\ owed[p] # <<>> /\ fifo_rd_size(p) \in 0 .. DEPTH
           /\ LaidOut(owed[p], p, mem[p], rd_ptr[p], fifo_rd_size(p), Passed(p))
<1>1. Unsent(p) = owed[p] /\ owed[p] # <<>>
  BY BusyUnsent
<1>2. owed[p] \in Seq(Frames)
  BY DEF Inv, Types, OwedTyped
<1>3. fifo_rd_size(p) <= DEPTH /\ LaidOut(Unsent(p), p, mem[p], rd_ptr[p], fifo_rd_size(p), Passed(p))
  BY DEF Inv, LaidInv
<1>4. fifo_rd_size(p) \in 0 .. DEPTH
  BY <1>3, SizeType, ReaderAssumption DEF Inv
<1> QED BY <1>1, <1>2, <1>3, <1>4

\* The next word of a busy port is at its read pointer.
LEMMA NextWord ==
    ASSUME Setting, Inv, NEW p \in PortNumbers, port_states[p] # "IDLE",
           Passed(p) \in Nat, Passed(p) <= DataWords(Cur(p))
    PROVE  mem[p][Addr(rd_ptr[p])] = Word(p, Cur(p), Passed(p))
<1>1. rd_ptr[p] \in Pointers
  BY SizeType DEF Inv
<1>2. Passed(p) <= DataWords(Head(owed[p]))
  BY DEF Cur
<1>3. mem[p][Addr(rd_ptr[p])] = Word(p, Head(owed[p]), Passed(p))
  BY <1>1, <1>2, LaidBusy, LaidHead
<1> QED BY <1>3 DEF Cur

\* How many words a port has passed, by its state.
LEMMA PassedBy ==
    ASSUME NEW p \in PortNumbers
    PROVE  /\ port_states[p] \in {"IDLE", "DATA_READY"} => Passed(p) = 0
           /\ \A s \in 1 .. 9 : AtStage(p, s) => Passed(p) = IF s = 9 THEN 8 ELSE s
           /\ port_states[p] \in {"MAC_LOOKUP", "FWD_READY"} => Passed(p) = 8
           /\ port_states[p] = "FORWARDING" => Passed(p) = PassedWhileForwarding(Cur(p), Position)
<1>1. ASSUME NEW s \in 1 .. 9, AtStage(p, s) PROVE Passed(p) = IF s = 9 THEN 8 ELSE s
  <2>1. CASE s \in 1 .. 3
    BY <1>1, <2>1 DEF AtStage, Passed
  <2>2. CASE s \in 4 .. 8
    <3>1. port_states[p] = "PREFETCH" /\ prefetch_wr_count = s - 4
      BY <1>1, <2>2 DEF AtStage
    <3> QED BY <2>2, <3>1 DEF Passed
  <2>3. CASE s = 9
    <3>1. port_states[p] = "PREFETCH" /\ prefetch_wr_count = 4
      BY <1>1, <2>3 DEF AtStage
    <3> QED BY <2>3, <3>1 DEF Passed
  <2> QED BY <2>1, <2>2, <2>3
<1> QED BY <1>1 DEF Passed

\* A port that fetches has at least the words it fetches.
LEMMA FetchWord ==
    ASSUME Setting, Inv, NEW p \in PortNumbers, NEW k \in 0 .. 8, Passed(p) = k, port_states[p] # "IDLE"
    PROVE  mem[p][Addr(rd_ptr[p])] = Word(p, Cur(p), k)
<1>1. Sized(Cur(p))
  BY BusyUnsent, CurFrame DEF Inv
<1>2. k <= DataWords(Cur(p))
  BY <1>1 DEF Sized, Size
<1> QED BY <1>2, NextWord

\* The fetch begins with the header.
LEMMA IssuedHeader ==
    ASSUME Setting, Inv, NEW go, NEW p \in PortNumbers, p = main_rr_port, port_states[p] = "DATA_READY", Fetching
    PROVE  Issued(go) = FetchRead(p, 0)
<1>1. ~Blocked /\ Fetches[rrState] = "HEADER"
  BY DEF Fetching, Fetches, rrState
<1>2. Issued(go) = Read("HEADER", p, 0)
  BY <1>1 DEF Issued
<1>3. mem[p][Addr(rd_ptr[p])] = Word(p, Cur(p), 0)
  BY PassedBy, FetchWord
<1> QED BY <1>2, <1>3 DEF Read, FetchRead, FetchType

\* It goes on one word a clock.
LEMMA IssuedFetch ==
    ASSUME Setting, Inv, NEW go, go => MayStart, NEW p \in PortNumbers, NEW s \in 1 .. 8, Fetched(p, s)
    PROVE  IF s = 8 THEN Issued(go) = NoRead ELSE Issued(go) = FetchRead(p, s)
<1>1. AtStage(p, s)
  BY DEF Fetched
<1>2. port_states[p] # "IDLE" /\ ~Blocked /\ main_rr_port = p /\ ~go
  BY FetchTurns DEF FetchStates
<1>3. mem[p][Addr(rd_ptr[p])] = Word(p, Cur(p), s)
  <2>1. Passed(p) = s
    BY <1>1, PassedBy
  <2> QED BY <1>2, <2>1, FetchWord
<1>4. CASE s < 4
  <2>1. Issued(go) = Read(Fetches[rrState], p, 0)
    BY <1>2, <1>4, FetchTurns DEF Issued
  <2>2. Fetches[rrState] = FetchType(s)
    BY <1>1, <1>2, <1>4 DEF AtStage, Fetches, FetchType, rrState
  <2> QED BY <1>3, <1>4, <2>1, <2>2 DEF Read, FetchRead
<1>5. CASE s \in 4 .. 7
  <2>1. Issued(go) = Read("PREFETCH", p, prefetch_wr_count + 1)
    BY <1>2, <1>5, FetchTurns DEF Issued
  <2>2. prefetch_wr_count + 1 = s - 3 /\ FetchType(s) = "PREFETCH"
    BY <1>1, <1>5 DEF AtStage, FetchType
  <2> QED BY <1>3, <1>5, <2>1, <2>2 DEF Read, FetchRead
<1>6. CASE s = 8
  BY <1>2, <1>6, FetchTurns DEF Issued
<1> QED BY <1>4, <1>5, <1>6

\* A fetch is issued for the port whose turn it is.
LEMMA IssuedForWhom ==
    ASSUME NEW go, Issued(go).mtype \in FetchTypes
    PROVE  Issued(go).port = main_rr_port /\ ~Blocked /\ (Fetching \/ Prefetching)
<1>1. \A t, p, x : Read(t, p, x).mtype = t /\ Read(t, p, x).port = p
  BY DEF Read
<1>2. NoRead.mtype = "NONE"
  BY DEF NoRead
<1>3. "BODY" \notin FetchTypes /\ "NONE" \notin FetchTypes
  BY DEF FetchTypes
<1>4. Fetching \/ Prefetching => ~Blocked
  BY DEF Fetching, Prefetching, Turn
<1> QED BY <1>1, <1>2, <1>3, <1>4 DEF Issued

\* A frame that starts asks for its ninth word.
LEMMA IssuedStart ==
    ASSUME Setting, Inv, MayStart
    PROVE  Issued(TRUE).data = Word(main_rr_port, Cur(main_rr_port), 8)
<1> DEFINE p == main_rr_port
<1>1. port_states[p] = "FWD_READY" /\ ~Blocked /\ p \in PortNumbers
  BY StartsAlone
<1>2. ~Fetching /\ ~Prefetching
  BY <1>1 DEF Fetching, Fetches, Prefetching, Turn, rrState
<1>3. Issued(TRUE) = Read("BODY", p, 0)
  BY <1>1, <1>2 DEF Issued
<1>4. mem[p][Addr(rd_ptr[p])] = Word(p, Cur(p), 8)
  BY <1>1, PassedBy, FetchWord
<1>5. Read("BODY", p, 0).data = mem[p][Addr(rd_ptr[p])]
  BY DEF Read
<1> QED BY <1>3, <1>4, <1>5

\* In the middle of a frame the engine asks for the words that are still to come.
LEMMA IssuedBody ==
    ASSUME Setting, Inv, NEW go, Blocked, fwd_bytesToRead > 0
    PROVE  /\ Position + 8 <= DataWords(Cur(fwd_port))
           /\ Issued(go).data = Word(fwd_port, Cur(fwd_port), 8 + Position)
<1> DEFINE p == fwd_port
<1>1. p \in PortNumbers /\ Position \in Nat
  BY DEF Inv, Types, FwdTyped, OwedTyped, Position
<1>2. port_states[p] = "FORWARDING" /\ fwd_state # "IDLE"
  BY <1>1 DEF Blocked, Inv, ForwardInv
<1>3. fwd_bytesToRead = IF Cur(p).len > 8 * Position + 56 THEN Cur(p).len - (8 * Position + 56) ELSE 0
  BY <1>2 DEF Inv, ForwardInv, Underway
<1>4. Sized(Cur(p))
  BY <1>1, <1>2, BusyUnsent, CurFrame DEF Inv
<1>5. PICK d, x : Size(Cur(p), d, x)
  BY <1>4 DEF Sized
<1>6. x > 8 * Position + 56
  BY <1>1, <1>3, <1>5 DEF Size
<1>7. Position + 8 <= d /\ d = DataWords(Cur(p)) /\ d \in Nat
  BY <1>1, <1>5, <1>6 DEF Size
<1>8. Passed(p) = 8 + Position
  <2>1. Passed(p) = PassedWhileForwarding(Cur(p), Position)
    BY <1>1, <1>2, PassedBy
  <2>2. Position = 1 => d # 8
    BY <1>7
  <2> QED BY <1>1, <1>7, <2>1, <2>2 DEF PassedWhileForwarding
<1>9. mem[p][Addr(rd_ptr[p])] = Word(p, Cur(p), 8 + Position)
  BY <1>1, <1>2, <1>7, <1>8, NextWord
<1>10. Issued(go) = Read("BODY", p, 0)
  BY DEF Issued
<1>11. Read("BODY", p, 0).data = mem[p][Addr(rd_ptr[p])]
  BY DEF Read
<1> QED BY <1>7, <1>9, <1>10, <1>11

-----------------------------------------------------------------------------
(* Fetches go on.                                                          *)

\* The pipe moves on by one place.
LEMMA Shifted ==
    ASSUME Setting, Inv, NEW go, Issue(go)
    PROVE  pipe'[1] = Issued(go) /\ \A i \in 2 .. 7 : pipe'[i] = pipe[i - 1]
<1>1. pipe' = <<Issued(go)>> \o SubSeq(pipe, 1, LATENCY - 1)
  BY DEF Issue, Issued
<1>2. pipe'[1] = Issued(go) /\ \A i \in 2 .. LATENCY : pipe'[i] = pipe[i - 1]
  BY <1>1, PipeShift DEF Inv
<1> QED BY <1>2 DEF Setting

\* While a frame is forwarded one word a clock is taken, and the next frame starts
\* with its first word.
LEMMA PositionMoves ==
    ASSUME Inv, NEW line, Settle(line)
    PROVE  /\ Position \in Nat /\ Position >= 1
           /\ Position' = IF fwd_state = "IDLE" THEN 1 ELSE Position + 1
           /\ sent' = IF fwd_state = "IDLE" THEN 0 ELSE Position
<1>1. sent \in Nat
  BY DEF Inv, Types, OwedTyped
<1>2. fwd_state # "IDLE" => axi_tx.word.valid /\ ~axi_tx.word.last
  BY DEF Inv, BusInv
<1>3. fwd_state = "IDLE" => (axi_tx.word.valid => axi_tx.word.last) /\ (~axi_tx.word.valid => sent = 0)
  BY DEF Inv, BusInv
<1>4. sent' = IF axi_tx.word.valid /\ ~axi_tx.word.last THEN sent + 1
              ELSE IF axi_tx.word.valid THEN 0 ELSE sent
  BY DEF Settle
<1>5. sent' = IF fwd_state = "IDLE" THEN 0 ELSE sent + 1
  BY <1>2, <1>3, <1>4
<1> QED BY <1>1, <1>5 DEF Position

\* The RAM stays free until a frame starts.
LEMMA StillUnblocked ==
    ASSUME ~Blocked, NEW go, ~go, Forward(go)
    PROVE  ~Blocked'
<1>1. FwdIdle \/ FwdHeader1 \/ FwdPrefetchData \/ FwdWord \/ FwdLastWord
  BY DEF Forward
<1>2. CASE FwdIdle
  BY <1>2 DEF FwdIdle, fwdVars, Blocked
<1>3. CASE FwdHeader1
  BY <1>3 DEF FwdHeader1, Blocked
<1>4. CASE FwdPrefetchData
  BY <1>4 DEF FwdPrefetchData, Blocked
<1>5. CASE FwdWord
  BY <1>5 DEF FwdWord, Blocked
<1>6. CASE FwdLastWord
  BY <1>6 DEF FwdLastWord, Blocked
<1> QED BY <1>1, <1>2, <1>3, <1>4, <1>5, <1>6

\* A port that fetches after the step had the turn in it.
LEMMA FetchFrom ==
    ASSUME Setting, Inv, NEW go, NEW answered, go => MayStart, Answer(answered), PortStates(go, answered),
           NEW p \in PortNumbers, port_states'[p] \in FetchStates
    PROVE  /\ main_rr_port = p /\ ~Blocked /\ ~go /\ port_states[p] # "IDLE"
           /\ \/ port_states[p] = "DATA_READY" /\ port_states'[p] = "HEADER" /\ Fetching
              \/ \E s \in 1 .. 8 : Fetched(p, s)
<1>1. port_states[p] \in States
  BY DEF Inv, Types, PortTyped
<1>2. CASE port_states[p] = "DATA_READY"
  <2>1. p = main_rr_port /\ Fetching /\ port_states'[p] = "HEADER"
    BY <1>2, Moves DEF FetchStates
  <2>2. ~go /\ ~Blocked
    BY <1>2, <2>1 DEF MayStart, MayGo, Turn, rrState, Fetching
  <2> QED BY <1>2, <2>1, <2>2
<1>3. CASE port_states[p] \in FetchStates
  <2>1. PICK s \in 1 .. 9 : Fetched(p, s)
    BY <1>3 DEF Inv, FetchInv
  <2>2. s # 9
    <3> SUFFICES ASSUME s = 9 PROVE FALSE
      OBVIOUS
    <3>1. rd.mtype = "WORD1" /\ rd.port = p /\ port_states[p] = "PREFETCH"
      BY <2>1, WordOneAtNine DEF Fetched, AtStage
    <3>2. port_states'[p] = "MAC_LOOKUP"
      BY <3>1, Moves
    <3> QED BY <3>2 DEF FetchStates
  <2>3. s \in 1 .. 8 /\ Fetched(p, s)
    BY <2>1, <2>2
  <2>4. main_rr_port = p /\ ~Blocked /\ ~MayStart
    BY <2>3, FetchTurns
  <2> QED BY <1>3, <2>3, <2>4 DEF FetchStates
<1>4. CASE port_states[p] \notin FetchStates \cup {"DATA_READY"}
  <2>1. port_states[p] \in {"IDLE", "MAC_LOOKUP", "FWD_READY", "FORWARDING"}
    BY <1>1, <1>4 DEF States, FetchStates
  <2>2. port_states'[p] \in {"IDLE", "DATA_READY", "MAC_LOOKUP", "FWD_READY", "FORWARDING"}
    BY <2>1, Moves
  <2> QED BY <2>2 DEF FetchStates
<1> QED BY <1>2, <1>3, <1>4

\* The first stage.
LEMMA FetchBegins ==
    ASSUME Setting, Inv, NEW go \in BOOLEAN, NEW answered \in BOOLEAN, NEW line \in LineEvents,
           Clock(go, answered, line), NEW p \in PortNumbers,
           port_states[p] = "DATA_READY", port_states'[p] = "HEADER", main_rr_port = p, Fetching
    PROVE  Fetched(p, 1)'
<1>1. Lines(line) /\ Issue(go) /\ Settle(line) /\ RoundRobin
  BY DEF Clock
<1>2. Cur(p)' = Cur(p)
  BY <1>1, CurKept
<1>3. pipe'[1] = FetchRead(p, 0) /\ \A i \in 2 .. 7 : pipe'[i] = pipe[i - 1]
  BY <1>1, IssuedHeader, Shifted
<1>4. FetchRead(p, 0)' = FetchRead(p, 0)
  BY <1>2 DEF FetchRead
<1>5. AtStage(p, 1)'
  <2>1. main_rr_port' = p
    BY <1>1 DEF RoundRobin
  <2> QED BY <2>1 DEF AtStage
<1>6. \A i \in 1 .. 7 : 1 - i \in 0 .. 7 => i = 1 /\ 1 - i = 0
  OBVIOUS
<1>7. ASSUME NEW i \in 1 .. 7, pipe'[i].mtype \in FetchTypes, pipe'[i].port = p PROVE i = 1
  <2> SUFFICES ASSUME i # 1 PROVE FALSE
    OBVIOUS
  <2>1. PICK j \in 1 .. 6 : j = i - 1
    OBVIOUS
  <2>2. pipe[j].mtype \in FetchTypes /\ pipe[j].port = p
    BY <1>3, <1>7, <2>1
  <2>3. port_states[p] \in FetchStates \cup Received
    BY <2>1, <2>2 DEF Inv, PipeInv
  <2> QED BY <2>3 DEF FetchStates, Received
<1>8. \A i \in 1 .. 7 : 1 - i \in 0 .. 7 => pipe'[i] = FetchRead(p, 1 - i)'
  BY <1>3, <1>4, <1>6
<1> QED BY <1>5, <1>7, <1>8 DEF Fetched

\* From one stage to the next.
LEMMA FetchContinues ==
    ASSUME Setting, Inv, NEW go \in BOOLEAN, NEW answered \in BOOLEAN, NEW line \in LineEvents,
           Clock(go, answered, line), NEW p \in PortNumbers, NEW s \in 1 .. 8, Fetched(p, s)
    PROVE  Fetched(p, s + 1)'
<1>1. /\ Lines(line) /\ Issue(go) /\ Settle(line) /\ RoundRobin /\ Storage
      /\ Answer(answered) /\ PortStates(go, answered) /\ (go => MayStart)
  BY DEF Clock
<1>2. AtStage(p, s)
  BY DEF Fetched
<1>3. Cur(p)' = Cur(p)
  <2>1. port_states[p] # "IDLE"
    BY FetchTurns DEF FetchStates
  <2> QED BY <1>1, <2>1, CurKept
<1>4. \A k \in 0 .. 8 : FetchRead(p, k)' = FetchRead(p, k)
  BY <1>3 DEF FetchRead
<1>5. pipe'[1] = Issued(go) /\ \A i \in 2 .. 7 : pipe'[i] = pipe[i - 1]
  BY <1>1, Shifted
<1>6. IF s = 8 THEN pipe'[1] = NoRead ELSE pipe'[1] = FetchRead(p, s)
  BY <1>1, <1>5, IssuedFetch
<1>7. AtStage(p, s + 1)'
  <2>1. ~(rd.mtype = "WORD1" /\ rd.port = p)
    BY WordOneAtNine
  <2>2. /\ s = 1 => port_states[p] = "HEADER" /\ port_states'[p] = "WORD_0"
        /\ s = 2 => port_states[p] = "WORD_0" /\ port_states'[p] = "WORD_1"
        /\ s = 3 => port_states[p] = "WORD_1" /\ port_states'[p] = "PREFETCH"
        /\ s \in 4 .. 8 => port_states[p] = "PREFETCH" /\ port_states'[p] = "PREFETCH"
    BY <1>1, <1>2, <2>1, Moves DEF AtStage
  <2>3. main_rr_port = p /\ ~Blocked
    BY FetchTurns
  <2>4. s < 8 => main_rr_port' = p
    BY <1>1, <2>3, FetchTurns DEF RoundRobin
  <2>5. prefetch_wr_count' = IF s = 3 THEN 0 ELSE IF s \in 4 .. 7 THEN prefetch_wr_count + 1 ELSE prefetch_wr_count
    <3>1. Turn("WORD_1") <=> s = 3
      BY <2>2, <2>3 DEF Turn, rrState
    <3>2. Prefetching <=> s \in 4 .. 7
      BY FetchTurns
    <3> QED BY <1>1, <3>1, <3>2 DEF RoundRobin
  <2>6. s \in 4 .. 8 => prefetch_wr_count = s - 4
    BY <1>2 DEF AtStage
  <2>7. (s + 1 \in 4 .. 8 => prefetch_wr_count' = s - 3) /\ (s = 8 => prefetch_wr_count' = 4)
    BY <2>5, <2>6
  <2> QED BY <2>2, <2>4, <2>7 DEF AtStage
<1>8. ASSUME NEW i \in 1 .. 7, s + 1 - i \in 0 .. 7 PROVE pipe'[i] = FetchRead(p, s + 1 - i)'
  <2>1. CASE i = 1
    <3>1. s # 8 /\ s + 1 - i = s
      BY <1>8, <2>1
    <3> QED BY <1>4, <1>6, <2>1, <3>1
  <2>2. CASE i # 1
    <3>1. PICK j \in 1 .. 6 : j = i - 1 /\ i \in 2 .. 7
      BY <2>2
    <3>2. PICK k \in 0 .. 7 : k = s - j /\ k = s + 1 - i
      BY <1>8, <3>1
    <3>3. pipe[j] = FetchRead(p, k)
      BY <3>1, <3>2 DEF Fetched
    <3> QED BY <1>4, <1>5, <3>1, <3>2, <3>3
  <2> QED BY <2>1, <2>2
<1>9. ASSUME NEW i \in 1 .. 7, pipe'[i].mtype \in FetchTypes, pipe'[i].port = p PROVE s + 1 - i \in 0 .. 7
  <2>1. CASE i = 1
    <3>1. s # 8
      BY <1>6, <1>9, <2>1 DEF NoRead, FetchTypes
    <3> QED BY <2>1, <3>1
  <2>2. CASE i # 1
    <3>1. PICK j \in 1 .. 6 : j = i - 1 /\ i \in 2 .. 7
      BY <2>2
    <3>2. pipe[j].mtype \in FetchTypes /\ pipe[j].port = p
      BY <1>5, <1>9, <3>1
    <3>3. s - j \in 0 .. 7
      BY <3>1, <3>2 DEF Fetched
    <3> QED BY <3>1, <3>3
  <2> QED BY <2>1, <2>2
<1>10. \A k \in 0 .. 7 : s - 7 = k => rd = FetchRead(p, k)
  BY SeventhPlace DEF Fetched
<1>11. s + 1 > 7 => port_hdr'[p] = Cur(p)'
  <2>1. CASE s = 7
    <3>1. rd = FetchRead(p, 0)
      BY <1>10, <2>1
    <3>2. rd.mtype = "HEADER" /\ rd.port = p /\ rd.data = Word(p, Cur(p), 0)
      BY <3>1, FetchReads
    <3>3. rd.data.frame = Cur(p)
      BY <3>2 DEF Word
    <3>4. port_hdr \in [PortNumbers -> Frames]
      BY DEF Inv, Types, StoreTyped
    <3> QED BY <1>1, <1>3, <3>2, <3>3, <3>4 DEF Storage
  <2>2. CASE s = 8
    <3>1. rd = FetchRead(p, 1)
      BY <1>10, <2>2
    <3>2. rd.mtype = "WORD0"
      BY <3>1, FetchReads
    <3>3. port_hdr[p] = Cur(p)
      BY <2>2 DEF Fetched
    <3> QED BY <1>1, <1>3, <3>2, <3>3 DEF Storage
  <2> QED BY <2>1, <2>2
<1>12. s + 1 > 8 => port_word0'[p] = Word(p, Cur(p), 1)'
  <2> SUFFICES ASSUME s = 8 PROVE port_word0'[p] = Word(p, Cur(p), 1)
    BY <1>3 DEF Word
  <2>1. rd = FetchRead(p, 1)
    BY <1>10
  <2>2. rd.mtype = "WORD0" /\ rd.port = p /\ rd.data = Word(p, Cur(p), 1)
    BY <2>1, FetchReads
  <2>3. port_word0 \in [PortNumbers -> Words]
    BY DEF Inv, Types, StoreTyped
  <2> QED BY <1>1, <2>2, <2>3 DEF Storage
<1> QED BY <1>7, <1>8, <1>9, <1>11, <1>12 DEF Fetched

\* Fetches are never disturbed.
LEMMA FetchStep ==
    ASSUME Setting, Inv, NEW go \in BOOLEAN, NEW answered \in BOOLEAN, NEW line \in LineEvents,
           Clock(go, answered, line)
    PROVE  FetchInv'
<1>1. Answer(answered) /\ PortStates(go, answered) /\ (go => MayStart) /\ Forward(go)
  BY DEF Clock
<1>2. ASSUME NEW p \in PortNumbers, port_states'[p] \in FetchStates
      PROVE  ~Blocked' /\ (\E s \in 1 .. 9 : Fetched(p, s)') /\ main_rr_port = p
  <2>1. /\ main_rr_port = p /\ ~Blocked /\ ~go
        /\ \/ port_states[p] = "DATA_READY" /\ port_states'[p] = "HEADER" /\ Fetching
           \/ \E s \in 1 .. 8 : Fetched(p, s)
    BY <1>1, <1>2, FetchFrom
  <2>2. ~Blocked'
    BY <1>1, <2>1, StillUnblocked
  <2>3. CASE port_states[p] = "DATA_READY" /\ port_states'[p] = "HEADER" /\ Fetching
    <3>1. Fetched(p, 1)'
      BY <2>1, <2>3, FetchBegins
    <3> QED BY <2>1, <2>2, <3>1
  <2>4. CASE \E s \in 1 .. 8 : Fetched(p, s)
    <3>1. PICK s \in 1 .. 8 : Fetched(p, s)
      BY <2>4
    <3>2. Fetched(p, s + 1)' /\ s + 1 \in 1 .. 9
      BY <3>1, FetchContinues
    <3> QED BY <2>1, <2>2, <3>2
  <2> QED BY <2>1, <2>3, <2>4
<1> QED BY <1>2 DEF FetchInv

\* Where a port comes from that has received its frame's first words.
LEMMA ReceivedFrom ==
    ASSUME Setting, Inv, NEW go, NEW answered, go => MayStart, Answer(answered), PortStates(go, answered),
           NEW p \in PortNumbers
    PROVE  /\ port_states'[p] \in Received =>
                 port_states[p] \in Received \/ (Fetched(p, 9) /\ port_states'[p] = "MAC_LOOKUP")
           /\ port_states'[p] = "MAC_LOOKUP" => port_states[p] = "MAC_LOOKUP" \/ Fetched(p, 9)
           /\ port_states'[p] = "FWD_READY" =>
                 \/ port_states[p] = "FWD_READY"
                 \/ port_states[p] = "MAC_LOOKUP" /\ answered /\ Head(lookups).tid = p
           /\ port_states'[p] = "FORWARDING" =>
                 \/ port_states[p] = "FWD_READY" /\ p = main_rr_port /\ go
                 \/ port_states[p] = "FORWARDING" /\ ~LastWord
<1>1. port_states[p] \in States
  BY DEF Inv, Types, PortTyped
<1>2. CASE port_states[p] = "PREFETCH"
  BY <1>2, Moves, WordOneAtNine DEF Received
<1>3. CASE port_states[p] \in {"IDLE", "DATA_READY", "HEADER", "WORD_0", "WORD_1"}
  <2>1. port_states'[p] \notin Received
    BY <1>3, Moves DEF Received
  <2> QED BY <2>1 DEF Received
<1>4. CASE port_states[p] \in Received
  BY <1>4, Moves DEF Received
<1>5. port_states[p] = "PREFETCH" \/ port_states[p] \in {"IDLE", "DATA_READY", "HEADER", "WORD_0", "WORD_1"}
      \/ port_states[p] \in Received
  BY <1>1 DEF States, Received
<1> QED BY <1>2, <1>3, <1>4, <1>5

\* Three bytes less than eight words: the last word is next when one is left.
LEMMA LastWordWhen ==
    ASSUME Setting, Inv, fwd_state # "IDLE"
    PROVE  /\ Sized(Cur(fwd_port)) /\ Underway(Cur(fwd_port), Position) /\ Position \in Nat \ {0}
           /\ fwd_port \in PortNumbers /\ port_states[fwd_port] = "FORWARDING" /\ owed[fwd_port] # <<>>
           /\ LastWord <=> Position + 1 = DataWords(Cur(fwd_port))
<1> DEFINE p == fwd_port
<1>1. p \in PortNumbers /\ port_states[p] = "FORWARDING" /\ Underway(Cur(p), Position)
  BY DEF Inv, Types, FwdTyped, ForwardInv
<1>2. owed[p] # <<>> /\ Sized(Cur(p))
  BY <1>1, BusyUnsent, CurFrame DEF Inv
<1>3. PICK f \in Nat : f = Position /\ f > 0
  BY DEF Inv, Types, OwedTyped, Position
<1>4. PICK d, x : Size(Cur(p), d, x)
  BY <1>2 DEF Sized
<1>5. d \in 8 .. 190 /\ x \in 0 .. 1518 /\ 8 * d - 8 < x /\ x <= 8 * d /\ d = DataWords(Cur(p)) /\ x = Cur(p).len
  BY <1>4 DEF Size
<1>6. f < d /\ fwd_bytesToSend = x - 8 * f
  BY <1>1, <1>3, <1>5 DEF Underway
<1>7. fwd_bytesToSend <= 8 <=> f + 1 = d
  BY <1>3, <1>5, <1>6
<1>8. f + 1 = d => fwd_state \in {"BODY", "TAIL"}
  <2> SUFFICES ASSUME f + 1 = d PROVE fwd_state \notin {"HEADER_1", "PREFETCH_DATA"}
    BY DEF Inv, Types, FwdTyped
  <2>1. f >= 7
    BY <1>5
  <2>2. (fwd_state = "HEADER_1" <=> f = 1) /\ (fwd_state = "PREFETCH_DATA" <=> f \in 2 .. 6)
    BY <1>1, <1>3 DEF Underway, Step
  <2> QED BY <2>1, <2>2
<1>9. LastWord <=> f + 1 = d
  BY <1>7, <1>8 DEF LastWord
<1> QED BY <1>1, <1>2, <1>3, <1>5, <1>9

\* Prefetched words reach the port they were read for, in time.
LEMMA PipeStep ==
    ASSUME Setting, Inv, NEW go \in BOOLEAN, NEW answered \in BOOLEAN, NEW line \in LineEvents,
           Clock(go, answered, line)
    PROVE  PipeInv'
<1>1. /\ Lines(line) /\ Issue(go) /\ Settle(line)
      /\ Answer(answered) /\ PortStates(go, answered) /\ (go => MayStart)
  BY DEF Clock
<1>2. pipe'[1] = Issued(go) /\ \A i \in 2 .. 7 : pipe'[i] = pipe[i - 1]
  BY <1>1, Shifted
<1>3. SUFFICES ASSUME NEW i \in 1 .. 7, NEW p, p = pipe'[i].port, pipe'[i].mtype \in FetchTypes
               PROVE  \/ port_states'[p] \in FetchStates
                      \/ /\ pipe'[i].mtype = "PREFETCH" /\ port_states'[p] \in Received
                         /\ pipe'[i].data = Word(p, Cur(p)', 3 + pipe'[i].slot)
                         /\ i + pipe'[i].slot >= Due(p)'
  BY DEF PipeInv
<1>4. CASE i = 1
  <2>1. p = main_rr_port /\ ~Blocked /\ (Fetching \/ Prefetching) /\ p \in PortNumbers
    BY <1>2, <1>3, <1>4, IssuedForWhom DEF Inv, Types, PortTyped
  <2>2. CASE Fetching
    <3>1. port_states[p] \in {"DATA_READY", "HEADER", "WORD_0", "WORD_1"}
      BY <2>1, <2>2 DEF Fetching, Fetches, rrState
    <3> QED BY <1>1, <2>1, <2>2, <3>1, Moves DEF FetchStates
  <2>3. CASE Prefetching
    <3>1. port_states[p] = "PREFETCH"
      BY <2>1, <2>3 DEF Prefetching, Turn, rrState
    <3>2. PICK s \in 1 .. 9 : Fetched(p, s)
      BY <2>1, <3>1 DEF Inv, FetchInv, FetchStates
    <3>3. s # 9
      BY <2>1, <2>3, <3>2, FetchTurns
    <3>4. ~(rd.mtype = "WORD1" /\ rd.port = p)
      BY <2>1, <3>2, <3>3, WordOneAtNine
    <3> QED BY <1>1, <2>1, <3>1, <3>4, Moves DEF FetchStates
  <2> QED BY <2>1, <2>2, <2>3
<1>5. CASE i # 1
  <2>1. PICK j \in 1 .. 6 : j = i - 1 /\ i = j + 1 /\ i \in 2 .. 7
    BY <1>5
  <2>2. pipe'[i] = pipe[j]
    BY <1>2, <2>1
  <2>3. pipe[j] \in Reads /\ p \in PortNumbers
    <3>1. pipe[j] \in Reads
      BY <2>1, SeventhPlace
    <3> QED BY <1>3, <2>2, <3>1 DEF Reads
  <2>4. \/ port_states[p] \in FetchStates
        \/ /\ pipe[j].mtype = "PREFETCH" /\ port_states[p] \in Received
           /\ pipe[j].data = Word(p, Cur(p), 3 + pipe[j].slot) /\ j + pipe[j].slot >= Due(p)
    BY <1>3, <2>1, <2>2 DEF Inv, PipeInv
  <2>5. Cur(p)' = Cur(p)
    <3>1. port_states[p] # "IDLE"
      BY <2>4 DEF FetchStates, Received
    <3> QED BY <1>1, <2>3, <3>1, CurKept
  <2>6. PICK x \in 0 .. 4 : x = pipe[j].slot
    BY <2>3 DEF Reads
  <2>7. CASE port_states[p] \in FetchStates
    <3>1. PICK s \in 1 .. 9 : Fetched(p, s)
      BY <2>3, <2>7 DEF Inv, FetchInv
    <3>2. CASE s \in 1 .. 8
      <4>1. Fetched(p, s + 1)'
        BY <2>3, <3>1, <3>2, FetchContinues
      <4>2. port_states'[p] \in FetchStates
        BY <3>2, <4>1 DEF Fetched, AtStage, FetchStates
      <4> QED BY <4>2
    <3>3. CASE s = 9
      <4>1. port_states'[p] = "MAC_LOOKUP"
        <5>1. rd.mtype = "WORD1" /\ rd.port = p /\ port_states[p] = "PREFETCH"
          BY <2>3, <3>1, <3>3, WordOneAtNine DEF Fetched, AtStage
        <5> QED BY <1>1, <2>3, <5>1, Moves
      <4>2. 9 - j \in 0 .. 7
        <5>1. pipe[j].mtype \in FetchTypes /\ pipe[j].port = p
          BY <1>3, <2>2
        <5>2. s - j \in 0 .. 7
          BY <2>1, <3>1, <5>1 DEF Fetched
        <5> QED BY <3>3, <5>2
      <4>3. PICK k \in 3 .. 7 : k = 9 - j
        BY <2>1, <4>2
      <4>4. pipe[j] = FetchRead(p, k)
        BY <2>1, <3>1, <3>3, <4>2, <4>3 DEF Fetched
      <4>5. pipe[j].mtype = "PREFETCH" /\ pipe[j].slot = k - 3 /\ pipe[j].data = Word(p, Cur(p), k)
        BY <4>4, FetchReads
      <4>6. i + pipe[j].slot = 7 /\ 3 + pipe[j].slot = k
        <5>1. x = k - 3
          BY <2>6, <4>5
        <5>2. i + x = 7 /\ 3 + x = k
          BY <2>1, <4>3, <5>1
        <5> QED BY <2>6, <5>2
      <4>7. Due(p)' = 7
        BY <4>1 DEF Due
      <4> QED BY <2>2, <2>5, <4>1, <4>5, <4>6, <4>7 DEF Received
    <3> QED BY <3>2, <3>3
  <2>8. CASE port_states[p] \notin FetchStates
    <3>1. /\ pipe[j].mtype = "PREFETCH" /\ port_states[p] \in Received
          /\ pipe[j].data = Word(p, Cur(p), 3 + pipe[j].slot) /\ j + x >= Due(p)
      BY <2>4, <2>6, <2>8
    <3>2. Position \in Nat /\ Position' = IF fwd_state = "IDLE" THEN 1 ELSE Position + 1
      BY <1>1, PositionMoves
    <3>3. port_states[p] = "FORWARDING" => fwd_state # "IDLE" /\ p = fwd_port
      BY <2>3 DEF Inv, ForwardInv
    <3>4. port_states'[p] \in Received
      <4> SUFFICES ASSUME port_states'[p] \notin Received PROVE FALSE
        OBVIOUS
      <4>1. port_states[p] = "FORWARDING" /\ LastWord
        BY <1>1, <2>3, <3>1, Moves DEF Received
      <4>2. Position + 1 = DataWords(Cur(p)) /\ Sized(Cur(p))
        BY <3>3, <4>1, LastWordWhen
      <4>3. Position + 1 >= 8
        BY <4>2 DEF Sized, Size
      <4>4. Due(p) = 8 + Position
        BY <4>1 DEF Due
      <4> QED BY <2>1, <2>6, <3>1, <3>2, <4>3, <4>4
    <3>5. i + x >= Due(p)'
      <4>1. port_states'[p] = "MAC_LOOKUP" => port_states[p] = "MAC_LOOKUP"
        BY <1>1, <2>3, <3>1, ReceivedFrom DEF Fetched, AtStage, Received
      <4>2. CASE port_states'[p] = "MAC_LOOKUP"
        <5>1. Due(p) = 7 /\ Due(p)' = 7
          BY <4>1, <4>2 DEF Due
        <5> QED BY <2>1, <2>6, <3>1, <5>1
      <4>3. CASE port_states'[p] = "FWD_READY"
        <5>1. port_states[p] \in {"MAC_LOOKUP", "FWD_READY"}
          BY <1>1, <2>3, <4>3, ReceivedFrom
        <5>2. Due(p) \in 7 .. 8 /\ Due(p)' = 8
          BY <4>3, <5>1 DEF Due
        <5> QED BY <2>1, <2>6, <3>1, <5>2
      <4>4. CASE port_states'[p] = "FORWARDING"
        <5>1. Due(p)' = 8 + Position'
          BY <4>4 DEF Due
        <5>2. \/ port_states[p] = "FWD_READY" /\ go
              \/ port_states[p] = "FORWARDING"
          BY <1>1, <2>3, <4>4, ReceivedFrom
        <5>3. CASE port_states[p] = "FWD_READY" /\ go
          <6>1. Due(p) = 8 /\ Position' = 1
            BY <1>1, <3>2, <5>3, StartsAlone DEF Due
          <6> QED BY <2>1, <2>6, <3>1, <5>1, <6>1
        <5>4. CASE port_states[p] = "FORWARDING"
          <6>1. Due(p) = 8 + Position /\ Position' = Position + 1
            BY <3>2, <3>3, <5>4 DEF Due
          <6> QED BY <2>1, <2>6, <3>1, <3>2, <5>1, <6>1
        <5> QED BY <5>2, <5>3, <5>4
      <4> QED BY <3>4, <4>2, <4>3, <4>4 DEF Received
    <3> QED BY <2>2, <2>5, <2>6, <3>1, <3>4, <3>5
  <2> QED BY <2>7, <2>8
<1> QED BY <1>4, <1>5

-----------------------------------------------------------------------------
(* What is kept of a frame, and what is asked about it.                    *)

\* What comes out of the RAM for a port that has received its first words is a
\* prefetched word in its place, or none of a fetch.
LEMMA StorageReceived ==
    ASSUME Setting, Inv, Storage, NEW p \in PortNumbers, port_states[p] \in Received
    PROVE  /\ port_hdr'[p] = port_hdr[p] /\ port_word0'[p] = port_word0[p] /\ port_word1'[p] = port_word1[p]
           /\ rd.mtype = "PREFETCH" /\ rd.port = p => rd.data = Word(p, Cur(p), 3 + rd.slot)
           /\ \A x \in 0 .. 4 : prefetch_buf'[p][x] =
                 IF rd.mtype = "PREFETCH" /\ rd.port = p /\ rd.slot = x THEN rd.data ELSE prefetch_buf[p][x]
<1>1. rd.mtype \in FetchTypes /\ rd.port = p => rd.mtype = "PREFETCH" /\ rd.data = Word(p, Cur(p), 3 + rd.slot)
  <2>1. port_states[p] \notin FetchStates
    BY DEF FetchStates, Received
  <2> QED BY <2>1, SeventhPlace DEF Inv, PipeInv
<1>2. /\ port_hdr \in [PortNumbers -> Frames]
      /\ port_word0 \in [PortNumbers -> Words] /\ port_word1 \in [PortNumbers -> Words]
      /\ prefetch_buf \in [PortNumbers -> [0 .. 4 -> Words]]
  BY DEF Inv, Types, StoreTyped
<1>3. rd.port \in PortNumbers /\ rd.slot \in 0 .. 4
  BY RdType DEF Inv
<1>4. port_hdr'[p] = port_hdr[p]
  BY <1>1, <1>2, <1>3 DEF Storage, FetchTypes
<1>5. port_word0'[p] = port_word0[p] /\ port_word1'[p] = port_word1[p]
  BY <1>1, <1>2, <1>3 DEF Storage, FetchTypes
<1>6. \A x \in 0 .. 4 : prefetch_buf'[p][x] =
         IF rd.mtype = "PREFETCH" /\ rd.port = p /\ rd.slot = x THEN rd.data ELSE prefetch_buf[p][x]
  BY <1>2, <1>3 DEF Storage
<1>7. rd.mtype = "PREFETCH" /\ rd.port = p => rd.data = Word(p, Cur(p), 3 + rd.slot)
  BY <1>1 DEF FetchTypes
<1> QED BY <1>4, <1>5, <1>6, <1>7

\* What is known of a frame when its second word comes out of the RAM.
LEMMA KnownAtNine ==
    ASSUME Setting, Inv, NEW p \in PortNumbers, Fetched(p, 9)
    PROVE  /\ port_hdr[p] = Cur(p) /\ port_word0[p] = Word(p, Cur(p), 1)
           /\ rd.mtype = "WORD1" /\ rd.port = p /\ rd.data = Word(p, Cur(p), 2)
           /\ port_states[p] = "PREFETCH"
           /\ \A x \in 0 .. 4 : pipe[6 - x] = FetchRead(p, 3 + x)
<1>1. port_hdr[p] = Cur(p) /\ port_word0[p] = Word(p, Cur(p), 1) /\ port_states[p] = "PREFETCH"
  BY DEF Fetched, AtStage
<1>2. \A i \in 1 .. 7 : 9 - i \in 0 .. 7 => pipe[i] = FetchRead(p, 9 - i)
  BY DEF Fetched
<1>3. rd = FetchRead(p, 2)
  <2>1. 7 \in 1 .. 7 /\ 9 - 7 = 2 /\ 2 \in 0 .. 7
    OBVIOUS
  <2> QED BY <1>2, <2>1, SeventhPlace
<1>4. rd.mtype = "WORD1" /\ rd.port = p /\ rd.data = Word(p, Cur(p), 2)
  BY <1>3, FetchReads
<1>5. ASSUME NEW x \in 0 .. 4 PROVE pipe[6 - x] = FetchRead(p, 3 + x)
  <2>1. PICK i \in 2 .. 6 : i = 6 - x
    OBVIOUS
  <2>2. 9 - i = 3 + x
    BY <2>1
  <2> QED BY <1>2, <2>1, <2>2
<1> QED BY <1>1, <1>4, <1>5

\* A prefetched word stays where it is needed or is on its way there.
LEMMA PrefetchedStep ==
    ASSUME Setting, Inv, NEW go \in BOOLEAN, NEW answered \in BOOLEAN, NEW line \in LineEvents,
           Clock(go, answered, line), NEW p \in PortNumbers, port_states'[p] \in Received, NEW x \in 0 .. 4
    PROVE  prefetch_buf'[p][x] = Word(p, Cur(p), 3 + x)' \/ Coming(p, x)'
<1>1. /\ Lines(line) /\ Issue(go) /\ Settle(line) /\ Storage
      /\ Answer(answered) /\ PortStates(go, answered) /\ (go => MayStart)
  BY DEF Clock
<1>2. \A i \in 2 .. 7 : pipe'[i] = pipe[i - 1]
  BY <1>1, Shifted
<1>3. port_states[p] \in Received \/ Fetched(p, 9)
  BY <1>1, ReceivedFrom
<1>4. Cur(p)' = Cur(p)
  <2>1. port_states[p] # "IDLE"
    BY <1>3, KnownAtNine DEF Received
  <2> QED BY <1>1, <2>1, CurKept
<1>5. CASE Fetched(p, 9)
  <2>1. PICK i \in 3 .. 7 : i = 7 - x /\ i - 1 = 6 - x
    OBVIOUS
  <2>2. pipe'[i] = FetchRead(p, 3 + x)
    BY <1>2, <1>5, <2>1, KnownAtNine
  <2>3. PICK k \in 3 .. 7 : k = 3 + x /\ k - 3 = x
    OBVIOUS
  <2>4. pipe'[i].mtype = "PREFETCH" /\ pipe'[i].port = p /\ pipe'[i].slot = x
    <3>1. FetchRead(p, k).mtype = "PREFETCH" /\ FetchRead(p, k).port = p
      BY FetchReads
    <3>2. FetchRead(p, k).slot = IF k > 3 THEN k - 3 ELSE 0
      BY FetchReads
    <3>3. FetchRead(p, k).slot = x
      BY <2>3, <3>2
    <3> QED BY <2>2, <2>3, <3>1, <3>3
  <2> QED BY <2>1, <2>4 DEF Coming
<1>6. CASE port_states[p] \in Received
  <2>1. /\ rd.mtype = "PREFETCH" /\ rd.port = p => rd.data = Word(p, Cur(p), 3 + rd.slot)
        /\ prefetch_buf'[p][x] =
              IF rd.mtype = "PREFETCH" /\ rd.port = p /\ rd.slot = x THEN rd.data ELSE prefetch_buf[p][x]
    BY <1>1, <1>6, StorageReceived
  <2>2. prefetch_buf[p][x] = Word(p, Cur(p), 3 + x) \/ Coming(p, x)
    BY <1>6 DEF Inv, KeptInv
  <2>3. Word(p, Cur(p), 3 + x)' = Word(p, Cur(p), 3 + x)
    BY <1>4 DEF Word
  <2>4. CASE rd.mtype = "PREFETCH" /\ rd.port = p /\ rd.slot = x
    BY <2>1, <2>3, <2>4
  <2>5. CASE ~(rd.mtype = "PREFETCH" /\ rd.port = p /\ rd.slot = x)
    <3>1. CASE Coming(p, x)
      <4>1. PICK i \in 1 .. 7 : pipe[i].mtype = "PREFETCH" /\ pipe[i].port = p /\ pipe[i].slot = x
        BY <3>1 DEF Coming
      <4>2. i # 7
        BY <2>5, <4>1, SeventhPlace
      <4>3. PICK j \in 2 .. 7 : j = i + 1 /\ i = j - 1
        BY <4>2
      <4>4. pipe'[j] = pipe[i]
        BY <1>2, <4>3
      <4> QED BY <4>1, <4>3, <4>4 DEF Coming
    <3>2. CASE ~Coming(p, x)
      BY <2>1, <2>2, <2>3, <2>5, <3>2
    <3> QED BY <3>1, <3>2
  <2> QED BY <2>4, <2>5
<1> QED BY <1>3, <1>5, <1>6

\* What is kept of a frame stays right until it is sent.
LEMMA KeptStep ==
    ASSUME Setting, Inv, NEW go \in BOOLEAN, NEW answered \in BOOLEAN, NEW line \in LineEvents,
           Clock(go, answered, line)
    PROVE  KeptInv'
<1>1. /\ Lines(line) /\ Issue(go) /\ Settle(line) /\ Storage
      /\ Answer(answered) /\ PortStates(go, answered) /\ (go => MayStart)
  BY DEF Clock
<1>2. ASSUME NEW p \in PortNumbers, port_states'[p] \in {"MAC_LOOKUP", "FWD_READY"}
      PROVE  /\ port_hdr'[p] = Cur(p)' /\ port_word0'[p] = Word(p, Cur(p), 1)'
             /\ port_word1'[p] = Word(p, Cur(p), 2)'
  <2>1. port_states[p] \in {"MAC_LOOKUP", "FWD_READY"} \/ Fetched(p, 9)
    BY <1>1, <1>2, ReceivedFrom
  <2>2. Cur(p)' = Cur(p)
    <3>1. port_states[p] # "IDLE"
      BY <2>1, KnownAtNine
    <3> QED BY <1>1, <3>1, CurKept
  <2>3. \A k : Word(p, Cur(p), k)' = Word(p, Cur(p)', k)
    BY DEF Word
  <2>4. CASE Fetched(p, 9)
    <3>1. port_word1 \in [PortNumbers -> Words]
      BY DEF Inv, Types, StoreTyped
    <3>2. port_hdr'[p] = port_hdr[p] /\ port_word0'[p] = port_word0[p] /\ port_word1'[p] = rd.data
      BY <1>1, <2>4, <3>1, KnownAtNine DEF Storage
    <3>3. port_hdr[p] = Cur(p) /\ port_word0[p] = Word(p, Cur(p), 1) /\ rd.data = Word(p, Cur(p), 2)
      BY <2>4, KnownAtNine
    <3> QED BY <2>2, <3>2, <3>3 DEF Word
  <2>5. CASE port_states[p] \in {"MAC_LOOKUP", "FWD_READY"}
    <3>1. port_hdr'[p] = port_hdr[p] /\ port_word0'[p] = port_word0[p] /\ port_word1'[p] = port_word1[p]
      BY <1>1, <2>5, StorageReceived DEF Received
    <3>2. port_hdr[p] = Cur(p) /\ port_word0[p] = Word(p, Cur(p), 1) /\ port_word1[p] = Word(p, Cur(p), 2)
      BY <2>5 DEF Inv, KeptInv
    <3> QED BY <2>2, <3>1, <3>2 DEF Word
  <2> QED BY <2>1, <2>4, <2>5
<1>3. ASSUME NEW p \in PortNumbers, port_states'[p] = "FWD_READY" PROVE port_dst'[p] = Cur(p)'.dst
  <2>1. \/ port_states[p] = "FWD_READY"
        \/ port_states[p] = "MAC_LOOKUP" /\ answered /\ Head(lookups).tid = p
    BY <1>1, <1>3, ReceivedFrom
  <2>2. Cur(p)' = Cur(p)
    BY <1>1, <2>1, CurKept
  <2>3. port_dst \in [PortNumbers -> Nat]
    BY DEF Inv, Types, LookupTyped
  <2>4. CASE port_states[p] = "FWD_READY"
    <3>1. answered => Head(lookups).tid # p
      BY <1>1, <2>4, AnswerToWhom DEF Asked
    <3>2. answered => Echo(Head(lookups).tid) # p
      BY <1>1, <3>1, AnswerToWhom
    <3>3. port_dst'[p] = port_dst[p]
      BY <1>1, <2>3, <3>2 DEF Answer
    <3> QED BY <2>2, <2>4, <3>3 DEF Inv, KeptInv
  <2>5. CASE answered /\ Head(lookups).tid = p
    <3>1. Head(lookups).word0 = Word(p, Cur(p), 1)
      BY <1>1, <2>5, AnswerToWhom DEF Asked
    <3>2. Head(lookups).word0.frame.dst = Cur(p).dst
      BY <3>1 DEF Word
    <3>3. Echo(Head(lookups).tid) = p
      BY <1>1, <2>5, AnswerToWhom
    <3>4. port_dst'[p] = Head(lookups).word0.frame.dst
      BY <1>1, <2>3, <2>5, <3>3 DEF Answer
    <3> QED BY <2>2, <3>2, <3>4
  <2> QED BY <2>1, <2>4, <2>5
<1> QED BY <1>2, <1>3, PrefetchedStep DEF KeptInv

\* What has been asked is about a frame that waits for the answer.
LEMMA AskedStep ==
    ASSUME Setting, Inv, NEW go \in BOOLEAN, NEW answered \in BOOLEAN, NEW line \in LineEvents,
           Clock(go, answered, line), NEW CONSTANT l \in Requests, Asked(l),
           answered => Head(lookups).tid # l.tid
    PROVE  Asked(l)'
<1>1. /\ Lines(line) /\ Settle(line)
      /\ Answer(answered) /\ PortStates(go, answered) /\ (go => MayStart)
  BY DEF Clock
<1>2. PICK p \in PortNumbers : p = l.tid
  BY DEF Requests
<1>3. port_states[p] = "MAC_LOOKUP"
  BY <1>2 DEF Asked
<1>4. port_states'[p] = "MAC_LOOKUP"
  BY <1>1, <1>2, <1>3, Moves
<1>5. Cur(p)' = Cur(p)
  BY <1>1, <1>3, CurKept
<1>6. l.vlan = Cur(p).vlan /\ l.word0 = Word(p, Cur(p), 1) /\ l.word1 = Word(p, Cur(p), 2)
  BY <1>2 DEF Asked
<1>7. l.vlan = Cur(p)'.vlan /\ l.word0 = Word(p, Cur(p)', 1) /\ l.word1 = Word(p, Cur(p)', 2)
  BY <1>5, <1>6
<1> QED BY <1>2, <1>4, <1>7 DEF Asked, Word

\* A new request is about the frame whose second word is here.
LEMMA NewRequest ==
    ASSUME Setting, Inv, NEW go \in BOOLEAN, NEW answered \in BOOLEAN, NEW line \in LineEvents,
           Clock(go, answered, line), NEW CONSTANT l, l = Lookup, rd.mtype = "WORD1"
    PROVE  Asked(l)' /\ l.tid = rd.port /\ port_states[l.tid] = "PREFETCH"
<1>1. /\ Lines(line) /\ Settle(line)
      /\ Answer(answered) /\ PortStates(go, answered) /\ (go => MayStart)
  BY DEF Clock
<1>2. PICK p \in PortNumbers : p = rd.port
  BY RdType DEF Inv
<1>3. Fetched(p, 9)
  BY <1>2, WordOneAtNine
<1>4. port_states[p] = "PREFETCH" /\ port_states'[p] = "MAC_LOOKUP"
  BY <1>1, <1>2, <1>3, KnownAtNine, Moves
<1>5. Cur(p)' = Cur(p)
  BY <1>1, <1>4, CurKept
<1>6. l.tid = p /\ l.vlan = port_hdr[p].vlan /\ l.word0 = port_word0[p] /\ l.word1 = rd.data
  BY <1>2 DEF Lookup
<1>7. l.vlan = Cur(p).vlan /\ l.word0 = Word(p, Cur(p), 1) /\ l.word1 = Word(p, Cur(p), 2)
  BY <1>3, <1>6, KnownAtNine
<1>8. l.vlan = Cur(p)'.vlan /\ l.word0 = Word(p, Cur(p)', 1) /\ l.word1 = Word(p, Cur(p)', 2)
  BY <1>5, <1>7
<1> QED BY <1>2, <1>4, <1>6, <1>8 DEF Asked, Word

\* Joining a queue: the elements of the first one, then those of the second.
LEMMA Joined ==
    ASSUME NEW S, NEW s \in Seq(S), NEW t \in Seq(S)
    PROVE  \A i \in DOMAIN (s \o t) :
              \/ i \in DOMAIN s /\ (s \o t)[i] = s[i]
              \/ \E j \in DOMAIN t : i = Len(s) + j /\ (s \o t)[i] = t[j]
<1> SUFFICES ASSUME NEW i \in DOMAIN (s \o t)
             PROVE  \/ i \in DOMAIN s /\ (s \o t)[i] = s[i]
                    \/ \E j \in DOMAIN t : i = Len(s) + j /\ (s \o t)[i] = t[j]
  OBVIOUS
<1>1. i \in 1 .. (Len(s) + Len(t)) /\ Len(s) \in Nat /\ Len(t) \in Nat
  OBVIOUS
<1>2. CASE i <= Len(s)
  BY <1>1, <1>2
<1>3. CASE i > Len(s)
  <2>1. PICK j \in 1 .. Len(t) : i = Len(s) + j /\ j = i - Len(s)
    BY <1>1, <1>3
  <2>2. (s \o t)[i] = t[j]
    BY <1>1, <1>3, <2>1
  <2> QED BY <2>1, <2>2
<1> QED BY <1>1, <1>2, <1>3

\* The table is asked once for each frame, about that frame.
LEMMA LookupStep ==
    ASSUME Setting, Inv, NEW go \in BOOLEAN, NEW answered \in BOOLEAN, NEW line \in LineEvents,
           Clock(go, answered, line)
    PROVE  LookupInv'
<1> DEFINE T == IF answered THEN Tail(lookups) ELSE lookups
           N == IF rd.mtype = "WORD1" THEN <<Lookup>> ELSE <<>>
           o == IF answered THEN 1 ELSE 0
<1>1. Answer(answered)
  BY DEF Clock
<1>2. lookups' = T \o N
  BY <1>1 DEF Answer
<1>3. lookups \in Seq(Requests) /\ lookups' \in Seq(Requests)
  BY <1>1, AnswerTypes DEF Inv, Types, LookupTyped
<1>4. T \in Seq(Requests) /\ \A i \in DOMAIN T : i + o \in DOMAIN lookups /\ T[i] = lookups[i + o]
  <2>1. CASE answered
    <3>1. lookups # <<>>
      BY <1>1, <2>1 DEF Answer
    <3>2. Tail(lookups) \in Seq(Requests) /\
          \A i \in DOMAIN Tail(lookups) : i + 1 \in DOMAIN lookups /\ Tail(lookups)[i] = lookups[i + 1]
      BY <1>3, <3>1
    <3> QED BY <2>1, <3>2
  <2>2. CASE ~answered
    <3>1. T = lookups /\ o = 0
      BY <2>2
    <3>2. \A i \in DOMAIN lookups : i + 0 = i
      BY <1>3
    <3> QED BY <1>3, <3>1, <3>2
  <2> QED BY <2>1, <2>2
<1>5. PICK x : x = Lookup
  OBVIOUS
<1>6. N \in Seq({x}) /\ (rd.mtype = "WORD1" => N = <<x>>) /\ (rd.mtype # "WORD1" => N = <<>>)
  <2>1. <<x>> \in Seq({x}) /\ <<>> \in Seq({x})
    OBVIOUS
  <2> QED BY <1>5, <2>1
<1> HIDE DEF T, N
<1>7. ASSUME NEW i \in DOMAIN T
      PROVE  T[i] \in Requests /\ Asked(T[i]) /\ (answered => Head(lookups).tid # T[i].tid)
  <2>1. i + o \in DOMAIN lookups /\ T[i] = lookups[i + o]
    BY <1>4
  <2>2. Asked(T[i])
    BY <2>1 DEF Inv, LookupInv
  <2>3. answered => i + o # 1
    BY <1>3, <1>4
  <2>4. answered => Head(lookups).tid # T[i].tid
    BY <1>1, <2>1, <2>3, AnswerToWhom DEF Inv, LookupInv
  <2> QED BY <1>4, <2>2, <2>4
<1>8. \A i, j \in DOMAIN T : T[i].tid = T[j].tid => i = j
  <2> SUFFICES ASSUME NEW i \in DOMAIN T, NEW j \in DOMAIN T, T[i].tid = T[j].tid PROVE i = j
    OBVIOUS
  <2>1. i + o = j + o
    BY <1>4 DEF Inv, LookupInv
  <2>2. i \in Int /\ j \in Int
    BY <1>4
  <2> QED BY <2>1, <2>2
<1>9. ASSUME NEW i \in DOMAIN lookups'
      PROVE  \/ i \in DOMAIN T /\ lookups'[i] = T[i]
             \/ rd.mtype = "WORD1" /\ i = Len(T) + 1 /\ lookups'[i] = x
  <2>1. PICK S : T \in Seq(S) /\ N \in Seq(S)
    <3>1. T \in Seq(Requests \cup {x}) /\ N \in Seq(Requests \cup {x})
      BY <1>4, <1>6
    <3> QED BY <3>1
  <2>2. \/ i \in DOMAIN T /\ lookups'[i] = T[i]
        \/ \E j \in DOMAIN N : i = Len(T) + j /\ lookups'[i] = N[j]
    BY <1>2, <2>1, Joined
  <2>3. ASSUME NEW j \in DOMAIN N PROVE rd.mtype = "WORD1" /\ j = 1 /\ N[j] = x
    BY <1>6
  <2> QED BY <2>2, <2>3
<1>10. rd.mtype = "WORD1" => Asked(x)' /\ x.tid = rd.port /\ port_states[x.tid] = "PREFETCH"
  BY <1>5, NewRequest
<1>11. ASSUME NEW i \in DOMAIN lookups' PROVE Asked(lookups[i])'
  <2>1. CASE i \in DOMAIN T /\ lookups'[i] = T[i]
    <3>1. PICK l \in Requests : l = T[i] /\ Asked(l) /\ (answered => Head(lookups).tid # l.tid)
      BY <1>7, <2>1
    <3>2. Asked(l)'
      BY <3>1, AskedStep
    <3> QED BY <2>1, <3>1, <3>2 DEF Asked
  <2>2. CASE rd.mtype = "WORD1" /\ lookups'[i] = x
    BY <1>10, <2>2 DEF Asked
  <2> QED BY <1>9, <2>1, <2>2
<1>12. ASSUME NEW i \in DOMAIN lookups', NEW j \in DOMAIN lookups', lookups'[i].tid = lookups'[j].tid PROVE i = j
  <2>1. ASSUME NEW k \in DOMAIN T, rd.mtype = "WORD1" PROVE T[k].tid # x.tid
    <3>1. port_states[T[k].tid] = "MAC_LOOKUP"
      BY <1>7 DEF Asked
    <3> QED BY <1>10, <2>1, <3>1
  <2> QED BY <1>8, <1>9, <1>12, <2>1
<1> QED BY <1>11, <1>12 DEF LookupInv

-----------------------------------------------------------------------------
(* The forwarding engine and the bus.                                      *)

\* While a frame is forwarded, its VLAN and its destination stand on the bus.
LEMMA BusNow ==
    ASSUME Inv, fwd_state # "IDLE"
    PROVE  axi_tx.user = Cur(fwd_port).vlan /\ axi_tx.dest = Cur(fwd_port).dst
<1>1. axi_tx.word.valid /\ axi_tx.word.data.port = fwd_port /\ FramesInOrder
  BY DEF Inv, BusInv
<1>2. PICK p \in PortNumbers : /\ axi_tx.word.data = Word(p, Cur(p), sent + 1)
                               /\ axi_tx.user = Cur(p).vlan /\ axi_tx.dest = Cur(p).dst
  BY <1>1 DEF FramesInOrder, Cur
<1>3. p = fwd_port
  BY <1>1, <1>2 DEF Word
<1> QED BY <1>2, <1>3

\* When the engine takes a prefetched word, the word is there.
LEMMA PrefetchedInTime ==
    ASSUME Setting, Inv, fwd_state = "PREFETCH_DATA"
    PROVE  prefetch_buf[fwd_port][prefetch_rd_addr] = Word(fwd_port, Cur(fwd_port), Position + 1)
<1> DEFINE p == fwd_port
<1>1. Underway(Cur(p), Position) /\ p \in PortNumbers /\ port_states[p] = "FORWARDING"
  BY LastWordWhen
<1>2. PICK f \in 2 .. 6 : f = Position
  BY <1>1 DEF Underway, Step
<1>3. PICK x \in 0 .. 4 : x = f - 2 /\ 3 + x = f + 1
  OBVIOUS
<1>4. prefetch_rd_addr = x
  BY <1>1, <1>2, <1>3 DEF Underway, Step
<1>5. ~Coming(p, x)
  <2> SUFFICES ASSUME NEW i \in 1 .. 7, pipe[i].mtype = "PREFETCH", pipe[i].port = p, pipe[i].slot = x PROVE FALSE
    BY DEF Coming
  <2>1. port_states[p] \notin FetchStates
    BY <1>1 DEF FetchStates
  <2>2. i + x >= Due(p)
    BY <2>1 DEF Inv, PipeInv, FetchTypes
  <2>3. Due(p) = 8 + f
    BY <1>1, <1>2 DEF Due
  <2> QED BY <1>3, <2>2, <2>3
<1>6. prefetch_buf[p][x] = Word(p, Cur(p), 3 + x)
  BY <1>1, <1>5 DEF Inv, KeptInv, Received
<1> QED BY <1>2, <1>3, <1>4, <1>6

\* What comes out of the RAM for the last words of a frame is the next of them.
LEMMA BodyInTime ==
    ASSUME Setting, Inv, fwd_state \in {"BODY", "TAIL"}
    PROVE  rd.data = Word(fwd_port, Cur(fwd_port), Position + 1) /\ Position >= 7
<1> DEFINE p == fwd_port
<1>1. Underway(Cur(p), Position) /\ Position \in Nat \ {0} /\ Sized(Cur(p))
  BY LastWordWhen
<1>2. PICK f \in Nat \ {0} : f = Position
  BY <1>1
<1>3. f >= 7
  <2>1. ~(f = 1) /\ ~(f \in 2 .. 6)
    BY <1>1, <1>2 DEF Underway, Step
  <2> QED BY <2>1
<1>4. PICK d, x : Size(Cur(p), d, x)
  BY <1>1 DEF Sized
<1>5. f < d /\ d = DataWords(Cur(p)) /\ d \in Nat
  BY <1>1, <1>2, <1>4 DEF Underway, Size
<1>6. 7 <= f /\ f - 7 <= d - 8 /\ 8 + f - 7 = f + 1
  BY <1>3, <1>5
<1>7. \A j \in 1 .. 7 : j <= f /\ f - j <= d - 8 => pipe[j].data = Word(p, Cur(p), 8 + f - j)
  BY <1>1, <1>2, <1>5 DEF Underway
<1>8. pipe[7].data = Word(p, Cur(p), 8 + f - 7)
  BY <1>6, <1>7
<1> QED BY <1>2, <1>3, <1>6, <1>8, SeventhPlace

\* The engine does not start a frame while it is at one.
LEMMA EngineBusy ==
    ASSUME Setting, Inv, NEW go, go => MayStart, fwd_state # "IDLE", Forward(go)
    PROVE  ~go /\ fwd_port' = fwd_port
           /\ \/ FwdHeader1 /\ ~LastWord
              \/ FwdPrefetchData /\ ~LastWord
              \/ FwdWord
              \/ FwdLastWord
<1>1. ~go
  BY StartsAlone
<1>2. FwdHeader1 \/ FwdPrefetchData \/ FwdWord \/ FwdLastWord
  BY <1>1 DEF Forward, FwdIdle
<1>3. FwdHeader1 \/ FwdPrefetchData => ~LastWord
  BY DEF FwdHeader1, FwdPrefetchData, LastWord
<1>4. fwd_port' = fwd_port
  BY <1>2 DEF FwdHeader1, FwdPrefetchData, FwdWord, FwdLastWord
<1> QED BY <1>1, <1>2, <1>3, <1>4

\* The next word of the frame goes out, and the engine ends with the last one.
LEMMA EngineWords ==
    ASSUME Setting, Inv, NEW go, go => MayStart, fwd_state # "IDLE", Forward(go)
    PROVE  LET p == fwd_port IN
           /\ axi_tx'.word.valid /\ axi_tx'.word.data = Word(p, Cur(p), Position + 1)
           /\ axi_tx'.word.last = LastWord
           /\ axi_tx'.word.bytes = IF LastWord THEN Strobes(Cur(p).len - 8 * Position) ELSE 8
           /\ axi_tx'.user = axi_tx.user /\ axi_tx'.dest = axi_tx.dest
           /\ fwd_state' = "IDLE" <=> LastWord
<1> DEFINE p == fwd_port
<1>1. Underway(Cur(p), Position) /\ Position \in Nat \ {0} /\ Sized(Cur(p)) /\ p \in PortNumbers
  BY LastWordWhen
<1>2. axi_tx = [word |-> axi_tx.word, user |-> axi_tx.user, dest |-> axi_tx.dest]
  BY DEF Inv, Types, BusTyped, BusType
<1>3. \A w : [axi_tx EXCEPT !.word = w] = [word |-> w, user |-> axi_tx.user, dest |-> axi_tx.dest]
  BY <1>2
<1>4. LastWord \in BOOLEAN
  BY DEF LastWord
<1>5. CASE FwdHeader1 /\ ~LastWord
  <2>1. axi_tx' = [word |-> Send(port_word1[p]), user |-> axi_tx.user, dest |-> axi_tx.dest]
        /\ fwd_state' = "PREFETCH_DATA"
    BY <1>3, <1>5 DEF FwdHeader1
  <2>2. port_word1[p] = Word(p, Cur(p), Position + 1)
    <3>1. Position = 1 /\ port_word1[p] = Word(p, Cur(p), 2)
      BY <1>1, <1>5 DEF FwdHeader1, Underway, Step
    <3>2. Position + 1 = 2
      BY <3>1
    <3> QED BY <3>1, <3>2
  <2> QED BY <1>4, <1>5, <2>1, <2>2 DEF Send
<1>6. CASE FwdPrefetchData /\ ~LastWord
  <2>1. axi_tx' = [word |-> Send(prefetch_buf[p][prefetch_rd_addr]), user |-> axi_tx.user, dest |-> axi_tx.dest]
        /\ fwd_state' \in {"BODY", "PREFETCH_DATA"}
    BY <1>3, <1>6 DEF FwdPrefetchData
  <2>2. prefetch_buf[p][prefetch_rd_addr] = Word(p, Cur(p), Position + 1)
    BY <1>6, PrefetchedInTime DEF FwdPrefetchData
  <2> QED BY <1>4, <1>6, <2>1, <2>2 DEF Send
<1>7. CASE FwdWord
  <2>1. axi_tx' = [word |-> Send(rd.data), user |-> axi_tx.user, dest |-> axi_tx.dest]
        /\ fwd_state' \in {"BODY", "TAIL"} /\ ~LastWord
    BY <1>3, <1>7 DEF FwdWord
  <2>2. rd.data = Word(p, Cur(p), Position + 1)
    BY <1>7, BodyInTime DEF FwdWord
  <2> QED BY <1>4, <2>1, <2>2 DEF Send
<1>8. CASE FwdLastWord
  <2>1. axi_tx' = [word |-> SendLast(rd.data), user |-> axi_tx.user, dest |-> axi_tx.dest]
        /\ fwd_state' = "IDLE" /\ LastWord
    BY <1>3, <1>8 DEF FwdLastWord
  <2>2. rd.data = Word(p, Cur(p), Position + 1)
    BY <1>8, BodyInTime DEF FwdLastWord, LastWord
  <2>3. fwd_bytesToSend = Cur(p).len - 8 * Position
    BY <1>1 DEF Underway
  <2> QED BY <1>4, <2>1, <2>2, <2>3 DEF SendLast
<1> QED BY <1>5, <1>6, <1>7, <1>8, EngineBusy

\* The counters of the engine count what is left of the frame.
LEMMA EngineCounts ==
    ASSUME Setting, Inv, NEW go, go => MayStart, fwd_state # "IDLE", Forward(go), ~LastWord,
           NEW f \in Nat \ {0}, f = Position, NEW d, NEW x, Size(Cur(fwd_port), d, x)
    PROVE  /\ f + 1 < d
           /\ fwd_bytesToSend' = x - 8 * (f + 1)
           /\ fwd_bytesToRead' = IF x > 8 * (f + 1) + 56 THEN x - (8 * (f + 1) + 56) ELSE 0
           /\ Step(f + 1)'
<1>1. d \in 8 .. 190 /\ x \in 0 .. 1518 /\ 8 * d - 8 < x /\ x <= 8 * d /\ d = DataWords(Cur(fwd_port))
      /\ x = Cur(fwd_port).len
  BY DEF Size
<1>2. /\ f < d /\ fwd_bytesToSend = x - 8 * f
      /\ fwd_bytesToRead = IF x > 8 * f + 56 THEN x - (8 * f + 56) ELSE 0
      /\ Step(f)
  BY <1>1, LastWordWhen DEF Underway
<1>3. f + 1 < d
  <2>1. f + 1 # d
    BY <1>1, LastWordWhen
  <2> QED BY <1>1, <1>2, <2>1
<1>4. Bytes(fwd_bytesToSend - 8) = x - 8 * (f + 1) /\ fwd_bytesToSend - 8 = x - 8 * (f + 1)
  <2>1. PICK y \in 0 .. 1518 : y = x - 8 * (f + 1)
    <3>1. PICK e \in Nat : e = f + 1
      OBVIOUS
    <3>2. e < d /\ e \in Nat /\ d \in 8 .. 190 /\ x \in 0 .. 1518 /\ 8 * d - 8 < x
      BY <1>1, <1>3, <3>1
    <3>3. x - 8 * e \in 0 .. 1518
      BY <3>2
    <3>4. x - 8 * (f + 1) \in 0 .. 1518
      BY <3>1, <3>3
    <3> QED BY <3>4
  <2>2. fwd_bytesToSend - 8 = y
    BY <1>1, <1>2, <2>1
  <2> QED BY <2>1, <2>2 DEF Bytes
<1>5. LessEight = IF x > 8 * (f + 1) + 56 THEN x - (8 * (f + 1) + 56) ELSE 0
  BY <1>1, <1>2 DEF LessEight
<1>6. CASE FwdHeader1
  <2>1. fwd_bytesToSend' = Bytes(fwd_bytesToSend - 8) /\ fwd_bytesToRead' = LessEight
        /\ fwd_state' = "PREFETCH_DATA" /\ prefetch_rd_addr' = 0 /\ fwd_state = "HEADER_1"
    BY <1>6 DEF FwdHeader1
  <2>2. f = 1
    BY <1>2, <2>1 DEF Step
  <2>3. Step(f + 1)'
    BY <2>1, <2>2 DEF Step
  <2> QED BY <1>3, <1>4, <1>5, <2>1, <2>3
<1>7. CASE FwdPrefetchData
  <2>1. fwd_bytesToSend' = Bytes(fwd_bytesToSend - 8) /\ fwd_bytesToRead' = LessEight
        /\ fwd_state = "PREFETCH_DATA" /\ prefetch_rd_addr' = prefetch_rd_addr + 1
        /\ fwd_state' = IF prefetch_rd_addr = 4 THEN "BODY" ELSE fwd_state
    BY <1>7 DEF FwdPrefetchData, PrefetchDepth
  <2>2. f \in 2 .. 6 /\ prefetch_rd_addr = f - 2
    BY <1>2, <2>1 DEF Step
  <2>3. Step(f + 1)'
    <3>1. CASE f = 6
      BY <2>1, <2>2, <3>1 DEF Step
    <3>2. CASE f # 6
      BY <2>1, <2>2, <3>2 DEF Step
    <3> QED BY <3>1, <3>2
  <2> QED BY <1>3, <1>4, <1>5, <2>1, <2>3
<1>8. CASE FwdWord
  <2>1. /\ fwd_state \in {"BODY", "TAIL"} /\ fwd_bytesToSend' = fwd_bytesToSend - 8
        /\ fwd_bytesToRead' = IF fwd_state = "BODY" THEN LessEight ELSE fwd_bytesToRead
        /\ fwd_state' = IF fwd_bytesToRead = 0 THEN "TAIL" ELSE fwd_state
    BY <1>8 DEF FwdWord
  <2>2. f >= 7 /\ (fwd_state = "TAIL" => fwd_bytesToRead = 0)
    BY <1>2, <2>1, BodyInTime DEF Step
  <2>3. fwd_bytesToRead' = LessEight
    BY <2>1, <2>2 DEF LessEight
  <2>4. fwd_state' \in {"BODY", "TAIL"} /\ (fwd_state' = "TAIL" => fwd_bytesToRead' = 0)
    <3>1. fwd_state' = "TAIL" => fwd_bytesToRead = 0
      BY <2>1, <2>2
    <3> QED BY <2>1, <2>3, <3>1 DEF LessEight
  <2>5. Step(f + 1)'
    BY <2>2, <2>4 DEF Step
  <2> QED BY <1>3, <1>4, <1>5, <2>1, <2>3, <2>5
<1> QED BY <1>6, <1>7, <1>8, EngineBusy DEF FwdLastWord

\* The words it will need are on their way.
LEMMA EnginePipe ==
    ASSUME Setting, Inv, NEW go, go => MayStart, fwd_state # "IDLE", Forward(go), ~LastWord, Issue(go),
           NEW f \in Nat \ {0}, f = Position, NEW d, NEW x, Size(Cur(fwd_port), d, x),
           NEW j \in 1 .. 7, j <= f + 1, f + 1 - j <= d - 8
    PROVE  pipe'[j].data = Word(fwd_port, Cur(fwd_port), 8 + (f + 1) - j)
<1>1. d \in 8 .. 190 /\ x \in 0 .. 1518 /\ 8 * d - 8 < x /\ x <= 8 * d /\ d = DataWords(Cur(fwd_port))
      /\ x = Cur(fwd_port).len
  BY DEF Size
<1>2. pipe'[1] = Issued(go) /\ \A i \in 2 .. 7 : pipe'[i] = pipe[i - 1]
  BY Shifted
<1>3. /\ f < d /\ fwd_bytesToRead = (IF x > 8 * f + 56 THEN x - (8 * f + 56) ELSE 0) /\ Step(f)
      /\ \A i \in 1 .. 7 : i <= f /\ f - i <= d - 8 =>
            pipe[i].data = Word(fwd_port, Cur(fwd_port), 8 + f - i)
  BY <1>1, LastWordWhen DEF Underway
<1>4. CASE j = 1
  <2>1. f <= d - 8
    BY <1>1, <1>4
  <2>2. fwd_bytesToRead > 0
    BY <1>1, <1>3, <2>1
  <2>3. fwd_state # "TAIL"
    BY <1>3, <2>2 DEF Step
  <2>4. Blocked
    BY <2>3 DEF Blocked, Inv, Types, FwdTyped
  <2>5. Issued(go).data = Word(fwd_port, Cur(fwd_port), 8 + f)
    BY <2>2, <2>4, IssuedBody
  <2>6. 8 + (f + 1) - j = 8 + f
    BY <1>4
  <2> QED BY <1>2, <1>4, <2>5, <2>6
<1>5. CASE j # 1
  <2>1. PICK i \in 1 .. 6 : i = j - 1 /\ j \in 2 .. 7
    BY <1>5
  <2>2. i <= f /\ f - i <= d - 8 /\ 8 + (f + 1) - j = 8 + f - i
    BY <1>1, <2>1
  <2>3. pipe[i].data = Word(fwd_port, Cur(fwd_port), 8 + f - i)
    BY <1>3, <2>1, <2>2
  <2> QED BY <1>2, <2>1, <2>2, <2>3
<1> QED BY <1>4, <1>5

\* While a frame goes on, the engine and what it needs are where they should be.
LEMMA ForwardContinues ==
    ASSUME Setting, Inv, NEW go \in BOOLEAN, NEW answered \in BOOLEAN, NEW line \in LineEvents,
           Clock(go, answered, line), fwd_state # "IDLE", ~LastWord
    PROVE  Underway(Cur(fwd_port), Position)'
<1>1. /\ Lines(line) /\ Issue(go) /\ Settle(line) /\ Forward(go) /\ (go => MayStart)
  BY DEF Clock
<1>2. Sized(Cur(fwd_port)) /\ fwd_port \in PortNumbers /\ port_states[fwd_port] = "FORWARDING"
  BY LastWordWhen
<1>3. PICK p \in PortNumbers : p = fwd_port
  BY <1>2
<1>4. fwd_port' = p /\ Cur(p)' = Cur(p)
  BY <1>1, <1>2, <1>3, EngineBusy, CurKept
<1>5. PICK f \in Nat \ {0} : f = Position /\ Position' = f + 1
  BY <1>1, PositionMoves
<1>6. PICK d, x : Size(Cur(p), d, x)
  BY <1>2, <1>3 DEF Sized
<1>7. /\ f + 1 < d
      /\ fwd_bytesToSend' = x - 8 * (f + 1)
      /\ fwd_bytesToRead' = IF x > 8 * (f + 1) + 56 THEN x - (8 * (f + 1) + 56) ELSE 0
      /\ Step(f + 1)'
  BY <1>1, <1>3, <1>5, <1>6, EngineCounts
<1>8. \A j \in 1 .. 7 : j <= f + 1 /\ f + 1 - j <= d - 8 =>
         pipe'[j].data = Word(p, Cur(p), 8 + (f + 1) - j)
  BY <1>1, <1>3, <1>5, <1>6, EnginePipe
<1>9. d = DataWords(Cur(p)) /\ x = Cur(p).len
  BY <1>6 DEF Size
<1>10. PICK g \in Nat : g = f + 1 /\ g # 1
  BY <1>5
<1>11. Step(g)' = Step(Position)'
  BY <1>5, <1>10 DEF Step
<1>12. Cur(fwd_port)' = Cur(p)
  BY <1>4 DEF Cur
<1> QED BY <1>4, <1>5, <1>7, <1>8, <1>9, <1>10, <1>11, <1>12 DEF Underway, Word

\* A frame that starts is the first one of its port.
LEMMA ForwardBegins ==
    ASSUME Setting, Inv, NEW answered \in BOOLEAN, NEW line \in LineEvents,
           Clock(TRUE, answered, line)
    PROVE  /\ fwd_state' = "HEADER_1" /\ fwd_port' = main_rr_port
           /\ Underway(Cur(fwd_port), Position)'
           /\ axi_tx'.word.valid /\ axi_tx'.word.data = Word(main_rr_port, Cur(main_rr_port), 1)
           /\ axi_tx'.word.bytes = 8 /\ axi_tx'.word.last = FALSE
           /\ axi_tx'.user = Cur(main_rr_port).vlan /\ axi_tx'.dest = Cur(main_rr_port).dst
<1>1. /\ Lines(line) /\ Issue(TRUE) /\ Settle(line) /\ FwdStart /\ MayStart /\ Storage
  BY DEF Clock, Forward
<1>2. /\ fwd_state = "IDLE" /\ port_states[main_rr_port] = "FWD_READY" /\ ~LastWord
      /\ main_rr_port \in PortNumbers /\ owed[main_rr_port] # <<>>
  BY <1>1, StartsAlone
<1>3. PICK p \in PortNumbers : p = main_rr_port
  BY <1>2
<1>4. fwd_port' = p /\ fwd_state' = "HEADER_1" /\ Cur(p)' = Cur(p)
  BY <1>1, <1>2, <1>3, CurKept DEF FwdStart
<1>5. Position' = 1
  BY <1>1, <1>2, PositionMoves
<1>6. /\ port_hdr[p] = Cur(p) /\ port_word0[p] = Word(p, Cur(p), 1) /\ port_word1[p] = Word(p, Cur(p), 2)
      /\ port_dst[p] = Cur(p).dst
  BY <1>2, <1>3 DEF Inv, KeptInv
<1>7. port_word1'[p] = Word(p, Cur(p), 2)
  BY <1>1, <1>2, <1>3, <1>6, StorageReceived DEF Received
<1>8. PICK d, x : Size(Cur(p), d, x)
  BY <1>2, <1>3, CurFrame DEF Inv, Sized
<1>9. d \in 8 .. 190 /\ x \in 0 .. 1518 /\ 8 * d - 8 < x /\ x <= 8 * d /\ d = DataWords(Cur(p)) /\ x = Cur(p).len
  BY <1>8 DEF Size
<1>10. fwd_bytesToSend' = x - 8
  <2>1. fwd_bytesToSend' = Bytes(x - 8)
    BY <1>1, <1>3, <1>6, <1>9 DEF FwdStart
  <2>2. x - 8 \in 0 .. 2047
    BY <1>9
  <2> QED BY <2>1, <2>2 DEF Bytes
<1>11. fwd_bytesToRead' = IF x > 64 THEN x - 64 ELSE 0
  BY <1>1, <1>3, <1>6, <1>9 DEF FwdStart
<1>12. Step(1)'
  BY <1>4 DEF Step
<1>13. pipe'[1].data = Word(p, Cur(p), 8)
  BY <1>1, <1>3, Shifted, IssuedStart
<1>14. Underway(Cur(fwd_port), Position)'
  <2>1. Cur(fwd_port)' = Cur(p)
    BY <1>4 DEF Cur
  <2>2. 1 < DataWords(Cur(p)) /\ fwd_bytesToSend' = Cur(p).len - 8 * 1
        /\ fwd_bytesToRead' = IF Cur(p).len > 8 * 1 + 56 THEN Cur(p).len - (8 * 1 + 56) ELSE 0
    BY <1>9, <1>10, <1>11
  <2>3. \A j \in 1 .. 7 : j <= 1 /\ 1 - j <= DataWords(Cur(p)) - 8 => pipe'[j].data = Word(p, Cur(p), 8 + 1 - j)
    BY <1>13
  <2>4. Step(Position)'
    BY <1>5, <1>12 DEF Step
  <2> QED BY <1>4, <1>5, <1>7, <2>1, <2>2, <2>3, <2>4 DEF Underway, Word
<1>15. axi_tx' = [word |-> [Send(Word(p, Cur(p), 1)) EXCEPT !.last = LastWord],
                  user |-> Cur(p).vlan, dest |-> Cur(p).dst]
  BY <1>1, <1>3, <1>6 DEF FwdStart
<1>16. axi_tx'.word.valid /\ axi_tx'.word.data = Word(p, Cur(p), 1)
       /\ axi_tx'.word.bytes = 8 /\ axi_tx'.word.last = FALSE
  <2>1. LastWord = FALSE
    BY <1>2 DEF LastWord
  <2>2. axi_tx'.word = [Send(Word(p, Cur(p), 1)) EXCEPT !.last = FALSE]
    BY <1>15, <2>1
  <2> QED BY <2>2 DEF Send
<1> QED BY <1>3, <1>4, <1>14, <1>15, <1>16

\* Without a frame the bus is quiet.
LEMMA EngineIdle ==
    ASSUME Inv, NEW go, ~go, fwd_state = "IDLE", Forward(go)
    PROVE  fwd_state' = "IDLE" /\ axi_tx'.word.valid = FALSE /\ axi_tx'.word.last = FALSE
<1>1. FwdIdle
  BY DEF Forward, FwdHeader1, FwdPrefetchData, FwdWord, FwdLastWord, LastWord
<1>2. axi_tx = [word |-> axi_tx.word, user |-> axi_tx.user, dest |-> axi_tx.dest]
  BY DEF Inv, Types, BusTyped, BusType
<1>3. axi_tx'.word = Idle
  BY <1>1, <1>2 DEF FwdIdle
<1>4. fwd_state' = "IDLE"
  BY <1>1 DEF FwdIdle, fwdVars
<1> QED BY <1>3, <1>4 DEF Idle

\* The forwarding engine follows one frame at a time.
LEMMA ForwardStep ==
    ASSUME Setting, Inv, NEW go \in BOOLEAN, NEW answered \in BOOLEAN, NEW line \in LineEvents,
           Clock(go, answered, line)
    PROVE  ForwardInv'
<1>1. /\ Forward(go) /\ (go => MayStart) /\ Answer(answered) /\ PortStates(go, answered)
  BY DEF Clock
<1>2. \A p \in PortNumbers : port_states[p] = "FORWARDING" <=> fwd_state # "IDLE" /\ p = fwd_port
  BY DEF Inv, ForwardInv
<1>3. CASE go
  <2>1. Clock(TRUE, answered, line)
    BY <1>3
  <2>2. fwd_state' = "HEADER_1" /\ fwd_port' = main_rr_port /\ Underway(Cur(fwd_port), Position)'
    BY <2>1, ForwardBegins
  <2>3. fwd_state = "IDLE" /\ port_states[main_rr_port] = "FWD_READY" /\ main_rr_port \in PortNumbers
    BY <1>1, <1>3, StartsAlone
  <2>4. ASSUME NEW p \in PortNumbers PROVE port_states'[p] = "FORWARDING" <=> p = main_rr_port
    <3>1. p = main_rr_port => port_states'[p] = "FORWARDING"
      BY <1>1, <1>3, <2>3, Moves
    <3>2. port_states'[p] = "FORWARDING" => p = main_rr_port
      BY <1>1, <1>2, <2>3, ReceivedFrom
    <3> QED BY <3>1, <3>2
  <2> QED BY <2>2, <2>4 DEF ForwardInv
<1>4. CASE ~go /\ fwd_state = "IDLE"
  <2>1. fwd_state' = "IDLE"
    BY <1>1, <1>4, EngineIdle
  <2>2. ASSUME NEW p \in PortNumbers PROVE port_states'[p] # "FORWARDING"
    BY <1>1, <1>2, <1>4, ReceivedFrom
  <2> QED BY <2>1, <2>2 DEF ForwardInv
<1>5. CASE fwd_state # "IDLE"
  <2>1. ~go /\ fwd_port' = fwd_port /\ (fwd_state' = "IDLE" <=> LastWord)
    BY <1>1, <1>5, EngineBusy, EngineWords
  <2>2. ASSUME NEW p \in PortNumbers
        PROVE  port_states'[p] = "FORWARDING" <=> port_states[p] = "FORWARDING" /\ ~LastWord
    <3>1. port_states'[p] = "FORWARDING" => port_states[p] = "FORWARDING" /\ ~LastWord
      BY <1>1, <2>1, ReceivedFrom
    <3>2. port_states[p] = "FORWARDING" /\ ~LastWord => port_states'[p] = "FORWARDING"
      BY <1>1, Moves
    <3> QED BY <3>1, <3>2
  <2>3. ~LastWord => Underway(Cur(fwd_port), Position)'
    BY <1>5, ForwardContinues
  <2> QED BY <1>2, <1>5, <2>1, <2>2, <2>3 DEF ForwardInv
<1> QED BY <1>3, <1>4, <1>5

\* The bus carries one frame at a time, whole.
LEMMA BusStep ==
    ASSUME Setting, Inv, NEW go \in BOOLEAN, NEW answered \in BOOLEAN, NEW line \in LineEvents,
           Clock(go, answered, line)
    PROVE  BusInv'
<1>1. /\ Lines(line) /\ Settle(line) /\ Forward(go) /\ (go => MayStart)
      /\ Answer(answered) /\ PortStates(go, answered)
  BY DEF Clock
<1>2. Position \in Nat /\ sent' = IF fwd_state = "IDLE" THEN 0 ELSE Position
  BY <1>1, PositionMoves
<1>5. CASE go
  <2>1. Clock(TRUE, answered, line)
    BY <1>5
  <2>2. PICK p \in PortNumbers : /\ p = main_rr_port /\ port_states[p] = "FWD_READY"
                                 /\ fwd_state = "IDLE" /\ owed[p] # <<>>
    BY <1>1, <1>5, StartsAlone
  <2>3. /\ fwd_state' = "HEADER_1" /\ fwd_port' = p
        /\ axi_tx'.word.valid /\ axi_tx'.word.data = Word(p, Cur(p), 1)
        /\ axi_tx'.word.bytes = 8 /\ axi_tx'.word.last = FALSE
        /\ axi_tx'.user = Cur(p).vlan /\ axi_tx'.dest = Cur(p).dst
    BY <2>1, <2>2, ForwardBegins
  <2>4. owed'[p] # <<>> /\ Cur(p)' = Cur(p)
    BY <1>1, <2>2, CurKept
  <2>5. sent' + 1 = 1
    BY <1>2, <2>2
  <2>6. 1 # DataWords(Cur(p))
    <3>1. Sized(Cur(p))
      BY <2>2, CurFrame DEF Inv
    <3> QED BY <3>1 DEF Sized, Size
  <2>7. FramesInOrder'
    <3>1. Head(owed'[p]) = Cur(p)
      BY <2>4 DEF Cur
    <3>2. axi_tx'.word.data = Word(p, Head(owed'[p]), sent' + 1)
      BY <2>3, <2>5, <3>1
    <3>3. axi_tx'.word.last <=> sent' + 1 = DataWords(Head(owed'[p]))
      BY <2>3, <2>5, <2>6, <3>1
    <3>4. /\ axi_tx'.word.bytes = IF axi_tx'.word.last THEN Strobes(Head(owed'[p]).len - 8 * sent') ELSE 8
          /\ axi_tx'.user = Head(owed'[p]).vlan /\ axi_tx'.dest = Head(owed'[p]).dst
      BY <2>3, <3>1
    <3> QED BY <2>4, <3>2, <3>3, <3>4 DEF FramesInOrder, Word, DataWords
  <2>8. axi_tx'.word.data.port = p
    BY <2>3 DEF Word
  <2> QED BY <2>3, <2>7, <2>8 DEF BusInv
<1>6. CASE ~go /\ fwd_state = "IDLE"
  <2>1. fwd_state' = "IDLE" /\ axi_tx'.word.valid = FALSE /\ axi_tx'.word.last = FALSE
    BY <1>1, <1>6, EngineIdle
  <2>2. sent' = 0
    BY <1>2, <1>6
  <2> QED BY <2>1, <2>2 DEF BusInv, FramesInOrder
<1>7. CASE fwd_state # "IDLE"
  <2>1. ~go /\ fwd_port' = fwd_port
    BY <1>1, <1>7, EngineBusy
  <2>2. PICK p \in PortNumbers : /\ p = fwd_port /\ port_states[p] = "FORWARDING" /\ owed[p] # <<>>
                                 /\ Sized(Cur(p))
    BY <1>7, LastWordWhen
  <2>3. LastWord <=> Position + 1 = DataWords(Cur(p))
    BY <1>7, <2>2, LastWordWhen
  <2>4. /\ axi_tx'.word.valid /\ axi_tx'.word.data = Word(p, Cur(p), Position + 1)
        /\ axi_tx'.word.last = LastWord
        /\ axi_tx'.word.bytes = IF LastWord THEN Strobes(Cur(p).len - 8 * Position) ELSE 8
        /\ axi_tx'.user = axi_tx.user /\ axi_tx'.dest = axi_tx.dest
        /\ fwd_state' = "IDLE" <=> LastWord
    BY <1>1, <1>7, <2>2, EngineWords
  <2>5. axi_tx.user = Cur(p).vlan /\ axi_tx.dest = Cur(p).dst
    BY <1>7, <2>2, BusNow
  <2>6. owed'[p] # <<>> /\ Cur(p)' = Cur(p)
    BY <1>1, <2>2, CurKept
  <2>7. sent' = Position /\ sent' + 1 = Position + 1
    BY <1>2, <1>7
  <2>8. FramesInOrder'
    <3>1. Head(owed'[p]) = Cur(p)
      BY <2>6 DEF Cur
    <3>2. axi_tx'.word.data = Word(p, Head(owed'[p]), sent' + 1)
      BY <2>4, <2>7, <3>1
    <3>3. axi_tx'.word.last <=> sent' + 1 = DataWords(Head(owed'[p]))
      BY <2>3, <2>4, <2>7, <3>1
    <3>4. axi_tx'.word.bytes = IF axi_tx'.word.last THEN Strobes(Head(owed'[p]).len - 8 * sent') ELSE 8
      BY <2>4, <2>7, <3>1
    <3>5. axi_tx'.user = Head(owed'[p]).vlan /\ axi_tx'.dest = Head(owed'[p]).dst
      BY <2>4, <2>5, <3>1
    <3> QED BY <2>6, <3>2, <3>3, <3>4, <3>5 DEF FramesInOrder, Word, DataWords
  <2>9. axi_tx'.word.data.port = p
    BY <2>4 DEF Word
  <2>10. LastWord => port_states'[p] = "IDLE"
    BY <1>1, <2>2, Moves
  <2> QED BY <2>1, <2>2, <2>4, <2>8, <2>9, <2>10 DEF BusInv
<1> QED BY <1>5, <1>6, <1>7

-----------------------------------------------------------------------------
(* What is owed.                                                           *)

\* A port that has words in its RAM has a frame to send, and only then.
LEMMA WordsAreOwed ==
    ASSUME Setting, Inv, NEW p \in PortNumbers, port_states[p] = "IDLE"
    PROVE  fifo_rd_size(p) # 0 => Unsent(p) # <<>>
<1>1. Passed(p) = 0
  BY PassedBy
<1>2. LaidOut(Unsent(p), p, mem[p], rd_ptr[p], fifo_rd_size(p), 0) /\ fifo_rd_size(p) \in Nat
  BY <1>1, SizeType DEF Inv, LaidInv
<1> QED BY <1>2, LaidEmpty

\* The frames owed are frames of the port, one at least while it is busy.
LEMMA OwedStep ==
    ASSUME Setting, Inv, NEW go \in BOOLEAN, NEW answered \in BOOLEAN, NEW line \in LineEvents,
           Clock(go, answered, line)
    PROVE  OwedInv'
<1>1. /\ Lines(line) /\ Settle(line) /\ (go => MayStart)
      /\ Answer(answered) /\ PortStates(go, answered)
  BY DEF Clock
<1>2. ASSUME NEW p \in PortNumbers
      PROVE  owed'[p] \in Seq(Traffic[p]) /\ (Unsent(p) # <<>> => owed'[p] # <<>>)
  <2>1. owed'[p] = Unsent(p) \o New(line, p) /\ Unsent(p) \in Seq(Traffic[p]) /\ New(line, p) \in Seq(Traffic[p])
    BY <1>1, Owing
  <2>2. \A s, t \in Seq(Traffic[p]) : s \o t \in Seq(Traffic[p]) /\ (s # <<>> => s \o t # <<>>)
    OBVIOUS
  <2> QED BY <2>1, <2>2
<1>3. ASSUME NEW p \in PortNumbers, port_states'[p] # "IDLE" PROVE owed'[p] # <<>>
  <2>1. CASE port_states[p] # "IDLE"
    BY <1>1, <2>1, CurKept
  <2>2. CASE port_states[p] = "IDLE"
    <3>1. fifo_rd_size(p) # 0
      BY <1>1, <1>3, <2>2, Moves
    <3> QED BY <1>2, <2>2, <3>1, WordsAreOwed
  <2> QED BY <2>1, <2>2
<1> QED BY <1>2, <1>3 DEF OwedInv

-----------------------------------------------------------------------------
(* What lies in the RAMs.                                                  *)

\* The counters by which a port's place is told are natural numbers.
LEMMA PassedType ==
    ASSUME Setting, Inv, NEW p \in PortNumbers
    PROVE  Passed(p) \in Nat
<1>1. prefetch_wr_count \in 0 .. 4 /\ Position \in Nat
  BY DEF Inv, Types, PortTyped, OwedTyped, Position
<1>2. CASE port_states[p] = "FORWARDING"
  <2>1. Sized(Cur(p))
    BY <1>2, BusyUnsent, CurFrame DEF Inv
  <2>2. PICK d, x : Size(Cur(p), d, x)
    BY <2>1 DEF Sized
  <2>3. DataWords(Cur(p)) \in Nat
    BY <2>2 DEF Size
  <2>4. PassedWhileForwarding(Cur(p), Position) \in Nat
    BY <1>1, <2>3 DEF PassedWhileForwarding
  <2> QED BY <1>2, <2>4, PassedBy
<1>3. CASE port_states[p] # "FORWARDING"
  BY <1>1, <1>3 DEF Passed
<1> QED BY <1>2, <1>3

\* A port whose line brings nothing keeps its pointer and its RAM.
LEMMA LinesElsewhere ==
    ASSUME Types, NEW line \in LineEvents, Lines(line), NEW p \in PortNumbers,
           line # Down(p), line.kind # "frame" \/ line.port # p
    PROVE  mem'[p] = mem[p] /\ wr_ptr_committed'[p] = wr_ptr_committed[p]
<1>1. mem \in [PortNumbers -> [Addresses -> Words]] /\ wr_ptr_committed \in [PortNumbers -> Pointers]
  BY DEF Types, FifoTyped
<1>2. CASE line.kind = "none"
  BY <1>2 DEF Lines, fifoVars
<1>3. CASE line.kind = "down"
  <2>1. Unplug(line.port) /\ line.port # p
    BY <1>3, LineKinds DEF Lines
  <2> QED BY <1>1, <2>1 DEF Unplug
<1>4. CASE line.kind = "frame"
  <2>1. Queue(line.port, line.frame) /\ line.port # p
    BY <1>4 DEF Lines
  <2> QED BY <1>1, <2>1 DEF Queue
<1> QED BY <1>2, <1>3, <1>4 DEF Lines

\* A frame that is queued is written behind what is there, if there is room.
LEMMA QueueWrites ==
    ASSUME Types, NEW p \in PortNumbers, NEW fr \in Frames, Queue(p, fr)
    PROVE  /\ mem'[p] = Written(mem[p], wr_ptr_committed[p], p, fr)
           /\ fifo_rd_size(p) + DataWords(fr) + 1 <= DEPTH
           /\ wr_ptr_committed'[p] = Ptr(wr_ptr_committed[p] + (DataWords(fr) + 1))
<1> DEFINE words == [k \in 1 .. (DataWords(fr) + 1) |-> Word(p, fr, k - 1)]
           At(a) == {k \in DOMAIN words : Addr(wr_ptr_committed[p] + k - 1) = a}
<1>1. mem \in [PortNumbers -> [Addresses -> Words]] /\ wr_ptr_committed \in [PortNumbers -> Pointers]
  BY DEF Types, FifoTyped
<1>2. PICK d \in 0 .. 190 : d = DataWords(fr)
  BY WordCount
<1>3. Len(words) = d + 1
  <2>1. \A k \in 1 .. (d + 1) : k - 1 \in 0 .. 190
    OBVIOUS
  <2>2. \A k \in 1 .. (d + 1) : Word(p, fr, k - 1) \in Words
    BY <2>1, WordFacts
  <2>3. words = [k \in 1 .. (d + 1) |-> Word(p, fr, k - 1)]
    BY <1>2
  <2>4. words \in [1 .. (d + 1) -> Words] /\ d + 1 \in Nat
    BY <2>2, <2>3
  <2> HIDE DEF words
  <2> QED BY <2>4
<1>4. /\ fifo_rd_size(p) + Len(words) <= DEPTH
      /\ mem' = [mem EXCEPT ![p] = [a \in DOMAIN @ |->
                   IF At(a) # {} THEN words[CHOOSE k \in At(a) : TRUE] ELSE @[a]]]
      /\ wr_ptr_committed' = [wr_ptr_committed EXCEPT ![p] = Ptr(@ + Len(words))]
  BY DEF Queue
<1>5. Written(mem[p], wr_ptr_committed[p], p, fr) =
         [a \in DOMAIN mem[p] |-> IF At(a) # {} THEN words[CHOOSE k \in At(a) : TRUE] ELSE mem[p][a]]
  BY DEF Written
<1> HIDE DEF words, At
<1>6. mem'[p] = Written(mem[p], wr_ptr_committed[p], p, fr)
  BY <1>1, <1>4, <1>5
<1>7. fifo_rd_size(p) \in Nat
  BY SizeType
<1> QED BY <1>1, <1>2, <1>3, <1>4, <1>6, <1>7, ReaderAssumption

\* How many words are there with the write pointer of the next clock.
SizeAfter(p) == Ptr(wr_ptr_committed'[p] - rd_ptr[p])

\* After what the lines do a port's RAM holds the rest of the frames it owes then.
LEMMA LaidQueued ==
    ASSUME Setting, Inv, NEW line \in LineEvents, Lines(line), Settle(line),
           NEW p \in PortNumbers, line # Down(p)
    PROVE  /\ SizeAfter(p) \in 0 .. DEPTH /\ owed'[p] \in Seq(Frames)
           /\ LaidOut(owed'[p], p, mem'[p], rd_ptr[p], SizeAfter(p), Passed(p))
<1>1. owed'[p] = Unsent(p) \o New(line, p) /\ Unsent(p) \in Seq(Traffic[p])
  BY Owing
<1>2. owed'[p] \in Seq(Frames) /\ Unsent(p) \in Seq(Frames)
  <2>1. owed'[p] \in Seq(Frames) /\ owed[p] \in Seq(Frames)
    BY SettleTypes DEF Inv, Types, OwedTyped
  <2>2. owed[p] # <<>> => Tail(owed[p]) \in Seq(Frames)
    BY <2>1, OneAndTail
  <2> QED BY <2>1, <2>2 DEF Unsent
<1>3. /\ fifo_rd_size(p) \in 0 .. DEPTH
      /\ LaidOut(Unsent(p), p, mem[p], rd_ptr[p], fifo_rd_size(p), Passed(p))
  BY SizeType, ReaderAssumption DEF Inv, LaidInv
<1>4. CASE line.kind = "frame" /\ line.port = p
  <2>1. PICK fr \in Frames : fr = line.frame
    BY LineKinds
  <2>2. Queue(p, fr)
    BY <1>4, <2>1 DEF Lines
  <2>3. owed'[p] = Append(Unsent(p), fr)
    <3>1. owed'[p] = Unsent(p) \o <<fr>>
      BY <1>1, <1>4, <2>1 DEF New
    <3>2. \A s \in Seq(Frames) : s \o <<fr>> = Append(s, fr)
      OBVIOUS
    <3> QED BY <1>2, <3>1, <3>2
  <2>4. PICK d \in 0 .. 190 : d = DataWords(fr)
    BY WordCount
  <2>5. /\ mem'[p] = Written(mem[p], wr_ptr_committed[p], p, fr)
        /\ fifo_rd_size(p) + d + 1 <= DEPTH
        /\ wr_ptr_committed'[p] = Ptr(wr_ptr_committed[p] + (d + 1))
    BY <2>2, <2>4, QueueWrites DEF Inv
  <2>6. /\ rd_ptr[p] \in Pointers /\ wr_ptr_committed[p] \in Pointers /\ mem[p] \in [Addresses -> Words]
        /\ Passed(p) \in Nat
    BY SizeType, PassedType DEF Inv
  <2>7. SizeAfter(p) = fifo_rd_size(p) + d + 1
    <3>1. PICK n \in Nat : n = d + 1
      BY <2>4
    <3>2. fifo_rd_size(p) + n <= DEPTH
      BY <1>3, <2>5, <3>1, ReaderAssumption
    <3>3. Ptr(Ptr(wr_ptr_committed[p] + n) - rd_ptr[p]) = fifo_rd_size(p) + n
      BY <2>6, <3>2, CountToThere DEF fifo_rd_size
    <3> QED BY <1>3, <2>5, <3>1, <3>3 DEF SizeAfter
  <2>8. LaidOut(Append(Unsent(p), fr), p, Written(mem[p], wr_ptr_committed[p], p, fr), rd_ptr[p],
                fifo_rd_size(p) + d + 1, Passed(p))
    BY <1>2, <1>3, <2>4, <2>5, <2>6, LaidMore DEF fifo_rd_size
  <2>9. SizeAfter(p) \in 0 .. DEPTH
    BY <1>3, <2>4, <2>5, <2>7, ReaderAssumption
  <2> QED BY <1>2, <2>3, <2>5, <2>7, <2>8, <2>9
<1>5. CASE ~(line.kind = "frame" /\ line.port = p)
  <2>1. mem'[p] = mem[p] /\ wr_ptr_committed'[p] = wr_ptr_committed[p]
    BY <1>5, LinesElsewhere DEF Inv
  <2>2. SizeAfter(p) = fifo_rd_size(p)
    BY <2>1 DEF SizeAfter, fifo_rd_size
  <2>3. owed'[p] = Unsent(p)
    <3>1. New(line, p) = <<>>
      BY <1>5 DEF New
    <3> QED BY <1>1, <3>1, ConcatEmptySeq
  <2> QED BY <1>2, <1>3, <2>1, <2>2, <2>3
<1> QED BY <1>4, <1>5

\* A port that is not being forwarded reads when it fetches, or starts with a long frame.
LEMMA IncWhen ==
    ASSUME Setting, Inv, NEW go, go => MayStart, NEW p \in PortNumbers
    PROVE  /\ port_states[p] = "IDLE" => ~rd_ptr_inc(p, go)
           /\ port_states[p] = "DATA_READY" => (rd_ptr_inc(p, go) <=> p = main_rr_port /\ Fetching)
           /\ \A s \in 1 .. 9 : Fetched(p, s) => (rd_ptr_inc(p, go) <=> s < 8)
           /\ port_states[p] = "MAC_LOOKUP" => ~rd_ptr_inc(p, go)
           /\ port_states[p] = "FWD_READY" =>
                 (rd_ptr_inc(p, go) <=> p = main_rr_port /\ go /\ Cur(p).len > 64)
           /\ port_states[p] = "FORWARDING" =>
                 (rd_ptr_inc(p, go) <=> Blocked /\ (fwd_state = "HEADER_1" \/ fwd_bytesToRead > 0))
<1>1. p = main_rr_port /\ Fetching => port_states[p] \in {"DATA_READY", "HEADER", "WORD_0", "WORD_1"}
  BY DEF Fetching, rrState, Fetches
<1>2. p = main_rr_port /\ Prefetching => port_states[p] = "PREFETCH"
  BY DEF Prefetching, Turn, rrState
<1>3. p = main_rr_port /\ go => port_states[p] = "FWD_READY"
  BY DEF MayStart, MayGo, Turn, rrState
<1>4. p = fwd_port /\ Blocked => port_states[p] = "FORWARDING"
  BY DEF Blocked, Inv, ForwardInv
<1>5. port_states[p] = "FORWARDING" => p = fwd_port
  BY DEF Inv, ForwardInv
<1>6. port_states[p] = "FWD_READY" => port_hdr[p] = Cur(p)
  BY DEF Inv, KeptInv
<1>7. ASSUME NEW s \in 1 .. 9, Fetched(p, s) PROVE rd_ptr_inc(p, go) <=> s < 8
  <2>1. port_states[p] \in FetchStates
    BY <1>7, FetchTurns DEF Inv
  <2>2. port_states[p] # "FORWARDING" /\ port_states[p] # "FWD_READY"
    BY <2>1 DEF FetchStates
  <2>3. rd_ptr_inc(p, go) <=> p = main_rr_port /\ (Fetching \/ Prefetching)
    BY <1>3, <1>4, <2>2 DEF rd_ptr_inc
  <2>4. CASE s < 4
    BY <1>7, <2>3, <2>4, FetchTurns
  <2>5. CASE s \in 4 .. 7
    BY <1>7, <2>3, <2>5, FetchTurns
  <2>6. CASE s \in 8 .. 9
    BY <1>7, <2>3, <2>6, FetchTurns
  <2> QED BY <2>4, <2>5, <2>6
<1>8. port_states[p] \in {"IDLE", "MAC_LOOKUP"} => ~rd_ptr_inc(p, go)
  BY <1>1, <1>2, <1>3, <1>4 DEF rd_ptr_inc
<1>9. port_states[p] = "DATA_READY" => (rd_ptr_inc(p, go) <=> p = main_rr_port /\ Fetching)
  BY <1>1, <1>2, <1>3, <1>4 DEF rd_ptr_inc
<1>10. port_states[p] = "FWD_READY" => (rd_ptr_inc(p, go) <=> p = main_rr_port /\ go /\ Cur(p).len > 64)
  BY <1>1, <1>2, <1>4, <1>6 DEF rd_ptr_inc
<1>11. port_states[p] = "FORWARDING" =>
          (rd_ptr_inc(p, go) <=> Blocked /\ (fwd_state = "HEADER_1" \/ fwd_bytesToRead > 0))
  BY <1>1, <1>2, <1>3, <1>5 DEF rd_ptr_inc
<1> QED BY <1>7, <1>8, <1>9, <1>10, <1>11

\* A frame is settled in the clock after the one that sends its last word.
LEMMA UnsentThen ==
    ASSUME Setting, Inv, NEW go \in BOOLEAN, NEW answered \in BOOLEAN, NEW line \in LineEvents,
           Clock(go, answered, line), NEW p \in PortNumbers
    PROVE  Unsent(p)' = IF port_states[p] = "FORWARDING" /\ LastWord THEN Tail(owed'[p]) ELSE owed'[p]
<1>1. /\ Lines(line) /\ Settle(line) /\ Forward(go) /\ (go => MayStart)
  BY DEF Clock
<1>2. Unsent(p)' = IF axi_tx'.word.last /\ axi_tx'.word.data.port = p /\ owed'[p] # <<>>
                   THEN Tail(owed'[p]) ELSE owed'[p]
  BY DEF Unsent
<1>3. port_states[p] = "FORWARDING" <=> fwd_state # "IDLE" /\ p = fwd_port
  BY DEF Inv, ForwardInv
<1>4. CASE go
  <2>1. Clock(TRUE, answered, line)
    BY <1>4
  <2>2. axi_tx'.word.last = FALSE
    BY <2>1, ForwardBegins
  <2>3. ~LastWord
    BY <1>1, <1>4, StartsAlone
  <2> QED BY <1>2, <2>2, <2>3
<1>5. CASE ~go /\ fwd_state = "IDLE"
  BY <1>1, <1>2, <1>3, <1>5, EngineIdle
<1>6. CASE ~go /\ fwd_state # "IDLE"
  <2>1. axi_tx'.word.data = Word(fwd_port, Cur(fwd_port), Position + 1) /\ axi_tx'.word.last = LastWord
    BY <1>1, <1>6, EngineWords
  <2>2. axi_tx'.word.data.port = fwd_port
    BY <2>1 DEF Word
  <2>3. port_states[p] = "FORWARDING" => owed'[p] # <<>>
    BY <1>1, CurKept
  <2> QED BY <1>2, <1>3, <1>6, <2>1, <2>2, <2>3
<1> QED BY <1>4, <1>5, <1>6

\* The read pointer of a port stays, or passes a word of its frame, or has passed them all.
Stays(p, inc) == ~inc /\ Passed(p)' = Passed(p) /\ Unsent(p)' = owed'[p]
Passes(p, inc) ==
    /\ inc /\ port_states[p] # "IDLE" /\ Passed(p) <= DataWords(Cur(p))
    /\ Passed(p)' = Passed(p) + 1 /\ Unsent(p)' = owed'[p]
Ends(p, inc) ==
    /\ ~inc /\ port_states[p] # "IDLE" /\ Passed(p) = DataWords(Cur(p)) + 1
    /\ Passed(p)' = 0 /\ Unsent(p)' = Tail(owed'[p])

\* A port that fetches.
LEMMA PassedFetching ==
    ASSUME Setting, Inv, NEW go \in BOOLEAN, NEW answered \in BOOLEAN, NEW line \in LineEvents,
           Clock(go, answered, line), NEW p \in PortNumbers, NEW s \in 1 .. 9, Fetched(p, s)
    PROVE  Stays(p, rd_ptr_inc(p, go)) \/ Passes(p, rd_ptr_inc(p, go))
<1>1. /\ Lines(line) /\ Settle(line) /\ (go => MayStart)
      /\ Answer(answered) /\ PortStates(go, answered)
  BY DEF Clock
<1>2. port_states[p] \in FetchStates
  BY FetchTurns DEF Inv
<1>3. port_states[p] # "IDLE" /\ Unsent(p)' = owed'[p]
  BY <1>2, UnsentThen DEF FetchStates
<1>4. rd_ptr_inc(p, go) <=> s < 8
  BY <1>1, IncWhen
<1>5. AtStage(p, s) /\ Passed(p) = IF s = 9 THEN 8 ELSE s
  BY PassedBy DEF Fetched
<1>6. Sized(Cur(p))
  BY <1>3, BusyUnsent, CurFrame DEF Inv
<1>7. DataWords(Cur(p)) \in 8 .. 190
  BY <1>6 DEF Sized, Size
<1>8. CASE s = 9
  <2>1. port_states[p] = "PREFETCH" /\ rd.mtype = "WORD1" /\ rd.port = p
    BY <1>8, KnownAtNine
  <2>2. port_states'[p] = "MAC_LOOKUP"
    BY <1>1, <2>1, Moves
  <2>3. Passed(p)' = 8
    BY <2>2 DEF Passed
  <2> QED BY <1>3, <1>4, <1>5, <1>8, <2>3 DEF Stays
<1>9. CASE s < 9
  <2>1. Fetched(p, s + 1)'
    BY <1>9, FetchContinues
  <2>2. AtStage(p, s + 1)'
    BY <2>1 DEF Fetched
  <2>3. Passed(p)' = IF s = 8 THEN 8 ELSE s + 1
    <3>1. CASE s \in 1 .. 2
      <4>1. s + 1 = 2 \/ s + 1 = 3
        BY <3>1
      <4> QED BY <2>2, <3>1, <4>1 DEF AtStage, Passed
    <3>2. CASE s \in 3 .. 7
      <4>1. s + 1 \in 4 .. 8 /\ s + 1 \in 4 .. 9 /\ (s + 1) - 4 \in Int
        BY <3>2
      <4>2. port_states'[p] = "PREFETCH" /\ prefetch_wr_count' = (s + 1) - 4
        BY <2>2, <4>1 DEF AtStage
      <4> QED BY <3>2, <4>2 DEF Passed
    <3>3. CASE s = 8
      <4>1. port_states'[p] = "PREFETCH" /\ prefetch_wr_count' = 4
        BY <2>2, <3>3 DEF AtStage
      <4> QED BY <3>3, <4>1 DEF Passed
    <3> QED BY <1>9, <3>1, <3>2, <3>3
  <2>4. CASE s = 8
    BY <1>3, <1>4, <1>5, <2>3, <2>4 DEF Stays
  <2>5. CASE s < 8
    BY <1>3, <1>4, <1>5, <1>7, <2>3, <2>5 DEF Passes
  <2> QED BY <1>9, <2>4, <2>5
<1> QED BY <1>8, <1>9

\* A port whose frame is being forwarded.
LEMMA PassedForwarding ==
    ASSUME Setting, Inv, NEW go \in BOOLEAN, NEW answered \in BOOLEAN, NEW line \in LineEvents,
           Clock(go, answered, line), NEW p \in PortNumbers, port_states[p] = "FORWARDING"
    PROVE  \/ Stays(p, rd_ptr_inc(p, go))
           \/ Passes(p, rd_ptr_inc(p, go))
           \/ Ends(p, rd_ptr_inc(p, go))
<1>1. /\ Lines(line) /\ Settle(line) /\ (go => MayStart) /\ Forward(go)
      /\ Answer(answered) /\ PortStates(go, answered)
  BY DEF Clock
<1>2. fwd_state # "IDLE" /\ p = fwd_port
  BY DEF Inv, ForwardInv
<1>3. Sized(Cur(p)) /\ Underway(Cur(p), Position) /\ (LastWord <=> Position + 1 = DataWords(Cur(p)))
  BY <1>2, LastWordWhen
<1>4. PICK f \in Nat \ {0} : f = Position /\ Position' = f + 1
  BY <1>1, <1>2, PositionMoves
<1>5. PICK d, x : Size(Cur(p), d, x)
  BY <1>3 DEF Sized
<1>6. d = DataWords(Cur(p)) /\ d \in 8 .. 190 /\ x \in 0 .. 1518 /\ 8 * d - 8 < x /\ x <= 8 * d
  BY <1>5 DEF Size
<1>7. /\ f < d
      /\ fwd_bytesToRead = IF x > 8 * f + 56 THEN x - (8 * f + 56) ELSE 0
      /\ Step(f)
  BY <1>3, <1>4, <1>5 DEF Underway, Size
<1>8. fwd_bytesToRead > 0 <=> 8 + f <= d
  BY <1>6, <1>7
<1>9. rd_ptr_inc(p, go) <=> f = 1 \/ 8 + f <= d
  <2>1. fwd_state \in {"IDLE", "HEADER_1", "PREFETCH_DATA", "BODY", "TAIL"}
    BY DEF Inv, Types, FwdTyped
  <2>2. fwd_state = "HEADER_1" <=> f = 1
    BY <1>7 DEF Step
  <2>3. fwd_bytesToRead > 0 => Blocked
    BY <1>2, <1>7, <2>1 DEF Step, Blocked
  <2>4. fwd_state = "HEADER_1" => Blocked
    BY DEF Blocked
  <2>5. rd_ptr_inc(p, go) <=> Blocked /\ (fwd_state = "HEADER_1" \/ fwd_bytesToRead > 0)
    BY <1>1, IncWhen
  <2> QED BY <1>8, <2>2, <2>3, <2>4, <2>5
<1>10. Passed(p) = IF f = 1 /\ d = 8 THEN 8 ELSE IF 8 + f <= d THEN 8 + f ELSE d + 1
  <2>1. Passed(p) = PassedWhileForwarding(Cur(p), f)
    BY <1>4, PassedBy
  <2> QED BY <1>6, <2>1 DEF PassedWhileForwarding
<1>11. CASE LastWord
  <2>1. port_states'[p] = "IDLE"
    BY <1>1, <1>11, Moves
  <2>2. Passed(p)' = 0
    BY <2>1 DEF Passed
  <2>3. Unsent(p)' = Tail(owed'[p])
    BY <1>11, UnsentThen
  <2>4. f + 1 = d
    BY <1>3, <1>4, <1>6, <1>11
  <2>5. ~rd_ptr_inc(p, go) /\ Passed(p) = d + 1
    BY <1>6, <1>9, <1>10, <2>4
  <2> QED BY <1>6, <2>2, <2>3, <2>5 DEF Ends
<1>12. CASE ~LastWord
  <2>1. port_states'[p] = "FORWARDING"
    BY <1>1, <1>12, Moves
  <2>2. Cur(p)' = Cur(p)
    BY <1>1, CurKept
  <2>3. Passed(p)' = PassedWhileForwarding(Cur(p), f + 1)
    BY <1>4, <2>1, <2>2 DEF Passed, PassedWhileForwarding, DataWords
  <2>4. Passed(p)' = IF 8 + (f + 1) <= d THEN 8 + (f + 1) ELSE d + 1
    BY <1>6, <2>3 DEF PassedWhileForwarding
  <2>5. Unsent(p)' = owed'[p]
    BY <1>12, UnsentThen
  <2>6. CASE f = 1 \/ 8 + f <= d
    <3>1. Passed(p) <= d /\ Passed(p)' = Passed(p) + 1
      BY <1>6, <1>10, <2>4, <2>6
    <3> QED BY <1>6, <1>9, <2>5, <2>6, <3>1 DEF Passes
  <2>7. CASE ~(f = 1 \/ 8 + f <= d)
    <3>1. Passed(p)' = Passed(p)
      BY <1>6, <1>10, <2>4, <2>7
    <3> QED BY <1>9, <2>5, <2>7, <3>1 DEF Stays
  <2> QED BY <2>6, <2>7
<1> QED BY <1>11, <1>12

\* Every port.
LEMMA PassedMoves ==
    ASSUME Setting, Inv, NEW go \in BOOLEAN, NEW answered \in BOOLEAN, NEW line \in LineEvents,
           Clock(go, answered, line), NEW p \in PortNumbers
    PROVE  \/ Stays(p, rd_ptr_inc(p, go))
           \/ Passes(p, rd_ptr_inc(p, go))
           \/ Ends(p, rd_ptr_inc(p, go))
<1>1. /\ Lines(line) /\ Settle(line) /\ (go => MayStart)
      /\ Answer(answered) /\ PortStates(go, answered)
  BY DEF Clock
<1>2. CASE port_states[p] = "IDLE"
  <2>1. port_states'[p] \in {"IDLE", "DATA_READY"}
    BY <1>1, <1>2, Moves
  <2>2. Passed(p) = 0 /\ Passed(p)' = 0
    BY <1>2, <2>1 DEF Passed
  <2> QED BY <1>1, <1>2, <2>2, IncWhen, UnsentThen DEF Stays
<1>3. CASE port_states[p] = "DATA_READY"
  <2>1. Passed(p) = 0 /\ Unsent(p)' = owed'[p]
    BY <1>3, UnsentThen DEF Passed
  <2>2. CASE p = main_rr_port /\ Fetching
    <3>1. port_states'[p] = "HEADER" /\ rd_ptr_inc(p, go)
      BY <1>1, <1>3, <2>2, Moves, IncWhen
    <3>2. Passed(p)' = 1
      BY <3>1 DEF Passed
    <3>3. Sized(Cur(p))
      BY <1>3, BusyUnsent, CurFrame DEF Inv
    <3>4. 0 <= DataWords(Cur(p))
      BY <3>3 DEF Sized, Size
    <3>5. Passed(p) <= DataWords(Cur(p)) /\ Passed(p)' = Passed(p) + 1 /\ port_states[p] # "IDLE"
      BY <1>3, <2>1, <3>2, <3>4
    <3> QED BY <2>1, <3>1, <3>5 DEF Passes
  <2>3. CASE ~(p = main_rr_port /\ Fetching)
    <3>1. port_states'[p] = "DATA_READY" /\ ~rd_ptr_inc(p, go)
      BY <1>1, <1>3, <2>3, Moves, IncWhen
    <3>2. Passed(p)' = 0
      BY <3>1 DEF Passed
    <3> QED BY <2>1, <3>1, <3>2 DEF Stays
  <2> QED BY <2>2, <2>3
<1>4. CASE port_states[p] \in FetchStates
  <2>1. PICK s \in 1 .. 9 : Fetched(p, s)
    BY <1>4 DEF Inv, FetchInv
  <2> QED BY <2>1, PassedFetching
<1>5. CASE port_states[p] = "MAC_LOOKUP"
  <2>1. port_states'[p] \in {"MAC_LOOKUP", "FWD_READY"} /\ ~rd_ptr_inc(p, go)
    BY <1>1, <1>5, Moves, IncWhen
  <2>2. Passed(p) = 8 /\ Passed(p)' = 8
    BY <1>5, <2>1 DEF Passed
  <2> QED BY <1>5, <2>1, <2>2, UnsentThen DEF Stays
<1>6. CASE port_states[p] = "FWD_READY"
  <2>1. Passed(p) = 8 /\ Unsent(p)' = owed'[p]
    BY <1>6, UnsentThen DEF Passed
  <2>2. CASE p = main_rr_port /\ go
    <3>1. port_states'[p] = "FORWARDING"
      BY <1>1, <1>6, <2>2, Moves
    <3>2. Cur(p)' = Cur(p) /\ Position' = 1
      BY <1>1, <1>6, <2>2, CurKept, PositionMoves, StartsAlone
    <3>3. Passed(p)' = PassedWhileForwarding(Cur(p), 1)
      BY <3>1, <3>2 DEF Passed, PassedWhileForwarding, DataWords
    <3>4. Sized(Cur(p))
      BY <1>6, BusyUnsent, CurFrame DEF Inv
    <3>5. PICK d, x : Size(Cur(p), d, x)
      BY <3>4 DEF Sized
    <3>6. d = DataWords(Cur(p)) /\ d \in 8 .. 190 /\ x = Cur(p).len /\ x \in 0 .. 1518 /\ 8 * d - 8 < x /\ x <= 8 * d
      BY <3>5 DEF Size
    <3>7. Passed(p)' = IF d = 8 THEN 8 ELSE 9
      BY <3>3, <3>6 DEF PassedWhileForwarding
    <3>8. rd_ptr_inc(p, go) <=> d # 8
      <4>1. rd_ptr_inc(p, go) <=> x > 64
        <5>1. rd_ptr_inc(p, go) <=> Cur(p).len > 64
          BY <1>1, <1>6, <2>2, IncWhen
        <5> QED BY <3>6, <5>1
      <4> QED BY <3>6, <4>1
    <3>9. CASE d = 8
      BY <2>1, <3>7, <3>8, <3>9 DEF Stays
    <3>10. CASE d # 8
      <4>1. 8 <= DataWords(Cur(p))
        BY <3>6
      <4> QED BY <1>6, <2>1, <3>7, <3>8, <3>10, <4>1 DEF Passes
    <3> QED BY <3>9, <3>10
  <2>3. CASE ~(p = main_rr_port /\ go)
    <3>1. port_states'[p] = "FWD_READY" /\ ~rd_ptr_inc(p, go)
      BY <1>1, <1>6, <2>3, Moves, IncWhen
    <3>2. Passed(p)' = 8
      BY <3>1 DEF Passed
    <3> QED BY <2>1, <3>1, <3>2 DEF Stays
  <2> QED BY <2>2, <2>3
<1>7. CASE port_states[p] = "FORWARDING"
  BY <1>7, PassedForwarding
<1>8. port_states[p] \in States
  BY DEF Inv, Types, PortTyped
<1> QED BY <1>2, <1>3, <1>4, <1>5, <1>6, <1>7, <1>8 DEF States, FetchStates

\* Every port's RAM holds the rest of the frames it owes.
LEMMA LaidStep ==
    ASSUME Setting, Inv, NEW go \in BOOLEAN, NEW answered \in BOOLEAN, NEW line \in LineEvents,
           Clock(go, answered, line)
    PROVE  LaidInv'
<1>1. /\ Lines(line) /\ Settle(line) /\ (go => MayStart) /\ ReadPointers(go, line)
      /\ Answer(answered) /\ PortStates(go, answered)
  BY DEF Clock
<1>2. SUFFICES ASSUME NEW p \in PortNumbers
               PROVE  /\ Ptr(wr_ptr_committed'[p] - rd_ptr'[p]) <= DEPTH
                      /\ LaidOut(Unsent(p)', p, mem'[p], rd_ptr'[p],
                                 Ptr(wr_ptr_committed'[p] - rd_ptr'[p]), Passed(p)')
  BY DEF LaidInv, fifo_rd_size, LaidOut, Layout, Ptr, Addr, Word, DataWords
<1>3. CASE line = Down(p)
  <2>1. port_states[p] = "IDLE" /\ wr_ptr_committed'[p] = 0
    <3>1. Unplug(p)
      BY <1>1, <1>3 DEF Lines, Down
    <3>2. wr_ptr_committed \in [PortNumbers -> Pointers]
      BY DEF Inv, Types, FifoTyped
    <3> QED BY <3>1, <3>2 DEF Unplug, Setting
  <2>2. rd_ptr'[p] = 0
    BY <1>1, <1>3 DEF ReadPointers
  <2>3. Ptr(wr_ptr_committed'[p] - rd_ptr'[p]) = 0
    BY <2>1, <2>2, PtrFacts, ReaderAssumption
  <2>4. owed'[p] = <<>>
    BY <1>1, <1>3 DEF Settle
  <2>5. Unsent(p)' = <<>>
    BY <2>1, <2>4, UnsentThen
  <2>6. Passed(p)' = 0
    BY <1>1, <2>1, Moves DEF Passed
  <2> QED BY <2>2, <2>3, <2>5, <2>6, LaidEmpty, ReaderAssumption
<1>4. CASE line # Down(p)
  <2>1. /\ SizeAfter(p) \in 0 .. DEPTH /\ owed'[p] \in Seq(Frames)
        /\ LaidOut(owed'[p], p, mem'[p], rd_ptr[p], SizeAfter(p), Passed(p))
    BY <1>1, <1>4, LaidQueued
  <2>2. rd_ptr'[p] = IF rd_ptr_inc(p, go) THEN Ptr(rd_ptr[p] + 1) ELSE rd_ptr[p]
    BY <1>1, <1>4 DEF ReadPointers
  <2>3. rd_ptr[p] \in Pointers /\ wr_ptr_committed'[p] \in Pointers /\ Passed(p) \in Nat
    BY <1>1, SizeType, PassedType, LinesTypes DEF Inv
  <2>4. port_states[p] # "IDLE" => owed'[p] # <<>> /\ Head(owed'[p]) = Cur(p)
    BY <1>1, CurKept DEF Cur
  <2>5. CASE Stays(p, rd_ptr_inc(p, go))
    BY <2>1, <2>2, <2>5, ReaderAssumption DEF Stays, SizeAfter
  <2>6. CASE Passes(p, rd_ptr_inc(p, go))
    <3>1. owed'[p] # <<>> /\ Passed(p) <= DataWords(Head(owed'[p])) /\ rd_ptr'[p] = Ptr(rd_ptr[p] + 1)
      BY <2>2, <2>4, <2>6 DEF Passes
    <3>2. DataWords(Head(owed'[p])) + 1 <= SizeAfter(p) + Passed(p)
      BY <2>1, <2>3, <3>1, LaidHead
    <3>3. SizeAfter(p) > 0
      <4>1. Head(owed'[p]) \in Frames
        BY <2>1, <3>1
      <4>2. PICK e \in 0 .. 190 : e = DataWords(Head(owed'[p]))
        BY <4>1, WordCount
      <4> QED BY <2>1, <2>3, <3>1, <3>2, <4>2, ReaderAssumption
    <3>4. LaidOut(owed'[p], p, mem'[p], Ptr(rd_ptr[p] + 1), SizeAfter(p) - 1, Passed(p) + 1)
      BY <2>1, <2>3, <3>1, LaidRead
    <3>5. Ptr(wr_ptr_committed'[p] - Ptr(rd_ptr[p] + 1)) = SizeAfter(p) - 1
      BY <2>3, <3>3, CountFromNext DEF SizeAfter
    <3>6. SizeAfter(p) - 1 <= DEPTH
      BY <2>1, ReaderAssumption
    <3> QED BY <2>6, <3>1, <3>4, <3>5, <3>6 DEF Passes
  <2>7. CASE Ends(p, rd_ptr_inc(p, go))
    <3>1. owed'[p] # <<>> /\ Passed(p) = DataWords(Head(owed'[p])) + 1 /\ rd_ptr'[p] = rd_ptr[p]
      BY <2>2, <2>4, <2>7 DEF Ends
    <3>2. LaidOut(Tail(owed'[p]), p, mem'[p], rd_ptr[p], SizeAfter(p), 0)
      BY <2>1, <2>3, <3>1, LaidDone
    <3>3. SizeAfter(p) <= DEPTH
      BY <2>1, ReaderAssumption
    <3> QED BY <2>7, <3>1, <3>2, <3>3 DEF Ends, SizeAfter
  <2> QED BY <2>5, <2>6, <2>7, PassedMoves
<1> QED BY <1>3, <1>4

-----------------------------------------------------------------------------
(* The invariant, and what follows from it.                                *)

\* Nothing is owed, read or asked for in the beginning.
LEMMA InvStart == Setting /\ Init => Inv
<1> SUFFICES ASSUME Setting, Init PROVE Inv
  OBVIOUS
<1>1. Types
  BY TypesStart
<1>2. /\ \A p \in PortNumbers : /\ port_states[p] = "IDLE" /\ owed[p] = <<>>
                                /\ wr_ptr_committed[p] = 0 /\ rd_ptr[p] = 0
      /\ \A i \in 1 .. 7 : pipe[i] = NoRead
      /\ fwd_state = "IDLE" /\ sent = 0 /\ lookups = <<>>
      /\ axi_tx.word.valid = FALSE /\ axi_tx.word.last = FALSE
  BY DEF Init, Setting, Idle
<1>3. OwedInv
  <2>1. \A p \in PortNumbers : owed[p] \in Seq(Traffic[p]) /\ \A i : i \notin DOMAIN owed[p]
    <3>1. \A S : <<>> \in Seq(S)
      OBVIOUS
    <3>2. \A i : i \notin DOMAIN <<>>
      OBVIOUS
    <3> QED BY <1>2, <3>1, <3>2
  <2> QED BY <1>2, <2>1 DEF OwedInv
<1>4. BusInv
  BY <1>2 DEF BusInv, FramesInOrder
<1>5. ForwardInv /\ FetchInv /\ KeptInv
  BY <1>2 DEF ForwardInv, FetchInv, KeptInv, FetchStates, Received
<1>6. PipeInv
  BY <1>2 DEF PipeInv, NoRead, FetchTypes
<1>7. LookupInv
  BY <1>2 DEF LookupInv
<1>8. LaidInv
  <2>1. Ptr(0 - 0) = 0
    BY PtrFacts, ReaderAssumption
  <2>2. ASSUME NEW p \in PortNumbers
        PROVE  fifo_rd_size(p) = 0 /\ Unsent(p) = <<>> /\ Passed(p) = 0
    BY <1>2, <2>1 DEF fifo_rd_size, Unsent, Passed
  <2> QED BY <2>2, LaidEmpty, ReaderAssumption DEF LaidInv
<1> QED BY <1>1, <1>3, <1>4, <1>5, <1>6, <1>7, <1>8 DEF Inv

\* Whatever happens in a clock keeps it.
LEMMA InvStep == Setting /\ Inv /\ [Next]_vars => Inv'
<1> SUFFICES ASSUME Setting, Inv, [Next]_vars PROVE Inv'
  OBVIOUS
<1>1. Types'
  BY TypesStep DEF Inv
<1>2. CASE UNCHANGED vars
  <2>1. /\ UNCHANGED <<mem, wr_ptr_committed, rd_ptr, pipe, lookups, owed, sent, axi_tx>>
        /\ UNCHANGED <<port_states, port_hdr, port_word0, port_word1, prefetch_buf, port_dst>>
        /\ UNCHANGED <<main_rr_port, prefetch_wr_count>>
        /\ UNCHANGED <<fwd_state, fwd_port, fwd_bytesToRead, fwd_bytesToSend, prefetch_rd_addr>>
    BY <1>2 DEF vars, fifoVars, portVars, mainVars, fwdVars
  <2>2. \A p : Cur(p)' = Cur(p) /\ Unsent(p)' = Unsent(p) /\ fifo_rd_size(p)' = fifo_rd_size(p)
    BY <2>1 DEF Cur, Unsent, fifo_rd_size, Ptr
  <2>3. Position' = Position /\ Blocked' = Blocked
    BY <2>1 DEF Position, Blocked
  <2>4. OwedInv'
    BY <2>1 DEF Inv, OwedInv
  <2>5. BusInv'
    BY <2>1 DEF Inv, BusInv, FramesInOrder, Word, DataWords
  <2>6. ForwardInv'
    BY <2>1, <2>2, <2>3 DEF Inv, ForwardInv, Underway, Step, DataWords, Word
  <2>7. FetchInv'
    <3>1. \A p, s : AtStage(p, s)' = AtStage(p, s)
      BY <2>1 DEF AtStage
    <3>2. \A p, k : FetchRead(p, k)' = FetchRead(p, k)
      BY <2>2 DEF FetchRead, FetchType, Word
    <3>3. ASSUME NEW p \in PortNumbers, NEW s \in 1 .. 9, Fetched(p, s) PROVE Fetched(p, s)'
      BY <2>1, <2>2, <3>1, <3>2, <3>3 DEF Fetched, Word
    <3> QED BY <2>1, <2>3, <3>3 DEF Inv, FetchInv
  <2>8. PipeInv'
    BY <2>1, <2>2, <2>3 DEF Inv, PipeInv, Due, Word
  <2>9. KeptInv'
    <3>1. \A p, x : Coming(p, x)' = Coming(p, x)
      BY <2>1 DEF Coming
    <3>2. \A p \in PortNumbers, k \in Nat : Word(p, Cur(p), k)' = Word(p, Cur(p), k)
      BY <2>2 DEF Word
    <3>3. ASSUME NEW p \in PortNumbers, port_states'[p] \in {"MAC_LOOKUP", "FWD_READY"}
          PROVE  port_hdr'[p] = Cur(p)' /\ port_word0'[p] = Word(p, Cur(p), 1)' /\ port_word1'[p] = Word(p, Cur(p), 2)'
      BY <2>1, <2>2, <3>3 DEF Inv, KeptInv, Word
    <3>4. ASSUME NEW p \in PortNumbers, port_states'[p] = "FWD_READY" PROVE port_dst'[p] = (Cur(p).dst)'
      BY <2>1, <2>2, <3>4 DEF Inv, KeptInv
    <3>5. ASSUME NEW p \in PortNumbers, port_states'[p] \in Received, NEW x \in 0 .. 4
          PROVE  prefetch_buf'[p][x] = Word(p, Cur(p), 3 + x)' \/ Coming(p, x)'
      <4>1. prefetch_buf[p][x] = Word(p, Cur(p), 3 + x) \/ Coming(p, x)
        BY <2>1, <3>5 DEF Inv, KeptInv
      <4> QED BY <2>1, <3>1, <3>2, <4>1
    <3> QED BY <3>3, <3>4, <3>5 DEF KeptInv
  <2>10. LookupInv'
    BY <2>1, <2>2 DEF Inv, LookupInv, Asked, Word
  <2>11. LaidInv'
    <3>1. \A p : Passed(p)' = Passed(p)
      BY <2>1, <2>2, <2>3 DEF Passed, PassedWhileForwarding, DataWords
    <3> QED BY <2>1, <2>2, <3>1 DEF Inv, LaidInv, LaidOut, Layout, Addr, Word, DataWords
  <2> QED BY <1>1, <2>4, <2>5, <2>6, <2>7, <2>8, <2>9, <2>10, <2>11 DEF Inv
<1>3. ASSUME NEW go \in BOOLEAN, NEW answered \in BOOLEAN, NEW line \in LineEvents, Clock(go, answered, line)
      PROVE  Inv'
  <2>1. OwedInv' /\ BusInv' /\ ForwardInv'
    BY <1>3, OwedStep, BusStep, ForwardStep
  <2>2. FetchInv' /\ PipeInv' /\ KeptInv'
    BY <1>3, FetchStep, PipeStep, KeptStep
  <2>3. LookupInv' /\ LaidInv'
    BY <1>3, LookupStep, LaidStep
  <2> QED BY <1>1, <2>1, <2>2, <2>3 DEF Inv
<1> QED BY <1>2, <1>3 DEF Next

\* The invariant says where the read pointer of an idle port stands, and of whom the
\* MAC table is asked.
LEMMA InvKeepsPlace == Setting /\ Inv => KeepsItsPlace
<1> SUFFICES ASSUME Setting, Inv PROVE KeepsItsPlace
  OBVIOUS
<1>1. ASSUME NEW p \in PortNumbers, port_states[p] = "IDLE"
      PROVE  IF Unsent(p) = <<>> THEN fifo_rd_size(p) = 0
             ELSE /\ fifo_rd_size(p) > DataWords(Head(Unsent(p)))
                  /\ mem[p][Addr(rd_ptr[p])] = Word(p, Head(Unsent(p)), 0)
  <2>1. Passed(p) = 0
    BY <1>1, PassedBy
  <2>2. LaidOut(Unsent(p), p, mem[p], rd_ptr[p], fifo_rd_size(p), 0) /\ fifo_rd_size(p) \in 0 .. DEPTH
    BY <2>1, SizeType, ReaderAssumption DEF Inv, LaidInv
  <2>3. Unsent(p) \in Seq(Frames)
    <3>1. owed[p] \in Seq(Frames)
      BY DEF Inv, Types, OwedTyped
    <3>2. owed[p] # <<>> => Tail(owed[p]) \in Seq(Frames)
      BY <3>1, OneAndTail
    <3> QED BY <3>1, <3>2 DEF Unsent
  <2>4. CASE Unsent(p) = <<>>
    <3>1. fifo_rd_size(p) \in Nat
      BY <2>2, ReaderAssumption
    <3> QED BY <2>2, <2>4, <3>1, LaidEmpty
  <2>5. CASE Unsent(p) # <<>>
    <3>1. PICK d \in 0 .. 190 : d = DataWords(Head(Unsent(p)))
      BY <2>3, <2>5, OneAndTail, WordCount
    <3>2. rd_ptr[p] \in Pointers /\ 0 \in Nat /\ 0 <= DataWords(Head(Unsent(p)))
      BY <3>1, SizeType DEF Inv
    <3>3. /\ mem[p][Addr(rd_ptr[p])] = Word(p, Head(Unsent(p)), 0)
          /\ DataWords(Head(Unsent(p))) + 1 <= fifo_rd_size(p) + 0
      BY <2>2, <2>3, <2>5, <3>2, LaidHead
    <3>4. fifo_rd_size(p) > DataWords(Head(Unsent(p)))
      BY <2>2, <3>1, <3>3, ReaderAssumption
    <3> QED BY <2>5, <3>3, <3>4
  <2> QED BY <2>4, <2>5
<1>2. ASSUME NEW i \in DOMAIN lookups
      PROVE  LET p == lookups[i].tid  fr == Head(owed[p]) IN
             /\ port_states[p] = "MAC_LOOKUP" /\ owed[p] # <<>>
             /\ \A j \in DOMAIN lookups : lookups[j].tid = p => i = j
             /\ lookups[i].vlan = fr.vlan
             /\ lookups[i].word0 = Word(p, fr, 1) /\ lookups[i].word1 = Word(p, fr, 2)
  <2>1. lookups[i] \in Requests
    BY DEF Inv, Types, LookupTyped
  <2>2. PICK p \in PortNumbers : p = lookups[i].tid
    BY <2>1 DEF Requests
  <2>3. Asked(lookups[i]) /\ \A j \in DOMAIN lookups : lookups[j].tid = p => i = j
    BY <2>2 DEF Inv, LookupInv
  <2>4. port_states[p] = "MAC_LOOKUP"
    BY <2>2, <2>3 DEF Asked
  <2>5. owed[p] # <<>>
    BY <2>4, BusyUnsent
  <2> QED BY <2>2, <2>3, <2>4, <2>5 DEF Asked, Cur
<1> QED BY <1>1, <1>2 DEF KeepsItsPlace

\* The word on the bus is one of its frame's: what is left at the last one is one to
\* eight bytes, and fewer than eight if the length is no multiple of it.
LEMMA LastStrobes ==
    ASSUME Setting, NoFullLastWord, Inv, FramesInOrder
    PROVE  FramesIntact
<1> SUFFICES ASSUME axi_tx.word.valid
             PROVE  \E p \in PortNumbers :
                      /\ owed[p] # <<>>
                      /\ LET fr == Head(owed[p]) IN
                         /\ axi_tx.word.data = Word(p, fr, sent + 1)
                         /\ axi_tx.word.last <=> sent + 1 = DataWords(fr)
                         /\ axi_tx.word.bytes = IF axi_tx.word.last THEN fr.len - 8 * sent ELSE 8
                         /\ axi_tx.user = fr.vlan /\ axi_tx.dest = fr.dst
  BY DEF FramesIntact
<1>1. PICK p \in PortNumbers :
         /\ owed[p] # <<>>
         /\ LET fr == Head(owed[p]) IN
            /\ axi_tx.word.data = Word(p, fr, sent + 1)
            /\ axi_tx.word.last <=> sent + 1 = DataWords(fr)
            /\ axi_tx.word.bytes = IF axi_tx.word.last THEN Strobes(fr.len - 8 * sent) ELSE 8
            /\ axi_tx.user = fr.vlan /\ axi_tx.dest = fr.dst
  BY DEF FramesInOrder
<1>2. axi_tx.word.last => Strobes(Cur(p).len - 8 * sent) = Cur(p).len - 8 * sent
  <2>1. Sized(Cur(p)) /\ Cur(p) \in Traffic[p]
    BY <1>1, CurFrame DEF Inv
  <2>2. PICK d, x : Size(Cur(p), d, x)
    BY <2>1 DEF Sized
  <2>3. x % 8 # 0 /\ x \in Nat /\ d \in Nat /\ x <= 8 * d
    BY <2>1, <2>2 DEF NoFullLastWord, Size
  <2>4. x # 8 * d
    BY <2>3
  <2>5. PICK s \in Nat : s = sent
    BY DEF Inv, Types, OwedTyped
  <2>6. s + 1 = d => x - 8 * s < 8
    BY <2>3, <2>4
  <2>7. axi_tx.word.last => s + 1 = d /\ x = Cur(p).len
    BY <1>1, <2>2, <2>5 DEF Size, Cur
  <2> QED BY <2>5, <2>6, <2>7 DEF Strobes
<1> QED BY <1>1, <1>2 DEF Cur

\* In this setting, whatever the lengths of the frames, the crossbar gets
\* every one of them complete and in order, with its own VLAN and destination and tlast on
\* its last word and no other; the strobes of a last word are the code's, those of the
\* length modulo eight (LineCardFIFOReader.sv:354-620).
THEOREM ReaderFramesInOrder == ASSUME Setting PROVE Spec => []FramesInOrder
<1>1. Init => Inv
  BY InvStart
<1>2. Inv /\ [Next]_vars => Inv'
  BY InvStep
<1>3. Inv => FramesInOrder
  BY DEF Inv, BusInv
<1> QED BY <1>1, <1>2, <1>3, PTL DEF Spec

\* When no frame's length is a multiple of eight the strobes of a last word count what is
\* left too: the crossbar gets every frame whole (LineCardFIFOReader.sv:354-620).
THEOREM ReaderFramesIntact == ASSUME Setting, NoFullLastWord PROVE Spec => []FramesIntact
<1>1. Init => Inv
  BY InvStart
<1>2. Inv /\ [Next]_vars => Inv'
  BY InvStep
<1>3. Inv => FramesIntact
  <2>1. Inv => FramesInOrder
    BY DEF Inv, BusInv
  <2> QED BY <2>1, LastStrobes
<1> QED BY <1>1, <1>2, <1>3, PTL DEF Spec

\* Between frames the read pointer of a port stands on the header of its next frame, and
\* the MAC table is asked once for the frame whose port waits, about that frame
\* (LineCardFIFOReader.sv:354-480).
THEOREM ReaderKeepsItsPlace == ASSUME Setting PROVE Spec => []KeepsItsPlace
<1>1. Init => Inv
  BY InvStart
<1>2. Inv /\ [Next]_vars => Inv'
  BY InvStep
<1>3. Inv => KeepsItsPlace
  BY InvKeepsPlace
<1> QED BY <1>1, <1>2, <1>3, PTL DEF Spec

-----------------------------------------------------------------------------
(* The refinement: to the reader each port's FIFO is a FrameQueue.         *)

\* The words a port's FIFO holds, from its read pointer on.
View(m, rp, size) == [i \in 1 .. size |-> m[Addr(rp + (i - 1))]]
Waiting(p) == View(mem[p], rd_ptr[p], fifo_rd_size(p))

\* A frame is queued as its header and every data word.
FrameWords(p, fr) == [k \in 1 .. (DataWords(fr) + 1) |-> Word(p, fr, k - 1)]
Port(p) == INSTANCE FrameQueue WITH q <- Waiting(p), WholeFrames <- {FrameWords(p, fr) : fr \in Traffic[p]}

\* A view is a sequence of words.
LEMMA ViewFacts ==
    ASSUME NEW m \in [Addresses -> Words], NEW rp \in Pointers, NEW size \in Nat
    PROVE  /\ View(m, rp, size) \in Seq(Words) /\ Len(View(m, rp, size)) = size
           /\ \A i \in 1 .. size : View(m, rp, size)[i] = m[Addr(rp + (i - 1))]
<1>1. \A i \in 1 .. size : rp + (i - 1) \in Int
  BY ReaderAssumption DEF Pointers
<1>2. \A i \in 1 .. size : m[Addr(rp + (i - 1))] \in Words
  BY <1>1, AddrFacts
<1>3. View(m, rp, size) \in [1 .. size -> Words]
  BY <1>2 DEF View
<1>4. \A i \in 1 .. size : View(m, rp, size)[i] = m[Addr(rp + (i - 1))]
  BY DEF View
<1> QED BY <1>3, <1>4

\* So are the words of a frame.
LEMMA FrameWordsFacts ==
    ASSUME NEW p \in PortNumbers, NEW fr \in Frames
    PROVE  /\ FrameWords(p, fr) \in Seq(Words) /\ Len(FrameWords(p, fr)) = DataWords(fr) + 1
           /\ \A k \in 0 .. DataWords(fr) : FrameWords(p, fr)[k + 1] = Word(p, fr, k)
<1>1. PICK d \in 0 .. 190 : d = DataWords(fr)
  BY WordCount
<1>2. \A k \in 1 .. (d + 1) : k - 1 \in 0 .. 190
  OBVIOUS
<1>3. \A k \in 1 .. (d + 1) : Word(p, fr, k - 1) \in Words
  BY <1>2, WordFacts
<1>4. FrameWords(p, fr) = [k \in 1 .. (d + 1) |-> Word(p, fr, k - 1)]
  BY <1>1 DEF FrameWords
<1>5. FrameWords(p, fr) \in [1 .. (d + 1) -> Words] /\ d + 1 \in Nat
  BY <1>3, <1>4
<1>6. FrameWords(p, fr) \in Seq(Words) /\ Len(FrameWords(p, fr)) = d + 1
  BY <1>5
<1>7. ASSUME NEW k \in 0 .. d PROVE FrameWords(p, fr)[k + 1] = Word(p, fr, k)
  <2>1. PICK j \in 1 .. (d + 1) : j = k + 1 /\ j - 1 = k
    OBVIOUS
  <2>2. FrameWords(p, fr)[j] = Word(p, fr, j - 1)
    BY <1>4
  <2> QED BY <2>1, <2>2
<1> QED BY <1>1, <1>6, <1>7

\* A sequence is known by its parts.
LEMMA PutTogether ==
    ASSUME NEW S, NEW s \in Seq(S), NEW w \in Seq(S), NEW t \in Seq(S), Len(t) = Len(s) + Len(w),
           \A i \in 1 .. Len(s) : t[i] = s[i],
           \A i \in 1 .. Len(t) : i > Len(s) => t[i] = w[i - Len(s)]
    PROVE  t = s \o w
<1>1. Len(s) \in Nat /\ Len(w) \in Nat
  OBVIOUS
<1>2. /\ s \o w \in Seq(S) /\ Len(s \o w) = Len(s) + Len(w)
      /\ \A i \in 1 .. Len(s) + Len(w) : (s \o w)[i] = IF i <= Len(s) THEN s[i] ELSE w[i - Len(s)]
  BY ConcatProperties
<1>3. ASSUME NEW i \in 1 .. Len(t) PROVE t[i] = (s \o w)[i]
  <2>1. CASE i <= Len(s)
    BY <1>1, <1>2, <2>1
  <2>2. CASE i > Len(s)
    BY <1>1, <1>2, <2>2
  <2> QED BY <1>1, <2>1, <2>2
<1> QED BY <1>2, <1>3, SeqEqual

\* The first word leaves a queue of words whatever joins behind.
LEMMA TailOfMore ==
    ASSUME NEW S, NEW s \in Seq(S), NEW w \in Seq(S), s # <<>>
    PROVE  Tail(s \o w) = Tail(s) \o w
<1>1. PICK n \in Nat, k \in Nat : n = Len(s) /\ k = Len(w) /\ n > 0
  OBVIOUS
<1>2. /\ s \o w \in Seq(S) /\ Len(s \o w) = n + k
      /\ \A i \in 1 .. n + k : (s \o w)[i] = IF i <= n THEN s[i] ELSE w[i - n]
  BY <1>1, ConcatProperties
<1>3. s \o w # <<>>
  BY <1>1, <1>2
<1>4. /\ Tail(s \o w) \in Seq(S) /\ Len(Tail(s \o w)) = n + k - 1
      /\ \A i \in 1 .. n + k - 1 : Tail(s \o w)[i] = (s \o w)[i + 1]
  BY <1>1, <1>2, <1>3, HeadTailProperties
<1>5. Tail(s) \in Seq(S) /\ Len(Tail(s)) = n - 1 /\ \A i \in 1 .. n - 1 : Tail(s)[i] = s[i + 1]
  BY <1>1, HeadTailProperties
<1>6. ASSUME NEW i \in 1 .. n - 1 PROVE Tail(s \o w)[i] = Tail(s)[i]
  BY <1>1, <1>2, <1>4, <1>5
<1>7. ASSUME NEW i \in 1 .. n + k - 1, i > n - 1 PROVE Tail(s \o w)[i] = w[i - (n - 1)]
  BY <1>1, <1>2, <1>4, <1>7
<1> QED BY <1>1, <1>4, <1>5, <1>6, <1>7, PutTogether

\* The read pointer passes the first word of the view.
LEMMA ViewPassed ==
    ASSUME NEW m \in [Addresses -> Words], NEW rp \in Pointers, NEW size \in 1 .. DEPTH
    PROVE  /\ View(m, rp, size) # <<>>
           /\ View(m, Ptr(rp + 1), size - 1) = Tail(View(m, rp, size))
<1>1. size \in Nat /\ size - 1 \in Nat /\ size > 0 /\ rp \in Int /\ DEPTH \in Nat
  BY ReaderAssumption DEF Pointers
<1>2. Ptr(rp + 1) \in Pointers
  BY <1>1, PtrFacts
<1>3. /\ View(m, rp, size) \in Seq(Words) /\ Len(View(m, rp, size)) = size
      /\ \A i \in 1 .. size : View(m, rp, size)[i] = m[Addr(rp + (i - 1))]
  BY <1>1, ViewFacts
<1>4. /\ View(m, Ptr(rp + 1), size - 1) \in Seq(Words) /\ Len(View(m, Ptr(rp + 1), size - 1)) = size - 1
      /\ \A i \in 1 .. size - 1 : View(m, Ptr(rp + 1), size - 1)[i] = m[Addr(Ptr(rp + 1) + (i - 1))]
  BY <1>1, <1>2, ViewFacts
<1>5. View(m, rp, size) # <<>>
  BY <1>1, <1>3
<1>6. /\ Tail(View(m, rp, size)) \in Seq(Words) /\ Len(Tail(View(m, rp, size))) = size - 1
      /\ \A i \in 1 .. size - 1 : Tail(View(m, rp, size))[i] = View(m, rp, size)[i + 1]
  BY <1>3, <1>5, HeadTailProperties
<1>7. ASSUME NEW i \in 1 .. size - 1 PROVE View(m, Ptr(rp + 1), size - 1)[i] = Tail(View(m, rp, size))[i]
  <2>1. i - 1 \in 0 .. DEPTH /\ i + 1 \in 1 .. size
    BY <1>1
  <2>2. Addr(Ptr(rp + 1) + (i - 1)) = Addr(rp + 1 + (i - 1))
    BY <2>1, AddrOfPtr
  <2>3. rp + 1 + (i - 1) = rp + ((i + 1) - 1)
    BY <1>1
  <2>4. View(m, Ptr(rp + 1), size - 1)[i] = m[Addr(Ptr(rp + 1) + (i - 1))]
    BY <1>4
  <2>5. Tail(View(m, rp, size))[i] = View(m, rp, size)[i + 1]
    BY <1>6
  <2>6. View(m, rp, size)[i + 1] = m[Addr(rp + ((i + 1) - 1))]
    BY <1>3, <2>1
  <2> QED BY <2>2, <2>3, <2>4, <2>5, <2>6
<1> QED BY <1>4, <1>5, <1>6, <1>7, SeqEqual

\* A queue with words behind it.
Followed(before, words, after) == after = before \o words

\* A frame that is queued joins the view as a whole.
LEMMA ViewJoined ==
    ASSUME NEW p \in PortNumbers, NEW fr \in Frames, NEW m \in [Addresses -> Words],
           NEW rp \in Pointers, NEW wp \in Pointers, NEW size \in Nat, size = Ptr(wp - rp),
           NEW d \in Nat, d = DataWords(fr), size + d + 1 <= DEPTH,
           Written(m, wp, p, fr) \in [Addresses -> Words]
    PROVE  Followed(View(m, rp, size), FrameWords(p, fr), View(Written(m, wp, p, fr), rp, size + d + 1))
<1> DEFINE mem2 == Written(m, wp, p, fr)
<1>1. /\ \A x \in Nat : x < size => mem2[Addr(rp + x)] = m[Addr(rp + x)]
      /\ \A k \in 0 .. d : mem2[Addr(rp + (size + k))] = Word(p, fr, k)
  BY WrittenBehind DEF LiesBehind
<1>2. /\ View(m, rp, size) \in Seq(Words) /\ Len(View(m, rp, size)) = size
      /\ \A i \in 1 .. size : View(m, rp, size)[i] = m[Addr(rp + (i - 1))]
  BY ViewFacts
<1> HIDE DEF mem2
<1>3. /\ View(mem2, rp, size + d + 1) \in Seq(Words) /\ Len(View(mem2, rp, size + d + 1)) = size + d + 1
      /\ \A i \in 1 .. (size + d + 1) : View(mem2, rp, size + d + 1)[i] = mem2[Addr(rp + (i - 1))]
  <2>1. mem2 \in [Addresses -> Words] /\ size + d + 1 \in Nat
    BY DEF mem2
  <2> QED BY <2>1, ViewFacts
<1>4. /\ FrameWords(p, fr) \in Seq(Words) /\ Len(FrameWords(p, fr)) = d + 1
      /\ \A k \in 0 .. d : FrameWords(p, fr)[k + 1] = Word(p, fr, k)
  BY FrameWordsFacts
<1>5. ASSUME NEW i \in 1 .. size PROVE View(mem2, rp, size + d + 1)[i] = View(m, rp, size)[i]
  <2>1. i - 1 \in Nat /\ i - 1 < size /\ i \in 1 .. (size + d + 1)
    OBVIOUS
  <2> QED BY <1>1, <1>2, <1>3, <2>1
<1>6. ASSUME NEW i \in 1 .. (size + d + 1), i > size
      PROVE  View(mem2, rp, size + d + 1)[i] = FrameWords(p, fr)[i - size]
  <2>1. PICK k \in 0 .. d : i - 1 = size + k /\ i - size = k + 1
    <3>1. i - size - 1 \in 0 .. d /\ i - 1 = size + (i - size - 1) /\ i - size = (i - size - 1) + 1
      BY <1>6
    <3> QED BY <3>1
  <2> QED BY <1>1, <1>3, <1>4, <2>1
<1>7. View(mem2, rp, size + d + 1) = View(m, rp, size) \o FrameWords(p, fr)
  <2> DEFINE s == View(m, rp, size)
             w == FrameWords(p, fr)
             t == View(mem2, rp, size + d + 1)
  <2>1. s \in Seq(Words) /\ w \in Seq(Words) /\ t \in Seq(Words)
    BY <1>2, <1>3, <1>4
  <2>2. Len(s) = size /\ Len(t) = size + d + 1 /\ Len(t) = Len(s) + Len(w)
    BY <1>2, <1>3, <1>4
  <2>3. /\ \A i \in 1 .. Len(s) : t[i] = s[i]
        /\ \A i \in 1 .. Len(t) : i > Len(s) => t[i] = w[i - Len(s)]
    BY <1>5, <1>6, <2>2
  <2> HIDE DEF s, w, t
  <2>4. t = s \o w
    BY <2>1, <2>2, <2>3, PutTogether
  <2> QED BY <2>4 DEF s, w, t
<1> QED BY <1>7 DEF mem2, Followed

\* What the lines do to the words a port's FIFO holds: nothing, or a frame joins them.
LEMMA LinesJoin ==
    ASSUME Setting, Inv, NEW line \in LineEvents, Lines(line), NEW p \in PortNumbers, line # Down(p)
    PROVE  \E w \in {<<>>} \cup {FrameWords(p, fr) : fr \in Traffic[p]} :
              /\ w \in Seq(Words)
              /\ View(mem'[p], rd_ptr[p], SizeAfter(p)) = Waiting(p) \o w
              /\ SizeAfter(p) \in fifo_rd_size(p) .. DEPTH /\ mem'[p] \in [Addresses -> Words]
<1>1. /\ rd_ptr[p] \in Pointers /\ wr_ptr_committed[p] \in Pointers /\ mem[p] \in [Addresses -> Words]
      /\ fifo_rd_size(p) \in Nat
  BY SizeType DEF Inv
<1>2. fifo_rd_size(p) <= DEPTH /\ DEPTH \in Nat
  BY ReaderAssumption DEF Inv, LaidInv
<1>3. mem'[p] \in [Addresses -> Words]
  BY LinesTypes DEF Inv, FifoTyped
<1>4. CASE line.kind = "frame" /\ line.port = p
  <2>1. PICK fr \in Frames : fr = line.frame /\ fr \in Traffic[p]
    BY <1>4, LineKinds
  <2>2. PICK d \in 0 .. 190 : d = DataWords(fr)
    BY WordCount
  <2>3. Queue(p, fr)
    BY <1>4, <2>1 DEF Lines
  <2>4. /\ mem'[p] = Written(mem[p], wr_ptr_committed[p], p, fr)
        /\ fifo_rd_size(p) + d + 1 <= DEPTH
        /\ wr_ptr_committed'[p] = Ptr(wr_ptr_committed[p] + (d + 1))
    BY <2>2, <2>3, QueueWrites DEF Inv
  <2>5. SizeAfter(p) = fifo_rd_size(p) + d + 1
    <3>1. PICK n \in Nat : n = d + 1
      OBVIOUS
    <3>2. fifo_rd_size(p) + n <= DEPTH
      BY <1>1, <1>2, <2>4, <3>1
    <3>3. Ptr(Ptr(wr_ptr_committed[p] + n) - rd_ptr[p]) = fifo_rd_size(p) + n
      BY <1>1, <3>2, CountToThere DEF fifo_rd_size
    <3> QED BY <1>1, <2>4, <3>1, <3>3 DEF SizeAfter
  <2>6. View(mem'[p], rd_ptr[p], SizeAfter(p)) = Waiting(p) \o FrameWords(p, fr)
    <3>1. PICK n \in Nat : n = fifo_rd_size(p)
      BY <1>1
    <3>2. n = Ptr(wr_ptr_committed[p] - rd_ptr[p]) /\ n + d + 1 <= DEPTH /\ d \in Nat
      BY <2>4, <3>1 DEF fifo_rd_size
    <3>3. Written(mem[p], wr_ptr_committed[p], p, fr) \in [Addresses -> Words]
      BY <1>3, <2>4
    <3>4. Followed(View(mem[p], rd_ptr[p], n), FrameWords(p, fr),
                 View(Written(mem[p], wr_ptr_committed[p], p, fr), rd_ptr[p], n + d + 1))
      BY <1>1, <2>2, <3>2, <3>3, ViewJoined
    <3> QED BY <2>4, <2>5, <3>1, <3>4 DEF Waiting, Followed
  <2>7. FrameWords(p, fr) \in Seq(Words)
    BY FrameWordsFacts
  <2>8. SizeAfter(p) \in fifo_rd_size(p) .. DEPTH
    BY <1>1, <1>2, <2>2, <2>4, <2>5
  <2> QED BY <1>3, <2>1, <2>6, <2>7, <2>8
<1>5. CASE ~(line.kind = "frame" /\ line.port = p)
  <2>1. mem'[p] = mem[p] /\ wr_ptr_committed'[p] = wr_ptr_committed[p]
    BY <1>5, LinesElsewhere DEF Inv
  <2>2. SizeAfter(p) = fifo_rd_size(p)
    BY <2>1 DEF SizeAfter, fifo_rd_size
  <2>3. Waiting(p) \in Seq(Words)
    BY <1>1, ViewFacts DEF Waiting
  <2>4. View(mem'[p], rd_ptr[p], SizeAfter(p)) = Waiting(p) \o <<>> /\ <<>> \in Seq(Words)
    BY <2>1, <2>2, <2>3, ConcatEmptySeq DEF Waiting
  <2>5. SizeAfter(p) \in fifo_rd_size(p) .. DEPTH
    BY <1>1, <1>2, <2>2
  <2> QED BY <1>3, <2>4, <2>5
<1> QED BY <1>4, <1>5

\* The read pointer moves only when there is a word to pass.
LEMMA NeverFromEmpty ==
    ASSUME Setting, Inv, NEW go \in BOOLEAN, NEW answered \in BOOLEAN, NEW line \in LineEvents,
           Clock(go, answered, line), NEW p \in PortNumbers, rd_ptr_inc(p, go)
    PROVE  fifo_rd_size(p) > 0
<1>1. port_states[p] # "IDLE" /\ Passed(p) <= DataWords(Cur(p))
  BY PassedMoves DEF Stays, Passes, Ends
<1>2. /\ owed[p] \in Seq(Frames) /\ owed[p] # <<>> /\ fifo_rd_size(p) \in 0 .. DEPTH
      /\ LaidOut(owed[p], p, mem[p], rd_ptr[p], fifo_rd_size(p), Passed(p))
  BY <1>1, LaidBusy
<1>3. PICK d \in 0 .. 190 : d = DataWords(Head(owed[p]))
  BY <1>2, OneAndTail, WordCount
<1>4. rd_ptr[p] \in Pointers /\ Passed(p) \in Nat
  BY SizeType, PassedType DEF Inv
<1>5. Passed(p) <= d /\ Passed(p) <= DataWords(Head(owed[p]))
  BY <1>1, <1>3 DEF Cur
<1>6. d + 1 <= fifo_rd_size(p) + Passed(p)
  BY <1>2, <1>3, <1>4, <1>5, LaidHead
<1> QED BY <1>2, <1>4, <1>5, <1>6, ReaderAssumption

\* Every clock does to a port's words what FrameQueue allows.
LEMMA PortStep ==
    ASSUME Setting, Inv, NEW go \in BOOLEAN, NEW answered \in BOOLEAN, NEW line \in LineEvents,
           Clock(go, answered, line), NEW p \in PortNumbers
    PROVE  Port(p)!Next \/ UNCHANGED Waiting(p)
<1> DEFINE wholeFrames == {FrameWords(p, fr) : fr \in Traffic[p]}
<1>1. Lines(line) /\ ReadPointers(go, line)
  BY DEF Clock
<1>2. Waiting(p)' = View(mem'[p], rd_ptr'[p], Ptr(wr_ptr_committed'[p] - rd_ptr'[p]))
  BY DEF Waiting, View, fifo_rd_size, Addr, Ptr
<1>3. CASE line = Down(p)
  <2>1. wr_ptr_committed'[p] = 0
    <3>1. Unplug(p)
      BY <1>1, <1>3 DEF Lines, Down
    <3>2. wr_ptr_committed \in [PortNumbers -> Pointers]
      BY DEF Inv, Types, FifoTyped
    <3> QED BY <3>1, <3>2 DEF Unplug
  <2>2. rd_ptr'[p] = 0
    BY <1>1, <1>3 DEF ReadPointers
  <2>3. Ptr(wr_ptr_committed'[p] - rd_ptr'[p]) = 0
    BY <2>1, <2>2, PtrFacts, ReaderAssumption
  <2>4. Waiting(p)' = <<>>
    BY <1>2, <2>3 DEF View
  <2> QED BY <2>4 DEF Port!Next, Port!Flush
<1>4. CASE line # Down(p)
  <2>1. PICK w \in {<<>>} \cup wholeFrames :
           /\ w \in Seq(Words)
           /\ View(mem'[p], rd_ptr[p], SizeAfter(p)) = Waiting(p) \o w
           /\ SizeAfter(p) \in fifo_rd_size(p) .. DEPTH /\ mem'[p] \in [Addresses -> Words]
    BY <1>1, <1>4, LinesJoin
  <2>2. rd_ptr'[p] = IF rd_ptr_inc(p, go) THEN Ptr(rd_ptr[p] + 1) ELSE rd_ptr[p]
    BY <1>1, <1>4 DEF ReadPointers
  <2>3. /\ rd_ptr[p] \in Pointers /\ mem[p] \in [Addresses -> Words]
        /\ fifo_rd_size(p) \in Nat /\ wr_ptr_committed'[p] \in Pointers
    BY <1>1, SizeType, LinesTypes DEF Inv, FifoTyped
  <2>4. Waiting(p) \in Seq(Words) /\ Len(Waiting(p)) = fifo_rd_size(p)
    BY <2>3, ViewFacts DEF Waiting
  <2>5. CASE rd_ptr_inc(p, go)
    <3>1. fifo_rd_size(p) > 0 /\ Waiting(p) # <<>>
      BY <2>3, <2>4, <2>5, NeverFromEmpty
    <3>2. SizeAfter(p) \in 1 .. DEPTH /\ SizeAfter(p) > 0
      BY <2>1, <2>3, <3>1, ReaderAssumption
    <3>3. Ptr(wr_ptr_committed'[p] - Ptr(rd_ptr[p] + 1)) = SizeAfter(p) - 1
      BY <2>3, <3>2, CountFromNext DEF SizeAfter
    <3>4. Waiting(p)' = View(mem'[p], Ptr(rd_ptr[p] + 1), SizeAfter(p) - 1)
      BY <1>2, <2>2, <2>5, <3>3
    <3>5. Waiting(p)' = Tail(Waiting(p) \o w)
      BY <2>1, <2>3, <3>2, <3>4, ViewPassed
    <3>6. Waiting(p)' = Tail(Waiting(p)) \o w
      BY <2>1, <2>4, <3>1, <3>5, TailOfMore
    <3> QED BY <2>1, <3>1, <3>6 DEF Port!Next, Port!Fetch
  <2>6. CASE ~rd_ptr_inc(p, go)
    <3>1. Waiting(p)' = Waiting(p) \o w
      BY <1>2, <2>1, <2>2, <2>6 DEF SizeAfter
    <3>2. CASE w = <<>>
      BY <2>4, <3>1, <3>2, ConcatEmptySeq
    <3>3. CASE w \in wholeFrames
      BY <3>1, <3>3 DEF Port!Next, Port!Publish
    <3> QED BY <2>1, <3>2, <3>3
  <2> QED BY <2>5, <2>6
<1> QED BY <1>3, <1>4

\* In this setting the reader takes a port's words as FrameQueue hands
\* them out, the queue the ingress controller implements: one word at a time, none from an
\* empty queue, and a link that goes down empties it (LineCardFIFOReader.sv:225-345, 443-473).
THEOREM ReaderUsesFrameQueues ==
    ASSUME Setting, NEW p \in PortNumbers
    PROVE  Spec => Port(p)!Spec
<1>1. Init => Inv
  BY InvStart
<1>2. Inv /\ [Next]_vars => Inv'
  BY InvStep
<1>3. Init => Port(p)!Init
  <2> SUFFICES ASSUME Init PROVE Waiting(p) = <<>>
    BY DEF Port!Init
  <2>1. Ptr(0 - 0) = 0
    BY PtrFacts, ReaderAssumption
  <2>2. fifo_rd_size(p) = 0
    BY <2>1 DEF Init, fifo_rd_size
  <2> QED BY <2>2 DEF Waiting, View
<1>4. Inv /\ [Next]_vars => [Port(p)!Next]_(Waiting(p))
  <2> SUFFICES ASSUME Inv, [Next]_vars PROVE Port(p)!Next \/ UNCHANGED Waiting(p)
    OBVIOUS
  <2>1. CASE Next
    BY <2>1, PortStep DEF Next
  <2>2. CASE UNCHANGED vars
    BY <2>2 DEF vars, fifoVars, Waiting, View, fifo_rd_size, Addr, Ptr
  <2> QED BY <2>1, <2>2
<1> QED BY <1>1, <1>2, <1>3, <1>4, PTL DEF Spec, Port!Spec

-----------------------------------------------------------------------------
(* An action property: nothing holds a frame up once it is on the bus.     *)

\* In every clock of a frame but its last one the following clock brings the next word of
\* the same frame, for the same destination: the words fetched beforehand and the reads
\* issued LATENCY clocks ahead leave no gap (LineCardFIFOReader.sv:540-620).
WordAfterWord ==
    axi_tx.word.valid /\ ~axi_tx.word.last =>
        /\ axi_tx'.word.valid /\ axi_tx'.word.data = [axi_tx.word.data EXCEPT !.k = @ + 1]
        /\ axi_tx'.user = axi_tx.user /\ axi_tx'.dest = axi_tx.dest

\* A clock brings the next word.
LEMMA WordFollows ==
    ASSUME Setting, Inv, [Next]_vars, axi_tx.word.valid, ~axi_tx.word.last, ~UNCHANGED vars
    PROVE  /\ axi_tx'.word.valid /\ axi_tx'.word.data = [axi_tx.word.data EXCEPT !.k = @ + 1]
           /\ axi_tx'.user = axi_tx.user /\ axi_tx'.dest = axi_tx.dest
<1>1. PICK go \in BOOLEAN, answered \in BOOLEAN, line \in LineEvents : Clock(go, answered, line)
  BY DEF Next
<1>2. Lines(line) /\ Settle(line) /\ Forward(go) /\ (go => MayStart)
  BY <1>1 DEF Clock
<1>3. fwd_state # "IDLE" /\ axi_tx.word.data.port = fwd_port /\ FramesInOrder
  BY DEF Inv, BusInv
<1>4. /\ axi_tx'.word.valid /\ axi_tx'.word.data = Word(fwd_port, Cur(fwd_port), Position + 1)
      /\ axi_tx'.user = axi_tx.user /\ axi_tx'.dest = axi_tx.dest
  BY <1>2, <1>3, EngineWords
<1>5. PICK p \in PortNumbers : axi_tx.word.data = Word(p, Cur(p), sent + 1)
  BY <1>3 DEF FramesInOrder, Cur
<1>6. p = fwd_port
  BY <1>3, <1>5 DEF Word
<1>7. Position = sent + 1
  BY DEF Position
<1>8. [Word(p, Cur(p), sent + 1) EXCEPT !.k = @ + 1] = Word(p, Cur(p), sent + 1 + 1)
  BY DEF Word
<1> QED BY <1>4, <1>5, <1>6, <1>7, <1>8

\* In this setting the bus never waits in the middle of a frame.
THEOREM ReaderNeverPauses ==
    ASSUME Setting
    PROVE  Spec => [][WordAfterWord]_vars
<1>1. Init => Inv
  BY InvStart
<1>2. Inv /\ [Next]_vars => Inv'
  BY InvStep
<1>3. Inv /\ [Next]_vars => [WordAfterWord]_vars
  <2> SUFFICES ASSUME Inv, [Next]_vars, ~UNCHANGED vars PROVE WordAfterWord
    OBVIOUS
  <2> QED BY WordFollows DEF WordAfterWord
<1> QED BY <1>1, <1>2, <1>3, PTL DEF Spec
================================================================================
