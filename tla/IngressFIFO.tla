----------------------------- MODULE IngressFIFO -----------------------------
(***************************************************************************)
(* The ingress FIFO controller of one 10/100/1000 port                     *)
(* (rtl/engine/input/GigabitIngressFIFO.sv), with the write port of its    *)
(* UltraRAM, an AXI-Stream source in front of it and a reader behind it.   *)
(*                                                                         *)
(* One Clock step is one rising edge of the fabric clock: every register   *)
(* takes its next value from the present values of all the others.         *)
(* A frame is written as data first, header last; the header write is what *)
(* publishes the frame to the reader (wr_ptr_committed).                   *)
(***************************************************************************)
EXTENDS Integers, Sequences, SequencesExt

CONSTANTS
    DEPTH,      \* words in the RAM; pointers have one bit more than addresses
    LEN_LIMIT,  \* 2^11: the header keeps 11 bits of the frame length
    Frames,     \* what the source may send
    ErrorsAnywhere  \* FALSE: the line is bad only while the wrap bit is zero

ASSUME DepthAssumption == DEPTH \in Nat /\ DEPTH > 3
ASSUME LimitAssumption == LEN_LIMIT \in Nat \ {0} /\ ErrorsAnywhere \in BOOLEAN
ASSUME FramesAssumption ==
    /\ Frames # {}
    /\ Frames \subseteq [beats : Nat \ {0, 1}, tail : 0..4, vlan : Nat \ {0}, bad : BOOLEAN]

VARIABLES
    bus,        \* axi_rx: the beat the source offers (or will offer next)
    tvalid_ff, tlast_ff, beat_ff,           \* the input pipeline stage
    wr_en, wr_addr, wr_data,                \* write port of the RAM
    wr_ptr, wr_ptr_committed, sof_ptr,
    wr_state, frame_len, frame_vlan,
    mem,        \* the RAM
    rd_ptr,     \* the reader's pointer
    rdq,        \* the reader's registered RAM read (rd_en, rd_addr)
    owed        \* history: words of good frames taken from the bus, not yet read

inVars   == <<tvalid_ff, tlast_ff, beat_ff>>
ctlVars  == <<wr_en, wr_addr, wr_data, wr_ptr, wr_ptr_committed, sof_ptr,
              wr_state, frame_len, frame_vlan>>
vars     == <<bus, inVars, ctlVars, mem, rd_ptr, rdq, owed>>

-----------------------------------------------------------------------------
(* Words.  A 32-bit half is abstracted to the beat it came from, or, in a  *)
(* header, to the pair of VLAN and length.                                 *)

Zero == <<0, 0>>
Data(lo, hi) == [hdr |-> FALSE, lo |-> lo, hi |-> hi]
Header(vlan, len) == [hdr |-> TRUE, lo |-> <<vlan, len % LEN_LIMIT>>, hi |-> Zero]

Bytes(fr) == 4 * (fr.beats - 1) + fr.tail
Half(fr, i) == IF i < fr.beats THEN <<fr.vlan, i>> ELSE Zero

\* The buffer format: a header word, then the frame in 64-bit words.
FrameWords(fr) ==
    <<Header(fr.vlan, Bytes(fr))>> \o
    [k \in 1..((Bytes(fr) + 7) \div 8) |-> Data(Half(fr, 2 * k - 2), Half(fr, 2 * k - 1))]

-----------------------------------------------------------------------------
(* Pointer arithmetic: pointers count modulo 2 * DEPTH, addresses modulo   *)
(* DEPTH.                                                                  *)

PtrWide(x) == x % (4 * DEPTH)
Ptr(x)  == x % (2 * DEPTH)
Addr(x) == x % DEPTH

WrSize == Ptr(DEPTH + rd_ptr - wr_ptr)
RdSize == Ptr(wr_ptr_committed - rd_ptr)

busLast == bus.valid /\ bus.idx = bus.fr.beats - 1
tready  == WrSize > 2 /\ ~tlast_ff
taken   == bus.valid /\ tready

\* Valid bytes of the beat in the pipeline stage, from its strobes.
wr_valid == IF beat_ff.idx = beat_ff.fr.beats - 1 THEN beat_ff.fr.tail ELSE 4
half_ff  == <<beat_ff.fr.vlan, beat_ff.idx>>

-----------------------------------------------------------------------------
Init ==
    /\ \E fr \in Frames : /\ bus = [valid |-> FALSE, fr |-> fr, idx |-> 0]
                          /\ beat_ff = [fr |-> fr, idx |-> 0]
    /\ tvalid_ff = FALSE /\ tlast_ff = FALSE
    /\ wr_en = FALSE /\ wr_addr = 0 /\ wr_data = Data(Zero, Zero)
    /\ wr_ptr = 0 /\ wr_ptr_committed = 0 /\ sof_ptr = 0
    /\ wr_state = "IDLE" /\ frame_len = 0 /\ frame_vlan = 0
    /\ mem = [a \in 0..(DEPTH - 1) |-> Data(Zero, Zero)]
    /\ rd_ptr = 0
    /\ rdq = [en |-> FALSE, addr |-> 0, want |-> Data(Zero, Zero)]
    /\ owed = <<>>

(* The source follows the AXI-Stream rules: a beat once offered stays      *)
(* offered until it is taken; gaps between beats are allowed.  When the    *)
(* next frame is chosen at most two words of the one before are still to   *)
(* be counted, so Permitted tells whether it starts with a zero wrap bit.  *)

Offer(fr, idx) == \E valid \in BOOLEAN : bus' = [valid |-> valid, fr |-> fr, idx |-> idx]

Permitted(fr) == fr.bad /\ ~ErrorsAnywhere => wr_ptr + 2 < DEPTH

Source ==
    \/ bus.valid /\ ~tready /\ UNCHANGED bus
    \/ ~bus.valid /\ Offer(bus.fr, bus.idx)
    \/ taken /\ ~busLast /\ Offer(bus.fr, bus.idx + 1)
    \/ taken /\ busLast /\ \E fr \in Frames : Permitted(fr) /\ Offer(fr, 0)

\* The history of the frames the FIFO is answerable for.
Promise == IF taken /\ busLast /\ ~bus.fr.bad THEN FrameWords(bus.fr) ELSE <<>>

ReadNothing ==
    /\ UNCHANGED rd_ptr
    /\ rdq' = [rdq EXCEPT !.en = FALSE]
    /\ owed' = owed \o Promise

ReadWord ==
    /\ RdSize > 0
    /\ rd_ptr' = Ptr(rd_ptr + 1)
    /\ rdq' = [en |-> TRUE, addr |-> Addr(rd_ptr),
               want |-> IF owed = <<>> THEN Data(Zero, Zero) ELSE Head(owed)]
    /\ owed' = (IF owed = <<>> THEN <<>> ELSE Tail(owed)) \o Promise

-----------------------------------------------------------------------------
(* What every clock edge does, whatever the state machine does.            *)

\* The pipeline stage.  tlast_ff follows the wire, not the handshake.
InputStage ==
    /\ tvalid_ff' = taken
    /\ tlast_ff'  = busLast
    /\ beat_ff'   = [fr |-> bus.fr, idx |-> bus.idx]

RamWrite == mem' = IF wr_en THEN [mem EXCEPT ![wr_addr] = wr_data] ELSE mem

\* The end of a write cycle: a data write moves wr_ptr, a header write publishes.
Bumped == IF wr_en /\ wr_state # "IDLE" THEN Ptr(wr_ptr + 1) ELSE wr_ptr
CommitEveryWord == wr_ptr_committed' = IF wr_en THEN wr_ptr ELSE wr_ptr_committed
CommitUnlessBusy ==
    wr_ptr_committed' = IF wr_en /\ wr_state = "IDLE" /\ ~tvalid_ff THEN wr_ptr ELSE wr_ptr_committed
Commit == wr_ptr_committed' = IF wr_en /\ wr_state = "IDLE" THEN wr_ptr ELSE wr_ptr_committed

(* The write state machine.  It works on the beat in the pipeline stage.   *)

WrWait ==
    /\ wr_state # "HEADER" /\ ~tvalid_ff
    /\ wr_en' = FALSE
    /\ wr_ptr' = Bumped
    /\ UNCHANGED <<wr_addr, wr_data, sof_ptr, wr_state, frame_len, frame_vlan>>

WrIdle ==
    /\ wr_state = "IDLE" /\ tvalid_ff
    /\ sof_ptr' = Addr(wr_ptr)
    /\ wr_ptr' = Ptr(wr_ptr + 1)
    /\ wr_en' = FALSE
    /\ wr_data' = Data(half_ff, Zero)
    /\ frame_len' = wr_valid
    /\ wr_state' = "HIGH"
    /\ UNCHANGED <<wr_addr, frame_vlan>>

\* A beat in HIGH completes a word and writes it, error or not.
WriteHigh ==
    /\ wr_state = "HIGH" /\ tvalid_ff
    /\ wr_en' = TRUE
    /\ wr_addr' = Addr(wr_ptr)
    /\ wr_data' = Data(wr_data.lo, half_ff)
    /\ frame_len' = frame_len + wr_valid
    /\ UNCHANGED sof_ptr

WrHigh == WriteHigh /\ ~tlast_ff /\ wr_state' = "LOW" /\ wr_ptr' = Bumped /\ UNCHANGED frame_vlan

\* A beat in LOW only fills the working buffer.
BufferLow ==
    /\ wr_state = "LOW" /\ tvalid_ff
    /\ frame_len' = frame_len + wr_valid
    /\ UNCHANGED sof_ptr

WrLow ==
    /\ BufferLow /\ ~tlast_ff
    /\ wr_data' = Data(half_ff, wr_data.hi)
    /\ wr_en' = FALSE
    /\ wr_ptr' = Bumped
    /\ wr_state' = "HIGH"
    /\ UNCHANGED <<wr_addr, frame_vlan>>

\* Last beat of a bad frame: back to the start pointer, which has no wrap bit.
RollBack == wr_ptr' = sof_ptr /\ wr_state' = "IDLE" /\ UNCHANGED frame_vlan

BadLast ==
    /\ tlast_ff /\ beat_ff.fr.bad
    /\ RollBack
    /\ \/ WriteHigh
       \/ /\ BufferLow
          /\ wr_data' = Data(half_ff, wr_data.hi)
          /\ wr_en' = FALSE
          /\ UNCHANGED wr_addr

\* The last word of a frame may follow a write that has not moved wr_ptr yet.
LastWordAddrNotForwarded == Addr(wr_ptr)
LastWordAddr == Addr(IF wr_en THEN wr_ptr + 1 ELSE wr_ptr)

\* Last beat of a good frame: the header goes out on the next cycle.
GoodLast ==
    /\ tlast_ff /\ ~beat_ff.fr.bad
    /\ frame_vlan' = beat_ff.fr.vlan
    /\ wr_state' = "HEADER"
    /\ wr_ptr' = Bumped
    /\ \/ WriteHigh
       \/ /\ BufferLow
          /\ IF wr_valid > 0
             THEN /\ wr_data' = Data(half_ff, Zero)
                  /\ wr_en' = TRUE
                  /\ wr_addr' = LastWordAddr
             ELSE /\ wr_data' = Data(half_ff, wr_data.hi)
                  /\ wr_en' = FALSE
                  /\ UNCHANGED wr_addr

WrHeader ==
    /\ wr_state = "HEADER"
    /\ wr_en' = TRUE
    /\ wr_addr' = sof_ptr
    /\ wr_data' = Header(frame_vlan, frame_len)
    /\ wr_ptr' = Bumped
    /\ wr_state' = "IDLE"
    /\ UNCHANGED <<sof_ptr, frame_len, frame_vlan>>

Controller == WrWait \/ WrIdle \/ WrHigh \/ WrLow \/ BadLast \/ GoodLast \/ WrHeader

Clock ==
    /\ Source /\ InputStage /\ RamWrite /\ Commit /\ Controller
    /\ ReadWord \/ ReadNothing

\* The link flaps: both pointers return to zero and the frame in progress is
\* lost on the sender's side too.  tlast_ff and the RAM have no reset.
LinkReset ==
    /\ tvalid_ff' = FALSE
    /\ wr_en' = FALSE /\ wr_addr' = 0 /\ wr_data' = Data(Zero, Zero)
    /\ wr_ptr' = 0 /\ wr_ptr_committed' = 0 /\ sof_ptr' = 0
    /\ wr_state' = "IDLE" /\ frame_len' = 0 /\ frame_vlan' = 0
    /\ rd_ptr' = 0 /\ rdq' = [rdq EXCEPT !.en = FALSE]
    /\ owed' = <<>>
    /\ bus' = [bus EXCEPT !.valid = FALSE, !.idx = 0]
    /\ UNCHANGED <<tlast_ff, beat_ff, mem>>

Next == Clock \/ LinkReset

Spec == Init /\ [][Next]_vars
-----------------------------------------------------------------------------
(* Properties.                                                             *)

Halves == {Zero} \cup ({fr.vlan : fr \in Frames} \X Nat)
Words  == [hdr : BOOLEAN, lo : Halves \cup ({0} \X Nat), hi : Halves]
Beats  == [fr : Frames, idx : Nat]

\* Every register holds a value of its width (GigabitIngressFIFO.sv:63-140).
TypeOK ==
    /\ bus \in [valid : BOOLEAN, fr : Frames, idx : Nat]
    /\ tvalid_ff \in BOOLEAN /\ tlast_ff \in BOOLEAN /\ beat_ff \in Beats
    /\ wr_en \in BOOLEAN /\ wr_addr \in 0..(DEPTH - 1) /\ wr_data \in Words
    /\ wr_ptr \in 0..(2 * DEPTH - 1) /\ wr_ptr_committed \in 0..(2 * DEPTH - 1)
    /\ sof_ptr \in 0..(DEPTH - 1)
    /\ wr_state \in {"IDLE", "HIGH", "LOW", "HEADER"}
    /\ frame_len \in Nat /\ frame_vlan \in Nat
    /\ mem \in [0..(DEPTH - 1) -> Words]
    /\ rd_ptr \in 0..(2 * DEPTH - 1)
    /\ rdq \in [en : BOOLEAN, addr : 0..(DEPTH - 1), want : Words]
    /\ owed \in Seq(Words)

\* The words the reader may fetch: from rd_ptr up to the published pointer.
Visible == [i \in 1..RdSize |-> mem[Addr(rd_ptr + i - 1)]]

\* The published region of the RAM holds exactly the oldest good frames taken
\* from the bus, whole and in order, each after a header with its own length and
\* VLAN: no word is overwritten before it is read, no bad frame and no half
\* frame is published (header last, wr_ptr_committed at line 176).
\* A word whose read is already in the RAM's address register is still there at the
\* edge that reads it, although rd_ptr has already given its slot back.
PublishedIntact ==
    /\ IsPrefix(Visible, owed)
    /\ rdq.en => mem[rdq.addr] = rdq.want

\* Nothing taken is left behind: once the pipeline is empty every good frame
\* whose last beat was taken has been published.
Quiet == ~tvalid_ff /\ wr_state = "IDLE" /\ ~wr_en
NothingLost == Quiet => Visible = owed

\* Line 219: "Errors? Roll back to the starting point".  A bad frame gives back
\* every word it took: the write pointer returns to where the frame started,
\* which is where the frame before it ended.
RollsBackToStart == [][BadLast /\ Clock => wr_ptr' = wr_ptr_committed]_vars

\* Seen by the reader the controller is an atomic queue of whole frames.
AtomicQueue == INSTANCE FrameQueue
    WITH q <- Visible, WholeFrames <- {FrameWords(fr) : fr \in {f \in Frames : ~f.bad}}
IsFrameQueue == AtomicQueue!Spec

\* Line 142: "Ready to accept new data if we're not full or writing the metadata
\* word".  The reader keeps reading and the clock keeps running; whenever there is
\* room the FIFO is ready again later.
FairSpec == Spec /\ WF_vars(Clock /\ ReadWord) /\ WF_vars(Clock)
ReadyWhenNotFull == (WrSize > 2) ~> tready
=============================================================================
