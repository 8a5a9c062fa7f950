--------------------------- MODULE IngressFIFO_proofs ---------------------------
(***************************************************************************)
(* The ingress FIFO keeps good frames whole and in order, and nothing of   *)
(* bad ones, for every size of the RAM, every set of frames and every      *)
(* reader.                                                                 *)
(***************************************************************************)
EXTENDS IngressFIFO, SequenceTheorems, TLAPS

-----------------------------------------------------------------------------
(* Pointer arithmetic.  Ptr(q - p) is the number of words from p up to q.  *)

Pointers  == 0 .. (2 * DEPTH - 1)
Addresses == 0 .. (DEPTH - 1)

\* Pointers wrap at twice the depth of the RAM, both ways.
LEMMA PtrFacts ==
    \A x \in Int :
        /\ Ptr(x) \in Pointers
        /\ 0 <= x /\ x < 2 * DEPTH => Ptr(x) = x
        /\ 2 * DEPTH <= x /\ x < 4 * DEPTH => Ptr(x) = x - 2 * DEPTH
        /\ -2 * DEPTH <= x /\ x < 0 => Ptr(x) = x + 2 * DEPTH
<1> DEFINE d == 2 * DEPTH
<1>1. d \in Nat /\ d > 0
  BY DepthAssumption
<1> SUFFICES ASSUME NEW x \in Int
             PROVE  /\ Ptr(x) \in Pointers
                    /\ 0 <= x /\ x < d => Ptr(x) = x
                    /\ d <= x /\ x < d + d => Ptr(x) = x - d
                    /\ -d <= x /\ x < 0 => Ptr(x) = x + d
  BY DepthAssumption
<1>2. Ptr(x) = x % d /\ Pointers = 0 .. (d - 1)
  BY DEF Ptr, Pointers
<1> HIDE DEF d
<1> QED BY <1>1, <1>2

\* Addresses wrap at the depth of the RAM.
LEMMA AddrFacts ==
    \A x \in Int :
        /\ Addr(x) \in Addresses
        /\ 0 <= x /\ x < DEPTH => Addr(x) = x
        /\ DEPTH <= x /\ x < 2 * DEPTH => Addr(x) = x - DEPTH
        /\ 2 * DEPTH <= x /\ x < 3 * DEPTH => Addr(x) = x - 2 * DEPTH
        /\ 3 * DEPTH <= x /\ x < 4 * DEPTH => Addr(x) = x - 3 * DEPTH
BY DepthAssumption DEF Addr, Addresses

\* A pointer that has been passed is one word less away.
LEMMA CountFromNext ==
    ASSUME NEW p \in Pointers, NEW q \in Pointers, Ptr(q - p) > 0
    PROVE  Ptr(q - Ptr(p + 1)) = Ptr(q - p) - 1
BY PtrFacts, DepthAssumption DEF Pointers

\* One word more.
LEMMA CountToNext ==
    ASSUME NEW p \in Pointers, NEW q \in Pointers, Ptr(q - p) + 1 < 2 * DEPTH
    PROVE  Ptr(Ptr(q + 1) - p) = Ptr(q - p) + 1
BY PtrFacts, DepthAssumption DEF Pointers

\* Counts add up as long as they do not go round.
LEMMA CountsAdd ==
    ASSUME NEW p \in Pointers, NEW q \in Pointers, NEW r \in Pointers,
           Ptr(q - p) + Ptr(r - q) < 2 * DEPTH
    PROVE  Ptr(r - p) = Ptr(q - p) + Ptr(r - q)
BY PtrFacts, DepthAssumption DEF Pointers

\* The room left is what the words between the two pointers leave of the RAM.
LEMMA RoomLeft ==
    ASSUME NEW p \in Pointers, NEW q \in Pointers, Ptr(q - p) <= DEPTH
    PROVE  Ptr(DEPTH + p - q) = DEPTH - Ptr(q - p)
BY PtrFacts, DepthAssumption DEF Pointers

\* The wrap bit does not matter to an address.
LEMMA AddrOfPtr ==
    ASSUME NEW p \in Pointers, NEW k \in 0 .. DEPTH
    PROVE  Addr(Ptr(p + 1) + k) = Addr(p + 1 + k)
BY PtrFacts, AddrFacts, DepthAssumption DEF Pointers

\* Slots counted from one pointer and from another.
LEMMA AddrFromThere ==
    ASSUME NEW p \in Pointers, NEW q \in Pointers, NEW k \in Nat, Ptr(q - p) + k < DEPTH
    PROVE  Addr(p + (Ptr(q - p) + k)) = Addr(q + k)
BY PtrFacts, AddrFacts, DepthAssumption DEF Pointers

\* Different slots within one lap have different addresses.
LEMMA AddrDistinct ==
    ASSUME NEW p \in Pointers, NEW i \in Addresses, NEW j \in Addresses, Addr(p + i) = Addr(p + j)
    PROVE  i = j
BY AddrFacts, DepthAssumption DEF Pointers, Addresses

-----------------------------------------------------------------------------
(* Frames.                                                                 *)

Word(fr, k) == Data(Half(fr, 2 * k - 2), Half(fr, 2 * k - 1))
DataCount(fr) == (Bytes(fr) + 7) \div 8

\* A frame has at least two beats, a VLAN, and up to four bytes in its last beat.
LEMMA FrameFacts ==
    ASSUME NEW fr \in Frames
    PROVE  /\ fr.beats \in Nat /\ fr.beats >= 2 /\ fr.tail \in 0 .. 4
           /\ fr.vlan \in Nat \ {0} /\ fr.bad \in BOOLEAN
           /\ Bytes(fr) \in Nat /\ DataCount(fr) \in Nat
BY FramesAssumption DEF Bytes, DataCount

\* In the buffer a frame is its header and then its data words.
LEMMA FrameWordsFacts ==
    ASSUME NEW fr \in Frames
    PROVE  /\ Len(FrameWords(fr)) = 1 + DataCount(fr)
           /\ FrameWords(fr)[1] = Header(fr.vlan, Bytes(fr))
           /\ \A k \in 1 .. DataCount(fr) : FrameWords(fr)[1 + k] = Word(fr, k)
<1> DEFINE h == <<Header(fr.vlan, Bytes(fr))>>
           w == [k \in 1 .. DataCount(fr) |-> Word(fr, k)]
           Parts == {h[1]} \cup {w[k] : k \in 1 .. DataCount(fr)}
<1>1. FrameWords(fr) = h \o w
  BY DEF FrameWords, DataCount, Word
<1>2. DataCount(fr) \in Nat
  BY FrameFacts
<1>3. h \in Seq(Parts) /\ Len(h) = 1
  OBVIOUS
<1>4. w \in Seq(Parts) /\ Len(w) = DataCount(fr)
  BY <1>2
<1> HIDE DEF h, w, Parts
<1>5. /\ Len(h \o w) = Len(h) + Len(w)
      /\ \A i \in 1 .. Len(h) + Len(w) : (h \o w)[i] = IF i <= Len(h) THEN h[i] ELSE w[i - Len(h)]
  BY <1>3, <1>4, ConcatProperties
<1>6. \A k \in 1 .. DataCount(fr) : (h \o w)[1 + k] = w[k]
  BY <1>2, <1>3, <1>4, <1>5
<1>7. (h \o w)[1] = h[1]
  BY <1>2, <1>3, <1>4, <1>5
<1> QED BY <1>1, <1>3, <1>4, <1>5, <1>6, <1>7 DEF h, w

\* The words of a frame have the type of words in the RAM.
LEMMA FrameWordsType ==
    ASSUME NEW fr \in Frames
    PROVE  FrameWords(fr) \in Seq(Words)
<1>1. \A i \in Nat : Half(fr, i) \in Halves
  BY DEF Half, Halves
<1>2. \A k \in 1 .. DataCount(fr) : Word(fr, k) \in Words
  BY <1>1 DEF Word, Data, Words
<1>3. Header(fr.vlan, Bytes(fr)) \in Words
  <2>1. Bytes(fr) % LEN_LIMIT \in Nat
    BY FrameFacts, LimitAssumption
  <2> QED BY <2>1 DEF Header, Words, Halves
<1>4. [k \in 1 .. DataCount(fr) |-> Word(fr, k)] \in Seq(Words)
  BY <1>2, FrameFacts
<1> QED BY <1>3, <1>4, ConcatProperties DEF FrameWords, DataCount, Word

-----------------------------------------------------------------------------
(* Type correctness.  The VLAN register only ever holds a frame's VLAN.    *)

Vlans == {0} \cup {fr.vlan : fr \in Frames}
Types == TypeOK /\ frame_vlan \in Vlans

\* The beat in the pipeline stage is a half word with some valid bytes.
LEMMA StageTypes ==
    ASSUME Types
    PROVE  wr_valid \in Nat /\ half_ff \in Halves
<1>1. beat_ff.fr \in Frames /\ beat_ff.idx \in Nat
  BY DEF Types, TypeOK, Beats
<1> QED BY <1>1, FrameFacts DEF wr_valid, half_ff, Halves

\* A pointer that is moved or not stays a pointer.
LEMMA BumpedType ==
    ASSUME Types
    PROVE  Bumped \in Pointers
<1>1. wr_ptr \in Pointers /\ wr_ptr + 1 \in Int
  BY DepthAssumption DEF Types, TypeOK, Pointers
<1>2. Ptr(wr_ptr + 1) \in Pointers
  BY <1>1, PtrFacts
<1> QED BY <1>1, <1>2 DEF Bumped

\* Data words and headers are words.
LEMMA WordTypes ==
    /\ \A lo \in Halves, hi \in Halves : Data(lo, hi) \in Words
    /\ Zero \in Halves
    /\ \A vlan \in Vlans, len \in Nat : Header(vlan, len) \in Words
<1>1. ASSUME NEW vlan \in Vlans, NEW len \in Nat PROVE Header(vlan, len) \in Words
  <2>1. len % LEN_LIMIT \in Nat
    BY LimitAssumption
  <2>2. <<vlan, len % LEN_LIMIT>> \in Halves \cup ({0} \X Nat)
    BY <2>1 DEF Vlans, Halves
  <2> QED BY <2>2 DEF Header, Words, Halves
<1> QED BY <1>1 DEF Data, Words, Halves

\* The write state machine keeps its registers within their widths.
LEMMA ControllerTypes ==
    ASSUME Types, Controller
    PROVE  /\ wr_en' \in BOOLEAN /\ wr_addr' \in Addresses /\ wr_data' \in Words
           /\ wr_ptr' \in Pointers /\ sof_ptr' \in Addresses
           /\ wr_state' \in {"IDLE", "HIGH", "LOW", "HEADER"}
           /\ frame_len' \in Nat /\ frame_vlan' \in Vlans
<1> USE StageTypes, BumpedType, WordTypes
<1>1. /\ wr_addr \in Addresses /\ wr_data \in Words /\ wr_ptr \in Pointers /\ sof_ptr \in Addresses
      /\ wr_state \in {"IDLE", "HIGH", "LOW", "HEADER"} /\ frame_len \in Nat /\ frame_vlan \in Vlans
      /\ wr_en \in BOOLEAN
  BY DEF Types, TypeOK, Addresses, Pointers
<1>2. wr_data.hi \in Halves
  BY <1>1 DEF Words
<1>3. Addr(wr_ptr) \in Addresses /\ Addr(wr_ptr + 1) \in Addresses /\ Ptr(wr_ptr + 1) \in Pointers
  BY <1>1, AddrFacts, PtrFacts DEF Pointers
<1>4. sof_ptr \in Pointers
  BY <1>1, DepthAssumption DEF Addresses, Pointers
<1>5. beat_ff.fr.vlan \in Vlans
  BY DEF Types, TypeOK, Beats, Vlans
<1>6. CASE WrWait
  BY <1>1, <1>6 DEF WrWait
<1>7. CASE WrIdle
  BY <1>1, <1>3, <1>7 DEF WrIdle
<1>8. WriteHigh => /\ wr_en' \in BOOLEAN /\ wr_addr' \in Addresses /\ wr_data' \in Words
                   /\ frame_len' \in Nat /\ sof_ptr' \in Addresses
  <2>1. Data(wr_data.lo, half_ff) \in Words
    BY <1>1 DEF Data, Words
  <2>2. frame_len + wr_valid \in Nat
    BY <1>1
  <2> QED BY <1>1, <1>3, <2>1, <2>2 DEF WriteHigh
<1>9. CASE WrHigh
  BY <1>1, <1>8, <1>9 DEF WrHigh
<1>10. BufferLow => frame_len' \in Nat /\ sof_ptr' \in Addresses
  <2>1. frame_len + wr_valid \in Nat
    BY <1>1
  <2> QED BY <1>1, <2>1 DEF BufferLow
<1>11. Data(half_ff, wr_data.hi) \in Words /\ Data(half_ff, Zero) \in Words
  BY <1>2
<1>12. CASE WrLow
  BY <1>1, <1>10, <1>11, <1>12 DEF WrLow
<1>13. CASE BadLast
  <2>1. wr_ptr' \in Pointers /\ wr_state' = "IDLE" /\ frame_vlan' \in Vlans
    BY <1>1, <1>4, <1>13 DEF BadLast, RollBack
  <2>2. CASE WriteHigh
    BY <1>8, <2>1, <2>2
  <2>3. CASE BufferLow /\ wr_data' = Data(half_ff, wr_data.hi) /\ wr_en' = FALSE /\ UNCHANGED wr_addr
    BY <1>1, <1>10, <1>11, <2>1, <2>3
  <2> QED BY <1>13, <2>2, <2>3 DEF BadLast
<1>14. CASE GoodLast
  <2>1. wr_ptr' \in Pointers /\ wr_state' = "HEADER" /\ frame_vlan' \in Vlans
    BY <1>5, <1>14 DEF GoodLast
  <2>2. LastWordAddr \in Addresses
    BY <1>3 DEF LastWordAddr
  <2>3. CASE WriteHigh
    BY <1>8, <2>1, <2>3
  <2>4. CASE BufferLow /\ ~WriteHigh
    <3>1. wr_en' \in BOOLEAN /\ wr_addr' \in Addresses /\ wr_data' \in Words
      BY <1>1, <1>11, <1>14, <2>2, <2>4 DEF GoodLast
    <3> QED BY <1>10, <2>1, <2>4, <3>1
  <2> QED BY <1>14, <2>3, <2>4 DEF GoodLast
<1>15. CASE WrHeader
  BY <1>1, <1>15 DEF WrHeader
<1> QED BY <1>6, <1>7, <1>9, <1>12, <1>15, <1>13, <1>14 DEF Controller

\* The source offers beats of frames.
LEMMA SourceTypes ==
    ASSUME Types, Source
    PROVE  bus' \in [valid : BOOLEAN, fr : Frames, idx : Nat]
BY DEF Types, TypeOK, Source, Offer

\* What the FIFO owes its reader are words, in the order of the frames they belong to.
LEMMA OwedTypes ==
    ASSUME Types, ReadWord \/ ReadNothing
    PROVE  /\ owed' \in Seq(Words) /\ rd_ptr' \in Pointers
           /\ rdq' \in [en : BOOLEAN, addr : Addresses, want : Words]
<1>1. Promise \in Seq(Words)
  <2>1. bus.fr \in Frames /\ <<>> \in Seq(Words)
    BY DEF Types, TypeOK
  <2> QED BY <2>1, FrameWordsType DEF Promise
<1>2. owed \in Seq(Words) /\ rdq \in [en : BOOLEAN, addr : Addresses, want : Words]
  BY DEF Types, TypeOK, Addresses
<1>3. owed # <<>> => Tail(owed) \in Seq(Words) /\ Head(owed) \in Words
  BY <1>2, HeadTailProperties
<1>4. CASE ReadNothing
  <2>1. owed' \in Seq(Words)
    BY <1>1, <1>2, <1>4, ConcatProperties DEF ReadNothing
  <2> QED BY <1>2, <1>4, <2>1 DEF ReadNothing, Types, TypeOK, Pointers
<1>5. CASE ReadWord
  <2>1. (IF owed = <<>> THEN <<>> ELSE Tail(owed)) \in Seq(Words)
    BY <1>2, <1>3
  <2>2. owed' \in Seq(Words)
    BY <1>1, <1>5, <2>1, ConcatProperties DEF ReadWord
  <2>3. rd_ptr' \in Pointers /\ Addr(rd_ptr) \in Addresses
    BY <1>5, PtrFacts, AddrFacts DEF ReadWord, Types, TypeOK
  <2>4. (IF owed = <<>> THEN Data(Zero, Zero) ELSE Head(owed)) \in Words
    BY <1>3, WordTypes
  <2> QED BY <1>5, <2>2, <2>3, <2>4 DEF ReadWord
<1> QED BY <1>4, <1>5

\* Initially everything is zero.
LEMMA InitTypes == Init => Types
<1> SUFFICES ASSUME Init PROVE Types
  OBVIOUS
<1>1. 0 \in Addresses /\ 0 \in Pointers
  BY DepthAssumption DEF Addresses, Pointers
<1>2. Data(Zero, Zero) \in Words
  BY WordTypes
<1>3. /\ bus \in [valid : BOOLEAN, fr : Frames, idx : Nat]
      /\ tvalid_ff \in BOOLEAN /\ tlast_ff \in BOOLEAN /\ beat_ff \in Beats
  <2>1. PICK fr \in Frames : /\ bus = [valid |-> FALSE, fr |-> fr, idx |-> 0]
                             /\ beat_ff = [fr |-> fr, idx |-> 0]
    BY DEF Init
  <2> QED BY <2>1 DEF Init, Beats
<1>4. mem \in [Addresses -> Words] /\ rdq \in [en : BOOLEAN, addr : Addresses, want : Words]
  BY <1>1, <1>2 DEF Init, Addresses
<1>5. owed \in Seq(Words)
  BY DEF Init
<1> QED BY <1>1, <1>2, <1>3, <1>4, <1>5 DEF Init, Types, TypeOK, Addresses, Pointers, Vlans

\* Every step keeps every register within its width.
LEMMA NextTypes == Types /\ [Next]_vars => Types'
<1> SUFFICES ASSUME Types, [Next]_vars PROVE Types'
  OBVIOUS
<1>1. 0 \in Addresses /\ 0 \in Pointers
  BY DepthAssumption DEF Addresses, Pointers
<1>2. Data(Zero, Zero) \in Words
  BY WordTypes
<1>3. CASE Clock
  <2>1. tvalid_ff' \in BOOLEAN /\ tlast_ff' \in BOOLEAN /\ beat_ff' \in Beats
    BY <1>3 DEF Clock, InputStage, Types, TypeOK, Beats, busLast, taken, tready
  <2>2. mem' \in [Addresses -> Words]
    BY <1>3 DEF Clock, RamWrite, Types, TypeOK, Addresses
  <2>3. wr_ptr_committed' \in Pointers
    BY <1>3 DEF Clock, Commit, Types, TypeOK, Pointers
  <2>4. /\ wr_en' \in BOOLEAN /\ wr_addr' \in Addresses /\ wr_data' \in Words
        /\ wr_ptr' \in Pointers /\ sof_ptr' \in Addresses
        /\ wr_state' \in {"IDLE", "HIGH", "LOW", "HEADER"}
        /\ frame_len' \in Nat /\ frame_vlan' \in Vlans
    BY <1>3, ControllerTypes DEF Clock
  <2>5. frame_vlan' \in Nat
    BY <2>4, FrameFacts DEF Vlans
  <2>6. bus' \in [valid : BOOLEAN, fr : Frames, idx : Nat]
    BY <1>3, SourceTypes DEF Clock
  <2>7. /\ owed' \in Seq(Words) /\ rd_ptr' \in Pointers
        /\ rdq' \in [en : BOOLEAN, addr : Addresses, want : Words]
    BY <1>3, OwedTypes DEF Clock
  <2> QED BY <2>1, <2>2, <2>3, <2>4, <2>5, <2>6, <2>7 DEF Types, TypeOK, Addresses, Pointers
<1>4. CASE LinkReset
  <2>1. bus' \in [valid : BOOLEAN, fr : Frames, idx : Nat]
    BY <1>4 DEF LinkReset, Types, TypeOK
  <2>2. rdq' \in [en : BOOLEAN, addr : Addresses, want : Words]
    BY <1>4 DEF LinkReset, Types, TypeOK, Addresses
  <2>3. owed' \in Seq(Words)
    BY <1>4 DEF LinkReset
  <2> QED BY <1>1, <1>2, <1>4, <2>1, <2>2, <2>3 DEF LinkReset, Types, TypeOK, Addresses, Pointers, Vlans
<1>5. CASE UNCHANGED vars
  BY <1>5 DEF vars, inVars, ctlVars, Types, TypeOK, Beats
<1> QED BY <1>3, <1>4, <1>5 DEF Next

\* Every register of the controller keeps to its width, whatever the frames and the
\* reader do (GigabitIngressFIFO.sv:63-140).
THEOREM IngressTypeCorrect == Spec => []TypeOK
<1>1. Types => TypeOK
  BY DEF Types
<1> QED BY <1>1, InitTypes, NextTypes, PTL DEF Spec

-----------------------------------------------------------------------------
(* The stream.  Current is the frame on its way in and Seen its next beat, *)
(* wherever that beat is: in the pipeline stage or still on the bus.       *)

Current == IF tvalid_ff THEN beat_ff.fr ELSE bus.fr
Seen    == IF tvalid_ff THEN beat_ff.idx ELSE bus.idx

\* The state machine knows which half of a word comes next.
StreamInv ==
    /\ bus.idx < bus.fr.beats
    /\ tvalid_ff => /\ beat_ff.idx < beat_ff.fr.beats
                    /\ tlast_ff <=> beat_ff.idx = beat_ff.fr.beats - 1
                    /\ tlast_ff => bus.idx = 0
                    /\ ~tlast_ff => bus.fr = beat_ff.fr /\ bus.idx = beat_ff.idx + 1
    /\ wr_state = "IDLE" => Seen = 0
    /\ wr_state = "HIGH" => Seen % 2 = 1
    /\ wr_state = "LOW" => Seen % 2 = 0 /\ Seen > 0
    /\ wr_state = "HEADER" => ~tvalid_ff /\ bus.idx = 0

\* What the types say of the stream.
LEMMA StreamTypes ==
    ASSUME Types
    PROVE  /\ bus.fr \in Frames /\ bus.idx \in Nat /\ bus.valid \in BOOLEAN
           /\ beat_ff.fr \in Frames /\ beat_ff.idx \in Nat
           /\ tvalid_ff \in BOOLEAN /\ tlast_ff \in BOOLEAN
           /\ Current \in Frames /\ Seen \in Nat
           /\ wr_state \in {"IDLE", "HIGH", "LOW", "HEADER"}
BY DEF Types, TypeOK, Beats, Current, Seen

\* A clock edge brings the next beat of the stream to the state machine: what was on
\* the bus is in the pipeline stage or still on the bus.
LEMMA StreamStep ==
    ASSUME Types, Clock
    PROVE  Current' = bus.fr /\ Seen' = bus.idx /\ tvalid_ff' = taken /\ tlast_ff' = busLast
<1>1. tvalid_ff' = taken /\ tlast_ff' = busLast /\ beat_ff' = [fr |-> bus.fr, idx |-> bus.idx]
  BY DEF Clock, InputStage
<1>2. CASE taken
  BY <1>1, <1>2 DEF Current, Seen
<1>3. CASE ~taken
  <2>1. bus'.fr = bus.fr /\ bus'.idx = bus.idx
    BY <1>3 DEF Clock, Source, Offer, taken
  <2> QED BY <1>1, <1>3, <2>1 DEF Current, Seen
<1> QED BY <1>2, <1>3

\* The beat after the one that is taken is the next of the frame or the first of another.
LEMMA BusStep ==
    ASSUME Types, Clock, bus.idx < bus.fr.beats
    PROVE  /\ bus'.idx < bus'.fr.beats
           /\ taken /\ busLast => bus'.idx = 0
           /\ taken /\ ~busLast => bus'.fr = bus.fr /\ bus'.idx = bus.idx + 1
           /\ ~taken => bus'.fr = bus.fr /\ bus'.idx = bus.idx
           /\ taken => (busLast <=> bus.idx = bus.fr.beats - 1)
           /\ taken /\ busLast => \E fr \in Frames : bus'.fr = fr /\ Permitted(fr)
<1>1. /\ bus.fr \in Frames /\ bus.idx \in Nat /\ bus.fr.beats \in Nat
      /\ \A fr \in Frames : fr.beats \in Nat /\ fr.beats >= 2
  BY StreamTypes, FrameFacts
<1>2. taken => (busLast <=> bus.idx = bus.fr.beats - 1)
  BY DEF taken, busLast
<1>3. CASE ~taken
  BY <1>3 DEF Clock, Source, Offer, taken
<1>4. CASE taken /\ ~busLast
  <2>1. bus'.fr = bus.fr /\ bus'.idx = bus.idx + 1
    BY <1>4 DEF Clock, Source, Offer, taken
  <2> QED BY <1>1, <1>2, <1>4, <2>1
<1>5. CASE taken /\ busLast
  <2>1. PICK fr \in Frames : Permitted(fr) /\ bus'.fr = fr /\ bus'.idx = 0
    BY <1>5 DEF Clock, Source, Offer, taken
  <2> QED BY <1>1, <1>2, <1>5, <2>1
<1> QED BY <1>3, <1>4, <1>5

\* The states the machine can go to from where it is.
LEMMA ControllerStates ==
    ASSUME Types, Controller
    PROVE  /\ ~tvalid_ff /\ wr_state # "HEADER" => wr_state' = wr_state
           /\ wr_state = "HEADER" => wr_state' = "IDLE"
           /\ tvalid_ff /\ wr_state = "IDLE" => wr_state' = "HIGH"
           /\ tvalid_ff /\ ~tlast_ff /\ wr_state = "HIGH" => wr_state' = "LOW"
           /\ tvalid_ff /\ ~tlast_ff /\ wr_state = "LOW" => wr_state' = "HIGH"
           /\ tvalid_ff /\ tlast_ff /\ wr_state \in {"HIGH", "LOW"} => wr_state' \in {"IDLE", "HEADER"}
BY DEF Controller, WrWait, WrIdle, WrHigh, WriteHigh, WrLow, BadLast, BufferLow, GoodLast, RollBack, WrHeader

\* The stream and the state machine stay in step.
LEMMA StreamKept ==
    ASSUME Types, StreamInv, Clock
    PROVE  StreamInv'
<1>1. /\ bus.fr \in Frames /\ bus.idx \in Nat /\ beat_ff.fr \in Frames /\ beat_ff.idx \in Nat
      /\ bus.fr.beats \in Nat /\ bus.fr.beats >= 2 /\ beat_ff.fr.beats \in Nat /\ beat_ff.fr.beats >= 2
      /\ wr_state \in {"IDLE", "HIGH", "LOW", "HEADER"}
  BY StreamTypes, FrameFacts
<1>2. bus.idx < bus.fr.beats
  BY DEF StreamInv
<1>3. bus'.idx < bus'.fr.beats
  BY <1>2, BusStep
<1>4. tvalid_ff' => /\ beat_ff'.idx < beat_ff'.fr.beats
                    /\ tlast_ff' <=> beat_ff'.idx = beat_ff'.fr.beats - 1
                    /\ tlast_ff' => bus'.idx = 0
                    /\ ~tlast_ff' => bus'.fr = beat_ff'.fr /\ bus'.idx = beat_ff'.idx + 1
  BY <1>2, BusStep DEF Clock, InputStage
<1>5. CASE ~tvalid_ff
  <2>1. Seen' = Seen
    BY <1>5, StreamStep DEF Seen
  <2>2. wr_state # "HEADER" => wr_state' = wr_state
    BY <1>5, ControllerStates DEF Clock
  <2>3. wr_state = "HEADER" => wr_state' = "IDLE" /\ Seen = 0
    BY <1>5, ControllerStates DEF Clock, StreamInv, Seen
  <2> QED BY <1>1, <1>3, <1>4, <2>1, <2>2, <2>3 DEF StreamInv
<1>6. CASE tvalid_ff /\ ~tlast_ff
  <2>1. Seen' = Seen + 1 /\ Seen \in Nat
    BY <1>1, <1>6, StreamStep DEF Seen, StreamInv
  <2>2. wr_state # "HEADER"
    BY <1>6 DEF StreamInv
  <2>3. \/ wr_state = "IDLE" /\ wr_state' = "HIGH"
        \/ wr_state = "HIGH" /\ wr_state' = "LOW"
        \/ wr_state = "LOW" /\ wr_state' = "HIGH"
    BY <1>1, <1>6, <2>2, ControllerStates DEF Clock
  <2>4. /\ wr_state' = "HIGH" => Seen' % 2 = 1
        /\ wr_state' = "LOW" => Seen' % 2 = 0 /\ Seen' > 0
    BY <2>1, <2>3 DEF StreamInv
  <2> QED BY <1>3, <1>4, <2>3, <2>4 DEF StreamInv
<1>7. CASE tvalid_ff /\ tlast_ff
  <2>1. Seen' = 0 /\ bus.idx = 0
    BY <1>7, StreamStep DEF StreamInv
  <2>2. wr_state \in {"HIGH", "LOW"}
    BY <1>1, <1>7 DEF StreamInv, Seen
  <2>3. wr_state' \in {"IDLE", "HEADER"}
    BY <1>7, <2>2, ControllerStates DEF Clock
  <2>4. ~taken
    BY <1>7 DEF taken, tready
  <2>5. bus'.idx = 0 /\ ~tvalid_ff'
    BY <1>2, <2>1, <2>4, BusStep, StreamStep
  <2> QED BY <1>3, <1>4, <2>1, <2>3, <2>5 DEF StreamInv
<1> QED BY <1>1, <1>5, <1>6, <1>7, StreamTypes

-----------------------------------------------------------------------------
(* The pointers.  Between the reader and the published pointer there are   *)
(* RdSize words, between the published and the write pointer Reserved      *)
(* ones, and a data word on the write port will be counted with the next   *)
(* edge.                                                                   *)

Reserved  == Ptr(wr_ptr - wr_ptr_committed)
Writing   == IF wr_en /\ wr_state # "IDLE" THEN 1 ELSE 0
Committed == IF wr_en /\ wr_state = "IDLE" THEN Reserved ELSE 0

\* What the types say of the pointers.
LEMMA PointerTypes ==
    ASSUME Types
    PROVE  /\ rd_ptr \in Pointers /\ wr_ptr \in Pointers /\ wr_ptr_committed \in Pointers
           /\ sof_ptr \in Addresses /\ wr_addr \in Addresses /\ wr_en \in BOOLEAN
           /\ RdSize \in Pointers /\ Reserved \in Pointers /\ Writing \in {0, 1}
           /\ rd_ptr \in Int /\ wr_ptr \in Int /\ wr_ptr_committed \in Int
           /\ RdSize \in Nat /\ Reserved \in Nat /\ Writing \in Nat /\ Committed \in Nat
<1>1. /\ rd_ptr \in Pointers /\ wr_ptr \in Pointers /\ wr_ptr_committed \in Pointers
      /\ sof_ptr \in Addresses /\ wr_addr \in Addresses /\ wr_en \in BOOLEAN
  BY DEF Types, TypeOK, Pointers, Addresses
<1>2. \A x \in Pointers : x \in Nat /\ x \in Int
  BY DepthAssumption DEF Pointers
<1>3. RdSize \in Pointers /\ Reserved \in Pointers
  BY <1>1, <1>2, PtrFacts DEF RdSize, Reserved
<1> QED BY <1>1, <1>2, <1>3 DEF Writing, Committed

\* The room the source sees is what the words in the RAM leave of it.
LEMMA RoomFacts ==
    ASSUME Types, RdSize + Reserved < DEPTH
    PROVE  WrSize = DEPTH - (RdSize + Reserved)
<1>1. Ptr(wr_ptr - rd_ptr) = RdSize + Reserved
  BY PointerTypes, CountsAdd, DepthAssumption DEF RdSize, Reserved
<1> QED BY <1>1, PointerTypes, RoomLeft, DepthAssumption DEF WrSize

\* A clock edge takes at most one word from the reader's side, and adds what the header
\* write publishes.
LEMMA ReaderStep ==
    ASSUME Types, Clock, RdSize + Reserved < DEPTH
    PROVE  \E r \in {0, 1} :
              /\ r <= RdSize /\ rd_ptr' = Ptr(rd_ptr + r)
              /\ RdSize' = RdSize - r + Committed
              /\ r = 0 => ReadNothing
              /\ r = 1 => ReadWord
<1> USE PointerTypes
<1>1. PICK r \in {0, 1} : /\ r <= RdSize /\ rd_ptr' = Ptr(rd_ptr + r)
                          /\ Ptr(wr_ptr_committed - rd_ptr') = RdSize - r
                          /\ r = 0 => ReadNothing
                          /\ r = 1 => ReadWord
  <2>1. CASE ReadNothing
    <3>1. rd_ptr' = rd_ptr /\ Ptr(rd_ptr + 0) = rd_ptr
      <4>1. rd_ptr \in Int /\ rd_ptr + 0 = rd_ptr /\ 0 <= rd_ptr /\ rd_ptr < 2 * DEPTH
        BY DepthAssumption DEF Pointers
      <4> QED BY <2>1, <4>1, PtrFacts DEF ReadNothing
    <3>2. 0 <= RdSize /\ Ptr(wr_ptr_committed - rd_ptr') = RdSize - 0
      BY <3>1 DEF RdSize
    <3> QED BY <2>1, <3>1, <3>2
  <2>2. CASE ReadWord
    <3>1. RdSize > 0 /\ rd_ptr' = Ptr(rd_ptr + 1)
      BY <2>2 DEF ReadWord
    <3>2. Ptr(wr_ptr_committed - rd_ptr') = RdSize - 1
      BY <3>1, CountFromNext DEF RdSize
    <3> QED BY <2>2, <3>1, <3>2
  <2> QED BY <2>1, <2>2 DEF Clock
<1>2. rd_ptr' \in Pointers
  BY <1>1, PtrFacts
<1>3. Ptr(wr_ptr_committed' - rd_ptr') = RdSize - r + Committed
  <2>1. CASE wr_en /\ wr_state = "IDLE"
    <3>1. wr_ptr_committed' = wr_ptr /\ Committed = Reserved
      BY <2>1 DEF Clock, Commit, Committed
    <3>2. Ptr(wr_ptr_committed - rd_ptr') + Ptr(wr_ptr - wr_ptr_committed) < 2 * DEPTH
      BY <1>1, DepthAssumption DEF Reserved
    <3>3. Ptr(wr_ptr - rd_ptr') = Ptr(wr_ptr_committed - rd_ptr') + Ptr(wr_ptr - wr_ptr_committed)
      BY <1>2, <3>2, CountsAdd
    <3> QED BY <1>1, <3>1, <3>3 DEF Reserved
  <2>2. CASE ~(wr_en /\ wr_state = "IDLE")
    BY <1>1, <2>2 DEF Clock, Commit, Committed
  <2> QED BY <2>1, <2>2
<1> QED BY <1>1, <1>3 DEF RdSize

\* A pointer that has just been published is where the write pointer is.
LEMMA CountFromHere ==
    ASSUME NEW p \in Pointers
    PROVE  Ptr(p - p) = 0 /\ Ptr(Ptr(p + 1) - p) = 1
<1>1. p \in Int /\ p - p = 0 /\ Ptr(0) = 0
  BY PtrFacts, DepthAssumption DEF Pointers
<1>2. Ptr(Ptr(p + 1) - p) = Ptr(p - p) + 1
  BY <1>1, CountToNext, DepthAssumption
<1> QED BY <1>1, <1>2

\* Without an error the words of the frame in progress grow by the write that ends.
LEMMA BumpStep ==
    ASSUME Types, Clock, RdSize + Reserved + Writing < DEPTH, wr_ptr' = Bumped
    PROVE  Reserved' = Reserved - Committed + Writing
<1> USE PointerTypes
<1>1. CASE wr_en /\ wr_state = "IDLE"
  <2>1. wr_ptr' = wr_ptr /\ wr_ptr_committed' = wr_ptr /\ Writing = 0 /\ Committed = Reserved
    BY <1>1 DEF Clock, Commit, Bumped, Writing, Committed
  <2> QED BY <2>1, CountFromHere DEF Reserved
<1>2. CASE wr_en /\ wr_state # "IDLE"
  <2>1. /\ wr_ptr' = Ptr(wr_ptr + 1) /\ wr_ptr_committed' = wr_ptr_committed
        /\ Writing = 1 /\ Committed = 0
    BY <1>2 DEF Clock, Commit, Bumped, Writing, Committed
  <2>2. Ptr(wr_ptr - wr_ptr_committed) + 1 < 2 * DEPTH
    BY <2>1, DepthAssumption DEF Reserved
  <2> QED BY <2>1, <2>2, CountToNext DEF Reserved
<1>3. CASE ~wr_en
  BY <1>3 DEF Clock, Commit, Bumped, Writing, Committed, Reserved
<1> QED BY <1>1, <1>2, <1>3

\* The RAM's write port points past everything the reader may see, and the start
\* pointer is the address of the published pointer while a frame is on its way in.
WriteInv ==
    /\ wr_state = "HIGH" => ~wr_en
    /\ wr_state \in {"LOW", "HEADER"} /\ wr_en => wr_addr = Addr(wr_ptr)
    /\ wr_state # "IDLE" => sof_ptr = Addr(wr_ptr_committed)
    /\ wr_en => \E x \in Addresses : RdSize + x < DEPTH /\ wr_addr = Addr(wr_ptr_committed + x)

\* The words in the RAM and the one on the way fit, with one more while a beat waits
\* in the stage; a frame has reserved a word for its header and one for every two beats.
SpaceInv ==
    /\ RdSize + Reserved + Writing < DEPTH
    /\ tvalid_ff => RdSize + Reserved + Writing + 1 < DEPTH
    /\ wr_state = "IDLE" /\ ~wr_en => Reserved = 0
    /\ wr_state = "HIGH" => 2 * Reserved = Seen + 1
    /\ wr_state = "LOW" => 2 * (Reserved + Writing) = Seen + 2

\* With the line bad only while the wrap bit is zero, a bad frame starts where the
\* start pointer, which has no wrap bit, can say so.
StartInv ==
    /\ wr_state = "IDLE" /\ Current.bad => wr_ptr < DEPTH
    /\ wr_state \in {"HIGH", "LOW"} /\ Current.bad => wr_ptr_committed < DEPTH
    /\ wr_state = "HEADER" /\ bus.fr.bad => wr_ptr + Writing < DEPTH
    /\ wr_state \in {"HIGH", "LOW"} /\ bus.idx = 0 /\ bus.fr.bad => wr_ptr + Writing + 1 < DEPTH

FlowInv == Types /\ StreamInv /\ WriteInv /\ SpaceInv /\ StartInv

\* Every edge is one of the controller's cases, with the state it is in and goes to.
LEMMA ControllerCases ==
    ASSUME FlowInv, Clock
    PROVE  \/ WrWait /\ wr_state' = wr_state /\ ~tvalid_ff /\ Seen' = Seen
           \/ WrIdle /\ Seen = 0 /\ Seen' = 1 /\ ~tlast_ff
           \/ WrHigh /\ Seen' = Seen + 1
           \/ WrLow /\ Seen' = Seen + 1
           \/ BadLast /\ tvalid_ff /\ Seen' = 0 /\ ~taken
           \/ GoodLast /\ tvalid_ff /\ Seen' = 0 /\ ~taken
           \/ WrHeader /\ ~tvalid_ff /\ Seen = 0 /\ Seen' = 0
<1> USE StreamTypes
<1>1. StreamInv /\ Types
  BY DEF FlowInv
<1>2. Seen' = bus.idx
  BY <1>1, StreamStep
<1>3. ~tvalid_ff => Seen' = Seen
  BY <1>2 DEF Seen
<1>4. tvalid_ff /\ ~tlast_ff => Seen' = Seen + 1
  BY <1>1, <1>2 DEF Seen, StreamInv
<1>5. tvalid_ff /\ tlast_ff => Seen' = 0 /\ ~taken
  BY <1>1, <1>2 DEF Seen, StreamInv, taken, tready
<1>6. CASE WrWait
  BY <1>3, <1>6 DEF WrWait
<1>7. CASE WrIdle
  <2>1. Seen = 0 /\ tvalid_ff
    BY <1>1, <1>7 DEF WrIdle, StreamInv
  <2>2. ~tlast_ff
    BY <1>1, <2>1, FrameFacts DEF StreamInv, Seen
  <2> QED BY <1>4, <1>7, <2>1, <2>2
<1>8. CASE WrHigh \/ WrLow
  BY <1>4, <1>8 DEF WrHigh, WriteHigh, WrLow, BufferLow
<1>9. CASE BadLast \/ GoodLast
  BY <1>5, <1>9 DEF BadLast, GoodLast, WriteHigh, BufferLow
<1>10. CASE WrHeader
  BY <1>1, <1>3, <1>10 DEF WrHeader, StreamInv, Seen
<1> QED BY <1>6, <1>7, <1>8, <1>9, <1>10 DEF Clock, Controller

\* A bad frame gives its words back: the start pointer is the published pointer.
LEMMA RollBackStep ==
    ASSUME FlowInv, Clock, BadLast
    PROVE  wr_ptr' = wr_ptr_committed /\ wr_ptr_committed' = wr_ptr_committed /\ Reserved' = 0
<1> USE PointerTypes
<1>1. wr_state \in {"HIGH", "LOW"} /\ tvalid_ff /\ beat_ff.fr.bad
  BY DEF BadLast, WriteHigh, BufferLow
<1>2. wr_ptr_committed < DEPTH /\ sof_ptr = Addr(wr_ptr_committed)
  BY <1>1 DEF FlowInv, StartInv, WriteInv, Current
<1>3. Addr(wr_ptr_committed) = wr_ptr_committed
  BY <1>2, AddrFacts DEF FlowInv, Pointers
<1>4. wr_ptr' = wr_ptr_committed
  BY <1>2, <1>3 DEF BadLast, RollBack
<1>5. wr_ptr_committed' = wr_ptr_committed
  BY <1>1 DEF Clock, Commit
<1> QED BY <1>4, <1>5, CountFromHere DEF Reserved, FlowInv

\* How the words of the frame in progress change with each case.
LEMMA ReservedStep ==
    ASSUME FlowInv, Clock
    PROVE  /\ WrIdle => Reserved' = 1
           /\ BadLast => Reserved' = 0
           /\ WrWait \/ WrHigh \/ WrLow \/ GoodLast \/ WrHeader
                 => wr_ptr' = Bumped /\ Reserved' = Reserved - Committed + Writing
<1> USE PointerTypes
<1>1. Types /\ RdSize + Reserved + Writing < DEPTH
  BY DEF FlowInv, SpaceInv
<1>2. WrIdle => Reserved' = 1
  <2> SUFFICES ASSUME WrIdle PROVE Reserved' = 1
    OBVIOUS
  <2>1. wr_ptr' = Ptr(wr_ptr + 1) /\ wr_state = "IDLE"
    BY DEF WrIdle
  <2>2. CASE wr_en
    BY <1>1, <2>1, <2>2, CountFromHere DEF Clock, Commit, Reserved
  <2>3. CASE ~wr_en
    <3>1. Reserved = 0 /\ wr_ptr_committed' = wr_ptr_committed
      BY <2>1, <2>3 DEF FlowInv, SpaceInv, Clock, Commit
    <3>2. Ptr(Ptr(wr_ptr + 1) - wr_ptr_committed) = 0 + 1
      BY <1>1, <3>1, CountToNext, DepthAssumption DEF Reserved
    <3> QED BY <2>1, <3>1, <3>2 DEF Reserved
  <2> QED BY <1>1, <2>2, <2>3
<1>3. WrWait \/ WrHigh \/ WrLow \/ GoodLast \/ WrHeader => wr_ptr' = Bumped
  BY DEF WrWait, WrHigh, WrLow, GoodLast, WrHeader
<1> QED BY <1>1, <1>2, <1>3, BumpStep, RollBackStep

\* What each case leaves on the write port.
LEMMA WritingStep ==
    ASSUME FlowInv, Clock
    PROVE  /\ WrWait \/ WrIdle \/ WrLow => wr_en' = FALSE /\ Writing' = 0
           /\ WrHigh => Writing = 0 /\ Committed = 0 /\ Writing' = 1
           /\ WrLow => Committed = 0
           /\ BadLast => Committed = 0 /\ Writing' = 0
           /\ GoodLast => Committed = 0 /\ Writing' \in {0, 1} /\ (wr_state = "HIGH" => Writing = 0)
           /\ WrHeader => Committed = 0 /\ Writing' = 0
           /\ WrWait \/ WrIdle => (wr_state = "IDLE" => Writing = 0)
<1>1. wr_state = "HIGH" => ~wr_en
  BY DEF FlowInv, WriteInv
<1>2. Types' /\ Types
  <2>1. [Next]_vars
    BY DEF Next
  <2> QED BY <2>1, NextTypes DEF FlowInv
<1>3. wr_en' \in BOOLEAN
  BY <1>2 DEF Types, TypeOK
<1>4. WrWait \/ WrIdle \/ WrLow => wr_en' = FALSE /\ Writing' = 0
  BY DEF WrWait, WrIdle, WrLow, Writing
<1>5. WrHigh => Writing = 0 /\ Committed = 0 /\ Writing' = 1
  BY <1>1 DEF WrHigh, WriteHigh, Writing, Committed
<1>6. WrLow => Committed = 0
  BY DEF WrLow, BufferLow, Committed
<1>7. BadLast => Committed = 0 /\ Writing' = 0
  BY DEF BadLast, WriteHigh, BufferLow, RollBack, Writing, Committed
<1>8. GoodLast => Committed = 0 /\ Writing' \in {0, 1} /\ (wr_state = "HIGH" => Writing = 0)
  BY <1>1, <1>3 DEF GoodLast, WriteHigh, BufferLow, Writing, Committed
<1>9. WrHeader => Committed = 0 /\ Writing' = 0
  BY DEF WrHeader, Writing, Committed
<1> QED BY <1>4, <1>5, <1>6, <1>7, <1>8, <1>9 DEF Writing

\* The RAM never overflows: the controller stops the source three words early, for the
\* beat in the stage and the header to come (GigabitIngressFIFO.sv:143).
LEMMA SpaceKept ==
    ASSUME FlowInv, Clock
    PROVE  SpaceInv'
<1>1. /\ Types /\ RdSize + Reserved + Writing < DEPTH /\ RdSize + Reserved < DEPTH
      /\ RdSize \in Nat /\ Reserved \in Nat /\ Writing \in {0, 1} /\ Committed \in Nat /\ Seen \in Nat
      /\ wr_state \in {"IDLE", "HIGH", "LOW", "HEADER"} /\ DEPTH \in Nat /\ DEPTH > 3
  <2>1. Types /\ RdSize + Reserved + Writing < DEPTH
    BY DEF FlowInv, SpaceInv
  <2>2. RdSize \in Nat /\ Reserved \in Nat /\ Writing \in {0, 1} /\ Committed \in Nat
    BY <2>1, PointerTypes
  <2> QED BY <2>1, <2>2, StreamTypes, DepthAssumption
<1>2. PICK r \in {0, 1} : r <= RdSize /\ RdSize' = RdSize - r + Committed
  BY <1>1, ReaderStep
<1>3. tvalid_ff' => RdSize + Reserved + 2 < DEPTH
  <2>1. tvalid_ff' => WrSize > 2
    BY <1>1, StreamStep DEF taken, tready
  <2>2. WrSize = DEPTH - (RdSize + Reserved)
    BY <1>1, RoomFacts
  <2> QED BY <1>1, <2>1, <2>2
<1>4. /\ wr_state = "IDLE" => Writing = 0 /\ Committed = Reserved
      /\ wr_state # "IDLE" => Committed = 0
  BY DEF FlowInv, SpaceInv, Writing, Committed
<1>5. /\ wr_state = "HIGH" => 2 * Reserved = Seen + 1
      /\ wr_state = "LOW" => 2 * (Reserved + Writing) = Seen + 2
      /\ tvalid_ff => RdSize + Reserved + Writing + 1 < DEPTH
  BY DEF FlowInv, SpaceInv
<1>6. CASE WrWait /\ wr_state' = wr_state /\ ~tvalid_ff /\ Seen' = Seen
  <2>1. Reserved' = Reserved - Committed + Writing /\ Writing' = 0
    BY <1>6, ReservedStep, WritingStep
  <2>2. RdSize' + Reserved' + Writing' < DEPTH
    BY <1>1, <1>2, <2>1
  <2>3. tvalid_ff' => RdSize' + Reserved' + Writing' + 1 < DEPTH
    BY <1>1, <1>2, <1>3, <2>1
  <2>4. wr_state' = "IDLE" => Reserved' = 0
    BY <1>1, <1>4, <1>6, <2>1
  <2>5. /\ wr_state' = "HIGH" => 2 * Reserved' = Seen' + 1
        /\ wr_state' = "LOW" => 2 * (Reserved' + Writing') = Seen' + 2
    <3>1. wr_state' = "HIGH" => Writing = 0
      BY <1>6 DEF FlowInv, WriteInv, Writing
    <3> QED BY <1>1, <1>4, <1>5, <1>6, <2>1, <3>1
  <2> QED BY <2>2, <2>3, <2>4, <2>5 DEF SpaceInv
<1>7. CASE WrIdle /\ Seen = 0 /\ Seen' = 1 /\ ~tlast_ff
  <2>1. Reserved' = 1 /\ Writing' = 0
    BY <1>7, ReservedStep, WritingStep
  <2>2. wr_state = "IDLE" /\ wr_state' = "HIGH" /\ tvalid_ff
    BY <1>7 DEF WrIdle
  <2>3. RdSize' + Reserved' + Writing' < DEPTH
    BY <1>1, <1>2, <1>4, <1>5, <2>1, <2>2
  <2>4. tvalid_ff' => RdSize' + Reserved' + Writing' + 1 < DEPTH
    BY <1>1, <1>2, <1>3, <1>4, <2>1, <2>2
  <2> QED BY <1>7, <2>1, <2>2, <2>3, <2>4 DEF SpaceInv
<1>8. CASE WrHigh /\ Seen' = Seen + 1
  <2>1. Writing = 0 /\ Writing' = 1 /\ Committed = 0
    BY <1>8, WritingStep
  <2>2. Reserved' = Reserved
    BY <1>1, <1>8, <2>1, ReservedStep
  <2>3. wr_state = "HIGH" /\ wr_state' = "LOW" /\ tvalid_ff
    BY <1>8 DEF WrHigh, WriteHigh
  <2>4. RdSize' + Reserved' + Writing' < DEPTH
    BY <1>1, <1>2, <1>5, <2>1, <2>2, <2>3
  <2>5. tvalid_ff' => RdSize' + Reserved' + Writing' + 1 < DEPTH
    BY <1>1, <1>2, <1>3, <2>1, <2>2
  <2>6. 2 * (Reserved' + Writing') = Seen' + 2
    BY <1>1, <1>5, <1>8, <2>1, <2>2, <2>3
  <2> QED BY <2>3, <2>4, <2>5, <2>6 DEF SpaceInv
<1>9. CASE WrLow /\ Seen' = Seen + 1
  <2>1. Writing' = 0 /\ Committed = 0
    BY <1>9, WritingStep
  <2>2. Reserved' = Reserved + Writing
    BY <1>1, <1>9, <2>1, ReservedStep
  <2>3. wr_state = "LOW" /\ wr_state' = "HIGH" /\ tvalid_ff
    BY <1>9 DEF WrLow, BufferLow
  <2>4. RdSize' + Reserved' + Writing' + 1 < DEPTH
    BY <1>1, <1>2, <1>5, <2>1, <2>2, <2>3
  <2>5. 2 * Reserved' = Seen' + 1
    BY <1>1, <1>5, <1>9, <2>2, <2>3
  <2>6. RdSize' + Reserved' + Writing' < DEPTH
    BY <1>1, <1>2, <2>1, <2>2, <2>4
  <2> QED BY <2>3, <2>4, <2>5, <2>6 DEF SpaceInv
<1>10. CASE BadLast /\ tvalid_ff /\ Seen' = 0 /\ ~taken
  <2>1. Reserved' = 0 /\ Writing' = 0 /\ Committed = 0
    BY <1>10, ReservedStep, WritingStep
  <2>2. wr_state' = "IDLE" /\ ~tvalid_ff'
    BY <1>1, <1>10, StreamStep DEF BadLast, RollBack
  <2>3. RdSize' + Reserved' + Writing' < DEPTH
    BY <1>1, <1>2, <2>1
  <2> QED BY <2>1, <2>2, <2>3 DEF SpaceInv
<1>11. CASE GoodLast /\ tvalid_ff /\ Seen' = 0 /\ ~taken
  <2>1. Writing' \in {0, 1} /\ Committed = 0
    BY <1>11, WritingStep
  <2>2. Reserved' = Reserved + Writing
    BY <1>1, <1>11, <2>1, ReservedStep
  <2>3. wr_state' = "HEADER" /\ ~tvalid_ff'
    <3>1. wr_state' = "HEADER"
      BY <1>11 DEF GoodLast
    <3> QED BY <1>1, <1>11, <3>1, StreamStep
  <2>4. RdSize' + Reserved' + Writing' < DEPTH
    <3>1. RdSize + Reserved + Writing + 1 < DEPTH
      BY <1>5, <1>11
    <3>2. RdSize' = RdSize - r /\ (Writing' = 0 \/ Writing' = 1)
      BY <1>1, <1>2, <2>1
    <3> QED BY <1>1, <1>2, <2>2, <3>1, <3>2
  <2> QED BY <2>3, <2>4 DEF SpaceInv
<1>12. CASE WrHeader /\ ~tvalid_ff /\ Seen = 0 /\ Seen' = 0
  <2>1. Writing' = 0 /\ Committed = 0
    BY <1>12, WritingStep
  <2>2. Reserved' = Reserved + Writing
    BY <1>1, <1>12, <2>1, ReservedStep
  <2>3. wr_state' = "IDLE" /\ wr_en' = TRUE
    BY <1>12 DEF WrHeader
  <2>4. RdSize' + Reserved' + Writing' < DEPTH
    BY <1>1, <1>2, <2>1, <2>2
  <2>5. tvalid_ff' => RdSize' + Reserved' + Writing' + 1 < DEPTH
    BY <1>1, <1>2, <1>3, <2>1, <2>2
  <2> QED BY <2>3, <2>4, <2>5 DEF SpaceInv
<1> QED BY <1>6, <1>7, <1>8, <1>9, <1>10, <1>11, <1>12, ControllerCases

\* A slot counted from the published pointer can be counted from the write pointer.
LEMMA WriteSlot ==
    ASSUME Types, NEW x \in Nat, Reserved + x < DEPTH
    PROVE  Addr(wr_ptr_committed + (Reserved + x)) = Addr(wr_ptr + x)
BY PointerTypes, AddrFromThere DEF Reserved

\* The address of the next word does not depend on the wrap bit.
LEMMA AddrOfNext ==
    ASSUME Types
    PROVE  Addr(Ptr(wr_ptr + 1)) = Addr(wr_ptr + 1)
<1>1. wr_ptr \in Pointers /\ Ptr(wr_ptr + 1) \in Int /\ wr_ptr + 1 \in Int
  BY PointerTypes, PtrFacts DEF Pointers
<1>2. Addr(Ptr(wr_ptr + 1) + 0) = Addr(wr_ptr + 1 + 0)
  BY <1>1, AddrOfPtr, DepthAssumption
<1> QED BY <1>1, <1>2

\* Where each case writes: the next free word, the word after one that is still being
\* written, or the word reserved for the header.
LEMMA WriteAddress ==
    ASSUME FlowInv, Clock, wr_en'
    PROVE  /\ WrHigh \/ BadLast \/ GoodLast \/ WrHeader
           /\ WrHigh \/ BadLast => Writing = 0 /\ wr_addr' = Addr(wr_ptr_committed + Reserved)
           /\ GoodLast => wr_addr' = Addr(wr_ptr_committed + (Reserved + Writing))
           /\ WrHeader => wr_addr' = Addr(wr_ptr_committed)
           /\ wr_ptr_committed' = wr_ptr_committed
<1>1. Types /\ RdSize + Reserved + Writing < DEPTH /\ (wr_state = "HIGH" => ~wr_en)
  BY DEF FlowInv, SpaceInv, WriteInv
<1>2. Reserved \in Nat /\ RdSize \in Nat /\ Writing \in {0, 1} /\ wr_ptr \in Int /\ DEPTH \in Nat
  BY <1>1, PointerTypes, DepthAssumption
<1>3. WrHigh \/ BadLast \/ GoodLast \/ WrHeader
  BY ControllerCases DEF WrWait, WrIdle, WrLow
<1>4. Addr(wr_ptr) = Addr(wr_ptr_committed + Reserved)
  <2>1. Reserved + 0 = Reserved /\ wr_ptr + 0 = wr_ptr /\ Reserved + 0 < DEPTH
    BY <1>1, <1>2
  <2>2. Addr(wr_ptr_committed + (Reserved + 0)) = Addr(wr_ptr + 0)
    BY <1>1, <2>1, WriteSlot
  <2> QED BY <2>1, <2>2
<1>5. Addr(wr_ptr + Writing) = Addr(wr_ptr_committed + (Reserved + Writing))
  BY <1>1, <1>2, WriteSlot
<1>6. WriteHigh => Writing = 0 /\ wr_addr' = Addr(wr_ptr)
  BY <1>1 DEF WriteHigh, Writing
<1>7. WrHigh \/ BadLast => Writing = 0 /\ wr_addr' = Addr(wr_ptr)
  <2>1. BadLast => WriteHigh
    BY DEF BadLast
  <2> QED BY <1>6, <2>1 DEF WrHigh
<1>8. GoodLast => wr_addr' = Addr(wr_ptr + Writing)
  <2>1. CASE WriteHigh
    <3>1. wr_ptr + 0 = wr_ptr
      BY <1>2
    <3> QED BY <1>6, <2>1, <3>1
  <2>2. CASE GoodLast /\ BufferLow
    <3>1. wr_addr' = LastWordAddr /\ wr_state = "LOW"
      BY <2>2 DEF GoodLast, BufferLow, WriteHigh
    <3>2. Writing = IF wr_en THEN 1 ELSE 0
      BY <3>1 DEF Writing
    <3>3. LastWordAddr = Addr(wr_ptr + Writing)
      BY <1>2, <3>2 DEF LastWordAddr
    <3> QED BY <3>1, <3>3
  <2> QED BY <2>1, <2>2 DEF GoodLast
<1>9. WrHeader => wr_addr' = Addr(wr_ptr_committed)
  BY DEF WrHeader, FlowInv, WriteInv
<1>10. wr_state # "IDLE"
  BY <1>3 DEF WrHigh, WriteHigh, BadLast, GoodLast, BufferLow, WrHeader
<1>11. wr_ptr_committed' = wr_ptr_committed
  BY <1>10 DEF Clock, Commit
<1>12. WrHigh \/ BadLast => wr_addr' = Addr(wr_ptr_committed + Reserved)
  BY <1>4, <1>7
<1>13. GoodLast => wr_addr' = Addr(wr_ptr_committed + (Reserved + Writing))
  BY <1>5, <1>8
<1> QED BY <1>3, <1>7, <1>9, <1>11, <1>12, <1>13

\* The write port and the start pointer stay where they should.
LEMMA WriteKept ==
    ASSUME FlowInv, Clock
    PROVE  WriteInv'
<1>1. /\ Types /\ RdSize + Reserved + Writing < DEPTH /\ RdSize + Reserved < DEPTH
      /\ RdSize \in Nat /\ Reserved \in Nat /\ Writing \in {0, 1} /\ DEPTH \in Nat /\ DEPTH > 3
      /\ wr_ptr_committed \in Int /\ wr_ptr \in Int /\ wr_ptr \in Pointers
  <2>1. Types /\ RdSize + Reserved + Writing < DEPTH
    BY DEF FlowInv, SpaceInv
  <2>2. /\ RdSize \in Nat /\ Reserved \in Nat /\ Writing \in {0, 1}
        /\ wr_ptr_committed \in Int /\ wr_ptr \in Int /\ wr_ptr \in Pointers
    BY <2>1, PointerTypes
  <2> QED BY <2>1, <2>2, DepthAssumption
<1>2. PICK r \in {0, 1} : r <= RdSize /\ RdSize' = RdSize - r + Committed
  BY <1>1, ReaderStep
<1>3. ASSUME wr_en'
      PROVE  \E x \in Addresses : RdSize' + x < DEPTH /\ wr_addr' = Addr(wr_ptr_committed' + x)
  <2>1. wr_ptr_committed' = wr_ptr_committed /\ (WrHigh \/ BadLast \/ GoodLast \/ WrHeader)
    BY <1>3, WriteAddress
  <2>2. Committed = 0
    BY <2>1, WritingStep
  <2>3. RdSize' = RdSize - r
    BY <1>1, <1>2, <2>2
  <2>4. tvalid_ff => RdSize + Reserved + Writing + 1 < DEPTH
    BY DEF FlowInv, SpaceInv
  <2>5. CASE WrHigh \/ BadLast
    <3>1. wr_addr' = Addr(wr_ptr_committed' + Reserved)
      BY <1>3, <2>1, <2>5, WriteAddress
    <3>2. Reserved \in Addresses /\ RdSize' + Reserved < DEPTH
      BY <1>1, <1>2, <2>3 DEF Addresses
    <3> QED BY <3>1, <3>2
  <2>6. CASE GoodLast
    <3>1. wr_addr' = Addr(wr_ptr_committed' + (Reserved + Writing))
      BY <1>3, <2>1, <2>6, WriteAddress
    <3>2. Reserved + Writing \in Addresses /\ RdSize' + (Reserved + Writing) < DEPTH
      BY <1>1, <1>2, <2>3 DEF Addresses
    <3> QED BY <3>1, <3>2
  <2>7. CASE WrHeader
    <3>1. wr_addr' = Addr(wr_ptr_committed' + 0)
      BY <1>1, <1>3, <2>1, <2>7, WriteAddress
    <3>2. 0 \in Addresses /\ RdSize' + 0 < DEPTH
      BY <1>1, <1>2, <2>3 DEF Addresses
    <3> QED BY <3>1, <3>2
  <2> QED BY <2>1, <2>5, <2>6, <2>7
<1>4. wr_state' = "HIGH" => ~wr_en'
  <2>1. /\ WrHigh => wr_state' = "LOW"
        /\ BadLast \/ WrHeader => wr_state' = "IDLE"
        /\ GoodLast => wr_state' = "HEADER"
    BY DEF WrHigh, BadLast, RollBack, WrHeader, GoodLast
  <2> QED BY <2>1, WriteAddress
<1>5. wr_state' \in {"LOW", "HEADER"} /\ wr_en' => wr_addr' = Addr(wr_ptr')
  <2> SUFFICES ASSUME wr_state' \in {"LOW", "HEADER"}, wr_en' PROVE wr_addr' = Addr(wr_ptr')
    OBVIOUS
  <2>1. WrHigh \/ GoodLast
    BY WriteAddress DEF BadLast, RollBack, WrHeader
  <2>2. wr_ptr' = Bumped
    BY <2>1, ReservedStep
  <2>3. Addr(Ptr(wr_ptr + 1)) = Addr(wr_ptr + 1)
    BY <1>1, AddrOfNext
  <2>4. wr_addr' = Addr(wr_ptr_committed + (Reserved + Writing))
    <3>1. WrHigh => Writing = 0 /\ wr_addr' = Addr(wr_ptr_committed + Reserved)
      BY WriteAddress
    <3>2. WrHigh => Reserved + Writing = Reserved
      BY <1>1, <3>1
    <3> QED BY <2>1, <3>1, <3>2, WriteAddress
  <2>5. Addr(wr_ptr_committed + (Reserved + Writing)) = Addr(wr_ptr + Writing)
    BY <1>1, WriteSlot
  <2>6. CASE Writing = 1
    <3>1. wr_ptr' = Ptr(wr_ptr + 1)
      BY <2>2, <2>6 DEF Bumped, Writing
    <3> QED BY <2>3, <2>4, <2>5, <2>6, <3>1
  <2>7. CASE Writing = 0
    <3>1. wr_ptr' = wr_ptr
      BY <2>2, <2>7 DEF Bumped, Writing
    <3>2. wr_ptr + 0 = wr_ptr
      BY <1>1
    <3> QED BY <2>4, <2>5, <2>7, <3>1, <3>2
  <2> QED BY <1>1, <2>6, <2>7
<1>6. wr_state' # "IDLE" => sof_ptr' = Addr(wr_ptr_committed')
  <2>1. CASE WrIdle
    <3>1. sof_ptr' = Addr(wr_ptr) /\ wr_state = "IDLE"
      BY <2>1 DEF WrIdle
    <3>2. CASE wr_en
      BY <3>1, <3>2 DEF Clock, Commit
    <3>3. CASE ~wr_en
      <4>1. Reserved = 0 /\ wr_ptr_committed' = wr_ptr_committed
        BY <3>1, <3>3 DEF FlowInv, SpaceInv, Clock, Commit
      <4>2. Addr(wr_ptr_committed + (0 + 0)) = Addr(wr_ptr + 0)
        BY <1>1, <4>1, WriteSlot
      <4>3. wr_ptr_committed + (0 + 0) = wr_ptr_committed /\ wr_ptr + 0 = wr_ptr
        BY <1>1
      <4> QED BY <3>1, <4>1, <4>2, <4>3
    <3> QED BY <3>2, <3>3
  <2>2. CASE wr_state # "IDLE"
    <3>1. wr_ptr_committed' = wr_ptr_committed /\ sof_ptr = Addr(wr_ptr_committed)
      BY <2>2 DEF Clock, Commit, FlowInv, WriteInv
    <3>2. UNCHANGED sof_ptr
      BY <2>2 DEF Clock, Controller, WrWait, WrIdle, WrHigh, WriteHigh, WrLow, BufferLow, BadLast, GoodLast, WrHeader
    <3> QED BY <3>1, <3>2
  <2>3. CASE WrWait /\ wr_state = "IDLE"
    BY <2>3 DEF WrWait
  <2> QED BY <2>1, <2>2, <2>3, ControllerCases DEF WrHigh, WriteHigh, WrLow, BufferLow, BadLast, GoodLast, WrHeader
<1> QED BY <1>3, <1>4, <1>5, <1>6 DEF WriteInv

\* Where a frame starts decides whether it can be given back.  With the line bad only
\* while the wrap bit is zero, a bad frame is chosen at least two words before it wraps.
LEMMA StartKept ==
    ASSUME FlowInv, Clock, ErrorsAnywhere = FALSE
    PROVE  StartInv'
<1>1. /\ Types /\ StreamInv /\ wr_ptr \in Nat /\ wr_ptr < 2 * DEPTH /\ wr_ptr_committed \in Nat /\ Writing \in {0, 1}
      /\ DEPTH \in Nat /\ DEPTH > 3 /\ wr_state \in {"IDLE", "HIGH", "LOW", "HEADER"}
      /\ bus.fr \in Frames /\ bus.idx \in Nat /\ tvalid_ff \in BOOLEAN /\ tlast_ff \in BOOLEAN
      /\ bus.idx < bus.fr.beats /\ bus.fr.beats \in Nat /\ bus.fr.beats >= 2
  <2>1. Types /\ StreamInv
    BY DEF FlowInv
  <2>2. wr_ptr \in Pointers /\ wr_ptr_committed \in Pointers /\ Writing \in {0, 1}
    BY <2>1, PointerTypes
  <2>3. wr_ptr \in Nat /\ wr_ptr < 2 * DEPTH /\ wr_ptr_committed \in Nat
    BY <2>2, DepthAssumption DEF Pointers
  <2> QED BY <2>1, <2>2, <2>3, StreamTypes, FrameFacts, DepthAssumption DEF StreamInv
<1>2. Current' = bus.fr /\ Seen' = bus.idx
  BY <1>1, StreamStep
<1>3. Permitted(bus'.fr) \/ bus'.fr = bus.fr
  BY <1>1, BusStep
<1>4. wr_ptr + 1 < 2 * DEPTH => Ptr(wr_ptr + 1) = wr_ptr + 1
  BY <1>1, PtrFacts
<1>5. wr_ptr' = Bumped /\ wr_ptr + Writing < DEPTH => wr_ptr' = wr_ptr + Writing
  BY <1>1, <1>4 DEF Bumped, Writing
<1>6. wr_state' = "IDLE" /\ Current'.bad => wr_ptr' < DEPTH
  <2> SUFFICES ASSUME wr_state' = "IDLE", bus.fr.bad PROVE wr_ptr' < DEPTH
    BY <1>2
  <2>1. CASE BadLast
    <3>1. wr_ptr' \in Addresses
      BY <1>1, <2>1, PointerTypes DEF BadLast, RollBack
    <3> QED BY <1>1, <3>1 DEF Addresses
  <2>2. CASE WrHeader
    <3>1. wr_ptr + Writing < DEPTH /\ wr_ptr' = Bumped
      BY <2>2 DEF FlowInv, StartInv, WrHeader
    <3> QED BY <1>1, <1>5, <3>1
  <2>3. CASE WrWait /\ wr_state' = wr_state /\ ~tvalid_ff
    <3>1. wr_ptr < DEPTH /\ wr_ptr' = wr_ptr
      BY <2>3 DEF FlowInv, StartInv, Current, WrWait, Bumped
    <3> QED BY <3>1
  <2> QED BY <2>1, <2>2, <2>3, ControllerCases DEF WrIdle, WrHigh, WrLow, GoodLast
<1>7. wr_state' \in {"HIGH", "LOW"} /\ Current'.bad => wr_ptr_committed' < DEPTH
  <2> SUFFICES ASSUME wr_state' \in {"HIGH", "LOW"}, bus.fr.bad PROVE wr_ptr_committed' < DEPTH
    BY <1>2
  <2>1. Current = bus.fr
    <3>1. CASE tvalid_ff
      <4>1. ~tlast_ff
        BY <3>1, ControllerCases DEF WrIdle, WrHigh, WrLow, BadLast, RollBack, GoodLast, WrHeader
      <4> QED BY <1>1, <3>1, <4>1 DEF StreamInv, Current
    <3> QED BY <3>1 DEF Current
  <2>2. CASE WrIdle
    <3>1. wr_ptr < DEPTH /\ wr_state = "IDLE"
      BY <2>1, <2>2 DEF FlowInv, StartInv, WrIdle
    <3>2. CASE wr_en
      BY <3>1, <3>2 DEF Clock, Commit
    <3>3. CASE ~wr_en
      <4>1. wr_ptr_committed' = wr_ptr_committed /\ Reserved = 0
        BY <3>1, <3>3 DEF FlowInv, SpaceInv, Clock, Commit
      <4>2. wr_ptr \in Pointers /\ wr_ptr_committed \in Pointers
        BY <1>1, PointerTypes
      <4>3. Ptr(wr_ptr - wr_ptr_committed) = 0 => wr_ptr = wr_ptr_committed
        BY <4>2, PtrFacts, DepthAssumption DEF Pointers
      <4> QED BY <3>1, <4>1, <4>3 DEF Reserved
    <3> QED BY <3>2, <3>3
  <2>3. CASE wr_state \in {"HIGH", "LOW"}
    BY <2>1, <2>3 DEF FlowInv, StartInv, Clock, Commit
  <2> QED BY <1>1, <2>2, <2>3, ControllerCases DEF WrWait, WrHigh, WriteHigh, WrLow, BufferLow, BadLast, RollBack, GoodLast, WrHeader
<1>8. wr_state' = "HEADER" /\ bus'.fr.bad => wr_ptr' + Writing' < DEPTH
  <2> SUFFICES ASSUME wr_state' = "HEADER", bus'.fr.bad PROVE wr_ptr' + Writing' < DEPTH
    OBVIOUS
  <2>1. GoodLast /\ tvalid_ff /\ ~taken
    BY ControllerCases DEF WrWait, WrIdle, WrHigh, WrLow, BadLast, RollBack, WrHeader
  <2>2. tlast_ff /\ bus.idx = 0 /\ wr_state \in {"HIGH", "LOW"} /\ wr_ptr' = Bumped
    BY <1>1, <2>1 DEF StreamInv, GoodLast, WriteHigh, BufferLow
  <2>3. bus'.fr = bus.fr
    BY <1>1, <2>1, BusStep
  <2>4. wr_ptr + Writing + 1 < DEPTH
    BY <2>2, <2>3 DEF FlowInv, StartInv
  <2>5. Writing' = 0 \/ Writing' = 1
    BY <2>1, WritingStep
  <2>6. wr_ptr' = wr_ptr + Writing
    BY <1>1, <1>5, <2>2, <2>4
  <2> QED BY <1>1, <2>4, <2>5, <2>6
<1>9. wr_state' \in {"HIGH", "LOW"} /\ bus'.idx = 0 /\ bus'.fr.bad => wr_ptr' + Writing' + 1 < DEPTH
  <2> SUFFICES ASSUME wr_state' \in {"HIGH", "LOW"}, bus'.idx = 0, bus'.fr.bad
               PROVE  wr_ptr' + Writing' + 1 < DEPTH
    OBVIOUS
  <2>1. Seen' # 0
    BY <1>1, StreamKept DEF StreamInv
  <2>2. taken /\ busLast
    BY <1>1, <1>2, <2>1, BusStep
  <2>3. wr_ptr + 2 < DEPTH
    BY <1>1, <2>2, BusStep DEF Permitted
  <2>4. /\ WrWait \/ WrIdle \/ WrLow => Writing' = 0
        /\ WrHigh => Writing' = 1 /\ Writing = 0
        /\ WrWait \/ WrIdle \/ WrLow \/ WrHigh
    BY ControllerCases, WritingStep DEF BadLast, RollBack, GoodLast, WrHeader
  <2>5. /\ WrIdle => wr_ptr' = wr_ptr + 1
        /\ WrWait \/ WrLow \/ WrHigh => wr_ptr' = wr_ptr + Writing
    <3>1. WrIdle => wr_ptr' = wr_ptr + 1
      BY <1>1, <1>4, <2>3 DEF WrIdle
    <3>2. wr_ptr + Writing < DEPTH
      BY <1>1, <2>3
    <3> QED BY <1>5, <3>1, <3>2 DEF WrWait, WrLow, WrHigh
  <2>6. CASE WrHigh
    BY <1>1, <2>3, <2>4, <2>5, <2>6
  <2>7. CASE WrIdle
    BY <1>1, <2>3, <2>4, <2>5, <2>7
  <2>8. CASE WrWait \/ WrLow
    <3>1. wr_ptr' = wr_ptr + Writing /\ Writing' = 0
      BY <2>4, <2>5, <2>8
    <3> QED BY <1>1, <2>3, <3>1
  <2> QED BY <2>4, <2>6, <2>7, <2>8
<1> QED BY <1>6, <1>7, <1>8, <1>9 DEF StartInv

\* An empty FIFO, initially and after the link has flapped.
LEMMA EmptyFlow ==
    ASSUME Types, ~tvalid_ff, ~wr_en, wr_state = "IDLE", bus.idx = 0,
           wr_ptr = 0, wr_ptr_committed = 0, rd_ptr = 0
    PROVE  FlowInv
<1>1. RdSize = 0 /\ Reserved = 0 /\ Writing = 0
  BY CountFromHere, DepthAssumption DEF Pointers, RdSize, Reserved, Writing
<1>2. Seen = 0
  BY DEF Seen
<1>3. bus.idx < bus.fr.beats
  BY StreamTypes, FrameFacts
<1>4. StreamInv
  BY <1>2, <1>3 DEF StreamInv
<1>5. SpaceInv /\ StartInv /\ WriteInv
  BY <1>1, DepthAssumption DEF SpaceInv, StartInv, WriteInv
<1> QED BY <1>4, <1>5 DEF FlowInv

\* The controller starts empty.
LEMMA InitFlow == Init => FlowInv
<1> SUFFICES ASSUME Init PROVE FlowInv
  OBVIOUS
<1>1. bus.idx = 0
  BY DEF Init
<1> QED BY <1>1, InitTypes, EmptyFlow DEF Init

\* Every step keeps the stream, the write port and the pointers in order.
LEMMA NextFlow ==
    ASSUME FlowInv, [Next]_vars, ErrorsAnywhere = FALSE
    PROVE  FlowInv'
<1>1. Types /\ Types'
  BY NextTypes DEF FlowInv
<1>2. CASE Clock
  BY <1>1, <1>2, StreamKept, WriteKept, SpaceKept, StartKept DEF FlowInv
<1>3. CASE LinkReset
  <2>1. RdSize' = 0 /\ Reserved' = 0 /\ Writing' = 0
    <3>1. Ptr(0 - 0) = 0
      BY CountFromHere, DepthAssumption DEF Pointers
    <3> QED BY <1>3, <3>1 DEF LinkReset, RdSize, Reserved, Writing
  <2>2. bus'.idx = 0 /\ bus'.fr = bus.fr /\ Seen' = 0
    BY <1>1, <1>3, StreamTypes DEF LinkReset, Seen, Types, TypeOK
  <2>3. bus'.idx < bus'.fr.beats
    BY <1>1, <2>2, StreamTypes, FrameFacts
  <2>4. StreamInv'
    BY <1>3, <2>2, <2>3 DEF LinkReset, StreamInv
  <2>5. SpaceInv' /\ StartInv' /\ WriteInv'
    BY <1>3, <2>1, DepthAssumption DEF LinkReset, SpaceInv, StartInv, WriteInv
  <2> QED BY <1>1, <2>4, <2>5 DEF FlowInv
<1>4. CASE UNCHANGED vars
  BY <1>1, <1>4 DEF vars, inVars, ctlVars, FlowInv, StreamInv, WriteInv, SpaceInv, StartInv,
                    Current, Seen, Reserved, Writing, RdSize
<1> QED BY <1>2, <1>3, <1>4 DEF Next

\* Line 219 does what it says as long as a bad frame never starts with the wrap bit
\* set: then every bad frame gives back all its words.
THEOREM RollsBackBelowTheWrap ==
    ASSUME ErrorsAnywhere = FALSE
    PROVE  Spec => RollsBackToStart
<1>1. FlowInv /\ [Next]_vars => [BadLast /\ Clock => wr_ptr' = wr_ptr_committed]_vars
  BY RollBackStep
<1>2. FlowInv /\ [Next]_vars => FlowInv'
  BY NextFlow
<1> QED BY <1>1, <1>2, InitFlow, PTL DEF Spec, RollsBackToStart

=============================================================================
