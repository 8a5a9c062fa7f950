--------------------------- MODULE IngressQueue_proofs ---------------------------
(***************************************************************************)
(* What the ingress FIFO holds.  The words of a good frame that are in the *)
(* RAM or on its write port are the words the frame is made of, and no     *)
(* write ever lands on a word that is published: so the reader sees whole  *)
(* good frames, in order, each after its own header, and none is lost.     *)
(***************************************************************************)
EXTENDS IngressFIFO_proofs

\* A word of the RAM as it will be once the write on the port is done.
Stored(a) == IF wr_en /\ a = wr_addr THEN wr_data ELSE mem[a]

\* The reader can see everything that is owed to it, or all but one frame.
Alone == Len(owed) = RdSize
Follows(fr) ==
    /\ Len(owed) = RdSize + Len(FrameWords(fr))
    /\ \A j \in 1 .. Len(FrameWords(fr)) : owed[RdSize + j] = FrameWords(fr)[j]

\* The first words of a frame are where they belong, after the word kept for the header.
DataStored(fr, n) == \A k \in 1 .. n : Stored(Addr(wr_ptr_committed + k)) = Word(fr, k)

\* A frame on its way in: its words so far, the half word that waits for the other
\* half, its length so far; it is owed to the reader as soon as its last beat is taken.
Entering ==
    /\ frame_len = 4 * Seen
    /\ DataStored(Current, Seen \div 2)
    /\ wr_state = "HIGH" => wr_data.lo = Half(Current, Seen - 1)
    /\ tvalid_ff /\ tlast_ff /\ ~Current.bad => Follows(Current)
    /\ ~(tvalid_ff /\ tlast_ff /\ ~Current.bad) => Alone

\* A frame that lacks only its header, and a frame whose header is on the write port.
HeaderDue(fr) ==
    /\ ~fr.bad /\ Follows(fr)
    /\ frame_vlan = fr.vlan /\ frame_len = Bytes(fr)
    /\ Reserved + Writing = 1 + DataCount(fr)
    /\ DataStored(fr, DataCount(fr))
HeaderWritten(fr) ==
    /\ ~fr.bad /\ Follows(fr) /\ wr_en
    /\ Reserved = 1 + DataCount(fr)
    /\ \A j \in 1 .. Reserved : Stored(Addr(wr_ptr_committed + (j - 1))) = FrameWords(fr)[j]

ContentInv ==
    /\ wr_state \in {"HIGH", "LOW"} => Entering
    /\ wr_state = "HEADER" => \E fr \in Frames : HeaderDue(fr)
    /\ wr_state = "IDLE" /\ Reserved # 0 => \E fr \in Frames : HeaderWritten(fr)
    /\ wr_state = "IDLE" /\ Reserved = 0 => Alone

\* What the reader sees, and what its read in flight will bring.
Published ==
    /\ RdSize <= Len(owed)
    /\ \A i \in 1 .. RdSize : mem[Addr(rd_ptr + (i - 1))] = owed[i]
    /\ rdq.en => mem[rdq.addr] = rdq.want

QueueInv == FlowInv /\ ContentInv /\ Published

-----------------------------------------------------------------------------
(* The RAM.                                                                *)

\* A clock edge does the write on the port and puts the next one there.
LEMMA StoredStep ==
    ASSUME Types, Clock
    PROVE  \A a \in Addresses : /\ mem'[a] = Stored(a)
                                /\ Stored(a)' = IF wr_en' /\ a = wr_addr' THEN wr_data' ELSE Stored(a)
<1>1. mem \in [Addresses -> Words]
  BY DEF Types, TypeOK, Addresses
<1>2. mem' = IF wr_en THEN [mem EXCEPT ![wr_addr] = wr_data] ELSE mem
  BY DEF Clock, RamWrite
<1>3. \A a \in Addresses : mem'[a] = IF wr_en /\ a = wr_addr THEN wr_data ELSE mem[a]
  BY <1>1, <1>2
<1> QED BY <1>3 DEF Stored

\* The write on the port does not touch what the reader may see.
LEMMA VisibleIsSafe ==
    ASSUME FlowInv
    PROVE  \A i \in 1 .. RdSize : Stored(Addr(rd_ptr + (i - 1))) = mem[Addr(rd_ptr + (i - 1))]
<1> SUFFICES ASSUME NEW i \in 1 .. RdSize, wr_en, Addr(rd_ptr + (i - 1)) = wr_addr
             PROVE  FALSE
  BY DEF Stored
<1>1. /\ RdSize \in Nat /\ DEPTH \in Nat /\ rd_ptr \in Pointers /\ wr_ptr_committed \in Pointers
      /\ wr_ptr_committed \in Int
  BY PointerTypes, DepthAssumption DEF FlowInv
<1>2. PICK x \in Addresses : RdSize + x < DEPTH /\ wr_addr = Addr(wr_ptr_committed + x)
  BY DEF FlowInv, WriteInv
<1>3. x \in Nat
  BY <1>1, <1>2 DEF Addresses
<1>4. Addr(rd_ptr + (RdSize + x)) = Addr(wr_ptr_committed + x)
  BY <1>1, <1>2, <1>3, AddrFromThere DEF RdSize
<1>5. i - 1 \in Addresses /\ RdSize + x \in Addresses /\ i - 1 # RdSize + x
  BY <1>1, <1>2, <1>3 DEF Addresses
<1> QED BY <1>1, <1>2, <1>4, <1>5, AddrDistinct

\* Every slot counted from a pointer is in the RAM.
LEMMA SlotInRange ==
    ASSUME Types, NEW x \in Int
    PROVE  Addr(rd_ptr + x) \in Addresses /\ Addr(wr_ptr_committed + x) \in Addresses
BY PointerTypes, AddrFacts

\* Two slots counted from the published pointer differ.
LEMMA SlotsDiffer ==
    ASSUME Types, NEW x \in Addresses, NEW y \in Addresses, x # y
    PROVE  Addr(wr_ptr_committed + x) # Addr(wr_ptr_committed + y)
BY PointerTypes, AddrDistinct

-----------------------------------------------------------------------------
(* What is owed.                                                           *)

\* What the reader takes leaves at the front, what is promised comes at the back.
LEMMA OwedStep ==
    ASSUME Types, RdSize <= Len(owed),
           NEW r \in {0, 1}, r <= RdSize, r = 0 => ReadNothing, r = 1 => ReadWord
    PROVE  /\ Len(owed') = Len(owed) - r + Len(Promise)
           /\ \A i \in 1 .. (Len(owed) - r) : owed'[i] = owed[i + r]
           /\ \A j \in 1 .. Len(Promise) : owed'[Len(owed) - r + j] = Promise[j]
<1>1. owed \in Seq(Words) /\ Promise \in Seq(Words)
  <2>1. bus.fr \in Frames /\ <<>> \in Seq(Words)
    BY DEF Types, TypeOK
  <2> QED BY <2>1, FrameWordsType DEF Promise, Types, TypeOK
<1>2. \A s \in Seq(Words) : Len(s) \in Nat
  BY LenProperties
<1>3. CASE r = 0
  <2>1. owed' = owed \o Promise
    BY <1>3 DEF ReadNothing
  <2>2. /\ Len(owed') = Len(owed) + Len(Promise)
        /\ \A i \in 1 .. Len(owed) + Len(Promise) :
               owed'[i] = IF i <= Len(owed) THEN owed[i] ELSE Promise[i - Len(owed)]
    BY <1>1, <2>1, ConcatProperties
  <2>3. \A i \in 1 .. Len(owed) : owed'[i] = owed[i]
    BY <1>1, <1>2, <2>2
  <2>4. \A j \in 1 .. Len(Promise) : owed'[Len(owed) + j] = Promise[j]
    <3> TAKE j \in 1 .. Len(Promise)
    <3>1. Len(owed) + j \in 1 .. Len(owed) + Len(Promise) /\ ~(Len(owed) + j <= Len(owed))
      BY <1>1, <1>2
    <3>2. Len(owed) + j - Len(owed) = j
      BY <1>1, <1>2
    <3> QED BY <2>2, <3>1, <3>2
  <2>5. \A i \in 1 .. (Len(owed) - 0) : i + 0 = i
    BY <1>1, <1>2
  <2>6. Len(owed) - 0 = Len(owed)
    BY <1>1, <1>2
  <2> QED BY <1>3, <2>2, <2>3, <2>4, <2>5, <2>6
<1>4. CASE r = 1
  <2>1. owed # <<>>
    BY <1>1, <1>4, PointerTypes
  <2>2. owed' = Tail(owed) \o Promise
    BY <1>4, <2>1 DEF ReadWord
  <2>3. /\ Tail(owed) \in Seq(Words) /\ Len(Tail(owed)) = Len(owed) - 1 /\ Len(owed) - 1 \in Nat
        /\ \A i \in 1 .. Len(Tail(owed)) : Tail(owed)[i] = owed[i + 1]
    BY <1>1, <2>1, HeadTailProperties
  <2>4. /\ Len(owed') = Len(owed) - 1 + Len(Promise)
        /\ \A i \in 1 .. (Len(owed) - 1) + Len(Promise) :
               owed'[i] = IF i <= Len(owed) - 1 THEN Tail(owed)[i] ELSE Promise[i - (Len(owed) - 1)]
    BY <1>1, <2>2, <2>3, ConcatProperties
  <2>5. \A i \in 1 .. (Len(owed) - 1) : owed'[i] = owed[i + 1]
    BY <1>1, <1>2, <2>3, <2>4
  <2>6. \A j \in 1 .. Len(Promise) : owed'[Len(owed) - 1 + j] = Promise[j]
    <3> TAKE j \in 1 .. Len(Promise)
    <3>1. Len(owed) - 1 + j \in 1 .. (Len(owed) - 1) + Len(Promise) /\ ~(Len(owed) - 1 + j <= Len(owed) - 1)
      BY <1>1, <1>2, <2>3
    <3>2. Len(owed) - 1 + j - (Len(owed) - 1) = j
      BY <1>1, <1>2
    <3> QED BY <2>4, <3>1, <3>2
  <2> QED BY <1>4, <2>4, <2>5, <2>6
<1> QED BY <1>3, <1>4

\* The frame whose last beat is taken is the one in the pipeline stage afterwards, and
\* the state machine is in the middle of it.
LEMMA PromiseStep ==
    ASSUME FlowInv, Clock
    PROVE  /\ Promise # <<>> => /\ tvalid_ff' /\ tlast_ff' /\ ~Current'.bad
                                /\ wr_state' \in {"HIGH", "LOW"} /\ Promise = FrameWords(Current')
           /\ Promise = <<>> => ~(tvalid_ff' /\ tlast_ff' /\ ~Current'.bad)
<1>1. Types /\ StreamInv
  BY DEF FlowInv
<1>2. Current' = bus.fr /\ Seen' = bus.idx /\ tvalid_ff' = taken /\ tlast_ff' = busLast
  BY <1>1, StreamStep
<1>3. bus.fr \in Frames /\ bus.fr.beats \in Nat /\ bus.fr.beats >= 2
  BY <1>1, StreamTypes, FrameFacts
<1>4. FrameWords(bus.fr) # <<>>
  BY <1>3, FrameWordsFacts, FrameFacts
<1>5. taken /\ busLast => wr_state' \in {"HIGH", "LOW"}
  <2> SUFFICES ASSUME taken, busLast PROVE wr_state' \in {"HIGH", "LOW"}
    OBVIOUS
  <2>1. bus.idx # 0
    BY <1>3 DEF busLast
  <2>2. wr_state' # "IDLE"
    BY <1>1, <1>2, <2>1, StreamKept DEF StreamInv
  <2>3. wr_state' # "HEADER"
    BY <1>1, <1>2, StreamKept DEF StreamInv
  <2>4. wr_state' \in {"IDLE", "HIGH", "LOW", "HEADER"}
    BY <1>1, ControllerTypes DEF Clock
  <2> QED BY <2>2, <2>3, <2>4
<1> QED BY <1>2, <1>4, <1>5 DEF Promise

\* Everything the reader will be able to see after the edge is already in the RAM, or on
\* its port, and owed.
LEMMA SettledWords ==
    ASSUME QueueInv
    PROVE  /\ RdSize + Committed <= Len(owed)
           /\ \A i \in 1 .. (RdSize + Committed) : Stored(Addr(rd_ptr + (i - 1))) = owed[i]
<1>1. /\ Types /\ RdSize \in Nat /\ Reserved \in Nat /\ Committed \in Nat /\ DEPTH \in Nat
      /\ rd_ptr \in Pointers /\ wr_ptr_committed \in Pointers /\ RdSize + Reserved < DEPTH
  <2>1. Types /\ RdSize + Reserved + Writing < DEPTH
    BY DEF QueueInv, FlowInv, SpaceInv
  <2>2. RdSize + Reserved < DEPTH
    BY <2>1, PointerTypes, DepthAssumption
  <2> QED BY <2>1, <2>2, PointerTypes, DepthAssumption
<1>2. \A i \in 1 .. RdSize : Stored(Addr(rd_ptr + (i - 1))) = owed[i]
  BY VisibleIsSafe DEF QueueInv, Published
<1>3. CASE Committed = 0
  BY <1>1, <1>2, <1>3 DEF QueueInv, Published
<1>4. CASE Committed # 0
  <2>1. wr_state = "IDLE" /\ Committed = Reserved /\ Reserved # 0
    BY <1>4 DEF Committed
  <2>2. PICK fr \in Frames : HeaderWritten(fr)
    BY <2>1 DEF QueueInv, ContentInv
  <2>3. Len(FrameWords(fr)) = Reserved
    BY <2>2, FrameWordsFacts DEF HeaderWritten
  <2>4. Len(owed) = RdSize + Reserved
    BY <2>2, <2>3 DEF HeaderWritten, Follows
  <2>5. ASSUME NEW i \in 1 .. (RdSize + Reserved), i > RdSize
        PROVE  Stored(Addr(rd_ptr + (i - 1))) = owed[i]
    <3> DEFINE j == i - RdSize
    <3>1. j \in 1 .. Reserved /\ j - 1 \in Nat /\ RdSize + j = i /\ RdSize + (j - 1) = i - 1 /\ i - 1 < DEPTH
      BY <1>1, <2>5
    <3> HIDE DEF j
    <3>2. Addr(rd_ptr + (RdSize + (j - 1))) = Addr(wr_ptr_committed + (j - 1))
      BY <1>1, <3>1, AddrFromThere DEF RdSize
    <3>3. Stored(Addr(wr_ptr_committed + (j - 1))) = FrameWords(fr)[j]
      BY <2>2, <3>1 DEF HeaderWritten
    <3>4. owed[RdSize + j] = FrameWords(fr)[j]
      BY <2>2, <2>3, <3>1 DEF HeaderWritten, Follows
    <3> QED BY <3>1, <3>2, <3>3, <3>4
  <2> QED BY <1>1, <1>2, <2>1, <2>4, <2>5
<1> QED BY <1>3, <1>4

\* The edge, seen from the reader: it has taken r words.
LEMMA ReaderEdge ==
    ASSUME QueueInv, Clock
    PROVE  \E r \in {0, 1} :
              /\ r <= RdSize /\ rd_ptr' = Ptr(rd_ptr + r)
              /\ RdSize' = RdSize - r + Committed
              /\ r = 0 => ReadNothing
              /\ r = 1 => ReadWord
              /\ Len(owed') = Len(owed) - r + Len(Promise)
              /\ \A i \in 1 .. (Len(owed) - r) : owed'[i] = owed[i + r]
              /\ \A j \in 1 .. Len(Promise) : owed'[Len(owed) - r + j] = Promise[j]
<1>1. Types /\ RdSize + Reserved < DEPTH
  <2>1. Types /\ RdSize + Reserved + Writing < DEPTH
    BY DEF QueueInv, FlowInv, SpaceInv
  <2> QED BY <2>1, PointerTypes, DepthAssumption
<1>2. PICK r \in {0, 1} : /\ r <= RdSize /\ rd_ptr' = Ptr(rd_ptr + r)
                          /\ RdSize' = RdSize - r + Committed
                          /\ r = 0 => ReadNothing
                          /\ r = 1 => ReadWord
  BY <1>1, ReaderStep
<1>3. RdSize <= Len(owed)
  BY DEF QueueInv, Published
<1>4. /\ Len(owed') = Len(owed) - r + Len(Promise)
      /\ \A i \in 1 .. (Len(owed) - r) : owed'[i] = owed[i + r]
      /\ \A j \in 1 .. Len(Promise) : owed'[Len(owed) - r + j] = Promise[j]
  BY <1>1, <1>2, <1>3, OwedStep
<1> QED BY <1>2, <1>4

\* What the reader sees after the edge is the oldest of what is owed then.
LEMMA PublishedKept ==
    ASSUME QueueInv, Clock
    PROVE  Published'
<1>1. PICK r \in {0, 1} :
              /\ r <= RdSize /\ rd_ptr' = Ptr(rd_ptr + r)
              /\ RdSize' = RdSize - r + Committed
              /\ r = 0 => ReadNothing
              /\ r = 1 => ReadWord
              /\ Len(owed') = Len(owed) - r + Len(Promise)
              /\ \A i \in 1 .. (Len(owed) - r) : owed'[i] = owed[i + r]
              /\ \A j \in 1 .. Len(Promise) : owed'[Len(owed) - r + j] = Promise[j]
  BY ReaderEdge
<1>2. /\ Types /\ RdSize \in Nat /\ Committed \in Nat /\ DEPTH \in Nat /\ DEPTH > 3 /\ rd_ptr \in Pointers /\ rd_ptr \in Int
      /\ Len(owed) \in Nat /\ Len(Promise) \in Nat
      /\ owed \in Seq(Words)
  <2>1. Types /\ bus.fr \in Frames /\ owed \in Seq(Words)
    BY DEF QueueInv, FlowInv, Types, TypeOK
  <2>2. Promise \in Seq(Words)
    BY <2>1, FrameWordsType DEF Promise
  <2> QED BY <2>1, <2>2, PointerTypes, DepthAssumption, LenProperties
<1>3. /\ RdSize + Committed <= Len(owed)
      /\ \A i \in 1 .. (RdSize + Committed) : Stored(Addr(rd_ptr + (i - 1))) = owed[i]
  BY SettledWords
<1>4. RdSize' <= Len(owed')
  BY <1>1, <1>2, <1>3
<1>5. ASSUME NEW i \in 1 .. RdSize'
      PROVE  mem'[Addr(rd_ptr' + (i - 1))] = owed'[i]
  <2>1. i \in 1 .. (RdSize + Committed - r) /\ i + r \in 1 .. (RdSize + Committed) /\ i \in 1 .. (Len(owed) - r)
    BY <1>1, <1>2, <1>3
  <2>2. i - 1 \in 0 .. DEPTH
    <3>1. RdSize + Committed <= DEPTH
      <4>1. RdSize + Reserved + Writing < DEPTH /\ Reserved \in Nat /\ Writing \in {0, 1}
        BY <1>2, PointerTypes DEF QueueInv, FlowInv, SpaceInv
      <4>2. Committed = 0 \/ Committed = Reserved
        BY DEF Committed
      <4> QED BY <1>2, <4>1, <4>2
    <3> QED BY <1>1, <1>2, <2>1, <3>1
  <2>3. Addr(rd_ptr' + (i - 1)) = Addr(rd_ptr + ((i + r) - 1))
    <3>1. CASE r = 0
      <4>1. 0 <= rd_ptr /\ rd_ptr < 2 * DEPTH /\ rd_ptr + 0 = rd_ptr /\ (i + 0) - 1 = i - 1
        BY <1>2, <2>1 DEF Pointers
      <4>2. rd_ptr' = rd_ptr
        BY <1>1, <1>2, <3>1, <4>1, PtrFacts
      <4> QED BY <3>1, <4>1, <4>2
    <3>2. CASE r = 1
      <4>1. rd_ptr' = Ptr(rd_ptr + 1) /\ rd_ptr + 1 + (i - 1) = rd_ptr + ((i + 1) - 1)
        <5>1. rd_ptr' = Ptr(rd_ptr + 1)
          BY <1>1, <3>2
        <5>2. rd_ptr + 1 + (i - 1) = rd_ptr + ((i + 1) - 1)
          BY <1>2, <2>1
        <5> QED BY <5>1, <5>2
      <4>2. Addr(Ptr(rd_ptr + 1) + (i - 1)) = Addr(rd_ptr + 1 + (i - 1))
        BY <1>2, <2>2, AddrOfPtr
      <4> QED BY <3>2, <4>1, <4>2
    <3> QED BY <3>1, <3>2
  <2>4. Addr(rd_ptr + ((i + r) - 1)) \in Addresses
    <3>1. (i + r) - 1 \in Int
      BY <1>2, <2>1
    <3> QED BY <1>2, <3>1, SlotInRange
  <2>5. mem'[Addr(rd_ptr + ((i + r) - 1))] = Stored(Addr(rd_ptr + ((i + r) - 1)))
    BY <1>2, <2>4, StoredStep
  <2>6. Stored(Addr(rd_ptr + ((i + r) - 1))) = owed[i + r]
    BY <1>3, <2>1
  <2>7. owed'[i] = owed[i + r]
    BY <1>1, <2>1
  <2> QED BY <2>3, <2>5, <2>6, <2>7
<1>6. rdq'.en => mem'[rdq'.addr] = rdq'.want
  <2>1. CASE r = 0
    <3>1. rdq' = [rdq EXCEPT !.en = FALSE]
      BY <1>1, <2>1 DEF ReadNothing
    <3>2. rdq \in [en : BOOLEAN, addr : Addresses, want : Words]
      BY <1>2 DEF Types, TypeOK, Addresses
    <3> QED BY <3>1, <3>2
  <2>2. CASE r = 1
    <3>1. owed # <<>> /\ Head(owed) = owed[1] /\ 1 \in 1 .. (RdSize + Committed)
      BY <1>1, <1>2, <1>3, <2>2, HeadTailProperties
    <3>2. rdq'.addr = Addr(rd_ptr) /\ rdq'.want = owed[1]
      BY <1>1, <2>2, <3>1 DEF ReadWord
    <3>3. rd_ptr + (1 - 1) = rd_ptr /\ Addr(rd_ptr) \in Addresses
      BY <1>2, AddrFacts
    <3>4. mem'[Addr(rd_ptr)] = Stored(Addr(rd_ptr))
      BY <1>2, <3>3, StoredStep
    <3>5. Stored(Addr(rd_ptr + (1 - 1))) = owed[1]
      BY <1>3, <3>1
    <3> QED BY <3>2, <3>3, <3>4, <3>5
  <2> QED BY <2>1, <2>2
<1> QED BY <1>4, <1>5, <1>6 DEF Published

\* If everything owed is seen after the edge but what the edge promises, then the reader
\* can see all, or all but the frame just taken.
LEMMA AloneStep ==
    ASSUME QueueInv, Clock, Len(owed) = RdSize + Committed
    PROVE  /\ Promise = <<>> => Alone'
           /\ \A fr \in Frames : Promise = FrameWords(fr) => Follows(fr)'
<1>1. PICK r \in {0, 1} :
              /\ r <= RdSize
              /\ RdSize' = RdSize - r + Committed
              /\ Len(owed') = Len(owed) - r + Len(Promise)
              /\ \A j \in 1 .. Len(Promise) : owed'[Len(owed) - r + j] = Promise[j]
  BY ReaderEdge
<1>2. RdSize \in Nat /\ Committed \in Nat
  BY PointerTypes DEF QueueInv, FlowInv
<1>3. RdSize' = Len(owed) - r /\ RdSize' \in Nat
  BY <1>1, <1>2
<1>4. Promise = <<>> => Len(Promise) = 0
  OBVIOUS
<1>5. Promise = <<>> => Alone'
  BY <1>1, <1>2, <1>3, <1>4 DEF Alone
<1>6. ASSUME NEW fr \in Frames, Promise = FrameWords(fr)
      PROVE  Follows(fr)'
  BY <1>1, <1>3, <1>6 DEF Follows
<1> QED BY <1>5, <1>6

\* A frame that waits to be published keeps its place behind what the reader sees.
LEMMA FollowsStep ==
    ASSUME QueueInv, Clock, Committed = 0, Promise = <<>>
    PROVE  \A fr \in Frames : Follows(fr) => Follows(fr)'
<1> SUFFICES ASSUME NEW fr \in Frames, Follows(fr) PROVE Follows(fr)'
  OBVIOUS
<1>1. PICK r \in {0, 1} :
              /\ r <= RdSize
              /\ RdSize' = RdSize - r + Committed
              /\ Len(owed') = Len(owed) - r + Len(Promise)
              /\ \A i \in 1 .. (Len(owed) - r) : owed'[i] = owed[i + r]
  BY ReaderEdge
<1>2. RdSize \in Nat /\ Len(FrameWords(fr)) \in Nat
  BY PointerTypes, FrameWordsFacts, FrameFacts DEF QueueInv, FlowInv
<1>3. Len(Promise) = 0 /\ RdSize' = RdSize - r
  BY <1>1, <1>2
<1>4. Len(owed) = RdSize + Len(FrameWords(fr))
  BY DEF Follows
<1>5. Len(owed') = RdSize' + Len(FrameWords(fr))
  BY <1>1, <1>2, <1>3, <1>4
<1>6. ASSUME NEW j \in 1 .. Len(FrameWords(fr))
      PROVE  owed'[RdSize' + j] = FrameWords(fr)[j]
  <2>1. RdSize' + j \in 1 .. (Len(owed) - r) /\ RdSize' + j + r = RdSize + j
    BY <1>1, <1>2, <1>3, <1>4
  <2>2. owed'[RdSize' + j] = owed[RdSize + j]
    BY <1>1, <2>1
  <2> QED BY <2>2 DEF Follows
<1> QED BY <1>5, <1>6 DEF Follows

-----------------------------------------------------------------------------
(* The frame on its way in.                                                *)

\* The words a frame fills, by the half of a word it ends in: in the lower half there is
\* one more word if the last beat brings any byte.
LEMMA WordCount ==
    ASSUME NEW fr \in Frames, NEW m \in Nat
    PROVE  /\ fr.beats = 2 * m => DataCount(fr) = m
           /\ fr.beats = 2 * m + 1 => DataCount(fr) = IF fr.tail > 0 THEN m + 1 ELSE m
<1>1. fr.beats \in Nat /\ fr.tail \in 0 .. 4
  BY FrameFacts
<1>2. fr.beats = 2 * m => DataCount(fr) = m
  <2> SUFFICES ASSUME fr.beats = 2 * m PROVE DataCount(fr) = m
    OBVIOUS
  <2>1. Bytes(fr) + 7 = 8 * m + (3 + fr.tail) /\ 3 + fr.tail \in 0 .. 7
    BY <1>1 DEF Bytes
  <2> QED BY <1>1, <2>1 DEF DataCount
<1>3. fr.beats = 2 * m + 1 => DataCount(fr) = IF fr.tail > 0 THEN m + 1 ELSE m
  <2> SUFFICES ASSUME fr.beats = 2 * m + 1
               PROVE  DataCount(fr) = IF fr.tail > 0 THEN m + 1 ELSE m
    OBVIOUS
  <2>1. Bytes(fr) + 7 = 8 * m + (7 + fr.tail)
    BY <1>1 DEF Bytes
  <2> QED BY <1>1, <2>1 DEF DataCount
<1> QED BY <1>2, <1>3

\* The beat in the pipeline stage is the next half word of the frame.
LEMMA StageHalf ==
    ASSUME FlowInv, tvalid_ff
    PROVE  /\ half_ff = Half(Current, Seen) /\ Seen < Current.beats
           /\ tlast_ff => Seen = Current.beats - 1 /\ wr_valid = Current.tail
           /\ ~tlast_ff => wr_valid = 4
           /\ Current = beat_ff.fr /\ (~tlast_ff => bus.fr = Current)
<1>1. Current = beat_ff.fr /\ Seen = beat_ff.idx
  BY DEF Current, Seen
<1>2. beat_ff.idx < beat_ff.fr.beats /\ (tlast_ff <=> beat_ff.idx = beat_ff.fr.beats - 1)
  BY DEF FlowInv, StreamInv
<1>3. ~tlast_ff => bus.fr = Current
  BY <1>1 DEF FlowInv, StreamInv
<1> QED BY <1>1, <1>2, <1>3 DEF half_ff, Half, wr_valid

\* A word stays as it is unless the edge puts a write to it on the port.
LEMMA StoredKept ==
    ASSUME Types, Clock, UNCHANGED wr_ptr_committed, NEW x \in Int,
           wr_en' => wr_addr' # Addr(wr_ptr_committed + x)
    PROVE  Stored(Addr(wr_ptr_committed + x))' = Stored(Addr(wr_ptr_committed + x))
<1>1. Addr(wr_ptr_committed + x) \in Addresses
  BY SlotInRange
<1>2. mem'[Addr(wr_ptr_committed + x)] = Stored(Addr(wr_ptr_committed + x))
  BY <1>1, StoredStep
<1> QED BY <1>2 DEF Stored, Addr

\* The word on the port is as good as stored.
LEMMA StoredNew ==
    ASSUME UNCHANGED wr_ptr_committed, NEW x \in Int, wr_en',
           wr_addr' = Addr(wr_ptr_committed + x)
    PROVE  Stored(Addr(wr_ptr_committed + x))' = wr_data'
BY DEF Stored, Addr

\* The first words of the frame stay as they are while the edge writes behind them.
LEMMA DataKept ==
    ASSUME Types, Clock, UNCHANGED wr_ptr_committed,
           NEW fr \in Frames, NEW n \in Nat, DataStored(fr, n),
           wr_en' => \E y \in Addresses : wr_addr' = Addr(wr_ptr_committed + y) /\ (y > n \/ y = 0),
           n < DEPTH
    PROVE  DataStored(fr, n)'
<1> SUFFICES ASSUME NEW k \in 1 .. n
             PROVE  Stored(Addr(wr_ptr_committed + k))' = Word(fr, k)
  BY DEF DataStored
<1>1. k \in Addresses /\ k \in Int
  BY DepthAssumption DEF Addresses
<1>2. wr_en' => wr_addr' # Addr(wr_ptr_committed + k)
  BY <1>1, SlotsDiffer
<1>3. Stored(Addr(wr_ptr_committed + k)) = Word(fr, k)
  BY DEF DataStored
<1> QED BY <1>1, <1>2, <1>3, StoredKept

\* Between frames everything owed is visible, or will be with the next edge.
LEMMA IdleOwed ==
    ASSUME QueueInv, wr_state = "IDLE"
    PROVE  Len(owed) = RdSize + Committed
<1>1. RdSize \in Nat
  BY PointerTypes DEF QueueInv, FlowInv
<1>2. CASE Reserved = 0
  <2>1. Alone /\ Committed = 0
    BY <1>2 DEF QueueInv, ContentInv, Committed
  <2> QED BY <1>1, <2>1 DEF Alone
<1>3. CASE Reserved # 0
  <2>1. PICK fr \in Frames : HeaderWritten(fr)
    BY <1>3 DEF QueueInv, ContentInv
  <2>2. Committed = Reserved
    BY <2>1 DEF Committed, HeaderWritten
  <2> QED BY <2>1, <2>2, FrameWordsFacts DEF HeaderWritten, Follows
<1> QED BY <1>2, <1>3

\* In the middle of a frame, too, until its last beat is taken.
LEMMA EnteringOwed ==
    ASSUME QueueInv, Clock, Len(owed) = RdSize + Committed
    PROVE  /\ tvalid_ff' /\ tlast_ff' /\ ~Current'.bad => Follows(Current)'
           /\ ~(tvalid_ff' /\ tlast_ff' /\ ~Current'.bad) => Alone'
<1>1. bus.fr \in Frames /\ Current' = bus.fr
  BY StreamTypes, StreamStep DEF QueueInv, FlowInv
<1>2. PICK fr \in Frames : fr = bus.fr
  BY <1>1
<1>3. Promise # <<>> => /\ tvalid_ff' /\ tlast_ff' /\ ~Current'.bad
                        /\ Promise = FrameWords(fr)
  BY <1>1, <1>2, PromiseStep DEF QueueInv
<1>4. Promise = <<>> => ~(tvalid_ff' /\ tlast_ff' /\ ~Current'.bad)
  BY PromiseStep DEF QueueInv
<1>5. Promise = <<>> => Alone'
  BY AloneStep
<1>6. Promise = FrameWords(fr) => Follows(fr)'
  BY AloneStep
<1>7. Follows(fr)' => Follows(Current)'
  BY <1>1, <1>2 DEF Follows
<1> QED BY <1>3, <1>4, <1>5, <1>6, <1>7

\* What every case needs of the state before the edge.
LEMMA QueueFacts ==
    ASSUME QueueInv
    PROVE  /\ Types /\ FlowInv /\ Current \in Frames /\ Seen \in Nat
           /\ Reserved \in Nat /\ Writing \in {0, 1} /\ RdSize \in Nat
           /\ RdSize + Reserved + Writing < DEPTH /\ DEPTH \in Nat /\ DEPTH > 3
           /\ wr_state \in {"IDLE", "HIGH", "LOW", "HEADER"}
           /\ tvalid_ff => RdSize + Reserved + Writing + 1 < DEPTH
           /\ wr_state # "IDLE" => Committed = 0
           /\ frame_len \in Nat
<1>1. Types /\ FlowInv
  BY DEF QueueInv, FlowInv
<1>2. RdSize + Reserved + Writing < DEPTH /\ (tvalid_ff => RdSize + Reserved + Writing + 1 < DEPTH)
  BY DEF QueueInv, FlowInv, SpaceInv
<1>3. wr_state # "IDLE" => Committed = 0
  BY DEF Committed
<1>4. frame_len \in Nat
  BY <1>1 DEF Types, TypeOK
<1> QED BY <1>1, <1>2, <1>3, <1>4, PointerTypes, StreamTypes, DepthAssumption

\* Without a beat nothing is added to the frame, and what was published is seen.
LEMMA WaitContent ==
    ASSUME QueueInv, Clock, WrWait, wr_state' = wr_state, ~tvalid_ff, Seen' = Seen
    PROVE  ContentInv'
<1>1. /\ Types /\ FlowInv /\ Current \in Frames /\ Seen \in Nat /\ Reserved \in Nat /\ DEPTH \in Nat
      /\ wr_state \in {"IDLE", "HIGH", "LOW", "HEADER"} /\ RdSize + Reserved + Writing < DEPTH
  BY QueueFacts
<1>2. wr_en' = FALSE /\ wr_state # "HEADER"
  BY DEF WrWait
<1>3. CASE wr_state = "IDLE"
  <2>1. Reserved' = 0
    <3>1. Reserved' = Reserved - Committed + Writing /\ Writing = 0
      BY <1>1, <1>3, ReservedStep DEF Writing
    <3>2. Committed = Reserved
      BY <1>3 DEF QueueInv, FlowInv, SpaceInv, Committed
    <3> QED BY <1>1, <3>1, <3>2
  <2>2. Promise = <<>>
    BY <1>1, <1>3, PromiseStep
  <2>3. Alone'
    BY <1>3, <2>2, IdleOwed, AloneStep
  <2> QED BY <1>3, <2>1, <2>3 DEF ContentInv
<1>4. CASE wr_state \in {"HIGH", "LOW"}
  <2>1. Entering /\ Alone
    BY <1>4 DEF QueueInv, ContentInv, Entering
  <2>2. UNCHANGED <<wr_ptr_committed, frame_len, wr_data>> /\ Committed = 0
    BY <1>4 DEF Clock, Commit, WrWait, Committed
  <2>3. Len(owed) = RdSize + Committed
    BY <2>1, <2>2, QueueFacts DEF Alone
  <2>4. Current' = Current
    BY <1>1, StreamStep DEF Current
  <2>5. PICK fr \in Frames, n \in Nat : fr = Current /\ n = Seen \div 2
    BY <1>1
  <2>6. n < DEPTH
    <3>1. wr_state = "HIGH" => 2 * Reserved = Seen + 1
      BY DEF QueueInv, FlowInv, SpaceInv
    <3>2. wr_state = "LOW" => 2 * (Reserved + Writing) = Seen + 2
      BY DEF QueueInv, FlowInv, SpaceInv
    <3>3. RdSize \in Nat /\ Writing \in {0, 1}
      BY QueueFacts
    <3> QED BY <1>1, <1>4, <2>5, <3>1, <3>2, <3>3
  <2>7. DataStored(fr, n)'
    <3>1. DataStored(fr, n)
      BY <2>1, <2>5 DEF Entering
    <3> QED BY <1>1, <1>2, <2>2, <2>6, <3>1, DataKept
  <2>8. DataStored(Current, Seen \div 2)'
    BY <2>4, <2>5, <2>7 DEF DataStored
  <2>9. frame_len' = 4 * Seen' /\ (wr_state' = "HIGH" => wr_data'.lo = Half(Current', Seen' - 1))
    BY <2>1, <2>2, <2>4 DEF Entering
  <2>10. Entering'
    BY <2>3, <2>8, <2>9, EnteringOwed DEF Entering
  <2> QED BY <1>4, <2>10 DEF ContentInv
<1> QED BY <1>1, <1>2, <1>3, <1>4

\* The first beat of a frame.
LEMMA IdleContent ==
    ASSUME QueueInv, Clock, WrIdle, Seen = 0, Seen' = 1, ~tlast_ff
    PROVE  ContentInv'
<1>1. Types /\ FlowInv /\ wr_state = "IDLE" /\ tvalid_ff /\ wr_state' = "HIGH"
  BY QueueFacts DEF WrIdle
<1>2. half_ff = Half(Current, 0) /\ wr_valid = 4 /\ bus.fr = Current
  BY <1>1, StageHalf
<1>3. Current' = Current
  BY <1>1, <1>2, StreamStep
<1>4. frame_len' = 4 * Seen'
  BY <1>2 DEF WrIdle
<1>5. wr_data'.lo = Half(Current', Seen' - 1)
  BY <1>2, <1>3 DEF WrIdle, Data
<1>6. DataStored(Current, Seen \div 2)'
  <2>1. Seen' \div 2 = 0
    OBVIOUS
  <2> QED BY <2>1 DEF DataStored
<1>7. Entering'
  BY <1>1, <1>4, <1>5, <1>6, IdleOwed, EnteringOwed DEF Entering
<1> QED BY <1>1, <1>7 DEF ContentInv

\* A beat in HIGH puts a data word on the port, behind the words of the frame before it.
LEMMA HighWord ==
    ASSUME QueueInv, Clock, WriteHigh, wr_addr' = Addr(wr_ptr_committed + Reserved)
    PROVE  \E fr \in Frames, n \in Nat :
              /\ fr = Current /\ n = Seen \div 2 /\ Seen = 2 * n + 1 /\ Reserved = n + 1
              /\ DataStored(fr, n + 1)' /\ UNCHANGED wr_ptr_committed
<1>1. /\ Types /\ FlowInv /\ Current \in Frames /\ Seen \in Nat /\ Reserved \in Nat /\ DEPTH \in Nat
      /\ RdSize + Reserved + Writing < DEPTH /\ RdSize \in Nat /\ Writing \in {0, 1}
  BY QueueFacts
<1>2. wr_state = "HIGH" /\ tvalid_ff
  BY DEF WriteHigh
<1>3. Entering /\ Seen % 2 = 1 /\ 2 * Reserved = Seen + 1
  BY <1>2 DEF QueueInv, ContentInv, FlowInv, StreamInv, SpaceInv
<1>4. PICK fr \in Frames, n \in Nat : fr = Current /\ n = Seen \div 2
  BY <1>1
<1>5. Seen = 2 * n + 1 /\ Reserved = n + 1
  BY <1>1, <1>3, <1>4
<1>6. UNCHANGED wr_ptr_committed
  BY <1>2 DEF Clock, Commit
<1>7. n + 1 \in Addresses /\ n + 1 < DEPTH /\ n < DEPTH
  BY <1>1, <1>5 DEF Addresses
<1>8. DataStored(fr, n)'
  <2>1. DataStored(fr, n)
    BY <1>3, <1>4 DEF Entering
  <2>2. \E y \in Addresses : wr_addr' = Addr(wr_ptr_committed + y) /\ (y > n \/ y = 0)
    BY <1>5, <1>7
  <2> QED BY <1>1, <1>6, <1>7, <2>1, <2>2, DataKept
<1>9. Stored(Addr(wr_ptr_committed + (n + 1)))' = Word(fr, n + 1)
  <2>1. wr_en' /\ wr_data' = Data(Half(Current, Seen - 1), Half(Current, Seen))
    BY <1>1, <1>2, <1>3, StageHalf DEF WriteHigh, Entering
  <2>2. 2 * (n + 1) - 2 = Seen - 1 /\ 2 * (n + 1) - 1 = Seen
    BY <1>5
  <2>3. wr_data' = Word(fr, n + 1)
    BY <1>4, <2>1, <2>2 DEF Word
  <2>4. wr_addr' = Addr(wr_ptr_committed + (n + 1)) /\ n + 1 \in Int
    BY <1>5
  <2> QED BY <1>6, <2>1, <2>3, <2>4, StoredNew
<1>10. DataStored(fr, n + 1)'
  BY <1>8, <1>9 DEF DataStored
<1> QED BY <1>4, <1>5, <1>6, <1>10

\* A beat in HIGH that is not the last.
LEMMA HighContent ==
    ASSUME QueueInv, Clock, WrHigh, Seen' = Seen + 1
    PROVE  ContentInv'
<1>1. Types /\ FlowInv /\ Seen \in Nat
  BY QueueFacts
<1>2. WriteHigh /\ wr_state = "HIGH" /\ tvalid_ff /\ ~tlast_ff /\ wr_state' = "LOW" /\ wr_en'
  BY DEF WrHigh, WriteHigh
<1>3. PICK fr \in Frames, n \in Nat :
              /\ fr = Current /\ n = Seen \div 2 /\ Seen = 2 * n + 1 /\ Reserved = n + 1
              /\ DataStored(fr, n + 1)' /\ UNCHANGED wr_ptr_committed
  BY <1>1, <1>2, WriteAddress, HighWord
<1>4. Entering /\ Alone /\ Committed = 0
  BY <1>2 DEF QueueInv, ContentInv, Entering, Committed
<1>5. Current' = Current /\ wr_valid = 4
  BY <1>1, <1>2, StageHalf, StreamStep
<1>6. frame_len' = 4 * Seen'
  BY <1>1, <1>2, <1>4, <1>5 DEF WriteHigh, Entering
<1>7. DataStored(Current, Seen \div 2)'
  <2>1. Seen' \div 2 = n + 1
    BY <1>3
  <2> QED BY <1>3, <1>5, <2>1 DEF DataStored
<1>8. Len(owed) = RdSize + Committed
  BY <1>4, QueueFacts DEF Alone
<1>9. Entering'
  BY <1>2, <1>6, <1>7, <1>8, EnteringOwed DEF Entering
<1> QED BY <1>2, <1>9 DEF ContentInv

\* A beat in LOW that is not the last waits for its other half.
LEMMA LowContent ==
    ASSUME QueueInv, Clock, WrLow, Seen' = Seen + 1
    PROVE  ContentInv'
<1>1. /\ Types /\ FlowInv /\ Current \in Frames /\ Seen \in Nat /\ Reserved \in Nat /\ DEPTH \in Nat
      /\ RdSize + Reserved + Writing < DEPTH /\ RdSize \in Nat /\ Writing \in {0, 1}
  BY QueueFacts
<1>2. wr_state = "LOW" /\ tvalid_ff /\ ~tlast_ff /\ wr_state' = "HIGH" /\ ~wr_en'
  BY DEF WrLow, BufferLow
<1>3. Entering /\ Alone /\ Committed = 0 /\ Seen % 2 = 0 /\ 2 * (Reserved + Writing) = Seen + 2
  BY <1>2 DEF QueueInv, ContentInv, Entering, Committed, FlowInv, StreamInv, SpaceInv
<1>4. PICK fr \in Frames, n \in Nat : fr = Current /\ n = Seen \div 2
  BY <1>1
<1>5. Seen = 2 * n /\ n < DEPTH
  BY <1>1, <1>3, <1>4
<1>6. UNCHANGED wr_ptr_committed
  BY <1>2 DEF Clock, Commit
<1>7. DataStored(fr, n)'
  <2>1. DataStored(fr, n)
    BY <1>3, <1>4 DEF Entering
  <2> QED BY <1>1, <1>2, <1>5, <1>6, <2>1, DataKept
<1>8. Current' = Current /\ wr_valid = 4 /\ half_ff = Half(Current, Seen)
  BY <1>1, <1>2, StageHalf, StreamStep
<1>9. frame_len' = 4 * Seen'
  BY <1>1, <1>3, <1>8 DEF WrLow, BufferLow, Entering
<1>10. DataStored(Current, Seen \div 2)'
  <2>1. Seen' \div 2 = n
    BY <1>5
  <2> QED BY <1>4, <1>7, <1>8, <2>1 DEF DataStored
<1>11. wr_data'.lo = Half(Current', Seen' - 1)
  <2>1. Seen' - 1 = Seen
    BY <1>1
  <2> QED BY <1>8, <2>1 DEF WrLow, Data
<1>12. Len(owed) = RdSize + Committed
  BY <1>1, <1>3 DEF Alone
<1>13. Entering'
  BY <1>9, <1>10, <1>11, <1>12, EnteringOwed DEF Entering
<1> QED BY <1>2, <1>13 DEF ContentInv

\* The last beat of a bad frame leaves nothing behind (GigabitIngressFIFO.sv:219).
LEMMA BadContent ==
    ASSUME QueueInv, Clock, BadLast, ~taken
    PROVE  ContentInv'
<1>1. /\ wr_state \in {"HIGH", "LOW"} /\ tvalid_ff /\ tlast_ff /\ beat_ff.fr.bad
      /\ wr_state' = "IDLE" /\ FlowInv
  BY QueueFacts DEF BadLast, WriteHigh, BufferLow, RollBack
<1>2. Alone /\ Committed = 0
  BY <1>1 DEF QueueInv, ContentInv, Entering, Current, Committed
<1>3. Len(owed) = RdSize + Committed
  BY <1>2, QueueFacts DEF Alone
<1>4. Promise = <<>>
  BY DEF Promise
<1>5. Alone' /\ Reserved' = 0
  BY <1>1, <1>3, <1>4, AloneStep, ReservedStep
<1> QED BY <1>1, <1>5 DEF ContentInv

\* The last beat of a good frame completes its data words, whichever half it fills.
LEMMA LastWord ==
    ASSUME QueueInv, Clock, GoodLast, tvalid_ff
    PROVE  \E fr \in Frames :
              /\ fr = Current /\ DataStored(fr, DataCount(fr))' /\ Seen = fr.beats - 1
              /\ Reserved' + Writing' = 1 + DataCount(fr)
<1>1. /\ Types /\ FlowInv /\ Current \in Frames /\ Seen \in Nat /\ Reserved \in Nat /\ DEPTH \in Nat
      /\ RdSize + Reserved + Writing < DEPTH /\ RdSize \in Nat /\ Writing \in {0, 1}
      /\ RdSize + Reserved + Writing + 1 < DEPTH
  BY QueueFacts
<1>2. tlast_ff /\ ~beat_ff.fr.bad /\ wr_state' = "HEADER" /\ wr_ptr' = Bumped
  BY DEF GoodLast
<1>3. half_ff = Half(Current, Seen) /\ Seen = Current.beats - 1 /\ wr_valid = Current.tail
  BY <1>1, <1>2, StageHalf
<1>4. Committed = 0 /\ Reserved' = Reserved + Writing
  <2>1. Committed = 0 /\ Reserved' = Reserved - Committed + Writing
    BY <1>1, ReservedStep, WritingStep
  <2> QED BY <1>1, <2>1
<1>5. Writing' = IF wr_en' THEN 1 ELSE 0
  BY <1>2 DEF Writing
<1>6. CASE WriteHigh
  <2>1. Writing = 0 /\ wr_en'
    BY <1>1, <1>6, WritingStep DEF WriteHigh
  <2>2. wr_addr' = Addr(wr_ptr_committed + Reserved)
    <3>1. wr_addr' = Addr(wr_ptr_committed + (Reserved + Writing))
      BY <1>1, <2>1, WriteAddress
    <3>2. Reserved + Writing = Reserved
      BY <1>1, <2>1
    <3> QED BY <3>1, <3>2
  <2>3. PICK fr \in Frames, n \in Nat :
              /\ fr = Current /\ n = Seen \div 2 /\ Seen = 2 * n + 1 /\ Reserved = n + 1
              /\ DataStored(fr, n + 1)' /\ UNCHANGED wr_ptr_committed
    BY <1>6, <2>2, HighWord
  <2>4. DataCount(fr) = n + 1
    <3>1. fr.beats = 2 * (n + 1) /\ n + 1 \in Nat
      BY <1>3, <2>3, FrameFacts
    <3> QED BY <3>1, WordCount
  <2>5. Reserved' + Writing' = 1 + DataCount(fr)
    BY <1>4, <1>5, <2>1, <2>3, <2>4
  <2>6. DataStored(fr, DataCount(fr))'
    BY <2>3, <2>4 DEF DataStored
  <2> QED BY <1>3, <2>3, <2>5, <2>6
<1>7. CASE BufferLow /\ ~WriteHigh
  <2>1. wr_state = "LOW" /\ Entering /\ Seen % 2 = 0 /\ 2 * (Reserved + Writing) = Seen + 2
    BY <1>7 DEF BufferLow, QueueInv, ContentInv, FlowInv, StreamInv, SpaceInv
  <2>2. PICK fr \in Frames, n \in Nat : fr = Current /\ n = Seen \div 2
    BY <1>1
  <2>3. Seen = 2 * n /\ Reserved + Writing = n + 1
    BY <1>1, <2>1, <2>2
  <2>4. UNCHANGED wr_ptr_committed
    BY <2>1 DEF Clock, Commit
  <2>5. n + 1 \in Addresses /\ n < DEPTH /\ n + 1 \in Int
    BY <1>1, <2>3 DEF Addresses
  <2>6. wr_en' => wr_addr' = Addr(wr_ptr_committed + (n + 1))
    BY <1>1, <2>3, WriteAddress
  <2>7. DataStored(fr, n)'
    <3>1. DataStored(fr, n)
      BY <2>1, <2>2 DEF Entering
    <3>2. wr_en' => \E y \in Addresses : wr_addr' = Addr(wr_ptr_committed + y) /\ (y > n \/ y = 0)
      BY <2>5, <2>6
    <3> QED BY <1>1, <2>4, <2>5, <3>1, <3>2, DataKept
  <2>8. fr.beats = 2 * n + 1 /\ fr.tail \in Nat
    BY <1>3, <2>2, <2>3, FrameFacts
  <2>9. wr_en' <=> fr.tail > 0
    BY <1>3, <1>7, <2>2 DEF GoodLast
  <2>10. CASE fr.tail > 0
    <3>1. DataCount(fr) = n + 1
      BY <2>8, <2>10, WordCount
    <3>2. wr_en' /\ wr_data' = Data(Half(fr, Seen), Zero)
      BY <1>3, <1>7, <2>2, <2>9, <2>10 DEF GoodLast
    <3>3. wr_data' = Word(fr, n + 1)
      <4>1. 2 * (n + 1) - 2 = Seen /\ 2 * (n + 1) - 1 = fr.beats
        BY <2>3, <2>8
      <4>2. Half(fr, fr.beats) = Zero
        BY <2>8 DEF Half
      <4> QED BY <3>2, <4>1, <4>2 DEF Word
    <3>4. Stored(Addr(wr_ptr_committed + (n + 1)))' = Word(fr, n + 1)
      BY <2>4, <2>5, <2>6, <3>2, <3>3, StoredNew
    <3>5. DataStored(fr, n + 1)'
      BY <2>7, <3>4 DEF DataStored
    <3>6. DataStored(fr, DataCount(fr))'
      BY <3>1, <3>5 DEF DataStored
    <3>7. Reserved' + Writing' = 1 + DataCount(fr)
      BY <1>4, <1>5, <2>3, <3>1, <3>2
    <3> QED BY <1>3, <2>2, <3>6, <3>7
  <2>11. CASE ~(fr.tail > 0)
    <3>1. DataCount(fr) = n
      BY <2>8, <2>11, WordCount
    <3>2. Reserved' + Writing' = 1 + DataCount(fr)
      BY <1>4, <1>5, <2>3, <2>9, <2>11, <3>1
    <3>3. DataStored(fr, DataCount(fr))'
      BY <2>7, <3>1 DEF DataStored
    <3> QED BY <1>3, <2>2, <3>2, <3>3
  <2> QED BY <2>10, <2>11
<1> QED BY <1>6, <1>7 DEF GoodLast

\* The last beat of a good frame: only the header is still to come.
LEMMA GoodContent ==
    ASSUME QueueInv, Clock, GoodLast, tvalid_ff, ~taken
    PROVE  ContentInv'
<1>1. PICK fr \in Frames :
              /\ fr = Current /\ DataStored(fr, DataCount(fr))' /\ Seen = fr.beats - 1
              /\ Reserved' + Writing' = 1 + DataCount(fr)
  BY LastWord
<1>2. FlowInv /\ tlast_ff /\ ~fr.bad /\ fr = beat_ff.fr /\ wr_valid = fr.tail /\ Seen \in Nat
  <2>1. FlowInv /\ tlast_ff /\ ~beat_ff.fr.bad /\ Seen \in Nat
    BY QueueFacts DEF GoodLast
  <2> QED BY <1>1, <2>1, StageHalf
<1>3. wr_state \in {"HIGH", "LOW"} /\ wr_state' = "HEADER" /\ frame_vlan' = fr.vlan
  BY <1>2 DEF GoodLast, WriteHigh, BufferLow
<1>4. Entering /\ Committed = 0
  BY <1>3 DEF QueueInv, ContentInv, Committed
<1>5. frame_len' = Bytes(fr)
  <2>1. frame_len' = 4 * Seen + fr.tail
    BY <1>2, <1>4 DEF GoodLast, WriteHigh, BufferLow, Entering
  <2> QED BY <1>1, <2>1 DEF Bytes
<1>6. Follows(fr)
  BY <1>1, <1>2, <1>4 DEF Entering, Follows
<1>7. Follows(fr)'
  <2>1. Promise = <<>>
    BY DEF Promise
  <2> QED BY <1>4, <1>6, <2>1, FollowsStep
<1>8. HeaderDue(fr)'
  BY <1>1, <1>2, <1>3, <1>5, <1>7 DEF HeaderDue
<1> QED BY <1>3, <1>8 DEF ContentInv

\* The header write makes the frame whole.
LEMMA HeaderContent ==
    ASSUME QueueInv, Clock, WrHeader
    PROVE  ContentInv'
<1>1. /\ Types /\ FlowInv /\ Reserved \in Nat /\ DEPTH \in Nat
      /\ RdSize + Reserved + Writing < DEPTH /\ RdSize \in Nat /\ Writing \in {0, 1}
  BY QueueFacts
<1>2. wr_state = "HEADER" /\ wr_state' = "IDLE" /\ wr_en' /\ wr_data' = Header(frame_vlan, frame_len)
  BY DEF WrHeader
<1>3. PICK fr \in Frames : HeaderDue(fr)
  BY <1>2 DEF QueueInv, ContentInv
<1>4. Committed = 0 /\ UNCHANGED wr_ptr_committed
  BY <1>2 DEF Committed, Clock, Commit
<1>5. wr_addr' = Addr(wr_ptr_committed + 0)
  <2>1. wr_ptr_committed + 0 = wr_ptr_committed
    BY <1>1, PointerTypes
  <2> QED BY <1>1, <1>2, <2>1, WriteAddress
<1>6. Reserved' = 1 + DataCount(fr) /\ DataCount(fr) \in Nat
  <2>1. Reserved' = Reserved - Committed + Writing
    BY <1>1, ReservedStep
  <2>2. Reserved + Writing = 1 + DataCount(fr)
    BY <1>3 DEF HeaderDue
  <2> QED BY <1>1, <1>4, <2>1, <2>2, FrameFacts
<1>7. DataStored(fr, DataCount(fr))'
  <2>1. DataStored(fr, DataCount(fr)) /\ Reserved + Writing = 1 + DataCount(fr)
    BY <1>3 DEF HeaderDue
  <2>2. PICK n \in Nat : n = DataCount(fr)
    BY <1>6
  <2>3. n < DEPTH /\ 0 \in Addresses
    BY <1>1, <2>1, <2>2 DEF Addresses
  <2>4. DataStored(fr, n)'
    BY <1>1, <1>4, <1>5, <2>1, <2>2, <2>3, DataKept
  <2> QED BY <2>2, <2>4 DEF DataStored
<1>8. ASSUME NEW j \in 1 .. Reserved'
      PROVE  Stored(Addr(wr_ptr_committed + (j - 1)))' = FrameWords(fr)[j]
  <2>1. CASE j = 1
    <3>1. FrameWords(fr)[1] = wr_data'
      BY <1>2, <1>3, FrameWordsFacts DEF HeaderDue
    <3>2. Stored(Addr(wr_ptr_committed + 0))' = wr_data'
      BY <1>2, <1>4, <1>5, StoredNew
    <3> QED BY <2>1, <3>1, <3>2
  <2>2. CASE j # 1
    <3>1. PICK k \in 1 .. DataCount(fr) : k = j - 1 /\ j = 1 + k
      BY <1>6, <2>2
    <3>2. Stored(Addr(wr_ptr_committed + k))' = Word(fr, k)
      BY <1>7 DEF DataStored
    <3>3. FrameWords(fr)[1 + k] = Word(fr, k)
      BY FrameWordsFacts
    <3> QED BY <3>1, <3>2, <3>3
  <2> QED BY <2>1, <2>2
<1>9. Follows(fr)'
  <2>1. Promise = <<>>
    BY <1>1, <1>2, PromiseStep
  <2> QED BY <1>3, <1>4, <2>1, FollowsStep DEF HeaderDue
<1>10. HeaderWritten(fr)'
  BY <1>2, <1>3, <1>6, <1>8, <1>9 DEF HeaderWritten, HeaderDue
<1> QED BY <1>2, <1>6, <1>10 DEF ContentInv

-----------------------------------------------------------------------------
(* The invariant, and what follows from it.                                *)

\* Every clock edge keeps the words of the frame on its way in where they belong.
LEMMA ContentKept ==
    ASSUME QueueInv, Clock
    PROVE  ContentInv'
BY QueueFacts, ControllerCases, WaitContent, IdleContent, HighContent, LowContent,
   BadContent, GoodContent, HeaderContent

\* An empty FIFO owes nothing.
LEMMA EmptyQueue ==
    ASSUME FlowInv, wr_state = "IDLE", wr_ptr = 0, wr_ptr_committed = 0, rd_ptr = 0,
           owed = <<>>, ~rdq.en
    PROVE  QueueInv
<1>1. RdSize = 0 /\ Reserved = 0
  BY CountFromHere, DepthAssumption DEF Pointers, RdSize, Reserved
<1>2. ContentInv /\ Published
  BY <1>1 DEF ContentInv, Published, Alone
<1> QED BY <1>2 DEF QueueInv

\* The controller starts empty.
LEMMA InitQueue == Init => QueueInv
<1> SUFFICES ASSUME Init PROVE QueueInv
  OBVIOUS
<1>1. ~rdq.en
  BY DEF Init
<1> QED BY <1>1, InitFlow, EmptyQueue DEF Init

\* The invariant is inductive while the line is bad only below the wrap.
LEMMA NextQueue ==
    ASSUME QueueInv, [Next]_vars, ErrorsAnywhere = FALSE
    PROVE  QueueInv'
<1>1. FlowInv'
  BY NextFlow DEF QueueInv
<1>2. CASE Clock
  BY <1>1, <1>2, ContentKept, PublishedKept DEF QueueInv
<1>3. CASE LinkReset
  <2>1. RdSize' = 0 /\ Reserved' = 0
    <3>1. Ptr(0 - 0) = 0
      BY CountFromHere, DepthAssumption DEF Pointers
    <3> QED BY <1>3, <3>1 DEF LinkReset, RdSize, Reserved
  <2>2. ~rdq'.en
    BY <1>3, QueueFacts DEF LinkReset, Types, TypeOK
  <2>3. ContentInv' /\ Published'
    BY <1>3, <2>1, <2>2 DEF LinkReset, ContentInv, Published, Alone
  <2> QED BY <1>1, <2>3 DEF QueueInv
<1>4. CASE UNCHANGED vars
  <2>1. ContentInv'
    BY <1>4 DEF vars, inVars, ctlVars, QueueInv, ContentInv, Entering, HeaderDue, HeaderWritten, DataStored,
                Stored, Follows, Alone, Current, Seen, Reserved, Writing, RdSize
  <2>2. Published'
    BY <1>4 DEF vars, inVars, ctlVars, QueueInv, Published, RdSize
  <2> QED BY <1>1, <2>1, <2>2 DEF QueueInv
<1> QED BY <1>2, <1>3, <1>4 DEF Next

\* What the reader sees, as a sequence.
LEMMA VisibleFacts ==
    ASSUME Types
    PROVE  /\ Visible \in Seq(Words) /\ Len(Visible) = RdSize
           /\ \A i \in 1 .. RdSize : Visible[i] = mem[Addr(rd_ptr + (i - 1))]
<1>1. RdSize \in Nat /\ rd_ptr \in Int
  BY PointerTypes
<1>2. ASSUME NEW i \in 1 .. RdSize
      PROVE  mem[Addr(rd_ptr + i - 1)] = mem[Addr(rd_ptr + (i - 1))] /\ mem[Addr(rd_ptr + i - 1)] \in Words
  <2>1. rd_ptr + i - 1 = rd_ptr + (i - 1) /\ i - 1 \in Int
    BY <1>1
  <2>2. Addr(rd_ptr + (i - 1)) \in Addresses
    BY <2>1, SlotInRange
  <2>3. mem \in [Addresses -> Words]
    BY DEF Types, TypeOK, Addresses
  <2> QED BY <2>1, <2>2, <2>3
<1> QED BY <1>1, <1>2 DEF Visible

\* The visible words are the oldest of those owed.
LEMMA VisibleIsOwed ==
    ASSUME QueueInv
    PROVE  /\ RdSize <= Len(owed)
           /\ \A i \in 1 .. RdSize : Visible[i] = owed[i]
BY QueueFacts, VisibleFacts DEF QueueInv, Published

\* A sequence with the same first elements is a prefix.
LEMMA PrefixByElements ==
    ASSUME NEW S, NEW s \in Seq(S), NEW t \in Seq(S), Len(s) <= Len(t),
           \A i \in 1 .. Len(s) : s[i] = t[i]
    PROVE  IsPrefix(s, t)
<1>1. Len(s) \in Nat /\ Len(t) \in Nat
  BY LenProperties
<1>2. \A u \in Seq(S) : \A i \in 1 .. Len(u) : u[i] \in S
  BY LenProperties
<1>3. (\A i \in 1 .. Len(s) : s[i] \in S) /\ (\A i \in 1 .. Len(s) : t[i] \in S)
  BY <1>1, <1>2
<1>4. /\ SubSeq(s, 1, Len(s)) \in Seq(S) /\ SubSeq(t, 1, Len(s)) \in Seq(S)
      /\ Len(SubSeq(s, 1, Len(s))) = Len(SubSeq(t, 1, Len(s)))
      /\ \A i \in 1 .. Len(s) - 1 + 1 : /\ SubSeq(s, 1, Len(s))[i] = s[1 + i - 1]
                                        /\ SubSeq(t, 1, Len(s))[i] = t[1 + i - 1]
      /\ Len(SubSeq(s, 1, Len(s))) = IF 1 <= Len(s) THEN Len(s) - 1 + 1 ELSE 0
  BY <1>1, <1>3, SubSeqProperties
<1>5. \A i \in 1 .. Len(SubSeq(s, 1, Len(s))) : SubSeq(s, 1, Len(s))[i] = SubSeq(t, 1, Len(s))[i]
  <2> TAKE i \in 1 .. Len(SubSeq(s, 1, Len(s)))
  <2>1. i \in 1 .. Len(s) /\ i \in 1 .. Len(s) - 1 + 1 /\ 1 + i - 1 = i
    BY <1>1, <1>4
  <2> QED BY <1>4, <2>1
<1>6. SubSeq(s, 1, Len(s)) = SubSeq(t, 1, Len(s))
  BY <1>4, <1>5, SeqEqual
<1> QED BY <1>6 DEF IsPrefix

\* What the reader may fetch is always the oldest of the good frames taken from the bus,
\* whole and in order, each after its own header; a read in flight brings the word it was
\* issued for.
THEOREM PublishedIsIntact ==
    ASSUME ErrorsAnywhere = FALSE
    PROVE  Spec => []PublishedIntact
<1>1. QueueInv => PublishedIntact
  <2> SUFFICES ASSUME QueueInv PROVE PublishedIntact
    OBVIOUS
  <2>1. owed \in Seq(Words)
    BY QueueFacts DEF Types, TypeOK
  <2>2. IsPrefix(Visible, owed)
    BY <2>1, QueueFacts, VisibleFacts, VisibleIsOwed, PrefixByElements
  <2> QED BY <2>2 DEF PublishedIntact, QueueInv, Published
<1>2. QueueInv /\ [Next]_vars => QueueInv'
  BY NextQueue
<1> QED BY <1>1, <1>2, InitQueue, PTL DEF Spec

\* Once the pipeline is empty every good frame taken from the bus has been published.
THEOREM NothingIsLost ==
    ASSUME ErrorsAnywhere = FALSE
    PROVE  Spec => []NothingLost
<1>1. QueueInv => NothingLost
  <2> SUFFICES ASSUME QueueInv, Quiet PROVE Visible = owed
    BY DEF NothingLost
  <2>1. owed \in Seq(Words)
    BY QueueFacts DEF Types, TypeOK
  <2>2. Reserved = 0
    BY DEF Quiet, QueueInv, FlowInv, SpaceInv
  <2>3. Len(owed) = RdSize
    BY <2>2 DEF Quiet, QueueInv, ContentInv, Alone
  <2> QED BY <2>1, <2>3, QueueFacts, VisibleFacts, VisibleIsOwed, SeqEqual
<1>2. QueueInv /\ [Next]_vars => QueueInv'
  BY NextQueue
<1> QED BY <1>1, <1>2, InitQueue, PTL DEF Spec

-----------------------------------------------------------------------------
(* The refinement.                                                         *)

\* A sequence is known by its parts.
LEMMA ConcatByElements ==
    ASSUME NEW S, NEW s \in Seq(S), NEW w \in Seq(S), NEW t \in Seq(S),
           Len(t) = Len(s) + Len(w),
           \A i \in 1 .. Len(s) : t[i] = s[i],
           \A j \in 1 .. Len(w) : t[Len(s) + j] = w[j]
    PROVE  t = s \o w
<1>1. Len(s) \in Nat /\ Len(w) \in Nat
  BY LenProperties
<1>2. /\ s \o w \in Seq(S) /\ Len(s \o w) = Len(s) + Len(w)
      /\ \A i \in 1 .. Len(s) + Len(w) : (s \o w)[i] = IF i <= Len(s) THEN s[i] ELSE w[i - Len(s)]
  BY ConcatProperties
<1>3. ASSUME NEW i \in 1 .. Len(t) PROVE t[i] = (s \o w)[i]
  <2>1. CASE i <= Len(s)
    BY <1>1, <1>2, <2>1
  <2>2. CASE i > Len(s)
    <3>1. i - Len(s) \in 1 .. Len(w) /\ Len(s) + (i - Len(s)) = i /\ i \in 1 .. Len(s) + Len(w) /\ ~(i <= Len(s))
      BY <1>1, <2>2
    <3>2. t[i] = w[i - Len(s)]
      BY <3>1
    <3> QED BY <1>2, <3>1, <3>2
  <2> QED BY <1>1, <2>1, <2>2
<1> QED BY <1>2, <1>3, SeqEqual

\* The visible words, as a sequence, are the oldest of those owed.
VisibleWords ==
    /\ Visible \in Seq(Words) /\ Len(Visible) = RdSize
    /\ \A i \in 1 .. RdSize : Visible[i] = owed[i]

\* The invariant says so of every state.
LEMMA VisibleWordsFacts == QueueInv => VisibleWords
BY QueueFacts, VisibleFacts, VisibleIsOwed DEF VisibleWords

\* A clock edge takes at most the first word away from the reader's view and adds at most
\* one whole frame to it.
LEMMA ClockIsQueueStep ==
    ASSUME QueueInv, QueueInv', Clock
    PROVE  AtomicQueue!Publish \/ AtomicQueue!Fetch \/ UNCHANGED Visible
<1>1. PICK r \in {0, 1} :
              /\ r <= RdSize
              /\ RdSize' = RdSize - r + Committed
              /\ \A i \in 1 .. (Len(owed) - r) : owed'[i] = owed[i + r]
  BY ReaderEdge
<1>2. /\ RdSize \in Nat /\ Committed \in Nat /\ Len(owed) \in Nat
      /\ Visible \in Seq(Words) /\ Len(Visible) = RdSize
      /\ \A i \in 1 .. RdSize : Visible[i] = owed[i]
      /\ RdSize + Committed <= Len(owed)
  <2>1. Types /\ owed \in Seq(Words)
    BY QueueFacts DEF Types, TypeOK
  <2> QED BY <2>1, PointerTypes, VisibleFacts, VisibleIsOwed, SettledWords, LenProperties
<1>3. /\ Visible' \in Seq(Words) /\ Len(Visible') = RdSize'
      /\ \A i \in 1 .. RdSize' : Visible'[i] = owed'[i]
  <2>1. QueueInv' => VisibleWords'
    BY VisibleWordsFacts, PTL
  <2> QED BY <2>1 DEF VisibleWords
<1>4. \A i \in 1 .. RdSize' : Visible'[i] = owed[i + r]
  BY <1>1, <1>2, <1>3
<1>5. PICK w \in Seq(Words) :
              /\ Len(w) = Committed
              /\ \A j \in 1 .. Len(w) : owed[RdSize + j] = w[j]
              /\ w = <<>> \/ \E fr \in {f \in Frames : ~f.bad} : w = FrameWords(fr)
  <2>1. CASE Committed = 0
    <3>1. <<>> \in Seq(Words) /\ Len(<<>>) = 0
      OBVIOUS
    <3>2. \A j \in 1 .. Len(<<>>) : owed[RdSize + j] = <<>>[j]
      BY <3>1
    <3> WITNESS <<>> \in Seq(Words)
    <3> QED BY <2>1, <3>1, <3>2
  <2>2. CASE Committed # 0
    <3>1. wr_state = "IDLE" /\ Committed = Reserved /\ Reserved # 0
      BY <2>2 DEF Committed
    <3>2. PICK fr \in Frames : HeaderWritten(fr)
      BY <3>1 DEF QueueInv, ContentInv
    <3>3. Len(FrameWords(fr)) = Committed /\ FrameWords(fr) \in Seq(Words) /\ ~fr.bad
      BY <3>1, <3>2, FrameWordsFacts, FrameWordsType DEF HeaderWritten
    <3>4. \A j \in 1 .. Len(FrameWords(fr)) : owed[RdSize + j] = FrameWords(fr)[j]
      BY <3>2 DEF HeaderWritten, Follows
    <3> QED BY <3>3, <3>4
  <2> QED BY <2>1, <2>2
<1>6. CASE r = 0
  <2>1. Visible' = Visible \o w
    <3>1. Len(Visible') = Len(Visible) + Len(w)
      BY <1>1, <1>2, <1>3, <1>5, <1>6
    <3>2. \A i \in 1 .. Len(Visible) : Visible'[i] = Visible[i]
      BY <1>1, <1>2, <1>4, <1>6
    <3>3. \A j \in 1 .. Len(w) : Visible'[Len(Visible) + j] = w[j]
      <4> TAKE j \in 1 .. Len(w)
      <4>1. RdSize + j \in 1 .. RdSize' /\ RdSize + j + 0 = RdSize + j
        BY <1>1, <1>2, <1>5, <1>6
      <4> QED BY <1>2, <1>4, <1>5, <1>6, <4>1
    <3> QED BY <1>2, <1>3, <3>1, <3>2, <3>3, ConcatByElements
  <2>2. CASE w = <<>>
    BY <1>2, <2>1, <2>2, ConcatEmptySeq
  <2>3. CASE w # <<>>
    BY <1>5, <2>1, <2>3 DEF AtomicQueue!Publish
  <2> QED BY <2>2, <2>3
<1>7. CASE r = 1
  <2>1. Visible # <<>>
    BY <1>1, <1>2, <1>7
  <2>2. /\ Tail(Visible) \in Seq(Words) /\ Len(Tail(Visible)) = RdSize - 1
        /\ \A i \in 1 .. Len(Tail(Visible)) : Tail(Visible)[i] = Visible[i + 1]
    BY <1>2, <2>1, HeadTailProperties
  <2>3. Visible' = Tail(Visible) \o w
    <3>1. Len(Visible') = Len(Tail(Visible)) + Len(w)
      BY <1>1, <1>2, <1>3, <1>5, <1>7, <2>2
    <3>2. \A i \in 1 .. Len(Tail(Visible)) : Visible'[i] = Tail(Visible)[i]
      BY <1>1, <1>2, <1>4, <1>7, <2>2
    <3>3. \A j \in 1 .. Len(w) : Visible'[Len(Tail(Visible)) + j] = w[j]
      <4> TAKE j \in 1 .. Len(w)
      <4>1. RdSize - 1 + j \in 1 .. RdSize' /\ RdSize - 1 + j + 1 = RdSize + j
        BY <1>1, <1>2, <1>5, <1>7
      <4> QED BY <1>4, <1>5, <1>7, <2>2, <4>1
    <3> QED BY <1>3, <2>2, <3>1, <3>2, <3>3, ConcatByElements
  <2> QED BY <1>5, <2>1, <2>3 DEF AtomicQueue!Fetch
<1> QED BY <1>6, <1>7

\* Seen by its reader the controller is an atomic queue of whole good frames: a frame
\* appears all at once, words leave one by one from the front, and a link that goes down
\* empties it.
THEOREM ImplementsFrameQueue ==
    ASSUME ErrorsAnywhere = FALSE
    PROVE  Spec => IsFrameQueue
<1>1. Init => AtomicQueue!Init
  <2> SUFFICES ASSUME Init PROVE Visible = <<>>
    BY DEF AtomicQueue!Init
  <2>1. RdSize = 0
    BY CountFromHere, DepthAssumption DEF Init, Pointers, RdSize
  <2> QED BY <2>1 DEF Visible
<1>2. QueueInv /\ QueueInv' /\ [Next]_vars => [AtomicQueue!Next]_Visible
  <2> SUFFICES ASSUME QueueInv, QueueInv', [Next]_vars PROVE AtomicQueue!Next \/ UNCHANGED Visible
    OBVIOUS
  <2>1. CASE Clock
    BY <2>1, ClockIsQueueStep DEF AtomicQueue!Next
  <2>2. CASE LinkReset
    <3>1. RdSize' = 0
      <4>1. Ptr(0 - 0) = 0
        BY CountFromHere, DepthAssumption DEF Pointers
      <4> QED BY <2>2, <4>1 DEF LinkReset, RdSize
    <3>2. Visible' = <<>>
      BY <3>1 DEF Visible
    <3> QED BY <3>2 DEF AtomicQueue!Next, AtomicQueue!Flush
  <2>3. CASE UNCHANGED vars
    BY <2>3 DEF vars, inVars, ctlVars, Visible, RdSize
  <2> QED BY <2>1, <2>2, <2>3 DEF Next
<1>3. QueueInv /\ [Next]_vars => QueueInv'
  BY NextQueue
<1> QED BY <1>1, <1>2, <1>3, InitQueue, PTL DEF Spec, IsFrameQueue, AtomicQueue!Spec

=============================================================================
