---------------------------- MODULE MACTable_proofs ----------------------------
(***************************************************************************)
(* The MAC table never holds or reports a pair of station and port that    *)
(* was not the source of some packet, for every size of the table and of   *)
(* the learning queue and for all traffic, garbage collection and          *)
(* management requests.  The same holds of the hand-over from the learning *)
(* queue to the memory: no station waits twice, and no slot is freed       *)
(* before its address is written.  Entries are in their rows whenever      *)
(* requests are at least six clocks apart.                                 *)
(***************************************************************************)
EXTENDS MACTable, WellFoundedInduction, TLAPS

-----------------------------------------------------------------------------
(* The extreme elements that Highest and Lowest choose exist.              *)

\* Every set of naturals that is not empty has a least element.
LEMMA LeastExists ==
    ASSUME NEW S \in SUBSET Nat, S # {}
    PROVE  \E x \in S : \A y \in S : x <= y
<1>1. PICK x \in S : \A y \in S : ~(<<y, x>> \in OpToRel(<, Nat))
  BY NatLessThanWellFounded, WFMin, Zenon
<1>2. ASSUME NEW y \in S PROVE x <= y
  <2>1. ~(y < x)
    BY <1>1 DEF OpToRel
  <2> QED BY <2>1
<1> QED BY <1>2

\* Every set of naturals that is not empty and has an upper bound has a greatest
\* element.
LEMMA GreatestExists ==
    ASSUME NEW n \in Nat, NEW S \in SUBSET (0..n), S # {}
    PROVE  \E x \in S : \A y \in S : y <= x
<1> DEFINE T == {n - x : x \in S}
<1>1. T \in SUBSET Nat /\ T # {}
  <2>1. PICK x0 : x0 \in S
    OBVIOUS
  <2>2. n - x0 \in T
    BY <2>1
  <2>3. \A x \in S : n - x \in Nat
    OBVIOUS
  <2> QED BY <2>2, <2>3
<1>2. PICK t \in T : \A u \in T : t <= u
  <2> HIDE DEF T
  <2> QED BY <1>1, LeastExists
<1>3. PICK x \in S : t = n - x
  BY <1>2
<1>4. ASSUME NEW y \in S PROVE y <= x
  <2>1. n - y \in T
    OBVIOUS
  <2>2. n - x <= n - y
    BY <1>2, <1>3, <2>1
  <2> QED BY <2>2
<1> QED BY <1>4

\* The hit logic's choice of the highest way is one of the ways that hit.
LEMMA HighestType ==
    ASSUME NEW S \in SUBSET Ways, S # {}
    PROVE  Highest(S) \in S
<1>1. ASSOC_WAYS - 1 \in Nat /\ S \in SUBSET (0..(ASSOC_WAYS - 1))
  BY GeometryAssumption DEF Ways
<1>2. \E x \in S : \A y \in S : y <= x
  BY <1>1, GreatestExists
<1> QED BY <1>2 DEF Highest

\* The first slot of a nonempty set of slots is one of them.
LEMMA LowestType ==
    ASSUME NEW S \in SUBSET Slots, S # {}
    PROVE  Lowest(S) \in S
<1>1. S \in SUBSET Nat
  BY GeometryAssumption DEF Slots
<1>2. \E x \in S : \A y \in S : x <= y
  BY <1>1, LeastExists
<1> QED BY <1>2 DEF Lowest
-----------------------------------------------------------------------------
(* Type correctness.                                                       *)

\* What a register holds while its valid bit is off has the register's type.
LEMMA BlankTypes ==
    /\ Blank \in Entries /\ BlankRow \in RowWords /\ NoLookup \in Asked
    /\ 0 \in Rows /\ 0 \in Ways /\ 0 \in Slots
    /\ NoMark \in Marks /\ NoWrite \in Writes /\ NoLearn \in Learns
<1>1. 0 \in Rows /\ 0 \in Ways /\ 0 \in Slots
  BY GeometryAssumption DEF Rows, Ways, Slots
<1>2. Blank \in Entries
  BY DEF Entries
<1>3. BlankRow \in RowWords
  BY <1>2 DEF BlankRow, RowWords
<1> QED BY <1>1, <1>2, <1>3 DEF Asked, Marks, Writes, Learns

\* A request carries a source, a destination and a port of the network.
LEMMA LookupTypes ==
    ASSUME NEW l \in Asked, l.valid
    PROVE  l.src \in Stations /\ l.dst \in Stations /\ l.port \in Ports /\ l.tid \in 0..31
<1>1. l # NoLookup
  BY DEF NoLookup
<1>2. l \in [valid : {TRUE}, src : Stations, dst : Stations, port : Ports, tid : 0..31]
  BY <1>1, TrafficAssumption DEF Asked
<1> QED BY <1>2

\* A register whose valid bit is set holds real contents.
LEMMA EntryTypes ==
    ASSUME NEW e \in Entries
    PROVE  e.valid \in BOOLEAN /\ (e.valid => e \in Taken)
<1>1. CASE e = Blank
  BY <1>1 DEF Blank
<1>2. CASE e \in Taken
  BY <1>2 DEF Taken
<1> QED BY <1>1, <1>2 DEF Entries

\* A write request carries a real entry and addresses inside the table.
LEMMA RequestTypes ==
    /\ \A m \in Marks : m.en \in BOOLEAN /\ (m.en => m.data \in Taken /\ m.way \in Ways)
    /\ \A x \in Writes : x.en \in BOOLEAN /\ (x.en => x.data \in Taken /\ x.row \in Rows /\ x.way \in Ways)
    /\ \A l \in Learns : l.en \in BOOLEAN /\ (l.en => l.sta \in Stations /\ l.port \in Ports /\ l.way \in Ways)
<1>1. ASSUME NEW m \in Marks
      PROVE  m.en \in BOOLEAN /\ (m.en => m.data \in Taken /\ m.way \in Ways)
  <2>1. CASE m = NoMark
    BY <2>1 DEF NoMark
  <2>2. CASE m # NoMark
    BY <2>2 DEF Marks
  <2> QED BY <2>1, <2>2
<1>2. ASSUME NEW x \in Writes
      PROVE  x.en \in BOOLEAN /\ (x.en => x.data \in Taken /\ x.row \in Rows /\ x.way \in Ways)
  <2>1. CASE x = NoWrite
    BY <2>1 DEF NoWrite
  <2>2. CASE x # NoWrite
    BY <2>2 DEF Writes
  <2> QED BY <2>1, <2>2
<1>3. ASSUME NEW l \in Learns
      PROVE  l.en \in BOOLEAN /\ (l.en => l.sta \in Stations /\ l.port \in Ports /\ l.way \in Ways)
  <2>1. CASE l = NoLearn
    BY <2>1 DEF NoLearn
  <2>2. CASE l # NoLearn
    BY <2>2 DEF Learns
  <2> QED BY <2>1, <2>2
<1> QED BY <1>1, <1>2, <1>3

\* Whoever is granted port B, it reads a row or writes one entry.
LEMMA PortBType ==
    ASSUME TypeOK, PortB
    PROVE  /\ mem' \in [Rows -> RowWords] /\ rb1' \in RowWords /\ rb2' \in RowWords
           /\ ack' \in [pend : BOOLEAN, refresh : BOOLEAN, gcrd : BOOLEAN, gcwr : BOOLEAN]
<1> USE BlankTypes
<1>1. ASSUME NEW r \in Rows, ReadRow(r)
      PROVE  mem' \in [Rows -> RowWords] /\ rb1' \in RowWords
  BY <1>1 DEF ReadRow, TypeOK
<1>2. ASSUME NEW r \in Rows, NEW w \in Ways, NEW e \in Entries, WriteEntry(r, w, e)
      PROVE  mem' \in [Rows -> RowWords] /\ rb1' \in RowWords
  <2>1. [mem[r] EXCEPT ![w] = e] \in RowWords
    BY DEF TypeOK, RowWords
  <2> QED BY <1>2, <2>1 DEF WriteEntry, TypeOK
<1>3. mem' \in [Rows -> RowWords] /\ rb1' \in RowWords
  <2>1. CASE LookUpSource
    BY <2>1, <1>1, LookupTypes, StationAssumption DEF LookUpSource, TypeOK
  <2>2. CASE WritePending
    BY <2>2, <1>2, RequestTypes DEF WritePending, PendFirst, TypeOK, Entries
  <2>3. CASE WriteRefresh
    BY <2>3, <1>2, RequestTypes DEF WriteRefresh, RefreshNext, TypeOK, Entries
  <2>4. CASE CollectorRead
    BY <2>4, <1>1 DEF CollectorRead, TypeOK
  <2>5. CASE CollectorWrite
    BY <2>5, <1>2 DEF CollectorWrite, TypeOK
  <2>6. CASE MgmtRead
    BY <2>6, <1>1, TrafficAssumption DEF MgmtRead, TypeOK, Requests, NoOp
  <2>7. CASE MgmtDelete
    BY <2>7, <1>2, TrafficAssumption DEF MgmtDelete, TypeOK, Requests, NoOp
  <2>8. CASE PortBIdle
    BY <2>8 DEF PortBIdle, TypeOK
  <2> QED BY <2>1, <2>2, <2>3, <2>4, <2>5, <2>6, <2>7, <2>8 DEF PortB
<1>4. /\ PendFirst \in BOOLEAN /\ RefreshNext \in BOOLEAN
      /\ GcReadTurn \in BOOLEAN /\ GcWriteTurn \in BOOLEAN
  BY DEF PendFirst, RefreshNext, GcReadTurn, GcWriteTurn, GcTurn
<1> QED BY <1>3, <1>4 DEF PortB, TypeOK

\* If the destination hits, the way reported is a way of the row whose entry is
\* valid.
LEMMA HitWayType ==
    ASSUME TypeOK, HitWays # {}
    PROVE  /\ HitWay \in Ways /\ look2.valid
           /\ ra2[HitWay] \in Taken /\ ra2[HitWay].sta = look2.dst
<1>1. HitWays \in SUBSET Ways
  BY DEF HitWays, Hits
<1>2. HitWay \in HitWays
  BY <1>1, HighestType DEF HitWay
<1>3. look2.valid /\ HitWay \in Ways /\ ra2[HitWay].valid /\ ra2[HitWay].sta = look2.dst
  BY <1>2 DEF HitWays, Hits
<1>4. ra2[HitWay] \in Taken
  BY <1>3, EntryTypes DEF TypeOK, RowWords
<1> QED BY <1>3, <1>4

\* The lookup pipeline keeps its registers' types.
LEMMA PipelineType ==
    ASSUME TypeOK, Pipeline, Reply, Arrival
    PROVE  /\ axi' \in Asked /\ look1' \in Asked /\ look2' \in Asked /\ since' \in 0..Gap
           /\ ra1' \in RowWords /\ ra2' \in RowWords
           /\ results' \in [valid : BOOLEAN, hit : BOOLEAN, sta : Stations \cup {NoStation},
                            port : Ports \cup {NoPort}, tid : 0..3, asked : 0..31]
           /\ taught' \subseteq Stations \X Ports
<1>1. axi' \in Asked /\ since' \in 0..Gap
  BY BlankTypes, TrafficAssumption DEF TypeOK, Arrival, Asked
<1>2. ra1' \in RowWords
  <2>1. CASE axi.valid
    BY <2>1, LookupTypes, StationAssumption DEF TypeOK, Pipeline
  <2>2. CASE ~axi.valid
    BY <2>2, BlankTypes DEF Pipeline
  <2> QED BY <2>1, <2>2
<1>3. taught' \subseteq Stations \X Ports
  BY LookupTypes DEF TypeOK, Pipeline
<1>4. results' \in [valid : BOOLEAN, hit : BOOLEAN, sta : Stations \cup {NoStation},
                    port : Ports \cup {NoPort}, tid : 0..3, asked : 0..31]
  <2>1. CASE look2.valid
    <3>1. look2.dst \in Stations /\ look2.tid \in 0..31 /\ id(look2.tid) \in 0..3
      BY <2>1, LookupTypes DEF TypeOK, id
    <3>2. (IF HitWays # {} THEN ra2[HitWay].port ELSE NoPort) \in Ports \cup {NoPort}
      BY HitWayType DEF Taken
    <3> QED BY <2>1, <3>1, <3>2 DEF Reply
  <2>2. CASE ~look2.valid
    BY <2>2 DEF Reply, NoReply
  <2> QED BY <2>1, <2>2
<1> QED BY <1>1, <1>2, <1>3, <1>4 DEF TypeOK, Pipeline

\* The mark refresh keeps its registers' types.
LEMMA RefreshType ==
    ASSUME TypeOK, RefreshStage
    PROVE  rfr' \in Marks /\ refresh' \in Writes
<1>1. rfr' \in Marks
  BY HitWayType, BlankTypes DEF RefreshStage, Marks
<1>2. refresh' \in Writes
  <2>1. CASE rfr.en /\ ~ack.refresh
    <3>1. rfr.data \in Taken /\ rfr.way \in Ways
      BY <2>1, RequestTypes DEF TypeOK
    <3>2. RefreshRow \in Rows /\ [rfr.data EXCEPT !.mark = TRUE] \in Taken
      BY <3>1, StationAssumption DEF RefreshRow, Taken
    <3> QED BY <2>1, <3>1, <3>2 DEF RefreshStage, Writes
  <2>2. CASE ~(rfr.en /\ ~ack.refresh)
    BY <2>2, BlankTypes DEF RefreshStage
  <2> QED BY <2>1, <2>2
<1> QED BY <1>1, <1>2

\* Learning keeps the types of its registers and of the queue.
LEMMA LearningType ==
    ASSUME TypeOK, Learning
    PROVE  /\ learn' \in Learns /\ bump_set' \in BOOLEAN /\ cache_set' \in Ways
           /\ pending' \in [Slots -> Learns]
           /\ pend_wr' \in Writes /\ pend_clear_slot' \in Slots
<1>1. cache_set_fwd \in Ways
  BY GeometryAssumption DEF cache_set_fwd, Ways, TypeOK
<1>2. learn' \in Learns
  BY <1>1, LookupTypes, BlankTypes DEF Learning, CheckSource, Unknown, Learns, TypeOK
<1>3. pending' \in [Slots -> Learns]
  BY BlankTypes DEF Learning, PendingSet, TypeOK
<1>4. pend_wr' \in Writes /\ pend_clear_slot' \in Slots
  <2>1. CASE MayPop /\ Eligible # {}
    <3> DEFINE s == Lowest(Eligible)
    <3>1. s \in Slots /\ pending[s].en
      <4>1. Eligible \in SUBSET Slots
        BY DEF Eligible
      <4>2. s \in Eligible
        BY <2>1, <4>1, LowestType
      <4> QED BY <4>2 DEF Eligible
    <3>2. pending[s].sta \in Stations /\ pending[s].port \in Ports /\ pending[s].way \in Ways
      BY <3>1, RequestTypes DEF TypeOK
    <3>3. PendRow(s) \in Rows /\ Entry(pending[s].sta, pending[s].port, TRUE) \in Taken
      BY <3>2, StationAssumption DEF PendRow, Entry, Taken
    <3> HIDE DEF s
    <3>4. /\ pend_clear_slot' = s
          /\ pend_wr' = [en |-> TRUE, data |-> Entry(pending[s].sta, pending[s].port, TRUE),
                         row |-> PendRow(s), way |-> pending[s].way]
      BY <2>1 DEF Learning, PopPending, s
    <3> QED BY <3>1, <3>2, <3>3, <3>4 DEF Writes
  <2>2. CASE ~(MayPop /\ Eligible # {})
    <3>1. pend_clear_slot' = pend_clear_slot
      BY <2>2 DEF Learning, PopPending
    <3>2. CASE pend_wr.en
      <4>0. pend_wr \in [en : {TRUE}, data : Taken, row : Rows, way : Ways]
        <5>1. pend_wr # NoWrite
          BY <3>2 DEF NoWrite
        <5> QED BY <5>1 DEF TypeOK, Writes
      <4>1. [pend_wr EXCEPT !.row = 0] \in Writes
        BY <4>0, BlankTypes DEF Writes
      <4> QED BY <2>2, <3>1, <4>1, BlankTypes DEF Learning, PopPending, TypeOK
    <3>3. CASE ~pend_wr.en
      BY <2>2, <3>1, <3>3, BlankTypes DEF Learning, PopPending, TypeOK
    <3> QED BY <3>2, <3>3
  <2> QED BY <2>1, <2>2
<1>5. bump_set' \in BOOLEAN
  BY DEF Learning, CheckSource, Unknown
<1> QED BY <1>1, <1>2, <1>3, <1>4, <1>5 DEF Learning, CheckSource

\* The collector keeps its registers' types; its row and way stay in the table.
LEMMA CollectorType ==
    ASSUME TypeOK, Collector
    PROVE  /\ gc' \in [state : {"IDLE", "READ_WAIT", "READ_VALID", "WRITE_WAIT", "NEXT"},
                       row : Rows, way : Ways, rd_en : BOOLEAN, wr_en : BOOLEAN,
                       wdata : Entries, done : BOOLEAN]
           /\ swept' \subseteq Rows \X Ways
<1> USE BlankTypes
<1>1. CASE GcIdle
  BY <1>1 DEF GcIdle, TypeOK
<1>2. CASE GcStart
  BY <1>2 DEF GcStart, TypeOK
<1>3. CASE GcReadWait
  BY <1>3 DEF GcReadWait, TypeOK
<1>4. CASE GcReadValid
  <2>1. gc_rdata \in Entries
    BY DEF gc_rdata, TypeOK, RowWords
  <2>2. gc_rdata.valid => [gc_rdata EXCEPT !.mark = FALSE] \in Entries
    <3>1. gc_rdata.valid => gc_rdata \in Taken
      BY <2>1, EntryTypes
    <3> QED BY <3>1 DEF Entries, Taken
  <2>3. gc' \in [state : {"IDLE", "READ_WAIT", "READ_VALID", "WRITE_WAIT", "NEXT"},
                 row : Rows, way : Ways, rd_en : BOOLEAN, wr_en : BOOLEAN,
                 wdata : Entries, done : BOOLEAN]
    BY <1>4, <2>2 DEF GcReadValid, TypeOK
  <2>4. swept' \subseteq Rows \X Ways
    BY <1>4 DEF GcReadValid, TypeOK
  <2> QED BY <2>3, <2>4
<1>5. CASE GcWriteWait
  BY <1>5 DEF GcWriteWait, TypeOK
<1>6. CASE GcNext
  <2>1. (gc.row + 1) % TABLE_ROWS \in Rows
    BY GeometryAssumption DEF TypeOK, Rows
  <2>2. ~(LastRow /\ LastWay) => (IF LastRow THEN gc.way + 1 ELSE gc.way) \in Ways
    BY GeometryAssumption DEF TypeOK, Ways, LastRow, LastWay
  <2> QED BY <1>6, <2>1, <2>2 DEF GcNext, TypeOK
<1> QED BY <1>1, <1>2, <1>3, <1>4, <1>5, <1>6 DEF Collector

\* The management port keeps its registers' types.
LEMMA MgmtType ==
    ASSUME TypeOK, MgmtPort
    PROVE  mgmt' \in [req : Requests, rd_ack : BOOLEAN, rd_ack_ff : BOOLEAN, ack : BOOLEAN]
<1>1. MgmtTurn \in BOOLEAN
  BY DEF MgmtTurn, GcTurn
<1> QED BY <1>1 DEF MgmtPort, TypeOK

\* The registers start with values of their types.
LEMMA InitType == Init => TypeOK
<1> SUFFICES ASSUME Init PROVE TypeOK
  OBVIOUS
<1> USE BlankTypes
<1>1. results \in [valid : BOOLEAN, hit : BOOLEAN, sta : Stations \cup {NoStation},
                   port : Ports \cup {NoPort}, tid : 0..3, asked : 0..31]
  BY DEF Init, NoReply
<1>2. mgmt \in [req : Requests, rd_ack : BOOLEAN, rd_ack_ff : BOOLEAN, ack : BOOLEAN]
  BY DEF Init, Requests
<1>3. since \in 0..Gap /\ bump_set \in BOOLEAN
  <2>1. since = Gap /\ bump_set = FALSE
    BY DEF Init
  <2>2. Gap \in 0..Gap
    BY TrafficAssumption
  <2> QED BY <2>1, <2>2
<1>4. mem \in [Rows -> RowWords] /\ pending \in [Slots -> Learns]
  BY DEF Init
<1>5. /\ gc \in [state : {"IDLE", "READ_WAIT", "READ_VALID", "WRITE_WAIT", "NEXT"},
                row : Rows, way : Ways, rd_en : BOOLEAN, wr_en : BOOLEAN,
                wdata : Entries, done : BOOLEAN]
      /\ ack \in [pend : BOOLEAN, refresh : BOOLEAN, gcrd : BOOLEAN, gcwr : BOOLEAN]
  BY DEF Init
<1>6. /\ axi \in Asked /\ look1 \in Asked /\ look2 \in Asked
      /\ ra1 \in RowWords /\ ra2 \in RowWords /\ rb1 \in RowWords /\ rb2 \in RowWords
      /\ cache_set \in Ways /\ rfr \in Marks /\ refresh \in Writes /\ pend_wr \in Writes
      /\ learn \in Learns /\ pend_clear_slot \in Slots
      /\ taught \subseteq Stations \X Ports /\ swept \subseteq Rows \X Ways
  BY DEF Init
<1> QED BY <1>1, <1>2, <1>3, <1>4, <1>5, <1>6 DEF TypeOK

\* Every register of the table keeps to its width, whatever the geometry of the
\* table, the traffic, the collections and the management requests.
THEOREM MACTableTypeCorrect == Spec => []TypeOK
<1>1. TypeOK /\ [Next]_vars => TypeOK'
  <2> SUFFICES ASSUME TypeOK, [Next]_vars PROVE TypeOK'
    OBVIOUS
  <2>1. CASE UNCHANGED vars
    BY <2>1 DEF vars, lookVars, markVars, pendVars, gcVars, TypeOK
  <2>2. CASE Clock
    BY <2>2, PortBType, PipelineType, RefreshType, LearningType, CollectorType, MgmtType
    DEF Clock, TypeOK
  <2> QED BY <2>1, <2>2 DEF Next
<1> QED BY <1>1, InitType, PTL DEF Spec
-----------------------------------------------------------------------------
(* Every copy of an entry is genuine.  The invariant has to follow an      *)
(* address from the request through the queue to the memory, and from the  *)
(* memory through both output registers back into the refresh, collector   *)
(* and reply registers, since each of those is written back or reported.   *)

MemoryGenuine   == \A r \in Rows : GenuineRow(mem[r])
ReadsGenuine    == GenuineRow(ra1) /\ GenuineRow(ra2) /\ GenuineRow(rb1) /\ GenuineRow(rb2)
WritesGenuine   == Genuine(rfr.data) /\ Genuine(refresh.data) /\ Genuine(pend_wr.data) /\ Genuine(gc.wdata)
QueueGenuine    == GenuineLearn(learn) /\ \A s \in Slots : GenuineLearn(pending[s])
RequestsCounted == \A l \in {look1, look2} : l.valid => <<l.src, l.port>> \in taught
RepliesGenuine  == results.hit => <<results.sta, results.port>> \in taught

IInv ==
    /\ MemoryGenuine /\ ReadsGenuine /\ WritesGenuine
    /\ QueueGenuine /\ RequestsCounted /\ RepliesGenuine

\* An empty entry claims nothing.
LEMMA BlankGenuine == Genuine(Blank) /\ GenuineRow(BlankRow)
BY DEF Genuine, GenuineRow, Blank, BlankRow

\* taught only grows, so what was genuine stays so.
LEMMA TaughtGrows ==
    ASSUME Pipeline
    PROVE  taught \subseteq taught'
BY DEF Pipeline

\* The empty table satisfies the inductive invariant.
LEMMA InitGenuine == Init => IInv
<1> SUFFICES ASSUME Init PROVE IInv
  OBVIOUS
<1>1. MemoryGenuine /\ ReadsGenuine
  BY BlankGenuine DEF Init, MemoryGenuine, ReadsGenuine
<1>2. WritesGenuine
  BY BlankGenuine DEF Init, WritesGenuine, NoMark, NoWrite
<1>3. QueueGenuine
  BY DEF Init, QueueGenuine, GenuineLearn, NoLearn
<1>4. RequestsCounted /\ RepliesGenuine
  BY DEF Init, RequestsCounted, RepliesGenuine, NoLookup, NoReply
<1> QED BY <1>1, <1>2, <1>3, <1>4 DEF IInv

\* Genuineness in the next state, over the larger set of taught pairs.
GenuineNext(e) == e.valid => e.sta \notin Multicast /\ <<e.sta, e.port>> \in taught'

\* Port B writes only entries that are genuine, and reads rows of such entries.
LEMMA PortBGenuine ==
    ASSUME TypeOK, IInv, PortB, Pipeline
    PROVE  /\ \A r \in Rows, w \in Ways : GenuineNext(mem'[r][w])
           /\ \A w \in Ways : GenuineNext(rb1'[w]) /\ GenuineNext(rb2'[w])
<1> DEFINE Goal == /\ \A r \in Rows, w \in Ways : GenuineNext(mem'[r][w])
                   /\ \A w \in Ways : GenuineNext(rb1'[w])
<1>0. /\ \A r \in Rows, w \in Ways : GenuineNext(mem[r][w])
      /\ \A w \in Ways : GenuineNext(BlankRow[w])
  BY TaughtGrows DEF IInv, MemoryGenuine, GenuineRow, Genuine, GenuineNext, BlankRow, Blank
<1>1. ASSUME NEW r \in Rows, ReadRow(r)
      PROVE  Goal
  BY <1>1, <1>0 DEF ReadRow
<1>2. ASSUME NEW r \in Rows, NEW w \in Ways, NEW e, Genuine(e), WriteEntry(r, w, e)
      PROVE  Goal
  <2>1. GenuineNext(e)
    BY <1>2, TaughtGrows DEF Genuine, GenuineNext
  <2>2. \A r1 \in Rows, w1 \in Ways : mem'[r1][w1] = IF r1 = r /\ w1 = w THEN e ELSE mem[r1][w1]
    BY <1>2 DEF WriteEntry, TypeOK, RowWords
  <2>3. rb1' = BlankRow
    BY <1>2 DEF WriteEntry
  <2> QED BY <2>1, <2>2, <2>3, <1>0
<1>3. Goal
  <2> USE RequestTypes
  <2>1. CASE LookUpSource
    BY <2>1, <1>1, LookupTypes, StationAssumption DEF LookUpSource, TypeOK
  <2>2. CASE WritePending
    BY <2>2, <1>2 DEF WritePending, PendFirst, TypeOK, IInv, WritesGenuine
  <2>3. CASE WriteRefresh
    BY <2>3, <1>2 DEF WriteRefresh, RefreshNext, TypeOK, IInv, WritesGenuine
  <2>4. CASE CollectorRead
    BY <2>4, <1>1 DEF CollectorRead, TypeOK
  <2>5. CASE CollectorWrite
    BY <2>5, <1>2 DEF CollectorWrite, TypeOK, IInv, WritesGenuine
  <2>6. CASE MgmtRead
    BY <2>6, <1>1, BlankTypes, TrafficAssumption DEF MgmtRead, TypeOK, Requests, NoOp
  <2>7. CASE MgmtDelete
    BY <2>7, <1>2, BlankTypes, BlankGenuine, TrafficAssumption DEF MgmtDelete, TypeOK, Requests, NoOp
  <2>8. CASE PortBIdle
    BY <2>8, <1>0 DEF PortBIdle
  <2> QED BY <2>1, <2>2, <2>3, <2>4, <2>5, <2>6, <2>7, <2>8 DEF PortB
<1>4. \A w \in Ways : GenuineNext(rb2'[w])
  BY TaughtGrows DEF PortB, IInv, ReadsGenuine, GenuineRow, Genuine, GenuineNext
<1> QED BY <1>3, <1>4

\* A request is counted in taught while it travels down the pipeline.
LEMMA RequestsStayCounted ==
    ASSUME TypeOK, IInv, Pipeline
    PROVE  RequestsCounted'
<1>1. axi.valid => <<axi.src, axi.port>> \in taught'
  BY DEF Pipeline
<1>2. look1.valid => <<look1.src, look1.port>> \in taught'
  BY TaughtGrows DEF IInv, RequestsCounted
<1> QED BY <1>1, <1>2 DEF Pipeline, RequestsCounted

\* Rows read for a lookup hold genuine entries.
LEMMA LookupReadsGenuine ==
    ASSUME TypeOK, IInv, Pipeline
    PROVE  \A w \in Ways : GenuineNext(ra1'[w]) /\ GenuineNext(ra2'[w])
<1>1. \A w \in Ways : GenuineNext(ra2'[w])
  BY TaughtGrows DEF Pipeline, IInv, ReadsGenuine, GenuineRow, Genuine, GenuineNext
<1>2. \A w \in Ways : GenuineNext(ra1'[w])
  <2>1. CASE axi.valid
    <3>1. ra1' = mem[Hash[axi.dst]] /\ Hash[axi.dst] \in Rows
      BY <2>1, LookupTypes, StationAssumption DEF Pipeline, TypeOK
    <3> QED BY <3>1, TaughtGrows DEF IInv, MemoryGenuine, GenuineRow, Genuine, GenuineNext
  <2>2. CASE ~axi.valid
    BY <2>2 DEF Pipeline, BlankRow, Blank, GenuineNext
  <2> QED BY <2>1, <2>2
<1> QED BY <1>1, <1>2

\* What a hit finds, and so what is reported and refreshed, is genuine.
LEMMA HitGenuine ==
    ASSUME TypeOK, IInv, HitWays # {}, Pipeline
    PROVE  /\ GenuineNext(ra2[HitWay])
           /\ <<look2.dst, ra2[HitWay].port>> \in taught'
<1>1. ra2[HitWay].valid /\ ra2[HitWay].sta = look2.dst /\ HitWay \in Ways
  BY HitWayType, EntryTypes DEF Taken
<1>2. Genuine(ra2[HitWay])
  BY <1>1 DEF IInv, ReadsGenuine, GenuineRow
<1> QED BY <1>1, <1>2, TaughtGrows DEF Genuine, GenuineNext

\* A mark refresh writes back an entry that was genuine when it was read.
LEMMA MarksGenuine ==
    ASSUME TypeOK, IInv, Pipeline, Reply, RefreshStage
    PROVE  /\ GenuineNext(rfr'.data) /\ GenuineNext(refresh'.data)
           /\ RepliesGenuine'
<1>1. GenuineNext(rfr'.data)
  BY HitGenuine DEF RefreshStage, NoMark, Blank, GenuineNext
<1>2. GenuineNext(refresh'.data)
  <2>1. CASE rfr.en /\ ~ack.refresh
    <3>1. rfr.data \in Taken /\ Genuine(rfr.data)
      BY <2>1, RequestTypes DEF TypeOK, IInv, WritesGenuine
    <3>2. refresh'.data = [rfr.data EXCEPT !.mark = TRUE]
      BY <2>1 DEF RefreshStage
    <3>3. refresh'.data.sta = rfr.data.sta /\ refresh'.data.port = rfr.data.port /\ rfr.data.valid
      BY <3>1, <3>2 DEF Taken
    <3> QED BY <3>1, <3>3, TaughtGrows DEF Genuine, GenuineNext
  <2>2. CASE ~(rfr.en /\ ~ack.refresh)
    BY <2>2 DEF RefreshStage, NoWrite, Blank, GenuineNext
  <2> QED BY <2>1, <2>2
<1>3. RepliesGenuine'
  <2>1. CASE look2.valid
    <3>1. CASE HitWays # {}
      BY <2>1, <3>1, HitGenuine DEF Reply, RepliesGenuine
    <3>2. CASE HitWays = {}
      BY <2>1, <3>2 DEF Reply, RepliesGenuine
    <3> QED BY <3>1, <3>2
  <2>2. CASE ~look2.valid
    BY <2>2 DEF Reply, NoReply, RepliesGenuine
  <2> QED BY <2>1, <2>2
<1> QED BY <1>1, <1>2, <1>3

\* The queue takes its addresses from requests that have been counted.
LEMMA LearnsGenuine ==
    ASSUME TypeOK, IInv, Pipeline, Learning
    PROVE  QueueGenuine' /\ GenuineNext(pend_wr'.data)
<1>0. ASSUME NEW l, GenuineLearn(l)
      PROVE  l.en => l.sta \notin Multicast /\ <<l.sta, l.port>> \in taught'
  BY <1>0, TaughtGrows DEF GenuineLearn
<1>1. learn'.en => learn'.sta \notin Multicast /\ <<learn'.sta, learn'.port>> \in taught'
  <2>1. CASE Unknown
    <3>1. look2.valid /\ look2.src \notin Multicast /\ <<look2.src, look2.port>> \in taught'
      BY <2>1, TaughtGrows DEF Unknown, IInv, RequestsCounted
    <3> QED BY <2>1, <3>1 DEF Learning, CheckSource
  <2>2. CASE ~Unknown
    BY <2>2 DEF Learning, CheckSource, NoLearn
  <2> QED BY <2>1, <2>2
<1>2. ASSUME NEW s \in Slots
      PROVE  pending'[s].en => pending'[s].sta \notin Multicast
                               /\ <<pending'[s].sta, pending'[s].port>> \in taught'
  <2>1. pending'[s] \in {NoLearn, learn, pending[s]}
    BY DEF Learning, PendingSet
  <2>2. GenuineLearn(learn) /\ GenuineLearn(pending[s])
    BY DEF IInv, QueueGenuine
  <2>3. ~NoLearn.en
    BY DEF NoLearn
  <2> QED BY <2>1, <2>2, <2>3, <1>0
<1>3. GenuineNext(pend_wr'.data)
  <2>1. CASE MayPop /\ Eligible # {}
    <3> DEFINE s == Lowest(Eligible)
    <3>1. s \in Slots /\ pending[s].en
      <4>1. Eligible \in SUBSET Slots
        BY DEF Eligible
      <4>2. s \in Eligible
        BY <2>1, <4>1, LowestType
      <4> QED BY <4>2 DEF Eligible
    <3>2. pending[s].sta \notin Multicast /\ <<pending[s].sta, pending[s].port>> \in taught'
      BY <3>1, <1>0 DEF IInv, QueueGenuine
    <3> HIDE DEF s
    <3>3. pend_wr'.data = Entry(pending[s].sta, pending[s].port, TRUE)
      <4>1. pend_wr' = [en |-> TRUE, data |-> Entry(pending[s].sta, pending[s].port, TRUE),
                        row |-> PendRow(s), way |-> pending[s].way]
        BY <2>1 DEF Learning, PopPending, s
      <4> QED BY <4>1
    <3> QED BY <3>2, <3>3 DEF Entry, GenuineNext
  <2>2. CASE ~(MayPop /\ Eligible # {})
    <3>1. pend_wr' = NoWrite \/ (pend_wr.en /\ pend_wr' = [pend_wr EXCEPT !.row = 0])
      BY <2>2, RequestTypes DEF Learning, PopPending, TypeOK
    <3>2. ASSUME pend_wr.en, pend_wr' = [pend_wr EXCEPT !.row = 0]
          PROVE  pend_wr'.data = pend_wr.data
      <4>1. pend_wr # NoWrite
        BY <3>2 DEF NoWrite
      <4>2. pend_wr \in [en : {TRUE}, data : Taken, row : Rows, way : Ways]
        BY <4>1 DEF TypeOK, Writes
      <4> QED BY <3>2, <4>2
    <3>3. GenuineNext(pend_wr.data)
      BY TaughtGrows DEF IInv, WritesGenuine, Genuine, GenuineNext
    <3> QED BY <3>1, <3>2, <3>3 DEF NoWrite, Blank, GenuineNext
  <2> QED BY <2>1, <2>2
<1> QED BY <1>1, <1>2, <1>3 DEF QueueGenuine, GenuineLearn

\* The collector writes back what it read, or an empty entry.
LEMMA CollectorGenuine ==
    ASSUME TypeOK, IInv, Pipeline, Collector
    PROVE  GenuineNext(gc'.wdata)
<1>1. GenuineNext(gc.wdata)
  BY TaughtGrows DEF IInv, WritesGenuine, Genuine, GenuineNext
<1>2. GenuineNext(Blank)
  BY DEF Blank, GenuineNext
<1>3. ASSUME GcReadValid
      PROVE  GenuineNext(gc'.wdata)
  <2>1. gc_rdata \in Entries /\ Genuine(gc_rdata)
    BY DEF gc_rdata, TypeOK, RowWords, IInv, ReadsGenuine, GenuineRow
  <2>2. gc_rdata.valid => GenuineNext([gc_rdata EXCEPT !.mark = FALSE])
    <3> SUFFICES ASSUME gc_rdata.valid PROVE GenuineNext([gc_rdata EXCEPT !.mark = FALSE])
      OBVIOUS
    <3>1. gc_rdata \in Taken
      BY <2>1, EntryTypes
    <3> QED BY <2>1, <3>1, TaughtGrows DEF Genuine, GenuineNext, Taken
  <2>3. gc'.wdata \in {gc.wdata, Blank} \/ (gc_rdata.valid /\ gc'.wdata = [gc_rdata EXCEPT !.mark = FALSE])
    BY <1>3 DEF GcReadValid, TypeOK
  <2> QED BY <1>1, <1>2, <2>2, <2>3
<1>4. ASSUME GcIdle \/ GcStart \/ GcReadWait \/ GcWriteWait \/ GcNext
      PROVE  gc'.wdata \in {gc.wdata, Blank}
  BY <1>4 DEF GcIdle, GcStart, GcReadWait, GcWriteWait, GcNext, TypeOK
<1> QED BY <1>1, <1>2, <1>3, <1>4 DEF Collector

\* The table never makes an address up.  By lines 652-727 and 412-423 an address
\* travels through six registers between request, queue and memory; none of the
\* stale write-backs on the way can produce a pair that no packet has shown.
THEOREM MACTableOnlyTaught == Spec => []OnlyTaughtAddresses
<1>1. TypeOK /\ IInv /\ [Next]_vars => IInv'
  <2> SUFFICES ASSUME TypeOK, IInv, [Next]_vars PROVE IInv'
    OBVIOUS
  <2>1. CASE UNCHANGED vars
    BY <2>1 DEF vars, lookVars, markVars, pendVars, gcVars, IInv, MemoryGenuine, ReadsGenuine,
         WritesGenuine, QueueGenuine, RequestsCounted, RepliesGenuine, GenuineRow, GenuineLearn, Genuine
  <2>2. CASE Clock
    <3> USE <2>2 DEF Clock
    <3>1. MemoryGenuine'
      BY PortBGenuine DEF MemoryGenuine, GenuineRow, Genuine, GenuineNext
    <3>2. ReadsGenuine'
      BY PortBGenuine, LookupReadsGenuine DEF ReadsGenuine, GenuineRow, Genuine, GenuineNext
    <3>3. WritesGenuine'
      BY MarksGenuine, LearnsGenuine, CollectorGenuine DEF WritesGenuine, Genuine, GenuineNext
    <3>4. QueueGenuine' /\ RequestsCounted' /\ RepliesGenuine'
      BY LearnsGenuine, RequestsStayCounted, MarksGenuine
    <3> QED BY <3>1, <3>2, <3>3, <3>4 DEF IInv
  <2> QED BY <2>1, <2>2 DEF Next
<1>2. IInv => OnlyTaughtAddresses
  BY DEF IInv, MemoryGenuine, QueueGenuine, RepliesGenuine, OnlyTaughtAddresses
<1> QED BY <1>1, <1>2, InitGenuine, MACTableTypeCorrect, PTL DEF Spec
-----------------------------------------------------------------------------
(* The learning queue.  While a write waits, pend_clear_slot names the     *)
(* slot it came from, and it still does in the clock of the acknowledge,   *)
(* when the entry is in the memory.                                        *)

Held(s) == Entry(pending[s].sta, pending[s].port, TRUE)
SlotHeld ==
    /\ pend_wr.en => /\ ~ack.pend /\ pending[pend_clear_slot].en
                     /\ pend_wr.data = Held(pend_clear_slot)
                     /\ pend_wr.way = pending[pend_clear_slot].way
    /\ ack.pend => /\ pending[pend_clear_slot].en
                   /\ \E r \in Rows, w \in Ways : mem[r][w] = Held(pend_clear_slot)

\* A slot is cleared, filled while it is free, or left alone.
LEMMA SlotCases ==
    ASSUME TypeOK, Learning, NEW s \in Slots
    PROVE  \/ Clear(s) /\ pending'[s] = NoLearn
           \/ ~Clear(s) /\ Insert(s) /\ ~pending[s].en /\ pending'[s] = learn
           \/ ~Clear(s) /\ pending'[s] = pending[s]
<1>1. Insert(s) => ~pending[s].en
  <2> SUFFICES ASSUME Insert(s) PROVE s \in Openings
    BY DEF Openings
  <2>1. Openings \in SUBSET Slots /\ Openings # {} /\ s = Lowest(Openings)
    BY DEF Openings, Insert
  <2> QED BY <2>1, LowestType
<1> QED BY <1>1 DEF Learning, PendingSet

\* The queue offers the memory the address of a slot that is not being cleared, or
\* nothing new.
LEMMA PopCases ==
    ASSUME TypeOK, Learning
    PROVE  \/ \E s \in Slots :
                /\ MayPop /\ pending[s].en /\ ~Clear(s)
                /\ pend_clear_slot' = s
                /\ pend_wr' = [en |-> TRUE, data |-> Held(s), row |-> Hash[pending[s].sta], way |-> pending[s].way]
           \/ /\ MayPop => \A s \in Slots : pending[s].en => Clear(s)
              /\ pend_clear_slot' = pend_clear_slot
              /\ pend_wr' = (IF PendFirst \/ ~pend_wr.en THEN NoWrite ELSE [pend_wr EXCEPT !.row = 0])
<1>1. CASE MayPop /\ Eligible # {}
  <2> DEFINE s == Lowest(Eligible)
  <2>1. Eligible \in SUBSET Slots
    BY DEF Eligible
  <2>2. s \in Eligible
    BY <1>1, <2>1, LowestType
  <2>3. s \in Slots /\ pending[s].en /\ ~Clear(s)
    BY <2>2 DEF Eligible
  <2> HIDE DEF s
  <2>4. /\ pend_clear_slot' = s
        /\ pend_wr' = [en |-> TRUE, data |-> Held(s), row |-> Hash[pending[s].sta], way |-> pending[s].way]
    BY <1>1 DEF Learning, PopPending, Held, PendRow, s
  <2> QED BY <1>1, <2>3, <2>4
<1>2. CASE ~(MayPop /\ Eligible # {})
  BY <1>2 DEF Learning, PopPending, Eligible
<1> QED BY <1>1, <1>2

\* A write that waits keeps its address and its way: only its row is lost.
LEMMA WaitingWrite ==
    ASSUME TypeOK, Learning, pend_wr.en, ~ack.pend, ~PendFirst
    PROVE  /\ pend_wr'.en /\ pend_wr'.data = pend_wr.data /\ pend_wr'.way = pend_wr.way
           /\ pend_clear_slot' = pend_clear_slot
<1>1. ~MayPop
  BY DEF MayPop, TypeOK
<1>2. pend_clear_slot' = pend_clear_slot /\ pend_wr' = [pend_wr EXCEPT !.row = 0]
  BY <1>1, PopCases
<1>3. pend_wr # NoWrite
  BY DEF NoWrite
<1>4. pend_wr \in [en : {TRUE}, data : Taken, row : Rows, way : Ways]
  BY <1>3 DEF TypeOK, Writes
<1> QED BY <1>2, <1>4

\* Nothing in the queue twice: what comes in differs from everything there, also
\* from a slot that is being cleared, and it goes into one slot only.
LEMMA QueueStaysDistinct ==
    ASSUME TypeOK, PendingDistinct, Learning
    PROVE  PendingDistinct'
<1> SUFFICES ASSUME NEW s \in Slots, NEW t \in Slots, s # t, pending'[s].en, pending'[t].en
             PROVE  <<pending'[s].sta, pending'[s].port>> # <<pending'[t].sta, pending'[t].port>>
  BY DEF PendingDistinct
<1>1. ~NoLearn.en
  BY DEF NoLearn
<1>2. ~(Insert(s) /\ Insert(t))
  BY DEF Insert
<1>3. ASSUME NEW u \in Slots, NEW v \in Slots, Insert(u), pending[v].en
      PROVE  <<learn.sta, learn.port>> # <<pending[v].sta, pending[v].port>>
  BY <1>3 DEF Insert, AlreadyPending
<1>4. pending'[s] = pending[s] \/ (Insert(s) /\ pending'[s] = learn)
  BY <1>1, SlotCases
<1>5. pending'[t] = pending[t] \/ (Insert(t) /\ pending'[t] = learn)
  BY <1>1, SlotCases
<1> QED BY <1>2, <1>3, <1>4, <1>5 DEF PendingDistinct

\* Granting the write puts the entry of the slot into the memory.
LEMMA GrantWrites ==
    ASSUME TypeOK, SlotHeld, PortB, PendFirst
    PROVE  \E r \in Rows, w \in Ways : mem'[r][w] = Held(pend_clear_slot)
<1>1. WritePending /\ pend_wr.en
  BY DEF PortB, LookUpSource, WritePending, WriteRefresh, CollectorRead, CollectorWrite, MgmtRead, MgmtDelete,
     PortBIdle, RefreshNext, GcTurn, GcReadTurn, GcWriteTurn, MgmtTurn, PendFirst
<1>2. pend_wr.row \in Rows /\ pend_wr.way \in Ways
  BY <1>1, RequestTypes DEF TypeOK
<1>3. mem'[pend_wr.row][pend_wr.way] = pend_wr.data
  BY <1>1, <1>2 DEF WritePending, WriteEntry, TypeOK, RowWords
<1> QED BY <1>1, <1>2, <1>3 DEF SlotHeld

\* The slot of a write stays put until the clock after its acknowledge.
LEMMA SlotStaysHeld ==
    ASSUME TypeOK, SlotHeld, PortB, Learning
    PROVE  SlotHeld'
<1>1. ack'.pend = PendFirst
  BY DEF PortB
<1>2. ASSUME PendFirst
      PROVE  /\ pending'[pend_clear_slot] = pending[pend_clear_slot] /\ pend_clear_slot' = pend_clear_slot
             /\ ~pend_wr'.en /\ pending[pend_clear_slot].en
  <2>1. pend_wr.en /\ ~ack.pend /\ pending[pend_clear_slot].en /\ pend_clear_slot \in Slots
    BY <1>2 DEF PendFirst, SlotHeld, TypeOK
  <2>2. ~Clear(pend_clear_slot) /\ ~MayPop
    BY <2>1 DEF Clear, MayPop
  <2>3. pend_clear_slot' = pend_clear_slot /\ pend_wr' = NoWrite
    BY <1>2, <2>2, PopCases
  <2> QED BY <2>1, <2>2, <2>3, SlotCases DEF NoWrite
<1>3. CASE PendFirst
  <2>1. Held(pend_clear_slot)' = Held(pend_clear_slot)
    BY <1>2, <1>3 DEF Held
  <2> QED BY <1>1, <1>2, <1>3, <2>1, GrantWrites DEF SlotHeld
<1>4. CASE ~PendFirst /\ pend_wr.en
  <2>1. ~ack.pend /\ pend_clear_slot \in Slots /\ pending[pend_clear_slot].en
    BY <1>4 DEF SlotHeld, TypeOK
  <2>2. /\ pend_wr'.en /\ pend_wr'.data = pend_wr.data /\ pend_wr'.way = pend_wr.way
        /\ pend_clear_slot' = pend_clear_slot
    BY <1>4, <2>1, WaitingWrite
  <2>3. pending'[pend_clear_slot] = pending[pend_clear_slot]
    BY <2>1, SlotCases DEF Clear
  <2>4. Held(pend_clear_slot)' = Held(pend_clear_slot)
    BY <2>2, <2>3 DEF Held
  <2> QED BY <1>1, <1>4, <2>1, <2>2, <2>3, <2>4 DEF SlotHeld
<1>5. CASE ~PendFirst /\ ~pend_wr.en
  <2>1. CASE pend_wr' = NoWrite
    BY <1>1, <1>5, <2>1 DEF SlotHeld, NoWrite
  <2>2. CASE pend_wr' # NoWrite
    <3>1. PICK s \in Slots :
            /\ pending[s].en /\ ~Clear(s) /\ pend_clear_slot' = s
            /\ pend_wr' = [en |-> TRUE, data |-> Held(s), row |-> Hash[pending[s].sta], way |-> pending[s].way]
      BY <1>5, <2>2, PopCases
    <3>2. pending'[s] = pending[s]
      BY <3>1, SlotCases
    <3>3. Held(pend_clear_slot)' = Held(s)
      BY <3>1, <3>2 DEF Held
    <3> QED BY <1>1, <1>5, <3>1, <3>2, <3>3 DEF SlotHeld
  <2> QED BY <2>1, <2>2
<1> QED BY <1>3, <1>4, <1>5

\* Both facts about the queue survive a clock in which nothing happens.
LEMMA QueueStutters ==
    ASSUME UNCHANGED vars
    PROVE  (PendingDistinct => PendingDistinct') /\ (SlotHeld => SlotHeld')
BY DEF vars, pendVars, PendingDistinct, SlotHeld, Held

\* No address waits in the queue twice for the same port, while one slot is cleared,
\* another is popped and a third is filled (lines 611-667).
THEOREM MACTablePendingDistinct == Spec => []PendingDistinct
<1>1. Init => PendingDistinct
  BY DEF Init, PendingDistinct, NoLearn
<1>2. TypeOK /\ PendingDistinct /\ [Next]_vars => PendingDistinct'
  BY QueueStaysDistinct, QueueStutters DEF Next, Clock
<1> QED BY <1>1, <1>2, MACTableTypeCorrect, PTL DEF Spec

\* The slot of a write that waits, or was granted in the last clock, holds its address.
LEMMA MACTableSlotHeld == Spec => []SlotHeld
<1>1. Init => SlotHeld
  BY DEF Init, SlotHeld, NoWrite
<1>2. TypeOK /\ SlotHeld /\ [Next]_vars => SlotHeld'
  BY SlotStaysHeld, QueueStutters DEF Next, Clock
<1> QED BY <1>1, <1>2, MACTableTypeCorrect, PTL DEF Spec

\* A slot of the learning queue is given back only after its address went into the
\* memory, and until its turn comes nothing replaces the address or the way of a write
\* (lines 660-667 and 733-790).
THEOREM MACTableWrittenThenCleared == Spec => WrittenThenCleared
<1>1. ASSUME TypeOK, SlotHeld, Clock
      PROVE  /\ \A s \in Slots : pending[s].en /\ ~pending'[s].en =>
                   /\ ack.pend
                   /\ \E r \in Rows, w \in Ways : mem[r][w] = Entry(pending[s].sta, pending[s].port, TRUE)
             /\ pend_wr.en /\ ~PendFirst =>
                   pend_wr'.en /\ pend_wr'.data = pend_wr.data /\ pend_wr'.way = pend_wr.way
  <2>1. ASSUME NEW s \in Slots, pending[s].en, ~pending'[s].en
        PROVE  ack.pend /\ \E r \in Rows, w \in Ways : mem[r][w] = Entry(pending[s].sta, pending[s].port, TRUE)
    <3>1. Clear(s)
      BY <1>1, <2>1, SlotCases DEF Clock
    <3> QED BY <1>1, <3>1 DEF Clear, SlotHeld, Held
  <2>2. ASSUME pend_wr.en, ~PendFirst
        PROVE  pend_wr'.en /\ pend_wr'.data = pend_wr.data /\ pend_wr'.way = pend_wr.way
    BY <1>1, <2>2, WaitingWrite DEF Clock, SlotHeld
  <2> QED BY <2>1, <2>2
<1>2. TypeOK /\ SlotHeld /\ [Next]_vars =>
        [/\ \A s \in Slots : pending[s].en /\ ~pending'[s].en =>
             /\ ack.pend
             /\ \E r \in Rows, w \in Ways : mem[r][w] = Entry(pending[s].sta, pending[s].port, TRUE)
         /\ pend_wr.en /\ ~PendFirst =>
             pend_wr'.en /\ pend_wr'.data = pend_wr.data /\ pend_wr'.way = pend_wr.way]_vars
  BY <1>1 DEF Next
<1> QED BY <1>2, MACTableTypeCorrect, MACTableSlotHeld, PTL DEF Spec, WrittenThenCleared
-----------------------------------------------------------------------------
(* Entries stay in their rows as long as requests are at least six clocks  *)
(* apart.  A request takes five clocks to become a write of the learning   *)
(* queue, which presents its row for one clock only: that clock is the     *)
(* sixth, no request can take port B from it, and the slot is free again   *)
(* before the next request has come that far.  The mark refresh and the    *)
(* collector take the row along with the entry, whatever the distance.     *)

Timing ==
    /\ axi.valid => since = 1
    /\ look1.valid => since = 2
    /\ look2.valid => since = 3
    /\ learn.en => since = 4
    /\ pend_wr.en => since = 6 /\ pend_wr.row = Hash[pend_wr.data.sta]
    /\ ack.pend => since = 1 \/ since >= 6
    /\ \A s \in Slots : pending[s].en => since = 5 \/ pend_wr.en \/ ack.pend
OneAtATime ==
    /\ \A s \in Slots : pending[s].en /\ (pend_wr.en \/ ack.pend) => s = pend_clear_slot
    /\ \A s, t \in Slots : pending[s].en /\ pending[t].en => s = t

InRow(row, r) == \A w \in Ways : row[w].valid => Hash[row[w].sta] = r
RefreshInRow == refresh.en => refresh.row = Hash[refresh.data.sta]
CollectorInRow ==
    /\ gc.rd_en => gc.state = "READ_WAIT"
    /\ gc.wr_en => gc.state = "WRITE_WAIT"
    /\ ack.gcrd => gc.state = "READ_WAIT" /\ InRow(rb1, gc.row)
    /\ gc.state = "READ_VALID" => InRow(rb2, gc.row)
    /\ gc.wr_en /\ gc.wdata.valid => Hash[gc.wdata.sta] = gc.row

\* A stage of the pipeline is only busy in the clock the last request reaches it.
LEMMA TimingHolds ==
    ASSUME Gap >= 6, TypeOK, SlotHeld, Timing, OneAtATime, Clock
    PROVE  Timing'
<1> USE DEF Clock
<1>1. since \in 0 .. Gap /\ Gap \in Nat
  BY TrafficAssumption DEF TypeOK
<1>2. \/ ~axi'.valid /\ since' = since + 1 /\ since < Gap
      \/ ~axi'.valid /\ since' = since /\ since = Gap
      \/ since >= Gap /\ since' = 1
  BY <1>1 DEF Arrival, NoLookup
<1>3. axi'.valid => since' = 1
  BY <1>1, TrafficAssumption DEF Arrival, NoLookup
<1>4. look1'.valid => since' = 2
  BY <1>1, <1>2 DEF Pipeline, Timing
<1>5. look2'.valid => since' = 3
  BY <1>1, <1>2 DEF Pipeline, Timing
<1>6. learn'.en => since' = 4
  BY <1>1, <1>2 DEF Learning, CheckSource, Unknown, NoLearn, Timing
<1>7. ack'.pend = PendFirst /\ (PendFirst => pend_wr.en)
  BY DEF PortB, PendFirst
<1>8. ack'.pend => since' = 1 \/ since' >= 6
  BY <1>1, <1>2, <1>7 DEF Timing
<1>9. pend_wr.en => PendFirst /\ ~MayPop
  BY DEF Timing, PendFirst, SlotHeld, MayPop
<1>10. ASSUME pend_wr'.en
       PROVE  since' = 6 /\ pend_wr'.row = Hash[pend_wr'.data.sta]
  <2>1. PICK s \in Slots :
          /\ MayPop /\ pending[s].en /\ ~Clear(s)
          /\ pend_wr' = [en |-> TRUE, data |-> Held(s), row |-> Hash[pending[s].sta], way |-> pending[s].way]
    BY <1>9, <1>10, PopCases DEF NoWrite
  <2>2. ~pend_wr.en /\ ~ack.pend
    BY <1>9, <2>1 DEF OneAtATime, Clear
  <2>3. since = 5
    BY <2>1, <2>2 DEF Timing
  <2>4. since' = 6
    BY <1>1, <1>2, <2>3
  <2> QED BY <2>1, <2>4 DEF Held, Entry
<1>11. ASSUME NEW s \in Slots, pending'[s].en
       PROVE  since' = 5 \/ pend_wr'.en \/ ack'.pend
  <2>1. CASE Insert(s)
    <3>1. since = 4
      BY <2>1 DEF Insert, Timing
    <3> QED BY <1>1, <1>2, <3>1
  <2>2. CASE ~Insert(s)
    <3>1. pending[s].en /\ ~Clear(s)
      BY <1>11, <2>2, SlotCases DEF NoLearn
    <3>2. CASE pend_wr.en
      BY <1>7, <1>9, <3>2
    <3>3. CASE ~pend_wr.en
      <4>1. MayPop
        BY <3>3 DEF MayPop
      <4> QED BY <3>1, <4>1, PopCases
    <3> QED BY <3>2, <3>3
  <2> QED BY <2>1, <2>2
<1> QED BY <1>3, <1>4, <1>5, <1>6, <1>8, <1>10, <1>11 DEF Timing

\* The queue never holds more than one address.
LEMMA QueueHoldsOne ==
    ASSUME Gap >= 6, TypeOK, SlotHeld, Timing, OneAtATime, Clock
    PROVE  OneAtATime'
<1> USE DEF Clock
<1>1. ASSUME NEW s \in Slots, pending'[s].en
      PROVE  \/ Insert(s) /\ since = 4
             \/ ~learn.en /\ pending[s].en /\ ~ack.pend
  <2>1. CASE Insert(s)
    BY <2>1 DEF Insert, Timing
  <2>2. CASE ~Insert(s)
    <3>1. pending[s].en /\ ~Clear(s)
      BY <1>1, <2>2, SlotCases DEF NoLearn
    <3>2. ~ack.pend
      BY <3>1 DEF OneAtATime, Clear
    <3>3. since # 4
      BY <3>1, <3>2 DEF Timing
    <3> QED BY <3>1, <3>2, <3>3 DEF Timing
  <2> QED BY <2>1, <2>2
<1>2. \A s, t \in Slots : pending'[s].en /\ pending'[t].en => s = t
  <2> SUFFICES ASSUME NEW s \in Slots, NEW t \in Slots, pending'[s].en, pending'[t].en PROVE s = t
    OBVIOUS
  <2>1. CASE Insert(s) /\ Insert(t)
    BY <2>1 DEF Insert
  <2>2. CASE ~learn.en
    <3>1. pending[s].en /\ pending[t].en
      BY <1>1, <2>2 DEF Insert
    <3> QED BY <3>1 DEF OneAtATime
  <2> QED BY <1>1, <2>1, <2>2 DEF Insert
<1>3. ASSUME pend_wr'.en \/ ack'.pend
      PROVE  pend_clear_slot' \in Slots /\ pending'[pend_clear_slot'].en
  BY <1>3, SlotStaysHeld, LearningType DEF SlotHeld
<1> QED BY <1>2, <1>3 DEF OneAtATime

\* The mark is written back to the row of the station it belongs to.
LEMMA RefreshStaysInRow ==
    ASSUME TypeOK, RefreshStage
    PROVE  RefreshInRow'
<1>1. CASE rfr.en /\ ~ack.refresh
  <2>1. rfr.data \in Taken
    BY <1>1, RequestTypes DEF TypeOK
  <2>2. [rfr.data EXCEPT !.mark = TRUE].sta = rfr.data.sta
    BY <2>1 DEF Taken
  <2>3. refresh'.row = Hash[rfr.data.sta] /\ refresh'.data = [rfr.data EXCEPT !.mark = TRUE]
    BY <1>1 DEF RefreshStage, RefreshRow
  <2> QED BY <2>2, <2>3 DEF RefreshInRow
<1>2. CASE ~(rfr.en /\ ~ack.refresh)
  BY <1>2 DEF RefreshStage, RefreshInRow, NoWrite
<1> QED BY <1>1, <1>2

\* Whoever is granted port B, an entry goes to the row of its station.
LEMMA PortBKeepsRows ==
    ASSUME TypeOK, Timing, RefreshInRow, CollectorInRow, EntryInItsRow, PortB
    PROVE  EntryInItsRow'
<1>1. ASSUME UNCHANGED mem PROVE EntryInItsRow'
  BY <1>1 DEF EntryInItsRow
<1>2. ASSUME NEW r \in Rows, NEW w \in Ways, NEW e, e.valid => Hash[e.sta] = r, WriteEntry(r, w, e)
      PROVE  EntryInItsRow'
  <2>1. \A r1 \in Rows, w1 \in Ways : mem'[r1][w1] = IF r1 = r /\ w1 = w THEN e ELSE mem[r1][w1]
    BY <1>2 DEF WriteEntry, TypeOK, RowWords
  <2> QED BY <1>2, <2>1 DEF EntryInItsRow
<1> USE RequestTypes
<1>3. CASE LookUpSource \/ CollectorRead \/ MgmtRead \/ PortBIdle
  BY <1>1, <1>3 DEF LookUpSource, CollectorRead, MgmtRead, PortBIdle, ReadRow
<1>4. CASE WritePending
  BY <1>2, <1>4 DEF WritePending, PendFirst, TypeOK, Timing
<1>5. CASE WriteRefresh
  BY <1>2, <1>5 DEF WriteRefresh, RefreshNext, TypeOK, RefreshInRow
<1>6. CASE CollectorWrite
  BY <1>2, <1>6 DEF CollectorWrite, GcWriteTurn, TypeOK, CollectorInRow
<1>7. CASE MgmtDelete
  BY <1>2, <1>7, TrafficAssumption DEF MgmtDelete, TypeOK, Requests, NoOp, Blank
<1> QED BY <1>3, <1>4, <1>5, <1>6, <1>7 DEF PortB

\* What the collector is about to write comes from the row it is at: the row it asked
\* for is in the second output register in the clock it looks.
LEMMA CollectorKeepsRows ==
    ASSUME TypeOK, EntryInItsRow, CollectorInRow, PortB, Collector
    PROVE  CollectorInRow'
<1>1. ack'.gcrd = GcReadTurn /\ rb2' = rb1
  BY DEF PortB
<1>2. ASSUME GcReadTurn
      PROVE  gc.state = "READ_WAIT" /\ ~ack.gcrd /\ InRow(rb1', gc.row)
  <2>1. gc.state = "READ_WAIT" /\ ~ack.gcrd
    BY <1>2 DEF GcReadTurn, CollectorInRow
  <2>2. CollectorRead
    BY <1>2 DEF PortB, LookUpSource, WritePending, WriteRefresh, CollectorRead, CollectorWrite, MgmtRead,
       MgmtDelete, PortBIdle, PendFirst, RefreshNext, GcReadTurn, GcWriteTurn, GcTurn, MgmtTurn
  <2>3. rb1' = mem[gc.row] /\ gc.row \in Rows
    BY <2>2 DEF CollectorRead, ReadRow, TypeOK
  <2> QED BY <2>1, <2>3 DEF InRow, EntryInItsRow
<1>3. CASE GcReadWait
  <2>1. CASE ack.gcrd
    <3>1. gc' = [gc EXCEPT !.state = "READ_VALID", !.rd_en = FALSE] /\ ~GcReadTurn
      BY <1>3, <2>1 DEF GcReadWait, GcReadTurn
    <3>2. gc'.state = "READ_VALID" /\ ~gc'.rd_en /\ gc'.wr_en = gc.wr_en /\ gc'.row = gc.row /\ gc'.wdata = gc.wdata
      BY <3>1 DEF TypeOK
    <3>3. InRow(rb2', gc'.row) /\ ~gc.wr_en
      BY <1>1, <1>3, <2>1, <3>2 DEF CollectorInRow, InRow, GcReadWait
    <3> QED BY <1>1, <3>1, <3>2, <3>3 DEF CollectorInRow, InRow
  <2>2. CASE ~ack.gcrd
    <3>1. gc' = gc /\ gc.state = "READ_WAIT"
      BY <1>3, <2>2 DEF GcReadWait
    <3> QED BY <1>1, <1>2, <3>1 DEF CollectorInRow, InRow
  <2> QED BY <2>1, <2>2
<1>4. CASE GcReadValid
  <2>1. gc_rdata \in Entries /\ (gc_rdata.valid => Hash[gc_rdata.sta] = gc.row)
    BY <1>4 DEF GcReadValid, gc_rdata, TypeOK, RowWords, CollectorInRow, InRow
  <2>2. gc_rdata.valid => [gc_rdata EXCEPT !.mark = FALSE].sta = gc_rdata.sta
    <3>1. gc_rdata.valid => gc_rdata \in Taken
      BY <2>1, EntryTypes
    <3> QED BY <3>1 DEF Taken
  <2>3. ~GcReadTurn /\ ~gc.rd_en /\ ~gc.wr_en
    BY <1>2, <1>4 DEF GcReadValid, CollectorInRow
  <2>4. CASE ~gc_rdata.valid
    <3>1. gc' = [gc EXCEPT !.state = "NEXT"]
      BY <1>4, <2>4 DEF GcReadValid
    <3> QED BY <1>1, <2>3, <3>1 DEF CollectorInRow, TypeOK
  <2>5. CASE gc_rdata.valid
    <3>1. PICK e : /\ gc' = [gc EXCEPT !.state = "WRITE_WAIT", !.wr_en = TRUE, !.wdata = e]
                   /\ e = IF gc_rdata.mark THEN [gc_rdata EXCEPT !.mark = FALSE] ELSE Blank
      BY <1>4, <2>5 DEF GcReadValid
    <3>2. e.valid => Hash[e.sta] = gc.row
      BY <2>1, <2>2, <2>5, <3>1 DEF Blank
    <3>3. gc'.state = "WRITE_WAIT" /\ gc'.wdata = e /\ gc'.row = gc.row /\ gc'.rd_en = gc.rd_en
      BY <3>1 DEF TypeOK
    <3> QED BY <1>1, <2>3, <3>2, <3>3 DEF CollectorInRow
  <2> QED BY <2>4, <2>5
<1>5. CASE GcIdle \/ GcStart \/ GcWriteWait \/ GcNext
  <2>1. gc.state \notin {"READ_WAIT", "READ_VALID"} /\ ~GcReadTurn /\ ~gc.rd_en
    BY <1>2, <1>5 DEF GcIdle, GcStart, GcWriteWait, GcNext, CollectorInRow
  <2>2. gc'.state # "READ_VALID"
    BY <1>5 DEF GcIdle, GcStart, GcWriteWait, GcNext, TypeOK
  <2>3. gc'.rd_en => gc'.state = "READ_WAIT"
    BY <1>5, <2>1 DEF GcIdle, GcStart, GcWriteWait, GcNext, TypeOK
  <2>4. gc'.wr_en => gc' = gc
    BY <1>5 DEF GcIdle, GcStart, GcWriteWait, GcNext, TypeOK, CollectorInRow
  <2> QED BY <1>1, <2>1, <2>2, <2>3, <2>4 DEF CollectorInRow
<1> QED BY <1>3, <1>4, <1>5 DEF Collector

\* A clock in which nothing happens moves no entry.
LEMMA RowsStutter ==
    ASSUME Timing, OneAtATime, RefreshInRow, CollectorInRow, EntryInItsRow, UNCHANGED vars
    PROVE  Timing' /\ OneAtATime' /\ RefreshInRow' /\ CollectorInRow' /\ EntryInItsRow'
BY DEF vars, lookVars, markVars, pendVars, gcVars, Timing, OneAtATime, RefreshInRow, CollectorInRow,
   EntryInItsRow, InRow

\* Line 61 of the code: an entry is in the row where it will be looked for, provided
\* that requests are at least six clocks apart; at five the sixth clock can belong to
\* the next request and the run MACTable_row finds the entry in row 0 (line 745).
THEOREM MACTableEntryInItsRow ==
    ASSUME Gap >= 6
    PROVE  Spec => []EntryInItsRow
<1>1. Init => Timing /\ OneAtATime /\ RefreshInRow /\ CollectorInRow /\ EntryInItsRow
  BY DEF Init, Timing, OneAtATime, RefreshInRow, CollectorInRow, EntryInItsRow, InRow, NoLookup, NoLearn,
     NoWrite, BlankRow, Blank
<1>2. ASSUME TypeOK, SlotHeld, Timing, OneAtATime, RefreshInRow, CollectorInRow, EntryInItsRow, [Next]_vars
      PROVE  Timing' /\ OneAtATime' /\ RefreshInRow' /\ CollectorInRow' /\ EntryInItsRow'
  <2>1. CASE UNCHANGED vars
    BY <1>2, <2>1, RowsStutter
  <2>2. CASE Clock
    BY <1>2, <2>2, TimingHolds, QueueHoldsOne, RefreshStaysInRow, PortBKeepsRows, CollectorKeepsRows DEF Clock
  <2> QED BY <1>2, <2>1, <2>2 DEF Next
<1> QED BY <1>1, <1>2, MACTableTypeCorrect, MACTableSlotHeld, PTL DEF Spec
=============================================================================
