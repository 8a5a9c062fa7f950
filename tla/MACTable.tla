------------------------------- MODULE MACTable -------------------------------
(***************************************************************************)
(* The MAC address table (rtl/engine/fabric/MACAddressTable.sv): a         *)
(* set-associative memory looked up by destination on port A, while source *)
(* lookups, learning, refreshing, garbage collection and management share  *)
(* port B by fixed priority.                                               *)
(*                                                                         *)
(* One Clock step is one clock edge.  A station stands for a MAC address   *)
(* in a VLAN: the code compares and hashes the two together everywhere,    *)
(* and a packet's source and destination are in the same VLAN.             *)
(***************************************************************************)
EXTENDS Integers, FiniteSets

CONSTANTS
    TABLE_ROWS, ASSOC_WAYS, PENDING_SIZE,
    Stations,       \* addresses that occur on the network
    Multicast,      \* those with the group bit set
    Ports,
    Hash,           \* CacheHash: the row of each station
    Lookups,        \* packets the fabric may ask about
    Gap,            \* least distance in clocks between two lookups
    GcRuns,         \* may the host start garbage collection
    MgmtOps,        \* the requests the management client may make
    NoStation, NoPort

Rows  == 0..(TABLE_ROWS - 1)
Ways  == 0..(ASSOC_WAYS - 1)
Slots == 0..(PENDING_SIZE - 1)

ASSUME GeometryAssumption ==
    /\ TABLE_ROWS \in Nat \ {0}
    /\ ASSOC_WAYS \in Nat \ {0}
    /\ PENDING_SIZE \in Nat \ {0}
ASSUME StationAssumption ==
    /\ Hash \in [Stations -> Rows]
    /\ Multicast \subseteq Stations
    /\ NoStation \notin Stations /\ NoPort \notin Ports
ASSUME TrafficAssumption ==
    /\ Lookups \subseteq [valid : {TRUE}, src : Stations, dst : Stations, port : Ports, tid : 0..31]
    /\ Gap \in Nat \ {0}
    /\ GcRuns \in BOOLEAN
    /\ MgmtOps \subseteq [op : {"read", "delete"}, row : Rows, way : Ways]

VARIABLES
    axi,            \* axi_lookup: the request offered in this clock
    since,          \* clocks since the last request, up to Gap
    mem,            \* the table
    ra1, ra2,       \* port A: row in its two output registers
    rb1, rb2,       \* port B: the same
    look1, look2,   \* lookup_*_ff and lookup_*_ff2
    results,        \* axi_results
    cache_set, bump_set,
    rfr,            \* need_to_refresh_ff, lookup_way_ff, lookup_rdata_ff
    refresh,        \* refresh_wr_*
    learn,          \* need_to_learn, pend_addr, pend_vlan, pend_port, pend_way
    pending,        \* the learning queue
    pend_wr,        \* pend_wr_*
    pend_clear_slot,
    ack,            \* pend_wr_ack, refresh_wr_ack, gc_rd_ack, gc_wr_ack
    gc,             \* gc_*
    mgmt,           \* the management client's request, and mgmt_*ack*
    taught,         \* history: station and port of every source looked up
    swept           \* history: entries visited since garbage collection began

lookVars == <<axi, since, ra1, ra2, look1, look2, results, taught>>
markVars == <<rfr, refresh>>
pendVars == <<cache_set, bump_set, learn, pending, pend_wr, pend_clear_slot>>
gcVars   == <<gc, swept>>
vars     == <<lookVars, mem, rb1, rb2, ack, markVars, pendVars, gcVars, mgmt>>

-----------------------------------------------------------------------------
(* Entries, rows and requests.  A register that is only looked at together *)
(* with its valid bit has one value while that bit is off.                 *)

Blank    == [valid |-> FALSE, mark |-> FALSE, sta |-> NoStation, port |-> NoPort]
Entry(sta, port, mark) == [valid |-> TRUE, mark |-> mark, sta |-> sta, port |-> port]
BlankRow == [w \in Ways |-> Blank]

NoLookup == [valid |-> FALSE, src |-> NoStation, dst |-> NoStation, port |-> NoPort, tid |-> 0]
NoReply  == [valid |-> FALSE, hit |-> FALSE, sta |-> NoStation, port |-> NoPort, tid |-> 0, asked |-> 0]
NoWrite  == [en |-> FALSE, data |-> Blank, row |-> 0, way |-> 0]
NoMark   == [en |-> FALSE, data |-> Blank, way |-> 0]
NoLearn  == [en |-> FALSE, sta |-> NoStation, port |-> NoPort, way |-> 0]
NoOp     == [op |-> "none", row |-> 0, way |-> 0]

Highest(S) == CHOOSE x \in S : \A y \in S : y <= x
Lowest(S)  == CHOOSE x \in S : \A y \in S : x <= y

Hits(row, sta) == {w \in Ways : row[w].valid /\ row[w].sta = sta}

\* The reply's TID passes through two-bit registers.
id(tid) == tid % 4

-----------------------------------------------------------------------------
(* Port B: who gets the memory in this clock.                              *)

PendFirst    == ~axi.valid /\ pend_wr.en /\ ~ack.pend
RefreshNext  == ~axi.valid /\ ~PendFirst /\ refresh.en
GcTurn       == ~axi.valid /\ ~PendFirst /\ ~RefreshNext
GcReadTurn   == GcTurn /\ gc.rd_en /\ ~ack.gcrd
GcWriteTurn  == GcTurn /\ ~GcReadTurn /\ gc.wr_en /\ ~ack.gcwr
MgmtTurnReadsOnly == GcTurn /\ ~GcReadTurn /\ ~GcWriteTurn /\ mgmt.req.op = "read"
MgmtTurn     == GcTurn /\ ~GcReadTurn /\ ~GcWriteTurn /\ mgmt.req.op # "none"

ReadRow(r)         == rb1' = mem[r] /\ UNCHANGED mem
WriteEntry(r, w, e) == mem' = [mem EXCEPT ![r][w] = e] /\ rb1' = BlankRow

LookUpSource  == axi.valid /\ ReadRow(Hash[axi.src])
WritePending  == PendFirst /\ WriteEntry(pend_wr.row, pend_wr.way, pend_wr.data)
WriteRefresh  == RefreshNext /\ WriteEntry(refresh.row, refresh.way, refresh.data)
CollectorRead == GcReadTurn /\ ReadRow(gc.row)
CollectorWrite == GcWriteTurn /\ WriteEntry(gc.row, gc.way, gc.wdata)
MgmtRead      == MgmtTurn /\ mgmt.req.op = "read" /\ ReadRow(mgmt.req.row)
MgmtDelete    == MgmtTurn /\ mgmt.req.op = "delete" /\ WriteEntry(mgmt.req.row, mgmt.req.way, Blank)
PortBIdle     == GcTurn /\ ~GcReadTurn /\ ~GcWriteTurn /\ ~MgmtTurn /\ rb1' = BlankRow /\ UNCHANGED mem

PortB ==
    /\ \/ LookUpSource \/ WritePending \/ WriteRefresh \/ CollectorRead
       \/ CollectorWrite \/ MgmtRead \/ MgmtDelete \/ PortBIdle
    /\ rb2' = rb1
    /\ ack' = [pend |-> PendFirst, refresh |-> RefreshNext, gcrd |-> GcReadTurn, gcwr |-> GcWriteTurn]

-----------------------------------------------------------------------------
(* The lookup pipeline: request, two clocks of memory latency, reply.      *)

HitWays == IF look2.valid THEN Hits(ra2, look2.dst) ELSE {}
HitWay  == Highest(HitWays)

Pipeline ==
    /\ look1' = axi
    /\ look2' = look1
    /\ ra1' = IF axi.valid THEN mem[Hash[axi.dst]] ELSE BlankRow
    /\ ra2' = ra1
    /\ taught' = IF axi.valid THEN taught \cup {<<axi.src, axi.port>>} ELSE taught

Reply ==
    results' = IF look2.valid
               THEN [valid |-> TRUE, hit |-> HitWays # {}, sta |-> look2.dst,
                     port |-> IF HitWays # {} THEN ra2[HitWay].port ELSE NoPort,
                     tid |-> id(look2.tid), asked |-> look2.tid]
               ELSE NoReply

RefreshRow == Hash[rfr.data.sta]

\* A destination hit on an unmarked entry asks for the mark to be written back.
\* The request stands for one clock.
RefreshStage ==
    /\ rfr' = IF HitWays # {} /\ ~ra2[HitWay].mark
              THEN [en |-> TRUE, data |-> ra2[HitWay], way |-> HitWay]
              ELSE NoMark
    /\ refresh' = IF rfr.en /\ ~ack.refresh
                  THEN [en |-> TRUE, data |-> [rfr.data EXCEPT !.mark = TRUE],
                        row |-> RefreshRow, way |-> rfr.way]
                  ELSE NoWrite

-----------------------------------------------------------------------------
(* Learning: a source that misses goes to the queue, the queue to memory.  *)

cacheSetNoWrap == IF bump_set THEN cache_set + 1 ELSE cache_set
cache_set_fwd == IF bump_set THEN (cache_set + 1) % ASSOC_WAYS ELSE cache_set

UnknownNoGroupCheck == look2.valid /\ Hits(rb2, look2.src) = {}
Unknown == look2.valid /\ look2.src \notin Multicast /\ Hits(rb2, look2.src) = {}

CheckSource ==
    /\ learn' = IF Unknown
                THEN [en |-> TRUE, sta |-> look2.src, port |-> look2.port, way |-> cache_set_fwd]
                ELSE NoLearn
    /\ bump_set' = Unknown
    /\ cache_set' = cache_set_fwd

AlreadyPendingButBusy ==
    \E s \in Slots : /\ pending[s].en /\ pending[s].sta = learn.sta /\ pending[s].port = learn.port
                    /\ s # pend_clear_slot
AlreadyPending ==
    \E s \in Slots : pending[s].en /\ pending[s].sta = learn.sta /\ pending[s].port = learn.port
Openings == {s \in Slots : ~pending[s].en}
Insert(s) == learn.en /\ ~AlreadyPending /\ Openings # {} /\ s = Lowest(Openings)
ClearEarly(s) == pend_wr.en /\ s = pend_clear_slot
Clear(s)  == ack.pend /\ s = pend_clear_slot

PendingSet ==
    pending' = [s \in Slots |-> IF Clear(s) THEN NoLearn ELSE IF Insert(s) THEN learn ELSE pending[s]]

Eligible == {s \in Slots : pending[s].en /\ ~Clear(s)}

PendRowSwapped(s) == pending[s].way
PendRow(s) == Hash[pending[s].sta]

MayPop == ~pend_wr.en \/ ack.pend

\* The row is presented for one clock only: a write that has to wait loses it.
PopPending ==
    IF MayPop /\ Eligible # {}
    THEN LET s == Lowest(Eligible) IN
         /\ pend_clear_slot' = s
         /\ pend_wr' = [en |-> TRUE, data |-> Entry(pending[s].sta, pending[s].port, TRUE),
                        row |-> PendRow(s), way |-> pending[s].way]
    ELSE /\ pend_wr' = IF PendFirst \/ ~pend_wr.en THEN NoWrite ELSE [pend_wr EXCEPT !.row = 0]
         /\ UNCHANGED pend_clear_slot

Learning == CheckSource /\ PendingSet /\ PopPending

-----------------------------------------------------------------------------
(* Mark-and-sweep garbage collection.                                      *)

gc_rdata == rb2[gc.way]
LastRow  == gc.row = TABLE_ROWS - 1
LastWay  == gc.way = ASSOC_WAYS - 1

GcIdle == gc.state = "IDLE" /\ gc' = [gc EXCEPT !.done = FALSE] /\ UNCHANGED swept

GcStart ==
    /\ GcRuns /\ gc.state = "IDLE"
    /\ gc' = [gc EXCEPT !.state = "READ_WAIT", !.row = 0, !.way = 0, !.rd_en = TRUE, !.done = FALSE]
    /\ swept' = {}

GcReadWait ==
    /\ gc.state = "READ_WAIT"
    /\ gc' = IF ack.gcrd THEN [gc EXCEPT !.state = "READ_VALID", !.rd_en = FALSE] ELSE gc
    /\ UNCHANGED swept

GcReadValidNeverErases ==
    /\ gc.state = "READ_VALID"
    /\ swept' = swept \cup {<<gc.row, gc.way>>}
    /\ gc' = IF ~gc_rdata.mark THEN [gc EXCEPT !.state = "NEXT"]
             ELSE [gc EXCEPT !.state = "WRITE_WAIT", !.wr_en = TRUE, !.wdata = [gc_rdata EXCEPT !.mark = FALSE]]

GcReadValid ==
    /\ gc.state = "READ_VALID"
    /\ swept' = swept \cup {<<gc.row, gc.way>>}
    /\ gc' = IF ~gc_rdata.valid THEN [gc EXCEPT !.state = "NEXT"]
             ELSE [gc EXCEPT !.state = "WRITE_WAIT", !.wr_en = TRUE,
                             !.wdata = IF gc_rdata.mark THEN [gc_rdata EXCEPT !.mark = FALSE] ELSE Blank]

GcWriteWait ==
    /\ gc.state = "WRITE_WAIT"
    /\ gc' = IF ack.gcwr THEN [gc EXCEPT !.state = "NEXT", !.wr_en = FALSE] ELSE gc
    /\ UNCHANGED swept

GcNext ==
    /\ gc.state = "NEXT"
    /\ gc' = IF LastRow /\ LastWay
             THEN [gc EXCEPT !.state = "IDLE", !.wdata = Blank, !.done = TRUE]
             ELSE [gc EXCEPT !.state = "READ_WAIT", !.wdata = Blank, !.rd_en = TRUE,
                             !.row = (@ + 1) % TABLE_ROWS,
                             !.way = IF LastRow THEN @ + 1 ELSE @]
    /\ UNCHANGED swept

Collector == GcIdle \/ GcStart \/ GcReadWait \/ GcReadValid \/ GcWriteWait \/ GcNext

-----------------------------------------------------------------------------
(* The management port.  Its client holds a request until it sees an ack   *)
(* (no client exists in the repository: this is the protocol of the port). *)

Requests == {NoOp} \cup MgmtOps

MgmtPort ==
    /\ \E req \in Requests :
        /\ mgmt.req.op # "none" => req = IF mgmt.ack THEN NoOp ELSE mgmt.req
        /\ mgmt' = [req |-> req,
                    rd_ack |-> MgmtTurn /\ mgmt.req.op = "read",
                    rd_ack_ff |-> mgmt.rd_ack,
                    ack |-> mgmt.rd_ack_ff \/ (MgmtTurn /\ mgmt.req.op = "delete")]

-----------------------------------------------------------------------------
Init ==
    /\ axi = NoLookup /\ since = Gap
    /\ mem = [r \in Rows |-> BlankRow]
    /\ ra1 = BlankRow /\ ra2 = BlankRow /\ rb1 = BlankRow /\ rb2 = BlankRow
    /\ look1 = NoLookup /\ look2 = NoLookup /\ results = NoReply
    /\ cache_set = 0 /\ bump_set = FALSE
    /\ rfr = NoMark /\ refresh = NoWrite
    /\ learn = NoLearn /\ pending = [s \in Slots |-> NoLearn]
    /\ pend_wr = NoWrite /\ pend_clear_slot = 0
    /\ ack = [pend |-> FALSE, refresh |-> FALSE, gcrd |-> FALSE, gcwr |-> FALSE]
    /\ gc = [state |-> "IDLE", row |-> 0, way |-> 0, rd_en |-> FALSE, wr_en |-> FALSE,
             wdata |-> Blank, done |-> FALSE]
    /\ mgmt = [req |-> NoOp, rd_ack |-> FALSE, rd_ack_ff |-> FALSE, ack |-> FALSE]
    /\ taught = {} /\ swept = {}

Arrival ==
    \/ axi' = NoLookup /\ since' = IF since < Gap THEN since + 1 ELSE since
    \/ since >= Gap /\ axi' \in Lookups /\ since' = 1

Clock ==
    /\ Arrival /\ Pipeline /\ Reply
    /\ PortB /\ RefreshStage /\ Learning /\ Collector /\ MgmtPort

Next == Clock

Spec == Init /\ [][Next]_vars
-----------------------------------------------------------------------------
(* Properties.                                                             *)

Taken    == [valid : {TRUE}, mark : BOOLEAN, sta : Stations, port : Ports]
Entries  == {Blank} \cup Taken
RowWords == [Ways -> Entries]
Asked    == Lookups \cup {NoLookup}
Marks    == {NoMark} \cup [en : {TRUE}, data : Taken, way : Ways]
Writes   == {NoWrite} \cup [en : {TRUE}, data : Taken, row : Rows, way : Ways]
Learns   == {NoLearn} \cup [en : {TRUE}, sta : Stations, port : Ports, way : Ways]

\* Every register holds a value of its type (MACAddressTable.sv:191-461).
TypeOK ==
    /\ axi \in Asked /\ look1 \in Asked /\ look2 \in Asked /\ since \in 0..Gap
    /\ mem \in [Rows -> RowWords]
    /\ ra1 \in RowWords /\ ra2 \in RowWords /\ rb1 \in RowWords /\ rb2 \in RowWords
    /\ results \in [valid : BOOLEAN, hit : BOOLEAN, sta : Stations \cup {NoStation},
                    port : Ports \cup {NoPort}, tid : 0..3, asked : 0..31]
    /\ cache_set \in Ways /\ bump_set \in BOOLEAN
    /\ rfr \in Marks
    /\ refresh \in Writes /\ pend_wr \in Writes
    /\ learn \in Learns /\ pending \in [Slots -> Learns] /\ pend_clear_slot \in Slots
    /\ ack \in [pend : BOOLEAN, refresh : BOOLEAN, gcrd : BOOLEAN, gcwr : BOOLEAN]
    /\ gc \in [state : {"IDLE", "READ_WAIT", "READ_VALID", "WRITE_WAIT", "NEXT"},
               row : Rows, way : Ways, rd_en : BOOLEAN, wr_en : BOOLEAN, wdata : Entries, done : BOOLEAN]
    /\ mgmt \in [req : Requests, rd_ack : BOOLEAN, rd_ack_ff : BOOLEAN, ack : BOOLEAN]
    /\ taught \subseteq Stations \X Ports
    /\ swept \subseteq Rows \X Ways

\* The table never makes an address up: whatever a register, the queue or the
\* memory holds, and whatever a hit reports, is a port from which a unicast packet
\* of that station came in, through every stale write-back of the pipeline.
Genuine(e)     == e.valid => e.sta \notin Multicast /\ <<e.sta, e.port>> \in taught
GenuineRow(r)  == \A w \in Ways : Genuine(r[w])
GenuineLearn(l) == l.en => l.sta \notin Multicast /\ <<l.sta, l.port>> \in taught
OnlyTaughtAddresses ==
    /\ \A r \in Rows : GenuineRow(mem[r])
    /\ \A s \in Slots : GenuineLearn(pending[s])
    /\ results.hit => <<results.sta, results.port>> \in taught

\* No address waits twice for the same port: the queue's duplicate check (lines
\* 622-634) still works while a slot is being cleared and another one popped.
PendingDistinct ==
    \A s, t \in Slots :
        /\ s # t /\ pending[s].en /\ pending[t].en
        => <<pending[s].sta, pending[s].port>> # <<pending[t].sta, pending[t].port>>

\* A slot of the learning queue is given back only after its address went into
\* the memory: the write granted in the clock before was for that very slot.
\* Until its turn comes nothing replaces the address or the way of that write
\* (lines 753-788).
WrittenThenCleared ==
    [][/\ \A s \in Slots : pending[s].en /\ ~pending'[s].en =>
           /\ ack.pend
           /\ \E r \in Rows, w \in Ways : mem[r][w] = Entry(pending[s].sta, pending[s].port, TRUE)
       /\ pend_wr.en /\ ~PendFirst =>
           pend_wr'.en /\ pend_wr'.data = pend_wr.data /\ pend_wr'.way = pend_wr.way]_vars

\* Line 61: "The table is organized as a set-associative cache, indexed by a
\* simple XOR hash of the MAC address": an entry is in the row where it will be
\* looked for.
EntryInItsRow == \A r \in Rows, w \in Ways : mem[r][w].valid => Hash[mem[r][w].sta] = r

\* The clock runs as long as there is anything left to do.  Nothing is assumed
\* of the traffic, which may never leave port B a free clock, nor of the host.
AtRest ==
    /\ ~axi.valid /\ ~look1.valid /\ ~look2.valid /\ ~results.valid
    /\ ~rfr.en /\ ~refresh.en /\ ~ack.refresh
    /\ ~learn.en /\ ~pend_wr.en /\ ~ack.pend /\ \A s \in Slots : ~pending[s].en
    /\ gc.state = "IDLE" /\ ~gc.done
    /\ mgmt.req.op = "none"
FairSpec == Spec /\ WF_vars(~AtRest /\ Clock)

TrafficStops == <>[](~axi.valid)

\* When traffic pauses long enough nobody on port B starves: every learned address
\* reaches the memory, a management request is acknowledged, however often garbage
\* collection is started, and a collection that was started finishes and has then
\* visited every way of every row (lines 472-549, 882-915).
PortBServesAll ==
    TrafficStops => /\ <>[](\A s \in Slots : ~pending[s].en)
                    /\ mgmt.req.op # "none" ~> mgmt.ack
                    /\ gc.state # "IDLE" ~> gc.done /\ swept = Rows \X Ways

\* Mark and sweep ages silent hosts out: with traffic stopped and collections
\* started again and again the table ends up empty and stays so.
SilentHostsAgeOut ==
    (TrafficStops /\ []<>(gc.state = "READ_WAIT")) => <>[](\A r \in Rows, w \in Ways : ~mem[r][w].valid)
=============================================================================
