---------------------------- MODULE MCFIFOReader ----------------------------
(* Instances of FIFOReader for TLC: two or three ports of a line card.     *)
EXTENDS FIFOReader

Fr(len, vlan, dst) == [len |-> len, vlan |-> vlan, dst |-> dst]

\* Frames of one to seven bytes more than full words; the longer ones take their
\* last words straight from the RAM.
MixedTraffic == [p \in PortNumbers |->
    CASE p = 0 -> {Fr(77, 2, 2)} [] p = 1 -> {Fr(69, 3, 1)} [] OTHER -> {Fr(59, 1, 1)}]
LongTraffic == [p \in PortNumbers |-> IF p = 0 THEN {Fr(69, 2, 2)} ELSE {Fr(60, 1, 1)}]

\* Two states that differ only in where the words lie in the RAM, or in registers
\* that are written again before they are read, behave alike.
Waiting(p) == [i \in 1..fifo_rd_size(p) |-> mem[p][Addr(rd_ptr[p] + i - 1)]]
Coming(mtype, p) == \E i \in 1..LATENCY : pipe[i].mtype = mtype /\ pipe[i].port = p
Known(p) ==
    LET s == port_states[p] IN
    <<IF s \in {"IDLE", "DATA_READY", "FORWARDING"} \/ Coming("HEADER", p) THEN <<>> ELSE <<port_hdr[p]>>,
      IF s \in {"IDLE", "DATA_READY", "HEADER", "FORWARDING"} \/ Coming("WORD0", p) THEN <<>> ELSE <<port_word0[p]>>,
      IF s \in {"MAC_LOOKUP", "FWD_READY", "FORWARDING"} THEN <<port_word1[p], prefetch_buf[p]>> ELSE <<>>,
      IF s = "FWD_READY" THEN <<port_dst[p]>> ELSE <<>>>>
Live ==
    <<[p \in PortNumbers |-> <<Waiting(p), port_states[p], Known(p)>>], pipe,
      main_rr_port, IF rrState = "PREFETCH" THEN prefetch_wr_count ELSE 0,
      fwd_state, IF fwd_state = "IDLE" THEN <<>> ELSE <<fwd_port, fwd_bytesToRead, fwd_bytesToSend>>,
      IF fwd_state = "PREFETCH_DATA" THEN prefetch_rd_addr ELSE 0,
      IF fwd_state = "IDLE" /\ ~axi_tx.word.valid THEN axi_tx.word ELSE axi_tx, lookups, owed, sent>>
=============================================================================
