--------------------------- MODULE MCIngressFIFO ---------------------------
(* Instances of IngressFIFO for TLC.                                       *)
EXTENDS IngressFIFO

Frame(beats, tail, vlan, bad) == [beats |-> beats, tail |-> tail, vlan |-> vlan, bad |-> bad]

\* Good and bad frames that end in each half of a word; one whose last beat is
\* empty.
AllFrames == {Frame(2, 3, 1, FALSE), Frame(3, 1, 2, FALSE), Frame(3, 0, 1, FALSE),
              Frame(2, 4, 2, TRUE), Frame(3, 2, 1, TRUE)}

\* Frames for the run in which the RAM wraps with errors on the line.
WrapFrames == {Frame(2, 4, 1, FALSE), Frame(2, 4, 2, TRUE)}

\* The smallest frame, for the liveness run.
OneFrame == {Frame(2, 4, 1, FALSE)}

\* Two states that differ only in registers nobody will read again, or in RAM
\* words outside the part in use, behave alike.
InUse(a) == Addr(a - rd_ptr) < Ptr(wr_ptr - rd_ptr) \/ (rdq.en /\ rdq.addr = a)
Live ==
    <<bus, tvalid_ff, tlast_ff, IF tvalid_ff THEN <<beat_ff>> ELSE <<>>,
      wr_en, IF wr_en THEN <<wr_addr, wr_data>> ELSE <<>>,
      IF wr_state = "HIGH" THEN <<wr_data.lo>> ELSE <<>>,
      wr_ptr, wr_ptr_committed, wr_state,
      IF wr_state = "IDLE" THEN <<>> ELSE <<sof_ptr, frame_len>>,
      IF wr_state = "HEADER" THEN <<frame_vlan>> ELSE <<>>,
      {<<a, mem[a]>> : a \in {b \in DOMAIN mem : InUse(b)}},
      rd_ptr, IF rdq.en THEN <<rdq>> ELSE <<>>, owed>>
=============================================================================
