------------------------------ MODULE MCTxPath ------------------------------
(* The blocks of the transmit path: the bridge, which the receive path has   *)
(* in the other direction; the buffer in front of the MAC; and the merge.    *)
(* block says which of them a behaviour runs; the others stay in their       *)
(* initial states.                                                           *)
EXTENDS L8Bridge

CONSTANTS BufferPackets, Depth, MaxBufferSent, MergePackets, MergeDepth, MaxMergeSent

ASSUME BufferAssumption ==
    /\ \A p \in BufferPackets : p.beats \in Nat \ {0}
    /\ Depth \in Nat /\ Depth > 4
    /\ MaxBufferSent \in Nat

ASSUME MergeAssumption ==
    /\ \A p \in MergePackets : p.beats \in Nat \ {0}
    /\ MergeDepth \in Nat \ {0}
    /\ MaxMergeSent \in Nat

VARIABLES block,
          b_fifo, b_shown, b_full, b_ready, b_in_1d, b_in_2d, b_count, b_exist,
          b_stage0, b_sent, b_out,
          m_in, m_stage0, m_stage1, port_select, m_sent, m_out

Buffer == INSTANCE L8PktBuf WITH
    Packets <- BufferPackets, MaxSent <- MaxBufferSent,
    fifo <- b_fifo, shown <- b_shown, full_1d_r <- b_full, from_l8_ready_r <- b_ready,
    pkt_in_1d_r <- b_in_1d, pkt_in_2d_r <- b_in_2d, queue_pkt_count_r <- b_count,
    queue_data_exist_r <- b_exist, stage0 <- b_stage0, sent <- b_sent, out <- b_out

Merge == INSTANCE TxMerge WITH
    Packets <- MergePackets, BufDepth <- MergeDepth, MaxSent <- MaxMergeSent,
    ch_in <- m_in, stage0 <- m_stage0, stage1 <- m_stage1, sent <- m_sent, out <- m_out

bufferVars == <<b_fifo, b_shown, b_full, b_ready, b_in_1d, b_in_2d, b_count, b_exist,
                b_stage0, b_sent, b_out>>
mergeVars == <<m_in, m_stage0, m_stage1, port_select, m_sent, m_out>>

PathInit ==
    /\ block \in {"bridge", "buffer", "merge"}
    /\ Init /\ (block # "bridge" => Direction = "to_l8")
    /\ Buffer!Init /\ Merge!Init

PathNext ==
    /\ UNCHANGED block
    /\ \/ block = "bridge" /\ Next /\ UNCHANGED <<bufferVars, mergeVars>>
       \/ block = "buffer" /\ Buffer!Next /\ UNCHANGED <<vars, mergeVars>>
       \/ block = "merge" /\ Merge!Next /\ UNCHANGED <<vars, bufferVars>>

\* The fairness of each block, while it is the one that runs.
PathFairness ==
    /\ WF_vars(block = "bridge" /\ \E offered \in Offers : Clock(offered, TRUE))
    /\ WF_vars(block = "bridge" /\ \E b \in Incoming, out_ready \in BOOLEAN :
                 ~Sop(b) /\ Clock(<<b>>, out_ready))
    /\ WF_bufferVars(block = "buffer" /\ \E offered \in Buffer!Offers :
                       Buffer!Clock(offered, TRUE))
    /\ WF_bufferVars(block = "buffer" /\ \E b \in Buffer!NextBeats(b_sent), ready \in BOOLEAN :
                       ~Sop(b) /\ Buffer!Clock(<<b>>, ready))
    /\ WF_mergeVars(block = "merge" /\ Merge!Invoke(TRUE))
    /\ \A l \in Merge!Lanes :
         WF_mergeVars(block = "merge" /\ \E b \in Merge!NextBeats(m_sent[l]) :
                        ~Sop(b) /\ Merge!Supply(l, b))

PathSpec ==
    PathInit /\ [][PathNext]_<<block, vars, bufferVars, mergeVars>> /\ PathFairness

-----------------------------------------------------------------------------
\* The buffer's counter of whole frames is exact, also when a frame enters in
\* the clock in which another leaves.
CountExact == Buffer!CountExact

\* The buffer's late ready flag stops the sender before the FIFO is full.
NeverFull == Buffer!NeverFull

\* The MAC is never left without the next beat of a frame it has begun.
NoUnderrun == Buffer!NoUnderrun

\* The merge puts out whole frames, none of them mixed with another, and loses,
\* repeats and reorders nothing of a lane.
OutFramed == Merge!OutFramed
LanesKept == Merge!LanesKept

\* Bridge and buffer implement the abstract FIFO: accepted beats leave in
\* order, each once.
BuffersImplementFifo == ImplementsFifo /\ Buffer!ImplementsFifo

\* Neither bridge nor buffer stops in the middle of a frame or keeps one: the
\* beat that was last taken is followed by another, or is the last of a frame
\* that leaves.
Through(taken, left, i) == Len(taken) > i \/ (Len(left) >= i /\ Eop(left[i]))

PathDelivers ==
    \A i \in 1..MaxSent :
        (Len(sent) = i \/ Len(b_sent) = i)
            ~> (Through(sent, out, i) \/ Through(b_sent, b_out, i))

\* Both lanes of the merge are served.
LanesServed == Merge!FramesDelivered

-----------------------------------------------------------------------------
(* The bridge: towards the HLS components frames of any length; towards the  *)
(* MAC only those with numbers of unused bytes for which the code's shift is *)
(* complete.                                                                 *)
BridgePkt(bridge, beats, empty) == [bridge |-> bridge, beats |-> beats, empty |-> empty]

MCPackets ==
    {BridgePkt("to_ulong2", 3, 0), BridgePkt("to_ulong2", 2, 3), BridgePkt("to_ulong2", 2, 7),
     BridgePkt("to_l8", 3, 0), BridgePkt("to_l8", 2, 4), BridgePkt("to_l8", 2, 7)}

\* Towards the MAC: replies of the other lengths.
OddReplies == {BridgePkt("to_l8", 2, e) : e \in 1..3}

\* The buffer: frames of one beat, and up to the longest that its threshold of
\* five words lets in.
MCBufferPackets == {[beats |-> n] : n \in {1, 3, 5}}

MergePkt(lane, beats) == [lane |-> lane, beats |-> beats]

MCMergePackets ==
    {MergePkt("ARP", 2), MergePkt("ARP", 1), MergePkt("IPV4", 3), MergePkt("IPV4", 1)}
=============================================================================
