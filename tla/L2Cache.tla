------------------------------- MODULE L2Cache -------------------------------
(***************************************************************************)
(* The shared L2 bank with its on-chip directory,                          *)
(* MESI_CMP_directory-L2cache.sm.                                          *)
(*                                                                         *)
(* The controller is the record                                            *)
(*   tags    the lines present in the bank                                 *)
(*   entry   CacheState, Sharers, Exclusive, DataBlk and Dirty of a line   *)
(*   tbe     L2_TBEs; a line with no TBE has NoL2TBE                       *)
(* MEM_Inv and Unblock_Cancel are events no in_port triggers, and nothing  *)
(* enters M_MB; their rows are left out.                                   *)
(***************************************************************************)
EXTENDS Messages

NoProc == "none"

L2States == {"NP", "SS", "M", "MT", "M_I", "MT_I", "MCT_I", "I_I", "S_I", "ISS", "IS", "IM",
             "SS_MB", "MT_MB", "MT_IIB", "MT_IB", "MT_SB"}

L2Entry == [state : L2States, sharers : SUBSET Procs, exclusive : Procs \cup {NoProc},
            data : Blocks, dirty : BOOLEAN]

NewL2Entry == [state |-> "NP", sharers |-> {}, exclusive |-> NoProc,
               data |-> "unset", dirty |-> FALSE]

L2TBE == [state : L2States \cup {"none"}, data : Blocks, dirty : BOOLEAN,
          getS : SUBSET Procs, getX : Procs \cup {NoProc}, pendingAcks : Int]

NoL2TBE == [state |-> "none", data |-> "unset", dirty |-> FALSE,
            getS |-> {}, getX |-> NoProc, pendingAcks |-> 0]

L2Controller == [tags : SUBSET Addrs, entry : [Addrs -> L2Entry], tbe : [Addrs -> L2TBE]]

L2Init == [tags |-> {}, entry |-> [a \in Addrs |-> NewL2Entry],
           tbe |-> [a \in Addrs |-> NoL2TBE]]

(* getState and setState, as in the L1. *)
L2State(c, a) ==
    IF c.tbe[a] # NoL2TBE THEN c.tbe[a].state
    ELSE IF a \in c.tags THEN c.entry[a].state
    ELSE "NP"

L2SetState(c, a, s) ==
    [c EXCEPT !.tbe[a].state = IF c.tbe[a] # NoL2TBE THEN s ELSE @,
              !.entry[a].state = IF a \in c.tags THEN s ELSE @]

isSharer(c, a, p) == a \in c.tags /\ p \in c.entry[a].sharers

-----------------------------------------------------------------------------
(* The transition table, by the state it leaves.                           *)

Gets == {"L1_GETS", "L1_GET_INSTR"}
Puts == {"L1_PUTX", "L1_PUTX_old"}
Replacements == {"L2_Replacement", "L2_Replacement_clean"}

Blocked == {"SS_MB", "MT_MB", "MT_IIB", "MT_IB", "MT_SB"}
Fetching == {"IM", "IS", "ISS"}
WritingBack == {"I_I", "S_I", "MT_I", "MCT_I", "M_I"}

(* A writeback that needs nothing but its acknowledgement: the line has    *)
(* moved on, or its data came by another message.                          *)
AckPut(s) == Row(s, <<"t_sendWBAck", "jj_popL1RequestQueue">>)

(* What waits in line for the state to change. *)
L2Recycles(s, ev) ==
    \/ s \in Blocked \cup Fetching /\ ev \in Replacements
    \/ s \in Blocked /\ ev \in Gets \cup {"L1_GETX", "L1_UPGRADE"}
    \/ s \in {"IS", "ISS"} /\ ev = "L1_GETX"
    \/ s = "IM" /\ ev \in Gets \cup {"L1_GETX"}
    \/ s \in WritingBack /\ ev \in Gets \cup {"L1_GETX", "L1_UPGRADE"}
    \/ s \in {"MT_IIB", "MT_I", "MCT_I", "MT_MB", "SS_MB"} /\ ev \in Puts

L2FromNP(ev) ==
    CASE ev = "L1_GETS" ->
            Row("ISS", <<"qq_allocateL2CacheBlock", "ll_clearSharers", "nn_addSharer",
                         "i_allocateTBE", "ss_recordGetSL1ID", "a_issueFetchToMemory",
                         "jj_popL1RequestQueue">>)
      [] ev = "L1_GET_INSTR" ->
            Row("IS", <<"qq_allocateL2CacheBlock", "ll_clearSharers", "nn_addSharer",
                        "i_allocateTBE", "ss_recordGetSL1ID", "a_issueFetchToMemory",
                        "jj_popL1RequestQueue">>)
      [] ev = "L1_GETX" ->
            Row("IM", <<"qq_allocateL2CacheBlock", "ll_clearSharers", "i_allocateTBE",
                        "xx_recordGetXL1ID", "a_issueFetchToMemory", "jj_popL1RequestQueue">>)
      [] ev \in Puts -> AckPut("NP")
      [] OTHER -> Invalid

(* Waiting for memory. *)
L2FromFetching(s, ev) ==
    CASE ev = "Mem_Data" /\ s = "ISS" ->
            Row("MT_MB", <<"m_writeDataToCache", "ex_sendExclusiveDataToGetSRequestors",
                           "s_deallocateTBE", "o_popIncomingResponseQueue">>)
      [] ev = "Mem_Data" /\ s = "IS" ->
            Row("SS", <<"m_writeDataToCache", "e_sendDataToGetSRequestors",
                        "s_deallocateTBE", "o_popIncomingResponseQueue">>)
      [] ev = "Mem_Data" /\ s = "IM" ->
            Row("MT_MB", <<"m_writeDataToCache", "ee_sendDataToGetXRequestor",
                           "s_deallocateTBE", "o_popIncomingResponseQueue">>)
      [] ev \in Gets /\ s # "IM" ->
            Row("IS", <<"nn_addSharer", "ss_recordGetSL1ID", "jj_popL1RequestQueue">>)
      [] ev \in Puts -> AckPut(s)
      [] OTHER -> Invalid

L2FromSS(ev) ==
    CASE ev \in Gets ->
            Row("SS", <<"ds_sendSharedDataToRequestor", "nn_addSharer", "jj_popL1RequestQueue">>)
      [] ev = "L1_GETX" ->
            Row("SS_MB", <<"d_sendDataToRequestor", "fwm_sendFwdInvToSharersMinusRequestor",
                           "jj_popL1RequestQueue">>)
      [] ev = "L1_UPGRADE" ->
            Row("SS_MB", <<"fwm_sendFwdInvToSharersMinusRequestor", "ts_sendInvAckToUpgrader",
                           "jj_popL1RequestQueue">>)
      [] ev = "L2_Replacement_clean" ->
            Row("I_I", <<"i_allocateTBE", "f_sendInvToSharers", "rr_deallocateL2CacheBlock">>)
      [] ev = "L2_Replacement" ->
            Row("S_I", <<"i_allocateTBE", "f_sendInvToSharers", "rr_deallocateL2CacheBlock">>)
      [] ev \in Puts -> AckPut("SS")
      [] OTHER -> Invalid

L2FromM(ev) ==
    CASE ev = "L1_GETX" -> Row("MT_MB", <<"d_sendDataToRequestor", "jj_popL1RequestQueue">>)
      [] ev = "L1_GET_INSTR" ->
            Row("SS", <<"d_sendDataToRequestor", "nn_addSharer", "jj_popL1RequestQueue">>)
      [] ev = "L1_GETS" ->
            Row("MT_MB", <<"dd_sendExclusiveDataToRequestor", "jj_popL1RequestQueue">>)
      [] ev = "L2_Replacement" ->
            Row("M_I", <<"i_allocateTBE", "c_exclusiveReplacement", "rr_deallocateL2CacheBlock">>)
      [] ev = "L2_Replacement_clean" ->
            Row("M_I", <<"i_allocateTBE", "c_exclusiveCleanReplacement",
                         "rr_deallocateL2CacheBlock">>)
      [] ev \in Puts -> AckPut("M")
      [] OTHER -> Invalid

L2FromMT(ev) ==
    CASE ev = "L1_GETX" ->
            Row("MT_MB", <<"b_forwardRequestToExclusive", "jj_popL1RequestQueue">>)
      [] ev \in Gets ->
            Row("MT_IIB", <<"b_forwardRequestToExclusive", "jj_popL1RequestQueue">>)
      [] ev = "L2_Replacement" ->
            Row("MT_I", <<"i_allocateTBE", "f_sendInvToSharers", "rr_deallocateL2CacheBlock">>)
      [] ev = "L2_Replacement_clean" ->
            Row("MCT_I", <<"i_allocateTBE", "f_sendInvToSharers", "rr_deallocateL2CacheBlock">>)
      [] ev = "L1_PUTX" ->
            Row("M", <<"ll_clearSharers", "mr_writeDataToCacheFromRequest", "t_sendWBAck",
                       "jj_popL1RequestQueue">>)
      [] ev = "L1_PUTX_old" -> AckPut("MT")
      [] OTHER -> Invalid

(* Blocked until the requestor has what it asked for and, after a GETS for *)
(* a line another L1 owned, until the owner's data has come too.           *)
L2FromBlocked(s, ev) ==
    CASE s \in {"SS_MB", "MT_MB"} /\ ev = "Exclusive_Unblock" ->
            Row("MT", <<"mmu_markExclusiveFromUnblock", "k_popUnblockQueue">>)
      [] s = "MT_IIB" /\ ev = "Unblock" ->
            Row("MT_IB", <<"nnu_addSharerFromUnblock", "k_popUnblockQueue">>)
      [] s = "MT_IIB" /\ ev \in {"WB_Data", "WB_Data_clean"} ->
            Row("MT_SB", <<"m_writeDataToCache", "o_popIncomingResponseQueue">>)
      [] s = "MT_IB" /\ ev \in {"WB_Data", "WB_Data_clean"} ->
            Row("SS", <<"m_writeDataToCache", "o_popIncomingResponseQueue">>)
      [] s = "MT_SB" /\ ev = "Unblock" ->
            Row("SS", <<"nnu_addSharerFromUnblock", "k_popUnblockQueue">>)
      [] s \in {"MT_IB", "MT_SB"} /\ ev \in Puts -> AckPut(s)
      [] OTHER -> Invalid

L2FromWritingBack(s, ev) ==
    CASE s \in {"I_I", "S_I"} /\ ev = "Ack" ->
            Row(s, <<"q_updateAck", "o_popIncomingResponseQueue">>)
      [] s = "I_I" /\ ev = "Ack_all" ->
            Row("M_I", <<"c_exclusiveCleanReplacement", "o_popIncomingResponseQueue">>)
      [] s = "S_I" /\ ev = "Ack_all" ->
            Row("M_I", <<"ct_exclusiveReplacementFromTBE", "o_popIncomingResponseQueue">>)
      [] s \in {"MT_I", "MCT_I"} /\ ev = "WB_Data" ->
            Row("M_I", <<"qq_writeDataToTBE", "ct_exclusiveReplacementFromTBE",
                         "o_popIncomingResponseQueue">>)
      [] s = "MCT_I" /\ ev \in {"WB_Data_clean", "Ack_all"} ->
            Row("M_I", <<"c_exclusiveCleanReplacement", "o_popIncomingResponseQueue">>)
      [] s = "MT_I" /\ ev = "Ack_all" ->
            Row("M_I", <<"ct_exclusiveReplacementFromTBE", "o_popIncomingResponseQueue">>)
      [] s = "MT_I" /\ ev = "WB_Data_clean" ->
            Row("NP", <<"s_deallocateTBE", "o_popIncomingResponseQueue">>)
      [] s = "M_I" /\ ev = "Mem_Ack" ->
            Row("NP", <<"s_deallocateTBE", "o_popIncomingResponseQueue">>)
      [] s \in {"M_I", "I_I", "S_I"} /\ ev \in Puts -> AckPut(s)
      [] OTHER -> Invalid

L2Table(s, ev) ==
    CASE s = "NP" -> L2FromNP(ev)
      [] s \in Fetching -> L2FromFetching(s, ev)
      [] s = "SS" -> L2FromSS(ev)
      [] s = "M" -> L2FromM(ev)
      [] s = "MT" -> L2FromMT(ev)
      [] s \in Blocked -> L2FromBlocked(s, ev)
      [] s \in WritingBack -> L2FromWritingBack(s, ev)

(* A writeback that overtakes the unblock of its line is taken at once. *)
L2Transition_NoPutRace(s, ev) ==
    IF L2Recycles(s, ev) /\ ~(s \in {"MT_MB", "SS_MB"} /\ ev \in Puts) THEN Recycle
    ELSE L2Table(s, ev)

(* The unblock records the owner but leaves the line blocked and stays in  *)
(* its queue.                                                              *)
L2Transition_StaysBlocked(s, ev) ==
    IF s = "MT_MB" /\ ev = "Exclusive_Unblock"
    THEN Row("MT_MB", <<"mmu_markExclusiveFromUnblock">>)
    ELSE IF L2Recycles(s, ev) THEN Recycle ELSE L2Table(s, ev)

(* A line the L2 believes clean is dropped as clean although its owner has *)
(* written it.                                                             *)
L2Transition_OwnerDataIgnored(s, ev) ==
    IF s = "MCT_I" /\ ev = "WB_Data"
    THEN Row("M_I", <<"c_exclusiveCleanReplacement", "o_popIncomingResponseQueue">>)
    ELSE IF L2Recycles(s, ev) THEN Recycle ELSE L2Table(s, ev)

(* A dirty line is replaced without waiting for memory's answer. *)
L2Transition_NoWaitForMemory(s, ev) ==
    IF s = "M" /\ ev = "L2_Replacement"
    THEN Row("NP", <<"c_exclusiveReplacement", "rr_deallocateL2CacheBlock">>)
    ELSE IF L2Recycles(s, ev) THEN Recycle ELSE L2Table(s, ev)

L2Transition(s, ev) == IF L2Recycles(s, ev) THEN Recycle ELSE L2Table(s, ev)

-----------------------------------------------------------------------------
(* The actions.                                                            *)
L2Run(c) == [c |-> c, out |-> {}, pop |-> FALSE]

L2Send(r, msgs) == [r EXCEPT !.out = @ \cup msgs]

L2Act(a, m, r, act) ==
    LET entry == r.c.entry[a]
        tbe == r.c.tbe[a]
        sharers == entry.sharers
        Data(type, dests, acks) ==
            {WithData(ResponseMsg(type, a, L2, d, acks), entry) : d \in dests}
        Inv(requestor, dests) == {RequestMsg("INV", a, requestor, d) : d \in dests}
        othersCount == Cardinality(sharers \ {m.peer})
    IN  CASE act = "a_issueFetchToMemory" -> L2Send(r, {RequestMsg("GETS", a, L2, Dir)})
          [] act = "b_forwardRequestToExclusive" ->
                L2Send(r, {RequestMsg(m.type, a, m.peer, entry.exclusive)})
          [] act = "c_exclusiveReplacement" -> L2Send(r, Data("MEMORY_DATA", {Dir}, 0))
          [] act = "c_exclusiveCleanReplacement" ->
                L2Send(r, {ResponseMsg("ACK", a, L2, Dir, 0)})
          [] act = "ct_exclusiveReplacementFromTBE" ->
                L2Send(r, {WithData(ResponseMsg("MEMORY_DATA", a, L2, Dir, 0), tbe)})
          [] act = "d_sendDataToRequestor" -> L2Send(r, Data("DATA", {m.peer}, -othersCount))
          [] act = "dd_sendExclusiveDataToRequestor" ->
                L2Send(r, Data("DATA_EXCLUSIVE", {m.peer}, -othersCount))
          [] act = "ds_sendSharedDataToRequestor" -> L2Send(r, Data("DATA", {m.peer}, 0))
          [] act = "e_sendDataToGetSRequestors" -> L2Send(r, Data("DATA", tbe.getS, 0))
          [] act = "ex_sendExclusiveDataToGetSRequestors" ->
                L2Send(r, Data("DATA_EXCLUSIVE", tbe.getS, 0))
          [] act = "ee_sendDataToGetXRequestor" -> L2Send(r, Data("DATA", {tbe.getX}, 0))
          [] act = "f_sendInvToSharers" -> L2Send(r, Inv(L2, sharers))
          [] act = "fwm_sendFwdInvToSharersMinusRequestor" ->
                L2Send(r, Inv(m.peer, sharers \ {m.peer}))
          [] act = "t_sendWBAck" -> L2Send(r, {ResponseMsg("WB_ACK", a, L2, m.peer, 0)})
          [] act = "ts_sendInvAckToUpgrader" ->
                L2Send(r, {ResponseMsg("ACK", a, L2, m.peer, 1 - Cardinality(sharers))})
          [] act = "i_allocateTBE" ->
                [r EXCEPT !.c.tbe[a] =
                    [state |-> "NP", data |-> entry.data, dirty |-> entry.dirty, getS |-> {},
                     getX |-> NoProc, pendingAcks |-> Cardinality(sharers)]]
          [] act = "s_deallocateTBE" -> [r EXCEPT !.c.tbe[a] = NoL2TBE]
          [] act \in {"m_writeDataToCache", "mr_writeDataToCacheFromRequest"} ->
                [r EXCEPT !.c.entry[a].data = m.data, !.c.entry[a].dirty = m.dirty]
          [] act = "q_updateAck" -> [r EXCEPT !.c.tbe[a].pendingAcks = @ - m.acks]
          [] act = "qq_writeDataToTBE" ->
                [r EXCEPT !.c.tbe[a].data = m.data, !.c.tbe[a].dirty = m.dirty]
          [] act = "ss_recordGetSL1ID" -> [r EXCEPT !.c.tbe[a].getS = @ \cup {m.peer}]
          [] act = "xx_recordGetXL1ID" -> [r EXCEPT !.c.tbe[a].getX = m.peer]
          [] act = "qq_allocateL2CacheBlock" -> [r EXCEPT !.c.tags = @ \cup {a}]
          [] act = "rr_deallocateL2CacheBlock" ->
                [r EXCEPT !.c.tags = @ \ {a}, !.c.entry[a] = NewL2Entry]
          [] act \in {"nn_addSharer", "nnu_addSharerFromUnblock"} ->
                [r EXCEPT !.c.entry[a].sharers = @ \cup {m.peer}]
          [] act = "ll_clearSharers" -> [r EXCEPT !.c.entry[a].sharers = {}]
          [] act = "mmu_markExclusiveFromUnblock" ->
                [r EXCEPT !.c.entry[a].sharers = {m.peer}, !.c.entry[a].exclusive = m.peer]
          [] act \in {"jj_popL1RequestQueue", "k_popUnblockQueue", "o_popIncomingResponseQueue"} ->
                [r EXCEPT !.pop = TRUE]

(* The whole transition of line a on event ev. *)
L2Do(c, a, m, ev) ==
    LET row == L2Transition(L2State(c, a), ev)
        run[k \in 0 .. Len(row.acts)] ==
            IF k = 0 THEN L2Run(c) ELSE L2Act(a, m, run[k - 1], row.acts[k])
    IN  [run[Len(row.acts)] EXCEPT !.c = L2SetState(@, a, row.next)]

-----------------------------------------------------------------------------
(* The events the in_ports trigger.                                        *)

(* L1Cache_request_type_to_event: an UPGRADE of an L1 that has meanwhile   *)
(* been invalidated is a GETX, a PUTX of one is old.                       *)
L2RequestEvent(c, m) ==
    CASE m.type = "GETS" -> "L1_GETS"
      [] m.type = "GET_INSTR" -> "L1_GET_INSTR"
      [] m.type = "GETX" -> "L1_GETX"
      [] m.type = "UPGRADE" ->
            IF isSharer(c, m.addr, m.peer) THEN "L1_UPGRADE" ELSE "L1_GETX"
      [] m.type = "PUTX" ->
            IF isSharer(c, m.addr, m.peer) THEN "L1_PUTX" ELSE "L1_PUTX_old"
      [] OTHER -> "error"

L2ResponseEvent(c, m) ==
    CASE m.type = "UNBLOCK" -> "Unblock"
      [] m.type = "EXCLUSIVE_UNBLOCK" -> "Exclusive_Unblock"
      [] m.type = "DATA" /\ m.peer \in Procs -> IF m.dirty THEN "WB_Data" ELSE "WB_Data_clean"
      [] m.type = "ACK" /\ m.peer \in Procs ->
            IF c.tbe[m.addr] = NoL2TBE THEN "error"   \* TBETable::lookup asserts
            ELSE IF c.tbe[m.addr].pendingAcks - m.acks = 0 THEN "Ack_all" ELSE "Ack"
      [] m.type = "MEMORY_DATA" /\ m.peer = Dir -> "Mem_Data"
      [] m.type = "MEMORY_ACK" /\ m.peer = Dir -> "Mem_Ack"
      [] OTHER -> "error"

(* The in_ports: the event and the line it is for.  A request for a line   *)
(* that has no place, a PUTX included, makes room first.                   *)
L2MessageEvents(c, m) ==
    IF m.type \notin Requests THEN {<<L2ResponseEvent(c, m), m.addr>>}
    ELSE IF cacheAvail(c.tags, L2_WAYS, m.addr) THEN {<<L2RequestEvent(c, m), m.addr>>}
    ELSE {<<IF c.entry[v].dirty THEN "L2_Replacement" ELSE "L2_Replacement_clean", v>> :
            v \in cacheProbe(c.tags)}

=============================================================================
