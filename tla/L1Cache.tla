------------------------------- MODULE L1Cache -------------------------------
(***************************************************************************)
(* The L1 controller of one processor, MESI_CMP_directory-L1cache.sm.      *)
(*                                                                         *)
(* The controller is the record                                            *)
(*   icache, dcache  the tags of the two L1 caches                         *)
(*   entry           CacheState, DataBlk and Dirty of each line            *)
(*   tbe             L1_TBEs; a line with no TBE has NoTBE                 *)
(*   mandatory       the requests in the mandatory queue                   *)
(* An event of a line runs the actions of one row of the transition table  *)
(* in their order and then enters the row's next state.                    *)
(***************************************************************************)
EXTENDS Messages

Ops == {"LD", "IFETCH", "ST"}

L1States == {"NP", "I", "S", "E", "M", "IS", "IM", "SM", "IS_I", "M_I", "E_I",
             "SINK_WB_ACK"}

L1Entry == [state : L1States, data : Blocks, dirty : BOOLEAN]

NewL1Entry == [state |-> "I", data |-> "unset", dirty |-> FALSE]

L1TBE == [state : L1States \cup {"none"}, data : Blocks, dirty : BOOLEAN, pendingAcks : Int]

NoL1TBE == [state |-> "none", data |-> "unset", dirty |-> FALSE, pendingAcks |-> 0]

L1Controller ==
    [icache : SUBSET Addrs, dcache : SUBSET Addrs, entry : [Addrs -> L1Entry],
     tbe : [Addrs -> L1TBE], mandatory : SUBSET (Addrs \X Ops)]

L1Init == [icache |-> {}, dcache |-> {}, entry |-> [a \in Addrs |-> NewL1Entry],
           tbe |-> [a \in Addrs |-> NoL1TBE], mandatory |-> {}]

isL1CacheTagPresent(c, a) == a \in c.dcache \cup c.icache

(* getState: the TBE's state if there is one, else the entry's, else NP. *)
L1State(c, a) ==
    IF c.tbe[a] # NoL1TBE THEN c.tbe[a].state
    ELSE IF isL1CacheTagPresent(c, a) THEN c.entry[a].state
    ELSE "NP"

(* setState: both the TBE and the entry that are there after the actions. *)
L1SetState(c, a, s) ==
    [c EXCEPT !.tbe[a].state = IF c.tbe[a] # NoL1TBE THEN s ELSE @,
              !.entry[a].state = IF isL1CacheTagPresent(c, a) THEN s ELSE @]

-----------------------------------------------------------------------------
(* The transition table, by the state it leaves.                           *)

L1FromIdle(s, ev) ==
    CASE ev = "L1_Replacement" -> Row(s, <<"ff_deallocateL1CacheBlock">>)
      [] ev = "Load" -> Row("IS", <<"oo_allocateL1DCacheBlock", "i_allocateTBE",
                                    "a_issueGETS", "k_popMandatoryQueue">>)
      [] ev = "Ifetch" -> Row("IS", <<"pp_allocateL1ICacheBlock", "i_allocateTBE",
                                      "ai_issueGETINSTR", "k_popMandatoryQueue">>)
      [] ev = "Store" -> Row("IM", <<"oo_allocateL1DCacheBlock", "i_allocateTBE",
                                     "b_issueGETX", "k_popMandatoryQueue">>)
      [] ev = "Inv" -> Row(s, <<"fi_sendInvAck", "l_popRequestQueue">>)
      [] OTHER -> Invalid

L1FromS(ev) ==
    CASE ev \in {"Load", "Ifetch"} -> Row("S", <<"h_load_hit", "k_popMandatoryQueue">>)
      [] ev = "Store" -> Row("SM", <<"i_allocateTBE", "c_issueUPGRADE", "k_popMandatoryQueue">>)
      [] ev = "L1_Replacement" -> Row("I", <<"ff_deallocateL1CacheBlock">>)
      [] ev = "Inv" -> Row("I", <<"fi_sendInvAck", "l_popRequestQueue">>)
      [] OTHER -> Invalid

L1FromE(ev) ==
    CASE ev \in {"Load", "Ifetch"} -> Row("E", <<"h_load_hit", "k_popMandatoryQueue">>)
      [] ev = "Store" -> Row("M", <<"hh_store_hit", "k_popMandatoryQueue">>)
      [] ev = "L1_Replacement" ->
            Row("M_I", <<"i_allocateTBE", "g_issuePUTX", "ff_deallocateL1CacheBlock">>)
      [] ev = "Inv" -> Row("I", <<"fi_sendInvAck", "l_popRequestQueue">>)
      [] ev = "Fwd_GETX" -> Row("I", <<"d_sendDataToRequestor", "l_popRequestQueue">>)
      [] ev \in {"Fwd_GETS", "Fwd_GET_INSTR"} ->
            Row("S", <<"d_sendDataToRequestor", "d2_sendDataToL2", "l_popRequestQueue">>)
      [] OTHER -> Invalid

L1FromM(ev) ==
    CASE ev \in {"Load", "Ifetch"} -> Row("M", <<"h_load_hit", "k_popMandatoryQueue">>)
      [] ev = "Store" -> Row("M", <<"hh_store_hit", "k_popMandatoryQueue">>)
      [] ev = "L1_Replacement" ->
            Row("M_I", <<"i_allocateTBE", "g_issuePUTX", "ff_deallocateL1CacheBlock">>)
      [] ev = "Inv" -> Row("I", <<"f_sendDataToL2", "l_popRequestQueue">>)
      [] ev = "Fwd_GETX" -> Row("I", <<"d_sendDataToRequestor", "l_popRequestQueue">>)
      [] ev \in {"Fwd_GETS", "Fwd_GET_INSTR"} ->
            Row("S", <<"d_sendDataToRequestor", "d2_sendDataToL2", "l_popRequestQueue">>)
      [] OTHER -> Invalid

(* Writing back: the data stays in the TBE until the L2 has acknowledged,  *)
(* or until a request that overtook the PUTX has taken it.                 *)
L1FromM_I(ev) ==
    CASE ev = "WB_Ack" -> Row("I", <<"s_deallocateTBE", "o_popIncomingResponseQueue">>)
      [] ev = "Inv" -> Row("SINK_WB_ACK", <<"ft_sendDataToL2_fromTBE", "l_popRequestQueue">>)
      [] ev = "Fwd_GETX" ->
            Row("SINK_WB_ACK", <<"dt_sendDataToRequestor_fromTBE", "l_popRequestQueue">>)
      [] ev \in {"Fwd_GETS", "Fwd_GET_INSTR"} ->
            Row("SINK_WB_ACK", <<"dt_sendDataToRequestor_fromTBE", "d2t_sendDataToL2_fromTBE",
                                 "l_popRequestQueue">>)
      [] OTHER -> Invalid

L1FromSINK_WB_ACK(ev) ==
    CASE ev = "Inv" -> Row("SINK_WB_ACK", <<"fi_sendInvAck", "l_popRequestQueue">>)
      [] ev = "WB_Ack" -> Row("SINK_WB_ACK", <<"s_deallocateTBE", "o_popIncomingResponseQueue">>)
      [] OTHER -> Invalid

(* Waiting for shared data.  An Inv may overtake the data, because the L2  *)
(* does not block when it answers a GETS itself.                           *)
L1FromIS(s, ev) ==
    CASE ev = "Inv" -> Row("IS_I", <<"fi_sendInvAck", "l_popRequestQueue">>)
      [] ev = "Data_all_Acks" ->
            Row(IF s = "IS" THEN "S" ELSE "I",
                <<"u_writeDataToL1Cache", "h_load_hit", "s_deallocateTBE",
                  "o_popIncomingResponseQueue">>)
      [] ev = "DataS_fromL1" ->
            Row(IF s = "IS" THEN "S" ELSE "I",
                <<"u_writeDataToL1Cache", "j_sendUnblock", "h_load_hit", "s_deallocateTBE",
                  "o_popIncomingResponseQueue">>)
      [] ev = "Data_Exclusive" ->
            Row("E", <<"u_writeDataToL1Cache", "h_load_hit", "jj_sendExclusiveUnblock",
                       "s_deallocateTBE", "o_popIncomingResponseQueue">>)
      [] OTHER -> Invalid

L1FromIM(ev) ==
    CASE ev = "Inv" -> Row("IM", <<"fi_sendInvAck", "l_popRequestQueue">>)
      [] ev = "Data" -> Row("SM", <<"u_writeDataToL1Cache", "q_updateAckCount",
                                    "o_popIncomingResponseQueue">>)
      [] ev = "Data_all_Acks" ->
            Row("M", <<"u_writeDataToL1Cache", "hh_store_hit", "jj_sendExclusiveUnblock",
                       "s_deallocateTBE", "o_popIncomingResponseQueue">>)
      [] ev = "Ack" -> Row("IM", <<"q_updateAckCount", "o_popIncomingResponseQueue">>)
      [] OTHER -> Invalid

L1FromSM(ev) ==
    CASE ev = "Inv" -> Row("IM", <<"fi_sendInvAck", "l_popRequestQueue">>)
      [] ev = "Ack" -> Row("SM", <<"q_updateAckCount", "o_popIncomingResponseQueue">>)
      [] ev = "Ack_all" -> Row("M", <<"jj_sendExclusiveUnblock", "hh_store_hit",
                                      "s_deallocateTBE", "o_popIncomingResponseQueue">>)
      [] OTHER -> Invalid

(* A request of the processor for a line in transition waits. *)
L1Recycles(s, ev) ==
    /\ s \in {"IS", "IM", "IS_I", "M_I", "E_I", "SM", "SINK_WB_ACK"}
    /\ ev \in {"Load", "Ifetch", "Store", "L1_Replacement"}

L1Table(s, ev) ==
    CASE s \in {"NP", "I"} -> L1FromIdle(s, ev)
      [] s = "S" -> L1FromS(ev)
      [] s = "E" -> L1FromE(ev)
      [] s = "M" -> L1FromM(ev)
      [] s = "M_I" -> L1FromM_I(ev)
      [] s = "SINK_WB_ACK" -> L1FromSINK_WB_ACK(ev)
      [] s \in {"IS", "IS_I"} -> L1FromIS(s, ev)
      [] s = "IM" -> L1FromIM(ev)
      [] s = "SM" -> L1FromSM(ev)
      [] OTHER -> Invalid

(* An Inv that overtakes the data is forgotten once it is acknowledged. *)
L1Transition_ForgetsInv(s, ev) ==
    IF s = "IS" /\ ev = "Inv" THEN Row("IS", <<"fi_sendInvAck", "l_popRequestQueue">>)
    ELSE IF L1Recycles(s, ev) THEN Recycle ELSE L1Table(s, ev)

(* An Inv that overtakes a writeback is answered as if the line were clean. *)
L1Transition_AcksInvWithoutData(s, ev) ==
    IF s = "M_I" /\ ev = "Inv" THEN Row("SINK_WB_ACK", <<"fi_sendInvAck", "l_popRequestQueue">>)
    ELSE IF L1Recycles(s, ev) THEN Recycle ELSE L1Table(s, ev)

(* The data that arrives after an Inv is dropped without a callback. *)
L1Transition_DropsLateData(s, ev) ==
    IF s = "IS_I" /\ ev = "Data_all_Acks"
    THEN Row("I", <<"s_deallocateTBE", "o_popIncomingResponseQueue">>)
    ELSE IF L1Recycles(s, ev) THEN Recycle ELSE L1Table(s, ev)

L1Transition(s, ev) == IF L1Recycles(s, ev) THEN Recycle ELSE L1Table(s, ev)

-----------------------------------------------------------------------------
(* The actions.  A run carries the controller c, the messages it has sent  *)
(* out, the callback it made to the sequencer, and whether the message at  *)
(* the head of its queue has been popped.                                  *)
L1Run(c) == [c |-> c, out |-> {}, callback |-> "none", pop |-> FALSE]

L1Send(r, msg) == [r EXCEPT !.out = @ \cup {msg}]

(* p is the controller's processor, a the line, m the message of the event *)
(* (or the request at the head of the mandatory queue).                    *)
L1Act(p, a, m, r, act) ==
    LET entry == r.c.entry[a]
        tbe == r.c.tbe[a]
        ToL2(type) == RequestMsg(type, a, p, L2)
        Answer(dest, acks) == ResponseMsg("ACK", a, p, dest, acks)
        DataTo(dest, block) == WithData(ResponseMsg("DATA", a, p, dest, 0), block)
    IN  CASE act = "a_issueGETS" -> L1Send(r, ToL2("GETS"))
          [] act = "ai_issueGETINSTR" -> L1Send(r, ToL2("GET_INSTR"))
          [] act = "b_issueGETX" -> L1Send(r, ToL2("GETX"))
          [] act = "c_issueUPGRADE" -> L1Send(r, ToL2("UPGRADE"))
          [] act = "g_issuePUTX" -> L1Send(r, WithData(ToL2("PUTX"), entry))
          [] act = "d_sendDataToRequestor" -> L1Send(r, DataTo(m.peer, entry))
          [] act \in {"d2_sendDataToL2", "f_sendDataToL2"} -> L1Send(r, DataTo(L2, entry))
          [] act = "dt_sendDataToRequestor_fromTBE" -> L1Send(r, DataTo(m.peer, tbe))
          [] act \in {"d2t_sendDataToL2_fromTBE", "ft_sendDataToL2_fromTBE"} ->
                L1Send(r, DataTo(L2, tbe))
          [] act = "fi_sendInvAck" -> L1Send(r, Answer(m.peer, 1))
          [] act = "j_sendUnblock" -> L1Send(r, ResponseMsg("UNBLOCK", a, p, L2, 0))
          [] act = "jj_sendExclusiveUnblock" ->
                L1Send(r, ResponseMsg("EXCLUSIVE_UNBLOCK", a, p, L2, 0))
          [] act = "h_load_hit" -> [r EXCEPT !.callback = "read"]
          [] act = "hh_store_hit" -> [r EXCEPT !.callback = "write", !.c.entry[a].dirty = TRUE]
          [] act = "i_allocateTBE" ->
                [r EXCEPT !.c.tbe[a] = [state |-> "I", data |-> entry.data,
                                        dirty |-> entry.dirty, pendingAcks |-> 0]]
          [] act = "s_deallocateTBE" -> [r EXCEPT !.c.tbe[a] = NoL1TBE]
          [] act = "u_writeDataToL1Cache" ->
                [r EXCEPT !.c.entry[a].data = m.data, !.c.entry[a].dirty = m.dirty]
          [] act = "q_updateAckCount" -> [r EXCEPT !.c.tbe[a].pendingAcks = @ - m.acks]
          [] act = "ff_deallocateL1CacheBlock" ->
                IF a \in r.c.dcache
                THEN [r EXCEPT !.c.dcache = @ \ {a}, !.c.entry[a] = NewL1Entry]
                ELSE [r EXCEPT !.c.icache = @ \ {a}, !.c.entry[a] = NewL1Entry]
          [] act = "oo_allocateL1DCacheBlock" -> [r EXCEPT !.c.dcache = @ \cup {a}]
          [] act = "pp_allocateL1ICacheBlock" -> [r EXCEPT !.c.icache = @ \cup {a}]
          [] act = "k_popMandatoryQueue" -> [r EXCEPT !.c.mandatory = @ \ {m}]
          [] act \in {"l_popRequestQueue", "o_popIncomingResponseQueue"} ->
                [r EXCEPT !.pop = TRUE]

(* The whole transition of line a on event ev. *)
L1Do(c, p, a, m, ev) ==
    LET row == L1Transition(L1State(c, a), ev)
        run[k \in 0 .. Len(row.acts)] ==
            IF k = 0 THEN L1Run(c) ELSE L1Act(p, a, m, run[k - 1], row.acts[k])
    IN  [run[Len(row.acts)] EXCEPT !.c = L1SetState(@, a, row.next)]

-----------------------------------------------------------------------------
(* The events the in_ports trigger.                                        *)

L1ResponseEvent(c, m) ==
    LET left == c.tbe[m.addr].pendingAcks - m.acks
    IN  CASE m.type = "DATA_EXCLUSIVE" -> "Data_Exclusive"
          [] m.type = "WB_ACK" -> "WB_Ack"
          [] m.type \in {"DATA", "ACK"} ->
                IF m.type = "DATA" /\ L1State(c, m.addr) \in {"IS", "IS_I"} /\ m.peer \in Procs
                THEN "DataS_fromL1"
                ELSE IF c.tbe[m.addr] = NoL1TBE THEN "error"   \* TBETable::lookup asserts
                ELSE IF m.type = "DATA" THEN IF left = 0 THEN "Data_all_Acks" ELSE "Data"
                ELSE IF left = 0 THEN "Ack_all" ELSE "Ack"
          [] OTHER -> "error"

L1RequestEvent(m) ==
    CASE m.type = "INV" -> "Inv"
      [] m.type \in {"GETX", "UPGRADE"} -> "Fwd_GETX"
      [] m.type = "GETS" -> "Fwd_GETS"
      [] m.type = "GET_INSTR" -> "Fwd_GET_INSTR"
      [] OTHER -> "error"

L1MessageEvent(c, m) ==
    IF m.type \in Requests THEN L1RequestEvent(m) ELSE L1ResponseEvent(c, m)

(* mandatory_request_type_to_event *)
L1OpEvent(op) == CASE op = "LD" -> "Load" [] op = "IFETCH" -> "Ifetch" [] op = "ST" -> "Store"

(* A request that does not look into the other L1. *)
L1MandatoryEvents_OwnCacheOnly(c, a, op) ==
    LET own == IF op = "IFETCH" THEN c.icache ELSE c.dcache
    IN  IF cacheAvail(own, L1_WAYS, a) THEN {<<L1OpEvent(op), a>>}
        ELSE {<<"L1_Replacement", v>> : v \in cacheProbe(own)}

(* mandatoryQueue_in: the event and the line it is for.  A line in the     *)
(* other L1 leaves it first; a full set makes room first.                  *)
L1MandatoryEvents(c, a, op) ==
    LET own == IF op = "IFETCH" THEN c.icache ELSE c.dcache
        other == IF op = "IFETCH" THEN c.dcache ELSE c.icache
    IN  IF a \in other THEN {<<"L1_Replacement", a>>}
        ELSE IF cacheAvail(own, L1_WAYS, a) THEN {<<L1OpEvent(op), a>>}
        ELSE {<<"L1_Replacement", v>> : v \in cacheProbe(own)}

=============================================================================
