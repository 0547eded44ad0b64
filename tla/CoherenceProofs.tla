-------------------------- MODULE CoherenceProofs --------------------------
(***************************************************************************)
(* Proofs about the coherence controllers, for any number of processors,   *)
(* lines and ways, any program and any order of delivery: the types, that  *)
(* every request of a processor is in one place, and that a line has one   *)
(* request at the DRAM.                                                    *)
(*                                                                         *)
(* A row of a transition table is a list of actions.  What an action does  *)
(* is said once (L1ActionDoes, L2ActionDoes); what the rows are made of is *)
(* said once (the lemmas about rows); an induction along the row joins the *)
(* two (L1RowDoes, L2RowDoes).                                             *)
(***************************************************************************)
EXTENDS CoherenceProperties, FiniteSetTheorems, NaturalsInduction,
        WellFoundedInduction, TLAPS

-----------------------------------------------------------------------------
(* The invariant.                                                          *)

(* Who sends what to whom.                                                 *)
Sound(m) ==
    /\ m \in Message
    /\ m.dest = Dir => m.peer = L2
    /\ m.peer = Dir => m.dest = L2
    /\ m.type \in Requests => m.peer # Dir
    /\ m.dest = L2 /\ m.type \in Requests \cup Unblocks => m.peer \in Procs
    /\ m.dest \in Procs /\ m.type \in {"GETX", "UPGRADE", "GETS", "GET_INSTR"} =>
         m.peer \in Procs

(* The L1 controllers: types, tags, and TBEs with a state.                 *)
L1Sound(c) ==
    /\ c \in L1Controller
    /\ c.icache \cap c.dcache = {}
    /\ Cardinality(c.icache) <= L1_WAYS
    /\ Cardinality(c.dcache) <= L1_WAYS
    /\ \A a \in Addrs : c.tbe[a] # NoL1TBE => c.tbe[a].state # "none"

(* The L2: the same, and whom it forwards a request and sends its data to. *)
L2Sound(c) ==
    /\ c \in L2Controller
    /\ Cardinality(c.tags) <= L2_WAYS
    /\ \A a \in Addrs :
         /\ c.tbe[a] # NoL2TBE => c.tbe[a].state # "none"
         /\ L2State(c, a) = "MT" => c.entry[a].exclusive \in Procs
         /\ L2State(c, a) = "IM" => c.tbe[a].getX \in Procs

(* Everything in the state is of its kind.                                 *)
Sounds ==
    /\ \A p \in Procs : L1Sound(l1[p])
    /\ l1 \in [Procs -> L1Controller]
    /\ L2Sound(l2)
    /\ directory \in [Addrs -> Blocks]
    /\ DOMAIN m_input_queue \subseteq MemoryMsgs
    /\ DOMAIN m_response_queue \subseteq MemoryMsgs
    /\ \A m \in DOMAIN net : Sound(m)
    /\ outstanding \in [Procs -> SUBSET (Addrs \X Ops)]
    /\ workload \subseteq Procs \X Addrs \X Ops

(* The requests of a processor for a line: one at a time, in one place.    *)
Reads(a) == {<<a, "LD">>, <<a, "IFETCH">>}
Writes(a) == {<<a, "ST">>}

(* The line is in a state that waits for a read, or for a write, exactly   *)
(* when such a request has left the mandatory queue.                       *)
Waiting(c, asked, a) ==
    /\ L1State(c, a) \in {"IS", "IS_I"} <=>
         Reads(a) \cap asked # {} /\ Reads(a) \cap c.mandatory = {}
    /\ L1State(c, a) \in {"IM", "SM"} <=>
         Writes(a) \cap asked # {} /\ Writes(a) \cap c.mandatory = {}

Placed(c, asked) ==
    /\ c.mandatory \subseteq asked
    /\ \A r, s \in asked : r[1] = s[1] => r = s
    /\ \A a \in Addrs : Waiting(c, asked, a)

(* So it is at every processor.                                            *)
RequestsPlaced == \A p \in Procs : Placed(l1[p], outstanding[p])

(* The memory requests of a line and their answers.                        *)
ToMemory(m) == m.dest = Dir \/ m.peer = Dir

OnNet(bag, a) == {m \in DOMAIN bag : m.addr = a /\ ToMemory(m)}
Queued(bag, a) == {op \in DOMAIN bag : op.addr = a}

(* The L2 waits for memory.                                                *)
Busy(c, a) == L2State(c, a) \in Fetching \cup {"M_I"}

One(S, bag) == \E x : S = {x} /\ bag[x] = 1

(* A line has one request or answer in the three places while the L2 waits *)
(* for memory, and none otherwise.                                         *)
OneOp(a) ==
    LET n == OnNet(net, a)
        i == Queued(m_input_queue, a)
        o == Queued(m_response_queue, a)
    IN  IF Busy(l2, a)
        THEN \/ One(n, net) /\ i = {} /\ o = {}
             \/ n = {} /\ One(i, m_input_queue) /\ o = {}
             \/ n = {} /\ i = {} /\ One(o, m_response_queue)
        ELSE n = {} /\ i = {} /\ o = {}

(* Nothing is in a bag less than once.                                     *)
Bagged == IsABag(net) /\ IsABag(m_input_queue) /\ IsABag(m_response_queue)

OpsCounted == Bagged /\ \A a \in Addrs : OneOp(a)

(* The inductive invariant.                                                *)
CoherenceInv == Sounds /\ RequestsPlaced /\ OpsCounted

-----------------------------------------------------------------------------
(* Lists of actions.                                                       *)

(* Induction up to n, for a set.                                           *)
LEMMA UpTo ==
    ASSUME NEW n \in Nat, NEW S, 0 \in S, \A k \in 0 .. n - 1 : k \in S => k + 1 \in S
    PROVE  \A k \in 0 .. n : k \in S
<1> DEFINE bad == (0 .. n) \ S
<1>1. SUFFICES ASSUME bad # {} PROVE FALSE
  OBVIOUS
<1>2. PICK x \in bad : \A y \in bad : ~(y < x)
  <2>1. IsWellFoundedOn(OpToRel(<, Nat), Nat)
    BY NatLessThanWellFounded
  <2>2. bad \in SUBSET Nat
    OBVIOUS
  <2> HIDE DEF bad
  <2>3. PICK x \in bad : \A y \in bad : ~(<<y, x>> \in OpToRel(<, Nat))
    BY <1>1, <2>1, <2>2, WFMin
  <2> QED BY <2>2, <2>3 DEF OpToRel
<1>3. x \in 0 .. n /\ x \notin S /\ x # 0
  OBVIOUS
<1>4. x - 1 \in 0 .. n - 1 /\ x - 1 < x /\ (x - 1) + 1 = x
  BY <1>3
<1>5. x - 1 \notin bad
  BY <1>2, <1>4
<1> QED BY <1>3, <1>4, <1>5

(* An action is among the first k of a row.                                *)
Early(acts, k, x) == \E i \in 1 .. k : acts[i] = x

(* One action more.                                                        *)
LEMMA EarlyStep ==
    ASSUME NEW acts, NEW k \in Nat, NEW x
    PROVE  /\ ~Early(acts, 0, x)
           /\ Early(acts, k + 1, x) <=> Early(acts, k, x) \/ acts[k + 1] = x
BY DEF Early

(* A transition of the L1 runs the actions of its row one after the other. *)
L1Runs(run, c, p, a, m, acts) ==
    /\ run[0] = L1Run(c)
    /\ \A k \in 1 .. Len(acts) : run[k] = L1Act(p, a, m, run[k - 1], acts[k])

(* The run of a row is the recursive function of L1Do.                     *)
LEMMA L1Chain ==
    ASSUME NEW c, NEW p, NEW a, NEW m, NEW ev, NEW row, row = L1Transition(L1State(c, a), ev),
           Len(row.acts) \in Nat
    PROVE  \E run : /\ L1Runs(run, c, p, a, m, row.acts)
                    /\ L1Do(c, p, a, m, ev) =
                         [run[Len(row.acts)] EXCEPT
                            !.c = L1SetState(run[Len(row.acts)].c, a, row.next)]
<1> DEFINE acts == row.acts
           Next1(g, k) == IF k = 0 THEN L1Run(c) ELSE L1Act(p, a, m, g[k - 1], acts[k])
           Is(g, n) == g = [k \in 0 .. n |-> Next1(g, k)]
           S == {n \in Nat : \E g : Is(g, n)}
<1>1. 0 \in S
  <2> DEFINE g == [k \in 0 .. 0 |-> L1Run(c)]
  <2>1. g = [k \in 0 .. 0 |-> Next1(g, k)]
    OBVIOUS
  <2> QED BY <2>1
<1>2. ASSUME NEW n \in Nat, n \in S PROVE n + 1 \in S
  <2>1. PICK g : g = [k \in 0 .. n |-> Next1(g, k)]
    BY <1>2
  <2> DEFINE h == [k \in 0 .. n + 1 |-> IF k = n + 1 THEN L1Act(p, a, m, g[n], acts[n + 1])
                                        ELSE g[k]]
  <2>2. ASSUME NEW k \in 0 .. n + 1 PROVE h[k] = Next1(h, k)
    <3>1. CASE k = n + 1
      <4>1. h[k] = L1Act(p, a, m, g[n], acts[n + 1]) /\ h[k - 1] = g[n] /\ k # 0
        BY <3>1
      <4> QED BY <3>1, <4>1
    <3>2. CASE k # n + 1
      <4>1. k \in 0 .. n /\ h[k] = g[k]
        BY <3>2
      <4>2. g[k] = Next1(g, k)
        BY <2>1, <4>1
      <4>3. k # 0 => h[k - 1] = g[k - 1]
        BY <4>1
      <4> QED BY <4>1, <4>2, <4>3
    <3> QED BY <3>1, <3>2
  <2>3. h = [k \in 0 .. n + 1 |-> Next1(h, k)]
    <3>1. h = [k \in 0 .. n + 1 |-> h[k]]
      OBVIOUS
    <3> HIDE DEF h, Next1
    <3> QED BY <2>2, <3>1
  <2> HIDE DEF h
  <2> QED BY <2>3
<1>3. \E g : Is(g, Len(acts))
  <2>1. \A k \in 0 .. Len(acts) - 1 : k \in S => k + 1 \in S
    BY <1>2
  <2>2. Len(acts) \in Nat /\ Len(acts) \in 0 .. Len(acts)
    OBVIOUS
  <2> HIDE DEF S, acts
  <2>3. \A k \in 0 .. Len(acts) : k \in S
    BY <1>1, <2>1, <2>2, UpTo
  <2> QED BY <2>2, <2>3 DEF S
<1> DEFINE run == CHOOSE g : Is(g, Len(acts))
<1>4. Is(run, Len(acts))
  BY <1>3
<1>5. L1Do(c, p, a, m, ev) = [run[Len(acts)] EXCEPT !.c = L1SetState(run[Len(acts)].c, a, row.next)]
  BY DEF L1Do
<1> HIDE DEF run
<1>6. run[0] = L1Run(c)
  BY <1>4
<1>7. ASSUME NEW k \in 1 .. Len(acts) PROVE run[k] = L1Act(p, a, m, run[k - 1], acts[k])
  BY <1>4
<1> QED BY <1>5, <1>6, <1>7 DEF L1Runs

-----------------------------------------------------------------------------
(* What an action of the L1 does.                                          *)

L1Sends ==
    {"a_issueGETS", "ai_issueGETINSTR", "b_issueGETX", "c_issueUPGRADE", "g_issuePUTX",
     "d_sendDataToRequestor", "d2_sendDataToL2", "f_sendDataToL2",
     "dt_sendDataToRequestor_fromTBE", "d2t_sendDataToL2_fromTBE", "ft_sendDataToL2_fromTBE",
     "fi_sendInvAck", "j_sendUnblock", "jj_sendExclusiveUnblock"}

L1Acts ==
    L1Sends \cup
    {"h_load_hit", "hh_store_hit", "i_allocateTBE", "s_deallocateTBE", "u_writeDataToL1Cache",
     "q_updateAckCount", "ff_deallocateL1CacheBlock", "oo_allocateL1DCacheBlock",
     "pp_allocateL1ICacheBlock", "k_popMandatoryQueue", "l_popRequestQueue",
     "o_popIncomingResponseQueue"}

(* What the L1 of p sends about line a.                                    *)
L1Out(p, a) == {x \in Message : Sound(x) /\ x.addr = a /\ x.peer = p /\ x.dest # Dir}

L1RunT(p, a) ==
    [c : L1Controller, out : SUBSET L1Out(p, a), callback : {"none", "read", "write"},
     pop : BOOLEAN]

(* What an action needs of the message that caused it.                     *)
L1Fits(m, act) ==
    /\ act \in {"d_sendDataToRequestor", "dt_sendDataToRequestor_fromTBE"} => m.peer \in Procs
    /\ act = "fi_sendInvAck" => m.peer \in Procs \cup {L2}
    /\ act = "u_writeDataToL1Cache" => m.data \in Blocks /\ m.dirty \in BOOLEAN
    /\ act = "q_updateAckCount" => m.acks \in Int

(* An action changes nothing but line a, and of its tags, TBE and request  *)
(* only what it is named for.                                              *)
L1Does(r, t, a, m, act) ==
    /\ \A b \in Addrs \ {a} : /\ t.c.tbe[b] = r.c.tbe[b] /\ t.c.entry[b] = r.c.entry[b]
                              /\ b \in t.c.dcache <=> b \in r.c.dcache
                              /\ b \in t.c.icache <=> b \in r.c.icache
    /\ act # "oo_allocateL1DCacheBlock" => t.c.dcache \subseteq r.c.dcache
    /\ act # "pp_allocateL1ICacheBlock" => t.c.icache \subseteq r.c.icache
    /\ act # "ff_deallocateL1CacheBlock" =>
         r.c.dcache \subseteq t.c.dcache /\ r.c.icache \subseteq t.c.icache
    /\ t.c.mandatory = IF act = "k_popMandatoryQueue" THEN r.c.mandatory \ {m}
                       ELSE r.c.mandatory
    /\ t.callback = IF act = "h_load_hit" THEN "read"
                    ELSE IF act = "hh_store_hit" THEN "write" ELSE r.callback
    /\ t.c.tbe[a].state = IF act = "i_allocateTBE" THEN "I"
                          ELSE IF act = "s_deallocateTBE" THEN "none" ELSE r.c.tbe[a].state

(* A message of the L1, with or without data, is one of those.             *)
LEMMA L1Messages ==
    ASSUME NEW p \in Procs, NEW a \in Addrs
    PROVE  /\ \A type \in {"GETS", "GET_INSTR", "GETX", "UPGRADE", "PUTX"} :
                RequestMsg(type, a, p, L2) \in L1Out(p, a)
           /\ \A dest \in Procs \cup {L2}, acks \in Int, type \in {"ACK", "DATA"} :
                ResponseMsg(type, a, p, dest, acks) \in L1Out(p, a)
           /\ \A type \in Unblocks, acks \in Int : ResponseMsg(type, a, p, L2, acks) \in L1Out(p, a)
           /\ \A x \in L1Out(p, a) : \A block : block.data \in Blocks /\ block.dirty \in BOOLEAN =>
                WithData(x, block) \in L1Out(p, a)
<1>1. L2 # Dir /\ p # L2 /\ p # Dir
  BY CoherenceAssumption DEF L2, Dir
<1>2. "unset" \in Blocks /\ FALSE \in BOOLEAN /\ 0 \in Int
  BY DEF Blocks
<1>3. ASSUME NEW type \in {"GETS", "GET_INSTR", "GETX", "UPGRADE", "PUTX"}
      PROVE  RequestMsg(type, a, p, L2) \in L1Out(p, a)
  <2> DEFINE x == RequestMsg(type, a, p, L2)
  <2>1. /\ x \in Message /\ x.dest = L2 /\ x.peer = p /\ x.addr = a /\ x.type = type
    BY <1>2 DEF RequestMsg, Message, Requests
  <2> HIDE DEF x
  <2>2. Sound(x)
    BY <1>1, <2>1, CoherenceAssumption DEF Sound
  <2> QED BY <1>1, <2>1, <2>2 DEF L1Out, x
<1>4. ASSUME NEW dest \in Procs \cup {L2}, NEW acks \in Int, NEW type \in {"ACK", "DATA"}
      PROVE  ResponseMsg(type, a, p, dest, acks) \in L1Out(p, a)
  <2> DEFINE x == ResponseMsg(type, a, p, dest, acks)
  <2>1. /\ x \in Message /\ x.dest = dest /\ x.peer = p /\ x.addr = a /\ x.type = type
    BY <1>2 DEF ResponseMsg, Message, Responses
  <2> HIDE DEF x
  <2>2. dest # Dir /\ type \notin Requests /\ type \notin Unblocks
    BY CoherenceAssumption DEF L2, Dir, Requests, Unblocks
  <2>3. Sound(x)
    BY <1>1, <2>1, <2>2, CoherenceAssumption DEF Sound, Requests
  <2> QED BY <2>1, <2>2, <2>3 DEF L1Out, x
<1>5. ASSUME NEW type \in Unblocks, NEW acks \in Int
      PROVE  ResponseMsg(type, a, p, L2, acks) \in L1Out(p, a)
  <2> DEFINE x == ResponseMsg(type, a, p, L2, acks)
  <2>1. /\ x \in Message /\ x.dest = L2 /\ x.peer = p /\ x.addr = a /\ x.type = type
    BY <1>2 DEF ResponseMsg, Message
  <2> HIDE DEF x
  <2>2. Sound(x)
    BY <1>1, <2>1, CoherenceAssumption DEF Sound
  <2> QED BY <1>1, <2>1, <2>2 DEF L1Out, x
<1>6. ASSUME NEW x \in L1Out(p, a), NEW block, block.data \in Blocks, block.dirty \in BOOLEAN
      PROVE  WithData(x, block) \in L1Out(p, a)
  <2> DEFINE y == WithData(x, block)
  <2>1. /\ y \in Message /\ y.dest = x.dest /\ y.peer = x.peer /\ y.addr = x.addr
        /\ y.type = x.type
    BY <1>6 DEF WithData, L1Out, Message
  <2> HIDE DEF y
  <2>2. Sound(y)
    BY <2>1 DEF Sound, L1Out
  <2> QED BY <2>1, <2>2 DEF L1Out, y
<1> QED BY <1>3, <1>4, <1>5, <1>6

(* What a sending action sends.                                            *)
LEMMA L1SendDoes ==
    ASSUME NEW p \in Procs, NEW a \in Addrs, NEW m, NEW r \in L1RunT(p, a),
           NEW act \in L1Sends, L1Fits(m, act)
    PROVE  \E x \in L1Out(p, a) : L1Act(p, a, m, r, act) = L1Send(r, x)
<1>1. /\ r.c.entry[a].data \in Blocks /\ r.c.entry[a].dirty \in BOOLEAN
      /\ r.c.tbe[a].data \in Blocks /\ r.c.tbe[a].dirty \in BOOLEAN
  BY DEF L1RunT, L1Controller, L1Entry, L1TBE
<1>2. CASE act = "a_issueGETS"
  BY <1>2, L1Messages DEF L1Act
<1>3. CASE act = "ai_issueGETINSTR"
  BY <1>3, L1Messages DEF L1Act
<1>4. CASE act = "b_issueGETX"
  BY <1>4, L1Messages DEF L1Act
<1>5. CASE act = "c_issueUPGRADE"
  BY <1>5, L1Messages DEF L1Act
<1>6. CASE act = "g_issuePUTX"
  BY <1>1, <1>6, L1Messages DEF L1Act
<1>7. CASE act = "d_sendDataToRequestor"
  <2>1. m.peer \in Procs \cup {L2} /\ 0 \in Int
    BY <1>7 DEF L1Fits
  <2>2. WithData(ResponseMsg("DATA", a, p, m.peer, 0), r.c.entry[a]) \in L1Out(p, a)
    BY <1>1, <2>1, L1Messages
  <2> QED BY <1>7, <2>2 DEF L1Act
<1>8. CASE act \in {"d2_sendDataToL2", "f_sendDataToL2"}
  <2>1. ResponseMsg("DATA", a, p, L2, 0) \in L1Out(p, a)
    BY L1Messages
  <2>2. WithData(ResponseMsg("DATA", a, p, L2, 0), r.c.entry[a]) \in L1Out(p, a)
    BY <1>1, <2>1, L1Messages
  <2> QED BY <1>8, <2>2 DEF L1Act
<1>9. CASE act = "dt_sendDataToRequestor_fromTBE"
  <2>1. m.peer \in Procs \cup {L2} /\ 0 \in Int
    BY <1>9 DEF L1Fits
  <2>2. WithData(ResponseMsg("DATA", a, p, m.peer, 0), r.c.tbe[a]) \in L1Out(p, a)
    BY <1>1, <2>1, L1Messages
  <2> QED BY <1>9, <2>2 DEF L1Act
<1>10. CASE act \in {"d2t_sendDataToL2_fromTBE", "ft_sendDataToL2_fromTBE"}
  <2>1. ResponseMsg("DATA", a, p, L2, 0) \in L1Out(p, a)
    BY L1Messages
  <2>2. WithData(ResponseMsg("DATA", a, p, L2, 0), r.c.tbe[a]) \in L1Out(p, a)
    BY <1>1, <2>1, L1Messages
  <2> QED BY <1>10, <2>2 DEF L1Act
<1>11. CASE act = "fi_sendInvAck"
  <2>1. m.peer \in Procs \cup {L2} /\ 1 \in Int
    BY <1>11 DEF L1Fits
  <2>2. ResponseMsg("ACK", a, p, m.peer, 1) \in L1Out(p, a)
    BY <2>1, L1Messages
  <2> QED BY <1>11, <2>2 DEF L1Act
<1>12. CASE act = "j_sendUnblock"
  <2>1. ResponseMsg("UNBLOCK", a, p, L2, 0) \in L1Out(p, a)
    BY L1Messages DEF Unblocks
  <2> QED BY <1>12, <2>1 DEF L1Act
<1>13. CASE act = "jj_sendExclusiveUnblock"
  <2>1. ResponseMsg("EXCLUSIVE_UNBLOCK", a, p, L2, 0) \in L1Out(p, a)
    BY L1Messages DEF Unblocks
  <2> QED BY <1>13, <2>1 DEF L1Act
<1> QED BY <1>2, <1>3, <1>4, <1>5, <1>6, <1>7, <1>8, <1>9, <1>10, <1>11, <1>12, <1>13 DEF L1Sends

(* What an action of the L1 does.                                          *)
LEMMA L1ActionDoes ==
    ASSUME NEW p \in Procs, NEW a \in Addrs, NEW m, NEW r \in L1RunT(p, a),
           NEW act \in L1Acts, L1Fits(m, act)
    PROVE  /\ L1Act(p, a, m, r, act) \in L1RunT(p, a)
           /\ L1Does(r, L1Act(p, a, m, r, act), a, m, act)
<1> DEFINE t == L1Act(p, a, m, r, act)
<1>r. /\ r.c \in L1Controller /\ r.out \in SUBSET L1Out(p, a)
      /\ r.callback \in {"none", "read", "write"} /\ r.pop \in BOOLEAN
  BY DEF L1RunT
<1>e. /\ r.c.entry \in [Addrs -> L1Entry] /\ r.c.entry[a] \in L1Entry
      /\ r.c.tbe \in [Addrs -> L1TBE] /\ r.c.tbe[a] \in L1TBE
      /\ r.c.dcache \in SUBSET Addrs /\ r.c.icache \in SUBSET Addrs
      /\ r.c.mandatory \in SUBSET (Addrs \X Ops)
  BY <1>r DEF L1Controller
<1>1. CASE act \in L1Sends
  <2>1. PICK x \in L1Out(p, a) : t = L1Send(r, x)
    BY <1>1, L1SendDoes
  <2>2. t = [r EXCEPT !.out = r.out \cup {x}]
    BY <2>1 DEF L1Send
  <2>3. t \in L1RunT(p, a) /\ t.c = r.c /\ t.callback = r.callback
    BY <1>r, <2>2 DEF L1RunT
  <2> HIDE DEF t
  <2> QED BY <1>1, <2>3 DEF L1Does, L1Sends, t
<1>2. CASE act \in {"h_load_hit", "l_popRequestQueue", "o_popIncomingResponseQueue"}
  <2>1. t = IF act = "h_load_hit" THEN [r EXCEPT !.callback = "read"] ELSE [r EXCEPT !.pop = TRUE]
    BY <1>2 DEF L1Act
  <2>2. /\ t \in L1RunT(p, a) /\ t.c = r.c
        /\ t.callback = IF act = "h_load_hit" THEN "read" ELSE r.callback
    BY <1>r, <2>1 DEF L1RunT
  <2> HIDE DEF t
  <2> QED BY <1>2, <2>2 DEF L1Does, t
<1> DEFINE Changed(d, cb) == t = [r EXCEPT !.c = d, !.callback = cb]
<1>3. ASSUME NEW d \in L1Controller, NEW cb \in {"none", "read", "write"}, Changed(d, cb)
      PROVE  t \in L1RunT(p, a) /\ t.c = d /\ t.callback = cb
  BY <1>r, <1>3 DEF L1RunT
<1>4. CASE act \in {"hh_store_hit", "u_writeDataToL1Cache"}
  <2> DEFINE ent == IF act = "hh_store_hit" THEN [r.c.entry[a] EXCEPT !.dirty = TRUE]
                    ELSE [r.c.entry[a] EXCEPT !.data = m.data, !.dirty = m.dirty]
             cb == IF act = "hh_store_hit" THEN "write" ELSE r.callback
             en == [r.c.entry EXCEPT ![a] = ent]
             d == [r.c EXCEPT !.entry = en]
  <2>1. ent \in L1Entry
    BY <1>4, <1>e DEF L1Fits, L1Entry
  <2>2. en \in [Addrs -> L1Entry] /\ \A b \in Addrs \ {a} : en[b] = r.c.entry[b]
    BY <1>e, <2>1
  <2>3. Changed(d, cb)
    <3>1. CASE act = "hh_store_hit"
      BY <3>1, <1>r DEF L1Act, L1RunT, L1Controller
    <3>2. CASE act = "u_writeDataToL1Cache"
      <4>1. t = [r EXCEPT !.c.entry[a].data = m.data, !.c.entry[a].dirty = m.dirty]
        BY <3>2 DEF L1Act
      <4>2. t = [r EXCEPT !.c = [r.c EXCEPT !.entry = [r.c.entry EXCEPT ![a] =
                   [r.c.entry[a] EXCEPT !.data = m.data, !.dirty = m.dirty]]]]
        <5> DEFINE e1 == [r.c.entry[a] EXCEPT !.data = m.data]
                   n1 == [r.c.entry EXCEPT ![a] = e1]
                   c1 == [r.c EXCEPT !.entry = n1]
                   r1 == [r EXCEPT !.c = c1]
        <5>1. t = [r1 EXCEPT !.c = [r1.c EXCEPT !.entry = [r1.c.entry EXCEPT ![a] =
                     [r1.c.entry[a] EXCEPT !.dirty = m.dirty]]]]
          BY <4>1
        <5>2. r1.c = c1 /\ c1.entry = n1 /\ n1[a] = e1
          BY <1>r, <1>e DEF L1RunT, L1Controller
        <5>3. t = [r EXCEPT !.c = [c1 EXCEPT !.entry = [n1 EXCEPT ![a] = [e1 EXCEPT !.dirty = m.dirty]]]]
          <6> HIDE DEF c1, n1, e1
          <6> QED BY <5>1, <5>2, <1>r DEF L1RunT
        <5>4. [n1 EXCEPT ![a] = [e1 EXCEPT !.dirty = m.dirty]]
                = [r.c.entry EXCEPT ![a] = [e1 EXCEPT !.dirty = m.dirty]]
          <6> HIDE DEF e1
          <6> QED BY <1>e
        <5>5. \A n : [c1 EXCEPT !.entry = n] = [r.c EXCEPT !.entry = n]
          <6> HIDE DEF n1
          <6> QED BY <1>r DEF L1Controller
        <5>6. [e1 EXCEPT !.dirty = m.dirty] = [r.c.entry[a] EXCEPT !.data = m.data, !.dirty = m.dirty]
          OBVIOUS
        <5> HIDE DEF c1, n1, e1, r1
        <5> QED BY <5>3, <5>4, <5>5, <5>6
      <4> QED BY <3>2, <4>2, <1>r DEF L1RunT
    <3> QED BY <3>1, <3>2, <1>4
  <2> HIDE DEF ent, en
  <2>4. /\ d \in L1Controller /\ d.entry = en /\ d.tbe = r.c.tbe /\ d.dcache = r.c.dcache
        /\ d.icache = r.c.icache /\ d.mandatory = r.c.mandatory
    BY <1>r, <2>2 DEF L1Controller
  <2>5. cb \in {"none", "read", "write"} /\ (act = "hh_store_hit" => cb = "write")
        /\ (act # "hh_store_hit" => cb = r.callback)
    BY <1>r
  <2> HIDE DEF d, cb
  <2>6. t \in L1RunT(p, a) /\ t.c = d /\ t.callback = cb
    BY <1>3, <2>3, <2>4, <2>5
  <2> HIDE DEF t
  <2> QED BY <1>4, <2>2, <2>4, <2>5, <2>6 DEF L1Does, t
<1>5. CASE act \in {"i_allocateTBE", "s_deallocateTBE", "q_updateAckCount"}
  <2> DEFINE tb == IF act = "i_allocateTBE"
                   THEN [state |-> "I", data |-> r.c.entry[a].data,
                         dirty |-> r.c.entry[a].dirty, pendingAcks |-> 0]
                   ELSE IF act = "s_deallocateTBE" THEN NoL1TBE
                   ELSE [r.c.tbe[a] EXCEPT !.pendingAcks = r.c.tbe[a].pendingAcks - m.acks]
             en == [r.c.tbe EXCEPT ![a] = tb]
             d == [r.c EXCEPT !.tbe = en]
  <2>1. tb \in L1TBE
    <3>1. CASE act = "i_allocateTBE"
      BY <3>1, <1>e DEF L1Entry, L1TBE, L1States
    <3>2. CASE act = "s_deallocateTBE"
      BY <3>2 DEF L1TBE, NoL1TBE, Blocks
    <3>3. CASE act = "q_updateAckCount"
      BY <3>3, <1>e DEF L1TBE, L1Fits
    <3> QED BY <3>1, <3>2, <3>3, <1>5
  <2>2. /\ en \in [Addrs -> L1TBE] /\ en[a] = tb
        /\ \A b \in Addrs \ {a} : en[b] = r.c.tbe[b]
    BY <1>e, <2>1
  <2>3. tb.state = IF act = "i_allocateTBE" THEN "I"
                   ELSE IF act = "s_deallocateTBE" THEN "none" ELSE r.c.tbe[a].state
    BY <1>e, <1>5 DEF NoL1TBE, L1TBE
  <2>4. Changed(d, r.callback)
    <3>1. CASE act = "i_allocateTBE"
      BY <3>1, <1>r DEF L1Act, L1RunT, L1Controller
    <3>2. CASE act = "s_deallocateTBE"
      BY <3>2, <1>r DEF L1Act, L1RunT, L1Controller
    <3>3. CASE act = "q_updateAckCount"
      BY <3>3, <1>r DEF L1Act, L1RunT, L1Controller
    <3> QED BY <3>1, <3>2, <3>3, <1>5
  <2> HIDE DEF tb, en
  <2>5. /\ d \in L1Controller /\ d.entry = r.c.entry /\ d.tbe = en /\ d.dcache = r.c.dcache
        /\ d.icache = r.c.icache /\ d.mandatory = r.c.mandatory
    BY <1>r, <2>2 DEF L1Controller
  <2> HIDE DEF d
  <2>6. t \in L1RunT(p, a) /\ t.c = d /\ t.callback = r.callback
    BY <1>3, <1>r, <2>4, <2>5
  <2> HIDE DEF t
  <2> QED BY <1>5, <2>2, <2>3, <2>5, <2>6 DEF L1Does, t
<1>6. CASE act \in {"ff_deallocateL1CacheBlock", "oo_allocateL1DCacheBlock",
                    "pp_allocateL1ICacheBlock"}
  <2> DEFINE en == IF act = "ff_deallocateL1CacheBlock"
                   THEN [r.c.entry EXCEPT ![a] = NewL1Entry] ELSE r.c.entry
             dc == IF act = "ff_deallocateL1CacheBlock" /\ a \in r.c.dcache THEN r.c.dcache \ {a}
                   ELSE IF act = "oo_allocateL1DCacheBlock" THEN r.c.dcache \cup {a}
                   ELSE r.c.dcache
             ic == IF act = "ff_deallocateL1CacheBlock" /\ a \notin r.c.dcache
                   THEN r.c.icache \ {a}
                   ELSE IF act = "pp_allocateL1ICacheBlock" THEN r.c.icache \cup {a}
                   ELSE r.c.icache
             d == [r.c EXCEPT !.entry = en, !.dcache = dc, !.icache = ic]
  <2>1. NewL1Entry \in L1Entry
    BY DEF NewL1Entry, L1Entry, L1States, Blocks
  <2>2. en \in [Addrs -> L1Entry] /\ \A b \in Addrs \ {a} : en[b] = r.c.entry[b]
    BY <1>e, <2>1
  <2>3. /\ dc \in SUBSET Addrs /\ ic \in SUBSET Addrs
        /\ \A b \in Addrs \ {a} : (b \in dc <=> b \in r.c.dcache) /\ (b \in ic <=> b \in r.c.icache)
        /\ act # "oo_allocateL1DCacheBlock" => dc \subseteq r.c.dcache
        /\ act # "pp_allocateL1ICacheBlock" => ic \subseteq r.c.icache
        /\ act # "ff_deallocateL1CacheBlock" => r.c.dcache \subseteq dc /\ r.c.icache \subseteq ic
    BY <1>e
  <2>4. Changed(d, r.callback)
    <3>1. CASE act = "ff_deallocateL1CacheBlock" /\ a \in r.c.dcache
      <4>1. t = [r EXCEPT !.c.dcache = r.c.dcache \ {a}, !.c.entry[a] = NewL1Entry]
        BY <3>1 DEF L1Act
      <4>2. en = [r.c.entry EXCEPT ![a] = NewL1Entry] /\ dc = r.c.dcache \ {a} /\ ic = r.c.icache
        BY <3>1
      <4> HIDE DEF t, en, dc, ic
      <4> QED BY <4>1, <4>2, <1>r DEF L1RunT, L1Controller
    <3>2. CASE act = "oo_allocateL1DCacheBlock"
      <4>1. t = [r EXCEPT !.c.dcache = r.c.dcache \cup {a}]
        BY <3>2 DEF L1Act
      <4>2. en = r.c.entry /\ dc = r.c.dcache \cup {a} /\ ic = r.c.icache
        BY <3>2
      <4> HIDE DEF t, en, dc, ic
      <4> QED BY <4>1, <4>2, <1>r DEF L1RunT, L1Controller
    <3>3. CASE act = "pp_allocateL1ICacheBlock"
      <4>1. t = [r EXCEPT !.c.icache = r.c.icache \cup {a}]
        BY <3>3 DEF L1Act
      <4>2. en = r.c.entry /\ dc = r.c.dcache /\ ic = r.c.icache \cup {a}
        BY <3>3
      <4> HIDE DEF t, en, dc, ic
      <4> QED BY <4>1, <4>2, <1>r DEF L1RunT, L1Controller
    <3>4. CASE act = "ff_deallocateL1CacheBlock" /\ a \notin r.c.dcache
      <4>1. t = [r EXCEPT !.c.icache = r.c.icache \ {a}, !.c.entry[a] = NewL1Entry]
        BY <3>4 DEF L1Act
      <4>2. en = [r.c.entry EXCEPT ![a] = NewL1Entry] /\ dc = r.c.dcache /\ ic = r.c.icache \ {a}
        BY <3>4
      <4> HIDE DEF t, en, dc, ic
      <4> QED BY <4>1, <4>2, <1>r DEF L1RunT, L1Controller
    <3> QED BY <3>1, <3>2, <3>3, <3>4, <1>6
  <2> HIDE DEF en, dc, ic
  <2>5. /\ d \in L1Controller /\ d.entry = en /\ d.tbe = r.c.tbe /\ d.dcache = dc
        /\ d.icache = ic /\ d.mandatory = r.c.mandatory
    BY <1>r, <2>2, <2>3 DEF L1Controller
  <2> HIDE DEF d
  <2>6. t \in L1RunT(p, a) /\ t.c = d /\ t.callback = r.callback
    BY <1>3, <1>r, <2>4, <2>5
  <2> HIDE DEF t
  <2> QED BY <1>6, <2>2, <2>3, <2>5, <2>6 DEF L1Does, t
<1>7. CASE act = "k_popMandatoryQueue"
  <2> DEFINE ma == r.c.mandatory \ {m}
             d == [r.c EXCEPT !.mandatory = ma]
  <2>1. Changed(d, r.callback)
    BY <1>7, <1>r DEF L1Act, L1RunT, L1Controller
  <2>2. /\ d \in L1Controller /\ d.entry = r.c.entry /\ d.tbe = r.c.tbe /\ d.dcache = r.c.dcache
        /\ d.icache = r.c.icache /\ d.mandatory = ma
    BY <1>r, <1>e DEF L1Controller
  <2> HIDE DEF d
  <2>3. t \in L1RunT(p, a) /\ t.c = d /\ t.callback = r.callback
    BY <1>3, <1>r, <2>1, <2>2
  <2> HIDE DEF t
  <2> QED BY <1>7, <2>2, <2>3 DEF L1Does, t
<1> QED BY <1>1, <1>2, <1>4, <1>5, <1>6, <1>7 DEF L1Acts

(* What the first k actions of a row have done to controller c.            *)
L1Ran(c, t, a, m, acts, k) ==
    /\ \A b \in Addrs \ {a} : /\ t.c.tbe[b] = c.tbe[b] /\ t.c.entry[b] = c.entry[b]
                              /\ b \in t.c.dcache <=> b \in c.dcache
                              /\ b \in t.c.icache <=> b \in c.icache
    /\ ~Early(acts, k, "oo_allocateL1DCacheBlock") => t.c.dcache \subseteq c.dcache
    /\ ~Early(acts, k, "pp_allocateL1ICacheBlock") => t.c.icache \subseteq c.icache
    /\ ~Early(acts, k, "ff_deallocateL1CacheBlock") =>
         c.dcache \subseteq t.c.dcache /\ c.icache \subseteq t.c.icache
    /\ t.c.mandatory = IF Early(acts, k, "k_popMandatoryQueue") THEN c.mandatory \ {m}
                       ELSE c.mandatory
    /\ ~Early(acts, k, "hh_store_hit") =>
         t.callback = IF Early(acts, k, "h_load_hit") THEN "read" ELSE "none"
    /\ ~Early(acts, k, "h_load_hit") =>
         t.callback = IF Early(acts, k, "hh_store_hit") THEN "write" ELSE "none"
    /\ ~Early(acts, k, "s_deallocateTBE") =>
         t.c.tbe[a].state = IF Early(acts, k, "i_allocateTBE") THEN "I" ELSE c.tbe[a].state

(* What the actions of a whole row do to it.                               *)
LEMMA L1RowDoes ==
    ASSUME NEW p \in Procs, NEW a \in Addrs, NEW m, NEW c \in L1Controller, NEW acts, NEW run,
           Len(acts) \in Nat, L1Runs(run, c, p, a, m, acts),
           \A i \in 1 .. Len(acts) : acts[i] \in L1Acts /\ L1Fits(m, acts[i])
    PROVE  /\ run[Len(acts)] \in L1RunT(p, a)
           /\ L1Ran(c, run[Len(acts)], a, m, acts, Len(acts))
<1> DEFINE n == Len(acts)
           S == {k \in 0 .. n : run[k] \in L1RunT(p, a) /\ L1Ran(c, run[k], a, m, acts, k)}
<1>1. 0 \in S
  <2>1. run[0] = L1Run(c)
    BY DEF L1Runs
  <2>2. run[0] \in L1RunT(p, a)
    BY <2>1 DEF L1Run, L1RunT
  <2>3. run[0].c = c /\ run[0].callback = "none"
    BY <2>1 DEF L1Run
  <2>4. \A x : ~Early(acts, 0, x)
    BY EarlyStep
  <2>5. L1Ran(c, run[0], a, m, acts, 0)
    BY <2>3, <2>4 DEF L1Ran
  <2> QED BY <2>2, <2>5
<1>2. ASSUME NEW k \in 0 .. n - 1, k \in S PROVE k + 1 \in S
  <2> DEFINE r == run[k]
             t == run[k + 1]
             act == acts[k + 1]
  <2>1. k \in Nat /\ k + 1 \in 1 .. n /\ (k + 1) - 1 = k /\ k + 1 \in 0 .. n
    OBVIOUS
  <2>2. t = L1Act(p, a, m, r, act) /\ act \in L1Acts /\ L1Fits(m, act)
    BY <2>1 DEF L1Runs
  <2>3. r \in L1RunT(p, a) /\ L1Ran(c, r, a, m, acts, k)
    BY <1>2
  <2>4. \A x : Early(acts, k + 1, x) <=> Early(acts, k, x) \/ act = x
    BY <2>1, EarlyStep
  <2> HIDE DEF r, t, act, n
  <2>5. t \in L1RunT(p, a) /\ L1Does(r, t, a, m, act)
    BY <2>2, <2>3, L1ActionDoes
  <2>6. \A b \in Addrs \ {a} : /\ t.c.tbe[b] = c.tbe[b] /\ t.c.entry[b] = c.entry[b]
                               /\ b \in t.c.dcache <=> b \in c.dcache
                               /\ b \in t.c.icache <=> b \in c.icache
    BY <2>3, <2>5 DEF L1Ran, L1Does
  <2>7. /\ ~Early(acts, k + 1, "oo_allocateL1DCacheBlock") => t.c.dcache \subseteq c.dcache
        /\ ~Early(acts, k + 1, "pp_allocateL1ICacheBlock") => t.c.icache \subseteq c.icache
        /\ ~Early(acts, k + 1, "ff_deallocateL1CacheBlock") =>
             c.dcache \subseteq t.c.dcache /\ c.icache \subseteq t.c.icache
    BY <2>3, <2>4, <2>5 DEF L1Ran, L1Does
  <2>8. t.c.mandatory = IF Early(acts, k + 1, "k_popMandatoryQueue") THEN c.mandatory \ {m}
                        ELSE c.mandatory
    BY <2>3, <2>4, <2>5 DEF L1Ran, L1Does
  <2>9. /\ ~Early(acts, k + 1, "hh_store_hit") =>
             t.callback = IF Early(acts, k + 1, "h_load_hit") THEN "read" ELSE "none"
        /\ ~Early(acts, k + 1, "h_load_hit") =>
             t.callback = IF Early(acts, k + 1, "hh_store_hit") THEN "write" ELSE "none"
    BY <2>3, <2>4, <2>5 DEF L1Ran, L1Does
  <2>10. ~Early(acts, k + 1, "s_deallocateTBE") =>
           t.c.tbe[a].state = IF Early(acts, k + 1, "i_allocateTBE") THEN "I" ELSE c.tbe[a].state
    BY <2>3, <2>4, <2>5 DEF L1Ran, L1Does
  <2>11. L1Ran(c, t, a, m, acts, k + 1)
    BY <2>6, <2>7, <2>8, <2>9, <2>10 DEF L1Ran
  <2> QED BY <2>1, <2>5, <2>11 DEF t, n
<1> HIDE DEF S
<1>3. n \in Nat /\ n \in 0 .. n
  OBVIOUS
<1> HIDE DEF n
<1>4. n \in S
  BY <1>1, <1>2, <1>3, UpTo
<1> QED BY <1>4 DEF S, n

-----------------------------------------------------------------------------
(* What the rows of the L1's table are made of.                            *)

(* The actions of a row.                                                   *)
Names(acts) == {acts[i] : i \in 1 .. Len(acts)}

(* The names in a row of at most seven actions.                           *)
LEMMA NamesOf ==
    /\ \A a1 : Names(<<a1>>) = {a1} /\ Len(<<a1>>) = 1
    /\ \A a1, a2 : Names(<<a1, a2>>) = {a1, a2} /\ Len(<<a1, a2>>) = 2
    /\ \A a1, a2, a3 : Names(<<a1, a2, a3>>) = {a1, a2, a3} /\ Len(<<a1, a2, a3>>) = 3
    /\ \A a1, a2, a3, a4 :
         Names(<<a1, a2, a3, a4>>) = {a1, a2, a3, a4} /\ Len(<<a1, a2, a3, a4>>) = 4
    /\ \A a1, a2, a3, a4, a5 :
         /\ Names(<<a1, a2, a3, a4, a5>>) = {a1, a2, a3, a4, a5}
         /\ Len(<<a1, a2, a3, a4, a5>>) = 5
    /\ \A a1, a2, a3, a4, a5, a6 :
         /\ Names(<<a1, a2, a3, a4, a5, a6>>) = {a1, a2, a3, a4, a5, a6}
         /\ Len(<<a1, a2, a3, a4, a5, a6>>) = 6
    /\ \A a1, a2, a3, a4, a5, a6, a7 :
         /\ Names(<<a1, a2, a3, a4, a5, a6, a7>>) = {a1, a2, a3, a4, a5, a6, a7}
         /\ Len(<<a1, a2, a3, a4, a5, a6, a7>>) = 7
<1>1. \A a1 : Names(<<a1>>) = {a1} /\ Len(<<a1>>) = 1
  BY DEF Names
<1>2. \A a1, a2 : Names(<<a1, a2>>) = {a1, a2} /\ Len(<<a1, a2>>) = 2
  BY DEF Names
<1>3. \A a1, a2, a3 : Names(<<a1, a2, a3>>) = {a1, a2, a3} /\ Len(<<a1, a2, a3>>) = 3
  BY DEF Names
<1>4. \A a1, a2, a3, a4 :
        Names(<<a1, a2, a3, a4>>) = {a1, a2, a3, a4} /\ Len(<<a1, a2, a3, a4>>) = 4
  BY DEF Names
<1>5. \A a1, a2, a3, a4, a5 :
        /\ Names(<<a1, a2, a3, a4, a5>>) = {a1, a2, a3, a4, a5}
        /\ Len(<<a1, a2, a3, a4, a5>>) = 5
  BY DEF Names
<1>6. \A a1, a2, a3, a4, a5, a6 :
        /\ Names(<<a1, a2, a3, a4, a5, a6>>) = {a1, a2, a3, a4, a5, a6}
        /\ Len(<<a1, a2, a3, a4, a5, a6>>) = 6
  BY DEF Names
<1>7. \A a1, a2, a3, a4, a5, a6, a7 :
        /\ Names(<<a1, a2, a3, a4, a5, a6, a7>>) = {a1, a2, a3, a4, a5, a6, a7}
        /\ Len(<<a1, a2, a3, a4, a5, a6, a7>>) = 7
  BY DEF Names
<1> QED BY <1>1, <1>2, <1>3, <1>4, <1>5, <1>6, <1>7

(* They are what is early in the whole row.                                *)
LEMMA NamesAre ==
    ASSUME NEW acts, NEW x
    PROVE  Early(acts, Len(acts), x) <=> x \in Names(acts)
BY DEF Early, Names

(* Whose callback a state waits for.                                       *)
Awaits(s) == IF s \in {"IS", "IS_I"} THEN "read" ELSE IF s \in {"IM", "SM"} THEN "write" ELSE "none"

(* The callback the actions A make.                                        *)
Calls(A) == IF "h_load_hit" \in A THEN "read" ELSE IF "hh_store_hit" \in A THEN "write" ELSE "none"

(* The requests of the processor, by the callback they wait for.           *)
Asks(ev) == IF ev \in {"Load", "Ifetch"} THEN "read" ELSE IF ev = "Store" THEN "write" ELSE "none"

(* Event ev takes a line from state s to state next with the actions A:    *)
(* the actions go with the event; a request of the processor is answered   *)
(* at once or waited for, in a state of a line that was not waiting; and   *)
(* any other event leaves the line waiting for the callback it waited for, *)
(* or makes it.                                                            *)
L1RowFits(s, ev, next, A) ==
    /\ next \in L1States
    /\ A \subseteq L1Acts
    /\ A \cap {"d_sendDataToRequestor", "dt_sendDataToRequestor_fromTBE"} # {} =>
         ev \in {"Fwd_GETX", "Fwd_GETS", "Fwd_GET_INSTR"}
    /\ "fi_sendInvAck" \in A => ev = "Inv"
    /\ "u_writeDataToL1Cache" \in A => ev \in {"Data", "Data_all_Acks", "DataS_fromL1", "Data_Exclusive"}
    /\ "q_updateAckCount" \in A => ev \in {"Data", "Ack"}
    /\ "oo_allocateL1DCacheBlock" \in A => ev \in {"Load", "Store"}
    /\ "pp_allocateL1ICacheBlock" \in A => ev = "Ifetch"
    /\ "k_popMandatoryQueue" \in A <=> Asks(ev) # "none"
    /\ ~({"h_load_hit", "hh_store_hit"} \subseteq A)
    /\ Asks(ev) # "none" =>
         /\ Awaits(s) = "none"
         /\ \/ Calls(A) = Asks(ev) /\ Awaits(next) = "none"
            \/ Calls(A) = "none" /\ Awaits(next) = Asks(ev) /\ "i_allocateTBE" \in A
    /\ Asks(ev) = "none" =>
         \/ Calls(A) = "none" /\ Awaits(next) = Awaits(s)
         \/ Calls(A) # "none" /\ Calls(A) = Awaits(s) /\ Awaits(next) = "none"
    /\ Awaits(next) # "none" => A \cap {"s_deallocateTBE", "ff_deallocateL1CacheBlock"} = {}

L1RowOK(s, ev, row) ==
    Takes(row) => Len(row.acts) \in Nat /\ L1RowFits(s, ev, row.next, Names(row.acts))

(* Every row of the L1's table fits.                                       *)
LEMMA L1Rows ==
    ASSUME NEW s \in L1States, NEW ev
    PROVE  L1RowOK(s, ev, L1Transition(s, ev))
<1>0. ASSUME NEW row, ~Takes(row) PROVE L1RowOK(s, ev, row)
  BY <1>0 DEF L1RowOK
<1>1. ASSUME NEW next, NEW acts, Len(acts) \in Nat, L1RowFits(s, ev, next, Names(acts))
      PROVE  L1RowOK(s, ev, Row(next, acts))
  BY <1>1 DEF L1RowOK, Row
<1>2. CASE L1Recycles(s, ev)
  BY <1>0, <1>2 DEF L1Transition, Takes
<1> DEFINE row == L1Table(s, ev)
<1>3. SUFFICES ASSUME ~L1Recycles(s, ev) PROVE L1RowOK(s, ev, row)
  BY <1>2 DEF L1Transition
<1>4. L1RowOK(s, ev, Invalid)
  BY <1>0 DEF Takes
<1> USE DEF L1RowFits, L1States, L1Acts, L1Sends, Awaits, Calls, Asks
<1>5. CASE s \in {"NP", "I"}
  <2>1. row = L1FromIdle(s, ev)
    BY <1>5 DEF L1Table
  <2>2. CASE ev = "L1_Replacement"
    BY <1>1, <1>5, <2>1, <2>2, NamesOf DEF L1FromIdle
  <2>3. CASE ev = "Load"
    BY <1>1, <1>5, <2>1, <2>3, NamesOf DEF L1FromIdle
  <2>4. CASE ev = "Ifetch"
    BY <1>1, <1>5, <2>1, <2>4, NamesOf DEF L1FromIdle
  <2>5. CASE ev = "Store"
    BY <1>1, <1>5, <2>1, <2>5, NamesOf DEF L1FromIdle
  <2>6. CASE ev = "Inv"
    BY <1>1, <1>5, <2>1, <2>6, NamesOf DEF L1FromIdle
  <2> QED BY <1>4, <1>5, <2>1, <2>2, <2>3, <2>4, <2>5, <2>6 DEF L1FromIdle
<1>6. CASE s = "S"
  <2>1. row = L1FromS(ev)
    BY <1>6 DEF L1Table
  <2>2. CASE ev \in {"Load", "Ifetch"}
    BY <1>1, <1>6, <2>1, <2>2, NamesOf DEF L1FromS
  <2>3. CASE ev = "Store"
    BY <1>1, <1>6, <2>1, <2>3, NamesOf DEF L1FromS
  <2>4. CASE ev = "L1_Replacement"
    BY <1>1, <1>6, <2>1, <2>4, NamesOf DEF L1FromS
  <2>5. CASE ev = "Inv"
    BY <1>1, <1>6, <2>1, <2>5, NamesOf DEF L1FromS
  <2> QED BY <1>4, <1>6, <2>1, <2>2, <2>3, <2>4, <2>5 DEF L1FromS
<1>7. CASE s = "E"
  <2>1. row = L1FromE(ev)
    BY <1>7 DEF L1Table
  <2>2. CASE ev \in {"Load", "Ifetch"}
    BY <1>1, <1>7, <2>1, <2>2, NamesOf DEF L1FromE
  <2>3. CASE ev = "Store"
    BY <1>1, <1>7, <2>1, <2>3, NamesOf DEF L1FromE
  <2>4. CASE ev = "L1_Replacement"
    BY <1>1, <1>7, <2>1, <2>4, NamesOf DEF L1FromE
  <2>5. CASE ev = "Inv"
    BY <1>1, <1>7, <2>1, <2>5, NamesOf DEF L1FromE
  <2>6. CASE ev = "Fwd_GETX"
    BY <1>1, <1>7, <2>1, <2>6, NamesOf DEF L1FromE
  <2>7. CASE ev \in {"Fwd_GETS", "Fwd_GET_INSTR"}
    BY <1>1, <1>7, <2>1, <2>7, NamesOf DEF L1FromE
  <2> QED BY <1>4, <1>7, <2>1, <2>2, <2>3, <2>4, <2>5, <2>6, <2>7 DEF L1FromE
<1>8. CASE s = "M"
  <2>1. row = L1FromM(ev)
    BY <1>8 DEF L1Table
  <2>2. CASE ev \in {"Load", "Ifetch"}
    BY <1>1, <1>8, <2>1, <2>2, NamesOf DEF L1FromM
  <2>3. CASE ev = "Store"
    BY <1>1, <1>8, <2>1, <2>3, NamesOf DEF L1FromM
  <2>4. CASE ev = "L1_Replacement"
    BY <1>1, <1>8, <2>1, <2>4, NamesOf DEF L1FromM
  <2>5. CASE ev = "Inv"
    BY <1>1, <1>8, <2>1, <2>5, NamesOf DEF L1FromM
  <2>6. CASE ev = "Fwd_GETX"
    BY <1>1, <1>8, <2>1, <2>6, NamesOf DEF L1FromM
  <2>7. CASE ev \in {"Fwd_GETS", "Fwd_GET_INSTR"}
    BY <1>1, <1>8, <2>1, <2>7, NamesOf DEF L1FromM
  <2> QED BY <1>4, <1>8, <2>1, <2>2, <2>3, <2>4, <2>5, <2>6, <2>7 DEF L1FromM
<1>9. CASE s = "M_I"
  <2>1. row = L1FromM_I(ev)
    BY <1>9 DEF L1Table
  <2>2. CASE ev = "WB_Ack"
    BY <1>1, <1>9, <2>1, <2>2, NamesOf DEF L1FromM_I
  <2>3. CASE ev = "Inv"
    BY <1>1, <1>9, <2>1, <2>3, NamesOf DEF L1FromM_I
  <2>4. CASE ev = "Fwd_GETX"
    BY <1>1, <1>9, <2>1, <2>4, NamesOf DEF L1FromM_I
  <2>5. CASE ev \in {"Fwd_GETS", "Fwd_GET_INSTR"}
    BY <1>1, <1>9, <2>1, <2>5, NamesOf DEF L1FromM_I
  <2> QED BY <1>4, <1>9, <2>1, <2>2, <2>3, <2>4, <2>5 DEF L1FromM_I
<1>10. CASE s = "SINK_WB_ACK"
  <2>1. row = L1FromSINK_WB_ACK(ev)
    BY <1>10 DEF L1Table
  <2>2. CASE ev = "Inv"
    BY <1>1, <1>10, <2>1, <2>2, NamesOf DEF L1FromSINK_WB_ACK
  <2>3. CASE ev = "WB_Ack"
    BY <1>1, <1>10, <2>1, <2>3, NamesOf DEF L1FromSINK_WB_ACK
  <2> QED BY <1>4, <1>10, <2>1, <2>2, <2>3 DEF L1FromSINK_WB_ACK
<1>11. CASE s \in {"IS", "IS_I"}
  <2>1. row = L1FromIS(s, ev)
    BY <1>11 DEF L1Table
  <2>2. CASE ev = "Inv"
    BY <1>1, <1>11, <2>1, <2>2, NamesOf DEF L1FromIS
  <2>3. CASE ev = "Data_all_Acks"
    BY <1>1, <1>11, <2>1, <2>3, NamesOf DEF L1FromIS
  <2>4. CASE ev = "DataS_fromL1"
    BY <1>1, <1>11, <2>1, <2>4, NamesOf DEF L1FromIS
  <2>5. CASE ev = "Data_Exclusive"
    BY <1>1, <1>11, <2>1, <2>5, NamesOf DEF L1FromIS
  <2> QED BY <1>4, <1>11, <2>1, <2>2, <2>3, <2>4, <2>5 DEF L1FromIS
<1>12. CASE s = "IM"
  <2>1. row = L1FromIM(ev)
    BY <1>12 DEF L1Table
  <2>2. CASE ev = "Inv"
    BY <1>1, <1>12, <2>1, <2>2, NamesOf DEF L1FromIM
  <2>3. CASE ev = "Data"
    BY <1>1, <1>12, <2>1, <2>3, NamesOf DEF L1FromIM
  <2>4. CASE ev = "Data_all_Acks"
    BY <1>1, <1>12, <2>1, <2>4, NamesOf DEF L1FromIM
  <2>5. CASE ev = "Ack"
    BY <1>1, <1>12, <2>1, <2>5, NamesOf DEF L1FromIM
  <2> QED BY <1>4, <1>12, <2>1, <2>2, <2>3, <2>4, <2>5 DEF L1FromIM
<1>13. CASE s = "SM"
  <2>1. row = L1FromSM(ev)
    BY <1>13 DEF L1Table
  <2>2. CASE ev = "Inv"
    BY <1>1, <1>13, <2>1, <2>2, NamesOf DEF L1FromSM
  <2>3. CASE ev = "Ack"
    BY <1>1, <1>13, <2>1, <2>3, NamesOf DEF L1FromSM
  <2>4. CASE ev = "Ack_all"
    BY <1>1, <1>13, <2>1, <2>4, NamesOf DEF L1FromSM
  <2> QED BY <1>4, <1>13, <2>1, <2>2, <2>3, <2>4 DEF L1FromSM
<1>14. CASE s = "E_I"
  BY <1>4, <1>14 DEF L1Table
<1> QED BY <1>5, <1>6, <1>7, <1>8, <1>9, <1>10, <1>11, <1>12, <1>13, <1>14 DEF L1States

-----------------------------------------------------------------------------
(* What a transition of the L1 does.                                       *)

(* Entering a state: nothing but the state of the line changes.            *)
LEMMA L1Enters ==
    ASSUME NEW c \in L1Controller, NEW a \in Addrs, NEW s \in L1States
    PROVE  /\ L1SetState(c, a, s) \in L1Controller
           /\ \A b \in Addrs \ {a} : /\ L1SetState(c, a, s).tbe[b] = c.tbe[b]
                                     /\ L1SetState(c, a, s).entry[b] = c.entry[b]
           /\ L1SetState(c, a, s).dcache = c.dcache
           /\ L1SetState(c, a, s).icache = c.icache
           /\ L1SetState(c, a, s).mandatory = c.mandatory
           /\ c.tbe[a] = NoL1TBE => L1SetState(c, a, s).tbe[a] = NoL1TBE
           /\ c.tbe[a] # NoL1TBE => L1SetState(c, a, s).tbe[a].state = s
           /\ isL1CacheTagPresent(c, a) => L1SetState(c, a, s).entry[a].state = s
<1> DEFINE ts == IF c.tbe[a] # NoL1TBE THEN s ELSE c.tbe[a].state
           es == IF isL1CacheTagPresent(c, a) THEN s ELSE c.entry[a].state
           tb == [c.tbe[a] EXCEPT !.state = ts]
           en == [c.entry[a] EXCEPT !.state = es]
           T == [c.tbe EXCEPT ![a] = tb]
           N == [c.entry EXCEPT ![a] = en]
           d == [c EXCEPT !.tbe = T, !.entry = N]
<1>1. c.tbe \in [Addrs -> L1TBE] /\ c.entry \in [Addrs -> L1Entry]
  BY DEF L1Controller
<1>2. c.tbe[a] \in L1TBE /\ c.entry[a] \in L1Entry
  BY <1>1
<1>3. ts \in L1States \cup {"none"} /\ es \in L1States
  BY <1>2 DEF L1TBE, L1Entry
<1>4. /\ tb \in L1TBE /\ en \in L1Entry /\ tb.state = ts /\ en.state = es
      /\ c.tbe[a] = NoL1TBE => tb = NoL1TBE
  <2> HIDE DEF ts, es
  <2>1. tb \in L1TBE /\ en \in L1Entry /\ tb.state = ts /\ en.state = es
    BY <1>2, <1>3 DEF L1TBE, L1Entry
  <2>2. c.tbe[a] = NoL1TBE => ts = c.tbe[a].state
    BY DEF ts
  <2>3. ts = c.tbe[a].state => tb = c.tbe[a]
    BY <1>2 DEF L1TBE
  <2> QED BY <2>1, <2>2, <2>3
<1>5. /\ T \in [Addrs -> L1TBE] /\ N \in [Addrs -> L1Entry] /\ T[a] = tb /\ N[a] = en
      /\ \A b \in Addrs \ {a} : T[b] = c.tbe[b] /\ N[b] = c.entry[b]
  <2> HIDE DEF tb, en
  <2> QED BY <1>1, <1>4
<1>6. L1SetState(c, a, s) = d
  BY <1>1, <1>2 DEF L1SetState, L1Controller
<1>7. /\ d \in L1Controller /\ d.tbe = T /\ d.entry = N /\ d.dcache = c.dcache
      /\ d.icache = c.icache /\ d.mandatory = c.mandatory
  <2> HIDE DEF T, N
  <2> QED BY <1>5 DEF L1Controller
<1> HIDE DEF d, T, N, tb, en
<1> QED BY <1>4, <1>5, <1>6, <1>7

(* The state of a line is one of the table's.                              *)
LEMMA L1StateTyped ==
    ASSUME NEW c, L1Sound(c), NEW a \in Addrs
    PROVE  L1State(c, a) \in L1States
<1>1. c.tbe[a] \in L1TBE /\ c.entry[a] \in L1Entry
  BY DEF L1Sound, L1Controller
<1>2. c.tbe[a] # NoL1TBE => c.tbe[a].state # "none"
  BY DEF L1Sound
<1>3. c.tbe[a].state \in L1States \cup {"none"} /\ c.entry[a].state \in L1States
  BY <1>1 DEF L1TBE, L1Entry
<1>4. "NP" \in L1States
  BY DEF L1States
<1> QED BY <1>2, <1>3, <1>4 DEF L1State

(* The tags of an L1 after a transition.                                   *)
LEMMA TagsBounded ==
    ASSUME NEW T \in SUBSET Addrs, NEW U \in SUBSET Addrs, NEW a \in Addrs, NEW ways \in Nat,
           Cardinality(T) <= ways, U \subseteq T \cup {a},
           U \subseteq T \/ cacheAvail(T, ways, a)
    PROVE  Cardinality(U) <= ways
<1>1. IsFiniteSet(T) /\ IsFiniteSet(T \cup {a})
  <2>1. IsFiniteSet(T) /\ T \cup {a} \subseteq Addrs
    BY CoherenceAssumption, FS_Subset
  <2> QED BY <2>1, CoherenceAssumption, FS_Subset
<1>2. CASE U \subseteq T
  <2>1. Cardinality(U) <= Cardinality(T) /\ IsFiniteSet(U)
    BY <1>1, <1>2, FS_Subset
  <2>2. Cardinality(U) \in Nat /\ Cardinality(T) \in Nat
    BY <1>1, <2>1, FS_CardinalityType
  <2> QED BY <2>1, <2>2
<1>3. CASE ~(U \subseteq T)
  <2>1. a \notin T /\ Cardinality(T) < ways
    BY <1>3 DEF cacheAvail
  <2>2. Cardinality(T \cup {a}) = Cardinality(T) + 1
    BY <1>1, <2>1, FS_AddElement
  <2>3. Cardinality(U) <= Cardinality(T \cup {a}) /\ IsFiniteSet(U)
    BY <1>1, FS_Subset
  <2>4. Cardinality(U) \in Nat /\ Cardinality(T) \in Nat
    BY <1>1, <2>3, FS_CardinalityType
  <2> QED BY <2>1, <2>2, <2>3, <2>4
<1> QED BY <1>2, <1>3

(* What the actions A need of the message and of the caches.               *)
L1Ready(c, a, m, A) ==
    /\ \A act \in A : L1Fits(m, act)
    /\ "oo_allocateL1DCacheBlock" \in A => cacheAvail(c.dcache, L1_WAYS, a) /\ a \notin c.icache
    /\ "pp_allocateL1ICacheBlock" \in A => cacheAvail(c.icache, L1_WAYS, a) /\ a \notin c.dcache

(* A transition keeps the controller sound, leaves the other lines alone,  *)
(* and waits for, or makes, the callback its row says.                     *)
L1Moves(c, r, p, a, m, ev, row) ==
    /\ L1Sound(r.c)
    /\ r.out \subseteq L1Out(p, a)
    /\ r.callback = Calls(Names(row.acts))
    /\ r.c.mandatory = IF Asks(ev) # "none" THEN c.mandatory \ {m} ELSE c.mandatory
    /\ \A b \in Addrs \ {a} : L1State(r.c, b) = L1State(c, b)
    /\ Awaits(L1State(r.c, a)) = Awaits(row.next)

(* The induction along the row, and the state that is entered.             *)
LEMMA L1DoDoes ==
    ASSUME NEW p \in Procs, NEW a \in Addrs, NEW m, NEW c, L1Sound(c), NEW ev, NEW row,
           row = L1Transition(L1State(c, a), ev), Takes(row), L1Ready(c, a, m, Names(row.acts))
    PROVE  L1Moves(c, L1Do(c, p, a, m, ev), p, a, m, ev, row)
<1> DEFINE s == L1State(c, a)
           acts == row.acts
           A == Names(acts)
           r == L1Do(c, p, a, m, ev)
<1>1. Len(acts) \in Nat /\ L1RowFits(s, ev, row.next, A)
  <2>1. L1RowOK(s, ev, row)
    BY L1StateTyped, L1Rows
  <2> QED BY <2>1 DEF L1RowOK
<1>2. PICK run : /\ L1Runs(run, c, p, a, m, acts)
                 /\ r = [run[Len(acts)] EXCEPT !.c = L1SetState(run[Len(acts)].c, a, row.next)]
  BY <1>1, L1Chain
<1> DEFINE t == run[Len(acts)]
<1>3. \A i \in 1 .. Len(acts) : acts[i] \in L1Acts /\ L1Fits(m, acts[i])
  <2>1. \A i \in 1 .. Len(acts) : acts[i] \in A
    BY DEF Names
  <2> QED BY <1>1, <2>1 DEF L1RowFits, L1Ready
<1>4. c \in L1Controller
  BY DEF L1Sound
<1>5. t \in L1RunT(p, a) /\ L1Ran(c, t, a, m, acts, Len(acts))
  BY <1>1, <1>2, <1>3, <1>4, L1RowDoes
<1>6. \A x : Early(acts, Len(acts), x) <=> x \in A
  BY NamesAre
<1>7. row.next \in L1States /\ t.c \in L1Controller
  BY <1>1, <1>5 DEF L1RowFits, L1RunT
<1> DEFINE d == L1SetState(t.c, a, row.next)
<1>8. r.c = d /\ r.out = t.out /\ r.callback = t.callback
  BY <1>2, <1>5 DEF L1RunT
<1>9. /\ d \in L1Controller
      /\ \A b \in Addrs \ {a} : d.tbe[b] = t.c.tbe[b] /\ d.entry[b] = t.c.entry[b]
      /\ d.dcache = t.c.dcache /\ d.icache = t.c.icache /\ d.mandatory = t.c.mandatory
      /\ t.c.tbe[a] = NoL1TBE => d.tbe[a] = NoL1TBE
      /\ t.c.tbe[a] # NoL1TBE => d.tbe[a].state = row.next
      /\ isL1CacheTagPresent(t.c, a) => d.entry[a].state = row.next
  <2> DEFINE u == t.c
             w == row.next
  <2>1. u \in L1Controller /\ w \in L1States
    BY <1>7
  <2> HIDE DEF u, w
  <2>2. L1SetState(u, a, w) = d
    BY DEF u, w
  <2>3. /\ L1SetState(u, a, w) \in L1Controller
        /\ \A b \in Addrs \ {a} : /\ L1SetState(u, a, w).tbe[b] = u.tbe[b]
                                  /\ L1SetState(u, a, w).entry[b] = u.entry[b]
        /\ L1SetState(u, a, w).dcache = u.dcache /\ L1SetState(u, a, w).icache = u.icache
        /\ L1SetState(u, a, w).mandatory = u.mandatory
        /\ u.tbe[a] = NoL1TBE => L1SetState(u, a, w).tbe[a] = NoL1TBE
        /\ u.tbe[a] # NoL1TBE => L1SetState(u, a, w).tbe[a].state = w
        /\ isL1CacheTagPresent(u, a) => L1SetState(u, a, w).entry[a].state = w
    BY <2>1, L1Enters
  <2> HIDE DEF d
  <2> QED BY <2>2, <2>3 DEF u, w
<1> HIDE DEF s, r, t, d
<1>10. \A b \in Addrs \ {a} : /\ d.tbe[b] = c.tbe[b] /\ d.entry[b] = c.entry[b]
                              /\ b \in d.dcache <=> b \in c.dcache
                              /\ b \in d.icache <=> b \in c.icache
  BY <1>5, <1>9 DEF L1Ran
<1>11. /\ "oo_allocateL1DCacheBlock" \notin A => d.dcache \subseteq c.dcache
       /\ "pp_allocateL1ICacheBlock" \notin A => d.icache \subseteq c.icache
       /\ "ff_deallocateL1CacheBlock" \notin A =>
            c.dcache \subseteq d.dcache /\ c.icache \subseteq d.icache
  BY <1>5, <1>6, <1>9 DEF L1Ran
<1>12. d.mandatory = IF Asks(ev) # "none" THEN c.mandatory \ {m} ELSE c.mandatory
  <2>1. "k_popMandatoryQueue" \in A <=> Asks(ev) # "none"
    BY <1>1 DEF L1RowFits
  <2>2. d.mandatory = IF "k_popMandatoryQueue" \in A THEN c.mandatory \ {m} ELSE c.mandatory
    BY <1>5, <1>6, <1>9 DEF L1Ran
  <2> QED BY <2>1, <2>2
<1>13. t.callback = Calls(A)
  <2>1. ~({"h_load_hit", "hh_store_hit"} \subseteq A)
    BY <1>1 DEF L1RowFits
  <2>2. /\ "hh_store_hit" \notin A => t.callback = IF "h_load_hit" \in A THEN "read" ELSE "none"
        /\ "h_load_hit" \notin A => t.callback = IF "hh_store_hit" \in A THEN "write" ELSE "none"
    BY <1>5, <1>6 DEF L1Ran
  <2> HIDE DEF A
  <2> QED BY <2>1, <2>2 DEF Calls
<1>14. L1Sound(d)
  <2>1. d.dcache \in SUBSET Addrs /\ d.icache \in SUBSET Addrs
    BY <1>9 DEF L1Controller
  <2>2. c.dcache \in SUBSET Addrs /\ c.icache \in SUBSET Addrs /\ L1_WAYS \in Nat
    BY <1>4, CoherenceAssumption DEF L1Controller
  <2>3. d.dcache \subseteq c.dcache \cup {a} /\ d.icache \subseteq c.icache \cup {a}
    BY <1>10, <2>1
  <2>4. Cardinality(d.dcache) <= L1_WAYS
    BY <1>11, <2>1, <2>2, <2>3, TagsBounded DEF L1Ready, L1Sound
  <2>5. Cardinality(d.icache) <= L1_WAYS
    BY <1>11, <2>1, <2>2, <2>3, TagsBounded DEF L1Ready, L1Sound
  <2>6. d.icache \cap d.dcache = {}
    <3>1. ~(a \in d.icache /\ a \in d.dcache)
      <4>1. ~("oo_allocateL1DCacheBlock" \in A /\ "pp_allocateL1ICacheBlock" \in A)
        BY <1>1 DEF L1RowFits
      <4>2. c.icache \cap c.dcache = {}
        BY DEF L1Sound
      <4> QED BY <1>11, <4>1, <4>2 DEF L1Ready
    <3>2. \A b \in Addrs \ {a} : ~(b \in d.icache /\ b \in d.dcache)
      BY <1>10 DEF L1Sound
    <3> QED BY <2>1, <3>1, <3>2
  <2>7. \A b \in Addrs : d.tbe[b] # NoL1TBE => d.tbe[b].state # "none"
    <3>1. \A b \in Addrs \ {a} : d.tbe[b] # NoL1TBE => d.tbe[b].state # "none"
      BY <1>10 DEF L1Sound
    <3>2. row.next # "none"
      BY <1>7 DEF L1States
    <3> QED BY <1>9, <3>1, <3>2
  <2> QED BY <1>9, <2>4, <2>5, <2>6, <2>7 DEF L1Sound
<1>15. \A b \in Addrs \ {a} : L1State(d, b) = L1State(c, b)
  BY <1>10 DEF L1State, isL1CacheTagPresent
<1>16. L1State(d, a) \in {row.next, "NP"}
  BY <1>9 DEF L1State, isL1CacheTagPresent
<1>17. ASSUME Awaits(row.next) # "none" PROVE L1State(d, a) = row.next
  <2>1. A \cap {"s_deallocateTBE", "ff_deallocateL1CacheBlock"} = {}
    BY <1>1, <1>17 DEF L1RowFits
  <2>2. t.c.tbe[a].state = IF "i_allocateTBE" \in A THEN "I" ELSE c.tbe[a].state
    BY <1>5, <1>6, <2>1 DEF L1Ran
  <2>3. t.c.tbe[a].state # "none" => L1State(d, a) = row.next
    <3>1. t.c.tbe[a].state # "none" => t.c.tbe[a] # NoL1TBE
      BY DEF NoL1TBE
    <3>2. row.next # "none" /\ NoL1TBE.state = "none"
      BY <1>7 DEF L1States, NoL1TBE
    <3> QED BY <1>9, <3>1, <3>2 DEF L1State
  <2>4. CASE "i_allocateTBE" \in A
    BY <2>2, <2>3, <2>4
  <2>5. CASE "i_allocateTBE" \notin A
    <3>1. Awaits(s) # "none"
      BY <1>1, <1>17, <2>5 DEF L1RowFits
    <3>2. c.tbe[a] # NoL1TBE \/ isL1CacheTagPresent(c, a)
      BY <3>1 DEF Awaits, s, L1State
    <3>3. CASE c.tbe[a] # NoL1TBE
      <4>1. c.tbe[a].state # "none"
        BY <3>3 DEF L1Sound
      <4> QED BY <2>2, <2>3, <2>5, <4>1
    <3>4. CASE isL1CacheTagPresent(c, a)
      <4>1. isL1CacheTagPresent(d, a) /\ isL1CacheTagPresent(t.c, a)
        BY <1>9, <1>11, <2>1, <3>4 DEF isL1CacheTagPresent
      <4>2. d.tbe[a] # NoL1TBE => d.tbe[a].state = row.next
        BY <1>9
      <4> QED BY <1>9, <4>1, <4>2 DEF L1State
    <3> QED BY <3>2, <3>3, <3>4
  <2> QED BY <2>4, <2>5
<1>18. Awaits(L1State(d, a)) = Awaits(row.next)
  <2>1. Awaits("NP") = "none"
    BY DEF Awaits
  <2> QED BY <1>16, <1>17, <2>1
<1>19. t.out \subseteq L1Out(p, a)
  BY <1>5 DEF L1RunT
<1> QED BY <1>8, <1>12, <1>13, <1>14, <1>15, <1>18, <1>19 DEF L1Moves, r

-----------------------------------------------------------------------------
(* The requests of a processor.                                            *)

(* The sequencer's table after a callback for line a.                      *)
After(asked, a, callback) ==
    CASE callback = "none" -> asked
      [] callback = "read" -> asked \ {<<a, "LD">>, <<a, "IFETCH">>}
      [] callback = "write" -> asked \ {<<a, "ST">>}

(* The request of the processor that event ev stands for.                  *)
Stands(m, a, ev) ==
    /\ Asks(ev) = "read" => m \in Reads(a)
    /\ Asks(ev) = "write" => m \in Writes(a)

(* The requests for a line in terms of what its state waits for.           *)
LEMMA WaitingIs ==
    ASSUME NEW c, NEW asked, NEW a
    PROVE  Waiting(c, asked, a) <=>
             /\ Awaits(L1State(c, a)) = "read" <=>
                  Reads(a) \cap asked # {} /\ Reads(a) \cap c.mandatory = {}
             /\ Awaits(L1State(c, a)) = "write" <=>
                  Writes(a) \cap asked # {} /\ Writes(a) \cap c.mandatory = {}
BY DEF Waiting, Awaits

(* A transition of the L1 keeps every request in its one place.            *)
LEMMA PlacedAfter ==
    ASSUME NEW p \in Procs, NEW a \in Addrs, NEW m, NEW c, L1Sound(c), NEW ev, NEW row,
           NEW asked \in SUBSET (Addrs \X Ops), Placed(c, asked), NEW r,
           L1RowFits(L1State(c, a), ev, row.next, Names(row.acts)),
           L1Moves(c, r, p, a, m, ev, row),
           Asks(ev) # "none" => m \in c.mandatory /\ Stands(m, a, ev)
    PROVE  Placed(r.c, After(asked, a, r.callback))
<1> DEFINE A == Names(row.acts)
           s == L1State(c, a)
           t == L1State(r.c, a)
           later == After(asked, a, r.callback)
           cb == r.callback
<1>1. /\ cb = Calls(A)
      /\ r.c.mandatory = IF Asks(ev) # "none" THEN c.mandatory \ {m} ELSE c.mandatory
      /\ \A b \in Addrs \ {a} : L1State(r.c, b) = L1State(c, b)
      /\ Awaits(t) = Awaits(row.next)
  BY DEF L1Moves
<1>2. /\ c.mandatory \subseteq asked
      /\ \A x, y \in asked : x[1] = y[1] => x = y
      /\ \A b \in Addrs : Waiting(c, asked, b)
  BY DEF Placed
<1>3. Calls(A) \in {"none", "read", "write"}
  BY DEF Calls
<1>4. \/ Asks(ev) # "none" /\ Awaits(s) = "none" /\ cb = Asks(ev) /\ Awaits(t) = "none"
      \/ Asks(ev) # "none" /\ Awaits(s) = "none" /\ cb = "none" /\ Awaits(t) = Asks(ev)
      \/ Asks(ev) = "none" /\ cb = "none" /\ Awaits(t) = Awaits(s)
      \/ Asks(ev) = "none" /\ cb # "none" /\ cb = Awaits(s) /\ Awaits(t) = "none"
  BY <1>1 DEF L1RowFits
<1>5. /\ Asks(ev) \in {"none", "read", "write"} /\ Awaits(s) \in {"none", "read", "write"}
      /\ cb \in {"none", "read", "write"}
  BY <1>1, <1>3 DEF Asks, Awaits
<1>6. /\ cb = "none" => later = asked
      /\ cb = "read" => later = asked \ Reads(a)
      /\ cb = "write" => later = asked \ Writes(a)
  BY DEF After, Reads, Writes
<1>7. \A b : /\ \A x \in Reads(b) : x[1] = b /\ x \notin Writes(b)
             /\ \A x \in Writes(b) : x[1] = b
  BY DEF Reads, Writes
<1>8. /\ Awaits(s) = "read" <=> Reads(a) \cap asked # {} /\ Reads(a) \cap c.mandatory = {}
      /\ Awaits(s) = "write" <=> Writes(a) \cap asked # {} /\ Writes(a) \cap c.mandatory = {}
  BY <1>2, WaitingIs
<1>9. /\ Asks(ev) = "read" => m \in Reads(a) /\ m \in c.mandatory /\ m \in asked
      /\ Asks(ev) = "write" => m \in Writes(a) /\ m \in c.mandatory /\ m \in asked
  BY <1>2 DEF Stands
<1> HIDE DEF A, s, t, later, cb
<1>10. r.c.mandatory \subseteq later
  BY <1>1, <1>2, <1>4, <1>5, <1>6, <1>7, <1>8, <1>9
<1>11. \A x, y \in later : x[1] = y[1] => x = y
  BY <1>2, <1>5, <1>6
<1>12. ASSUME NEW b \in Addrs \ {a} PROVE Waiting(r.c, later, b)
  <2>1. Reads(b) \cap later = Reads(b) \cap asked /\ Writes(b) \cap later = Writes(b) \cap asked
    BY <1>5, <1>6, <1>7
  <2>2. /\ Reads(b) \cap r.c.mandatory = Reads(b) \cap c.mandatory
        /\ Writes(b) \cap r.c.mandatory = Writes(b) \cap c.mandatory
    BY <1>1, <1>5, <1>7, <1>9
  <2>3. L1State(r.c, b) = L1State(c, b) /\ Waiting(c, asked, b)
    BY <1>1, <1>2
  <2> QED BY <2>1, <2>2, <2>3, WaitingIs
<1>13. Waiting(r.c, later, a)
  <2>1. CASE Asks(ev) # "none" /\ Awaits(s) = "none" /\ cb = Asks(ev) /\ Awaits(t) = "none"
    <3>1. /\ Reads(a) \cap later # {} => FALSE
          /\ Writes(a) \cap later # {} => FALSE
      BY <1>2, <1>5, <1>6, <1>7, <1>9, <2>1
    <3> QED BY <2>1, <3>1, WaitingIs DEF t
  <2>2. CASE Asks(ev) # "none" /\ Awaits(s) = "none" /\ cb = "none" /\ Awaits(t) = Asks(ev)
    <3>1. CASE Asks(ev) = "read"
      <4>1. /\ Reads(a) \cap later # {} /\ Reads(a) \cap r.c.mandatory = {}
            /\ Writes(a) \cap later = {}
        BY <1>1, <1>2, <1>6, <1>7, <1>9, <2>2, <3>1
      <4> QED BY <2>2, <3>1, <4>1, WaitingIs DEF t
    <3>2. CASE Asks(ev) = "write"
      <4>1. /\ Writes(a) \cap later # {} /\ Writes(a) \cap r.c.mandatory = {}
            /\ Reads(a) \cap later = {}
        BY <1>1, <1>2, <1>6, <1>7, <1>9, <2>2, <3>2
      <4> QED BY <2>2, <3>2, <4>1, WaitingIs DEF t
    <3> QED BY <1>5, <2>2, <3>1, <3>2
  <2>3. CASE Asks(ev) = "none" /\ cb = "none" /\ Awaits(t) = Awaits(s)
    <3>1. later = asked /\ r.c.mandatory = c.mandatory
      BY <1>1, <1>6, <2>3
    <3> QED BY <1>8, <2>3, <3>1, WaitingIs DEF t
  <2>4. CASE Asks(ev) = "none" /\ cb # "none" /\ cb = Awaits(s) /\ Awaits(t) = "none"
    <3>1. r.c.mandatory = c.mandatory
      BY <1>1, <2>4
    <3>2. CASE cb = "read"
      <4>1. Reads(a) \cap later = {} /\ Writes(a) \cap later = Writes(a) \cap asked
        BY <1>6, <1>7, <3>2
      <4> QED BY <1>8, <2>4, <3>1, <3>2, <4>1, WaitingIs DEF t
    <3>3. CASE cb = "write"
      <4>1. Writes(a) \cap later = {} /\ Reads(a) \cap later = Reads(a) \cap asked
        BY <1>6, <1>7, <3>3
      <4> QED BY <1>8, <2>4, <3>1, <3>3, <4>1, WaitingIs DEF t
    <3> QED BY <1>5, <2>4, <3>2, <3>3
  <2> QED BY <1>4, <2>1, <2>2, <2>3, <2>4
<1>14. \A b \in Addrs : Waiting(r.c, later, b)
  BY <1>12, <1>13
<1> QED BY <1>10, <1>11, <1>14 DEF Placed, later, cb

(* A controller that differs in data only.                                 *)
L1Alike(c, d) ==
    /\ d \in L1Controller
    /\ d.dcache = c.dcache /\ d.icache = c.icache /\ d.mandatory = c.mandatory
    /\ \A b \in Addrs : /\ d.tbe[b] = NoL1TBE <=> c.tbe[b] = NoL1TBE
                        /\ d.tbe[b].state = c.tbe[b].state
                        /\ d.entry[b].state = c.entry[b].state

(* Nothing the invariant says of an L1 depends on its data.                *)
LEMMA L1AlikeSame ==
    ASSUME NEW c, NEW d, L1Sound(c), L1Alike(c, d), NEW asked, Placed(c, asked)
    PROVE  L1Sound(d) /\ Placed(d, asked)
<1>1. L1Sound(d)
  BY DEF L1Sound, L1Alike
<1>2. \A b \in Addrs : L1State(d, b) = L1State(c, b)
  BY DEF L1Alike, L1State, isL1CacheTagPresent
<1>3. d.mandatory = c.mandatory
  BY DEF L1Alike
<1>4. Placed(d, asked)
  BY <1>2, <1>3 DEF Placed, Waiting
<1> QED BY <1>1, <1>4

(* A store elsewhere ages the blocks of an L1; its own block is fresh.     *)
LEMMA L1Aged ==
    ASSUME NEW c, L1Sound(c), NEW a \in Addrs
    PROVE  L1Alike(c, AgeL1(c, a)) /\ L1Alike(c, [c EXCEPT !.entry[a].data = "fresh"])
<1>1. c \in L1Controller /\ c.tbe \in [Addrs -> L1TBE] /\ c.entry \in [Addrs -> L1Entry]
  BY DEF L1Sound, L1Controller
<1>2. c.tbe[a] \in L1TBE /\ c.entry[a] \in L1Entry
  BY <1>1
<1>3. ASSUME NEW x \in Blocks PROVE Age(x) \in Blocks
  BY DEF Age, Blocks
<1>4. ASSUME NEW y \in Blocks
      PROVE  L1Alike(c, [c EXCEPT !.entry = [c.entry EXCEPT ![a] = [c.entry[a] EXCEPT !.data = y]]])
  <2> DEFINE e == [c.entry[a] EXCEPT !.data = y]
             N == [c.entry EXCEPT ![a] = e]
             d == [c EXCEPT !.entry = N]
  <2>1. e \in L1Entry /\ e.state = c.entry[a].state
    BY <1>2, <1>4 DEF L1Entry
  <2> HIDE DEF e
  <2>2. N \in [Addrs -> L1Entry] /\ \A b \in Addrs : N[b].state = c.entry[b].state
    BY <1>1, <2>1
  <2> HIDE DEF N
  <2>3. /\ d \in L1Controller /\ d.dcache = c.dcache /\ d.icache = c.icache
        /\ d.mandatory = c.mandatory /\ d.tbe = c.tbe /\ d.entry = N
    BY <1>1, <2>2 DEF L1Controller
  <2> HIDE DEF d
  <2>4. L1Alike(c, d)
    BY <2>2, <2>3 DEF L1Alike
  <2> QED BY <2>4 DEF d, N, e
<1>5. L1Alike(c, [c EXCEPT !.entry[a].data = "fresh"])
  <2>1. "fresh" \in Blocks
    BY DEF Blocks
  <2> QED BY <1>4, <2>1
<1>6. L1Alike(c, AgeL1(c, a))
  <2> DEFINE x == Age(c.tbe[a].data)
             y == Age(c.entry[a].data)
             e == [c.entry[a] EXCEPT !.data = y]
             f == [c.tbe[a] EXCEPT !.data = x]
             N == [c.entry EXCEPT ![a] = e]
             T == [c.tbe EXCEPT ![a] = f]
             d == [c EXCEPT !.entry = N, !.tbe = T]
  <2>1. AgeL1(c, a) = d
    BY <1>1, <1>2 DEF AgeL1, L1Controller
  <2>2. x \in Blocks /\ y \in Blocks
    BY <1>2, <1>3 DEF L1TBE, L1Entry
  <2>3. c.tbe[a] = NoL1TBE => x = c.tbe[a].data
    BY DEF NoL1TBE, Age
  <2> HIDE DEF x, y
  <2>4. e \in L1Entry /\ e.state = c.entry[a].state /\ f \in L1TBE /\ f.state = c.tbe[a].state
    BY <1>2, <2>2 DEF L1Entry, L1TBE
  <2>5. f = NoL1TBE <=> c.tbe[a] = NoL1TBE
    <3>1. c.tbe[a] = NoL1TBE => f = c.tbe[a]
      BY <1>2, <2>3 DEF L1TBE
    <3>2. c.tbe[a] # NoL1TBE => c.tbe[a].state # "none"
      BY DEF L1Sound
    <3>3. f = NoL1TBE => f.state = "none"
      BY DEF NoL1TBE
    <3> HIDE DEF f
    <3> QED BY <2>4, <3>1, <3>2, <3>3
  <2> HIDE DEF e, f
  <2>6. /\ N \in [Addrs -> L1Entry] /\ \A b \in Addrs : N[b].state = c.entry[b].state
        /\ T \in [Addrs -> L1TBE]
        /\ \A b \in Addrs : T[b].state = c.tbe[b].state /\ (T[b] = NoL1TBE <=> c.tbe[b] = NoL1TBE)
    BY <1>1, <2>4, <2>5
  <2> HIDE DEF N, T
  <2>7. /\ d \in L1Controller /\ d.dcache = c.dcache /\ d.icache = c.icache
        /\ d.mandatory = c.mandatory /\ d.tbe = T /\ d.entry = N
    BY <1>1, <2>6 DEF L1Controller
  <2> HIDE DEF d
  <2> QED BY <2>1, <2>6, <2>7 DEF L1Alike
<1> QED BY <1>5, <1>6

-----------------------------------------------------------------------------
(* Bags.                                                                   *)

(* A set is put into a bag.                                                *)
LEMMA BagAdd ==
    ASSUME NEW B, IsABag(B), NEW S
    PROVE  /\ IsABag(B (+) SetToBag(S))
           /\ DOMAIN (B (+) SetToBag(S)) = DOMAIN B \cup S
           /\ \A x \in DOMAIN B \ S : (B (+) SetToBag(S))[x] = B[x]
           /\ \A x \in S \ DOMAIN B : (B (+) SetToBag(S))[x] = 1
BY DEF (+), SetToBag, IsABag

(* One copy is taken out of a bag.                                         *)
LEMMA BagTake ==
    ASSUME NEW B, IsABag(B), NEW m \in DOMAIN B
    PROVE  /\ IsABag(B (-) SetToBag({m}))
           /\ DOMAIN (B (-) SetToBag({m})) = IF B[m] = 1 THEN DOMAIN B \ {m} ELSE DOMAIN B
           /\ \A x \in DOMAIN B \ {m} : (B (-) SetToBag({m}))[x] = B[x]
BY DEF (-), SetToBag, IsABag

(* The same things of class U, as often, are in two bags.                  *)
SameIn(U, B, C) ==
    /\ DOMAIN B \cap U = DOMAIN C \cap U
    /\ \A x \in DOMAIN B \cap U : B[x] = C[x]

(* Messages of T with another block; class U is blind to it.                *)
With(x, d) == [x EXCEPT !.data = d]

Carries(T, U) ==
    \A x \in T, d \in Blocks :
        /\ x.data \in Blocks
        /\ With(x, d) \in T /\ With(x, d).data = d
        /\ With(x, d).addr = x.addr
        /\ x.data = d => With(x, d) = x
        /\ \A e \in Blocks : With(With(x, d), e) = With(x, e)
        /\ With(x, d) \in U <=> x \in U

(* A message of line a in which data is "fresh" is "stale" in the new bag. *)
LEMMA Aged ==
    ASSUME NEW B, IsABag(B), NEW a, NEW U, NEW T, DOMAIN B \subseteq T,
           Carries(T, U)
    PROVE  /\ IsABag(AgeBag(B, a)) /\ DOMAIN AgeBag(B, a) \subseteq T
           /\ DOMAIN AgeBag(B, a) = {AgeMsg(a, d) : d \in DOMAIN B}
           /\ DOMAIN B \cap U = {} => DOMAIN AgeBag(B, a) \cap U = {}
           /\ One(DOMAIN B \cap U, B) => One(DOMAIN AgeBag(B, a) \cap U, AgeBag(B, a))
<1> DEFINE D == DOMAIN B
           E == {AgeMsg(a, d) : d \in D}
           C == AgeBag(B, a)
           Copies(m) == IF m \in D THEN B[m] ELSE 0
<1>0. \A x \in T, d \in Blocks :
        /\ x.data \in Blocks
        /\ With(x, d) \in T /\ With(x, d).data = d
        /\ With(x, d).addr = x.addr
        /\ x.data = d => With(x, d) = x
        /\ \A e \in Blocks : With(With(x, d), e) = With(x, e)
        /\ With(x, d) \in U <=> x \in U
  BY DEF Carries
<1>1. "fresh" \in Blocks /\ "stale" \in Blocks
  BY DEF Blocks
<1>2. /\ DOMAIN C = E
      /\ \A m \in E : C[m] = IF m.addr = a /\ m.data = "stale"
                             THEN Copies(m) + Copies(With(m, "fresh")) ELSE B[m]
  BY DEF AgeBag, With
<1>3. ASSUME NEW x \in T
      PROVE  /\ x.addr = a /\ x.data = "fresh" => AgeMsg(a, x) = With(x, "stale")
             /\ ~(x.addr = a /\ x.data = "fresh") => AgeMsg(a, x) = x
  <2>1. AgeMsg(a, x) = IF x.addr = a THEN With(x, Age(x.data)) ELSE x
    BY DEF AgeMsg, With
  <2>2. x.data = "fresh" => Age(x.data) = "stale"
    BY DEF Age
  <2>3. x.data # "fresh" => Age(x.data) = x.data
    BY DEF Age
  <2>4. x.data \in Blocks /\ With(x, x.data) = x
    <3> QED BY <1>0, <1>1
  <2> QED BY <2>1, <2>2, <2>3, <2>4
<1>4. ASSUME NEW x \in T
      PROVE  AgeMsg(a, x) \in T /\ (AgeMsg(a, x) \in U <=> x \in U) /\ AgeMsg(a, x).addr = x.addr
  <2>1. /\ With(x, "stale") \in T /\ (With(x, "stale") \in U <=> x \in U)
        /\ With(x, "stale").addr = x.addr
    BY <1>0, <1>1
  <2>2. AgeMsg(a, x) \in {x, With(x, "stale")}
    BY <1>3
  <2>3. CASE AgeMsg(a, x) = x
    BY <2>3
  <2>4. CASE AgeMsg(a, x) = With(x, "stale")
    BY <2>1, <2>4
  <2> QED BY <2>2, <2>3, <2>4
<1>5. \A x \in D : B[x] \in Nat /\ B[x] > 0
  BY DEF IsABag
<1>6. ASSUME NEW m \in E
      PROVE  /\ C[m] \in Nat /\ C[m] > 0
             /\ ~(m.addr = a /\ m.data = "stale") => m \in D
             /\ m.addr = a /\ m.data = "stale" => m \in D \/ With(m, "fresh") \in D
  <2>1. PICK x \in D : m = AgeMsg(a, x)
    OBVIOUS
  <2>2. x \in T
    OBVIOUS
  <2>3. CASE x.addr = a /\ x.data = "fresh"
    <3>1. m = With(x, "stale")
      BY <1>3, <2>1, <2>2, <2>3
    <3>2. m.addr = a /\ m.data = "stale" /\ With(m, "fresh") = x
      <4>1. With(x, "stale").data = "stale" /\ With(x, "stale").addr = x.addr
        BY <1>0, <1>1, <2>2
      <4>2. With(With(x, "stale"), "fresh") = With(x, "fresh")
        BY <1>0, <1>1, <2>2
      <4>3. With(x, "fresh") = x
        BY <1>0, <1>1, <2>2, <2>3
      <4> QED BY <2>3, <3>1, <4>1, <4>2, <4>3
    <3> HIDE DEF D
    <3>3. C[m] = Copies(m) + B[x]
      BY <1>2, <3>2
    <3>4. Copies(m) \in Nat /\ B[x] \in Nat /\ B[x] > 0
      BY <1>5
    <3> HIDE DEF Copies, C, E
    <3> QED BY <3>2, <3>3, <3>4
  <2>4. CASE ~(x.addr = a /\ x.data = "fresh")
    <3>1. m = x
      BY <1>3, <2>1, <2>2, <2>4
    <3>2. m \in D /\ B[m] \in Nat /\ B[m] > 0
      BY <1>5, <3>1
    <3>3. Copies(With(m, "fresh")) \in Nat /\ Copies(m) = B[m]
      <4> QED BY <1>5, <3>2
    <3> HIDE DEF Copies, D
    <3>4. C[m] = B[m] + Copies(With(m, "fresh")) \/ C[m] = B[m]
      BY <1>2, <3>3
    <3> HIDE DEF C, E
    <3> QED BY <3>2, <3>3, <3>4
  <2> QED BY <2>3, <2>4
<1>7. IsABag(C) /\ E \subseteq T
  <2>1. C \in [E -> {n \in Nat : n > 0}]
    <3>1. C = [m \in E |-> C[m]]
      BY DEF AgeBag
    <3> HIDE DEF C, E
    <3> QED BY <1>6, <3>1
  <2>2. E \subseteq T
    BY <1>4
  <2> HIDE DEF C, E
  <2> QED BY <1>2, <2>1, <2>2 DEF IsABag
<1>8. ASSUME D \cap U = {} PROVE E \cap U = {}
  <2>1. \A x \in D : x \in T /\ x \notin U
    BY <1>8
  <2>2. \A m \in E : \E x \in D : m = AgeMsg(a, x)
    OBVIOUS
  <2> HIDE DEF D, E
  <2> QED BY <1>4, <2>1, <2>2
<1>9. ASSUME One(D \cap U, B) PROVE One(E \cap U, C)
  <2>1. PICK x : D \cap U = {x} /\ B[x] = 1
    BY <1>9 DEF One
  <2>2. x \in D /\ x \in T /\ x \in U
    BY <2>1
  <2> DEFINE y == AgeMsg(a, x)
  <2>3. E \cap U = {y}
    <3>1. y \in E /\ y \in U
      BY <1>4, <2>2
    <3>2. ASSUME NEW z \in E, z \in U PROVE z = y
      <4>1. PICK d \in D : z = AgeMsg(a, d)
        OBVIOUS
      <4>2. d \in U
        BY <1>4, <3>2, <4>1
      <4> QED BY <2>1, <4>1, <4>2
    <3> HIDE DEF y, E
    <3> QED BY <3>1, <3>2
  <2>4. C[y] = 1
    <3>1. CASE x.addr = a /\ x.data = "fresh"
      <4>1. y = With(x, "stale")
        BY <1>3, <2>2, <3>1
      <4>2. /\ y.addr = a /\ y.data = "stale" /\ With(y, "fresh") = x /\ y \in U
        <5>1. With(x, "stale").data = "stale" /\ With(x, "stale").addr = x.addr
          BY <1>0, <1>1, <2>2
        <5>2. With(With(x, "stale"), "fresh") = With(x, "fresh")
          BY <1>0, <1>1, <2>2
        <5>3. With(x, "fresh") = x
          BY <1>0, <1>1, <2>2, <3>1
        <5> QED BY <2>3, <3>1, <4>1, <5>1, <5>2, <5>3
      <4>3. y \notin D
        <5>1. y # x
          BY <3>1, <4>2
        <5> QED BY <2>1, <4>2, <5>1
      <4>4. Copies(y) = 0 /\ Copies(With(y, "fresh")) = 1
        BY <2>1, <2>2, <4>2, <4>3
      <4>5. y \in E
        BY <2>2
      <4> HIDE DEF Copies, C, E, y
      <4> QED BY <1>2, <4>2, <4>4, <4>5
    <3>2. CASE ~(x.addr = a /\ x.data = "fresh")
      <4>1. y = x /\ y \in E
        BY <1>3, <2>2, <3>2
      <4>2. CASE x.addr = a /\ x.data = "stale"
        <5>1. With(x, "fresh") \notin D
          <6>1. With(x, "fresh") \in U /\ With(x, "fresh").data = "fresh"
            BY <1>0, <1>1, <2>2
          <6> QED BY <2>1, <4>2, <6>1
        <5>2. Copies(x) = 1 /\ Copies(With(x, "fresh")) = 0
          BY <2>1, <2>2, <5>1
        <5> HIDE DEF Copies, C, E, y
        <5> QED BY <1>2, <4>1, <4>2, <5>2
      <4>3. CASE ~(x.addr = a /\ x.data = "stale")
        <5> HIDE DEF Copies, C, E, y
        <5> QED BY <1>2, <2>1, <4>1, <4>3
      <4> QED BY <4>2, <4>3
    <3> QED BY <3>1, <3>2
  <2> HIDE DEF y, C, E
  <2> QED BY <2>3, <2>4 DEF One
<1> HIDE DEF C
<1> QED BY <1>2, <1>7, <1>8, <1>9 DEF C

-----------------------------------------------------------------------------
(* What a callback to a processor keeps.                                   *)

(* An L2 that differs in data only.                                        *)
L2Alike(c, d) ==
    /\ d \in L2Controller /\ d.tags = c.tags
    /\ \A b \in Addrs : /\ d.tbe[b] = NoL2TBE <=> c.tbe[b] = NoL2TBE
                        /\ d.tbe[b].state = c.tbe[b].state /\ d.tbe[b].getX = c.tbe[b].getX
                        /\ d.entry[b].state = c.entry[b].state
                        /\ d.entry[b].exclusive = c.entry[b].exclusive

(* Nothing the invariant says of the L2 depends on its data.               *)
LEMMA L2AlikeSame ==
    ASSUME NEW c, NEW d, L2Sound(c), L2Alike(c, d)
    PROVE  L2Sound(d) /\ \A b \in Addrs : Busy(d, b) <=> Busy(c, b)
<1>1. \A b \in Addrs : L2State(d, b) = L2State(c, b)
  BY DEF L2Alike, L2State
<1>2. L2Sound(d)
  BY <1>1 DEF L2Sound, L2Alike
<1> QED BY <1>1, <1>2 DEF Busy

(* A store elsewhere changes nothing but data in the L2.                   *)
LEMMA L2Aged ==
    ASSUME NEW c, L2Sound(c), NEW a \in Addrs
    PROVE  L2Alike(c, [c EXCEPT !.entry[a].data = Age(@), !.tbe[a].data = Age(@)])
<1>1. c \in L2Controller /\ c.tbe \in [Addrs -> L2TBE] /\ c.entry \in [Addrs -> L2Entry]
  BY DEF L2Sound, L2Controller
<1>2. c.tbe[a] \in L2TBE /\ c.entry[a] \in L2Entry
  BY <1>1
<1>3. ASSUME NEW x \in Blocks PROVE Age(x) \in Blocks
  BY DEF Age, Blocks
<1> DEFINE x == Age(c.tbe[a].data)
           y == Age(c.entry[a].data)
           e == [c.entry[a] EXCEPT !.data = y]
           f == [c.tbe[a] EXCEPT !.data = x]
           N == [c.entry EXCEPT ![a] = e]
           T == [c.tbe EXCEPT ![a] = f]
           d == [c EXCEPT !.entry = N, !.tbe = T]
<1>4. [c EXCEPT !.entry[a].data = Age(@), !.tbe[a].data = Age(@)] = d
  BY <1>1, <1>2 DEF L2Controller
<1>5. x \in Blocks /\ y \in Blocks
  BY <1>2, <1>3 DEF L2TBE, L2Entry
<1>6. c.tbe[a] = NoL2TBE => x = c.tbe[a].data
  BY DEF NoL2TBE, Age
<1> HIDE DEF x, y
<1>7. /\ e \in L2Entry /\ e.state = c.entry[a].state /\ e.exclusive = c.entry[a].exclusive
      /\ f \in L2TBE /\ f.state = c.tbe[a].state /\ f.getX = c.tbe[a].getX
  BY <1>2, <1>5 DEF L2Entry, L2TBE
<1>8. f = NoL2TBE <=> c.tbe[a] = NoL2TBE
  <2>1. c.tbe[a] = NoL2TBE => f = c.tbe[a]
    BY <1>2, <1>6 DEF L2TBE
  <2>2. c.tbe[a] # NoL2TBE => c.tbe[a].state # "none"
    BY DEF L2Sound
  <2>3. f = NoL2TBE => f.state = "none"
    BY DEF NoL2TBE
  <2> HIDE DEF f
  <2> QED BY <1>7, <2>1, <2>2, <2>3
<1> HIDE DEF e, f
<1>9. /\ N \in [Addrs -> L2Entry]
      /\ \A b \in Addrs : N[b].state = c.entry[b].state /\ N[b].exclusive = c.entry[b].exclusive
      /\ T \in [Addrs -> L2TBE]
      /\ \A b \in Addrs : /\ T[b].state = c.tbe[b].state /\ T[b].getX = c.tbe[b].getX
                          /\ T[b] = NoL2TBE <=> c.tbe[b] = NoL2TBE
  BY <1>1, <1>7, <1>8
<1> HIDE DEF N, T
<1>10. d \in L2Controller /\ d.tags = c.tags /\ d.tbe = T /\ d.entry = N
  BY <1>1, <1>9 DEF L2Controller
<1> HIDE DEF d
<1> QED BY <1>4, <1>9, <1>10 DEF L2Alike

(* What a line has under way with memory: on the network, and in a queue   *)
(* of the memory controller.                                               *)
MemOps(a) == {m \in Message : m.addr = a /\ ToMemory(m)}

OpsAt(a) == {op \in MemoryMsgs : op.addr = a}

SoundMsgs == {m \in Message : Sound(m)}

(* What is under way, as the members of a bag in a class.                  *)
LEMMA Classes ==
    ASSUME NEW a \in Addrs
    PROVE  /\ \A B : DOMAIN B \subseteq Message => OnNet(B, a) = DOMAIN B \cap MemOps(a)
           /\ \A B : DOMAIN B \subseteq MemoryMsgs => Queued(B, a) = DOMAIN B \cap OpsAt(a)
BY DEF OnNet, Queued, MemOps, OpsAt

(* Data does not decide where a message goes.                              *)
LEMMA Carried ==
    ASSUME NEW a \in Addrs
    PROVE  Carries(SoundMsgs, MemOps(a)) /\ Carries(MemoryMsgs, OpsAt(a))
<1>1. Carries(SoundMsgs, MemOps(a))
  <2>1. ASSUME NEW x \in Message, NEW d \in Blocks
        PROVE  /\ x.data \in Blocks
               /\ With(x, d) \in Message /\ With(x, d).data = d
               /\ With(x, d).addr = x.addr /\ With(x, d).type = x.type
               /\ With(x, d).peer = x.peer /\ With(x, d).dest = x.dest
               /\ x.data = d => With(x, d) = x
    BY DEF Message, With
  <2>2. ASSUME NEW x \in Message, NEW d \in Blocks, NEW e \in Blocks
        PROVE  With(With(x, d), e) = With(x, e)
    BY DEF Message, With
  <2>3. ASSUME NEW x \in SoundMsgs, NEW d \in Blocks
        PROVE  With(x, d) \in SoundMsgs /\ (With(x, d) \in MemOps(a) <=> x \in MemOps(a))
    <3>1. Sound(With(x, d))
      BY <2>1 DEF Sound, SoundMsgs
    <3> QED BY <2>1, <3>1 DEF SoundMsgs, MemOps, ToMemory
  <2>4. SoundMsgs \subseteq Message
    BY DEF SoundMsgs
  <2> QED BY <2>1, <2>2, <2>3, <2>4 DEF Carries
<1>2. Carries(MemoryMsgs, OpsAt(a))
  <2>1. ASSUME NEW x \in MemoryMsgs, NEW d \in Blocks
        PROVE  /\ x.data \in Blocks
               /\ With(x, d) \in MemoryMsgs /\ With(x, d).data = d
               /\ With(x, d).addr = x.addr
               /\ x.data = d => With(x, d) = x
    BY DEF MemoryMsgs, With
  <2>2. ASSUME NEW x \in MemoryMsgs, NEW d \in Blocks, NEW e \in Blocks
        PROVE  With(With(x, d), e) = With(x, e)
    BY DEF MemoryMsgs, With
  <2>3. ASSUME NEW x \in MemoryMsgs, NEW d \in Blocks
        PROVE  With(x, d) \in OpsAt(a) <=> x \in OpsAt(a)
    BY <2>1 DEF OpsAt
  <2> QED BY <2>1, <2>2, <2>3 DEF Carries
<1> QED BY <1>1, <1>2

(* If nothing under way appears or disappears, its count stays right.      *)
Kept(S, B, T, C) == (S = {} => T = {}) /\ (One(S, B) => One(T, C))

(* One thing under way stays one.                                          *)
LEMMA OneOpKept ==
    ASSUME NEW a \in Addrs, OneOp(a), Busy(l2', a) <=> Busy(l2, a),
           Kept(OnNet(net, a), net, OnNet(net', a), net'),
           Kept(Queued(m_input_queue, a), m_input_queue, Queued(m_input_queue', a), m_input_queue'),
           Kept(Queued(m_response_queue, a), m_response_queue,
                Queued(m_response_queue', a), m_response_queue')
    PROVE  OneOp(a)'
BY DEF OneOp, Kept

(* So it does in a bag that has not changed.                               *)
LEMMA SameKept ==
    ASSUME NEW U, NEW B, NEW C, SameIn(U, B, C)
    PROVE  Kept(DOMAIN B \cap U, B, DOMAIN C \cap U, C)
BY DEF SameIn, Kept, One

(* A transition of the L1 with the messages msgs on the network after it.  *)
LEMMA L1CommitKeeps ==
    ASSUME CoherenceInv, NEW p \in Procs, NEW a \in Addrs, NEW r, NEW msgs,
           L1Sound(r.c), r.callback \in {"none", "read", "write"},
           Placed(r.c, After(outstanding[p], a, r.callback)),
           IsABag(msgs), DOMAIN msgs \subseteq SoundMsgs,
           \A b \in Addrs : SameIn(MemOps(b), net, msgs),
           L1Commit(p, a, r, msgs)
    PROVE  CoherenceInv'
<1>1. /\ Sounds /\ RequestsPlaced /\ Bagged /\ \A b \in Addrs : OneOp(b)
  BY DEF CoherenceInv, OpsCounted
<1>2. /\ \A q \in Procs : L1Sound(l1[q]) /\ Placed(l1[q], outstanding[q])
      /\ l1 \in [Procs -> L1Controller] /\ L2Sound(l2) /\ directory \in [Addrs -> Blocks]
      /\ DOMAIN m_input_queue \subseteq MemoryMsgs /\ DOMAIN m_response_queue \subseteq MemoryMsgs
      /\ DOMAIN net \subseteq SoundMsgs
      /\ outstanding \in [Procs -> SUBSET (Addrs \X Ops)]
      /\ workload \subseteq Procs \X Addrs \X Ops
      /\ IsABag(net) /\ IsABag(m_input_queue) /\ IsABag(m_response_queue)
  BY <1>1 DEF Sounds, RequestsPlaced, Bagged, SoundMsgs, Sound
<1>3. SoundMsgs \subseteq Message /\ \A m \in SoundMsgs : Sound(m)
  BY DEF SoundMsgs
<1>4. outstanding' = [outstanding EXCEPT ![p] = After(outstanding[p], a, r.callback)]
  BY DEF L1Commit, After
<1>5. After(outstanding[p], a, r.callback) \in SUBSET (Addrs \X Ops)
  BY <1>2 DEF After
<1>6. outstanding' \in [Procs -> SUBSET (Addrs \X Ops)]
  BY <1>2, <1>4, <1>5
<1>7. workload' = workload
  BY DEF L1Commit
<1>8. CASE r.callback # "write"
  <2>1. /\ l1' = [l1 EXCEPT ![p] = r.c] /\ net' = msgs
        /\ l2' = l2 /\ directory' = directory
        /\ m_input_queue' = m_input_queue /\ m_response_queue' = m_response_queue
    BY <1>8 DEF L1Commit
  <2>2. r.c \in L1Controller
    BY DEF L1Sound
  <2>3. l1' \in [Procs -> L1Controller] /\ \A q \in Procs : L1Sound(l1'[q])
    BY <1>2, <2>1, <2>2
  <2>4. Sounds'
    BY <1>2, <1>3, <1>6, <1>7, <2>1, <2>3 DEF Sounds
  <2>5. RequestsPlaced'
    BY <1>2, <1>4, <2>1 DEF RequestsPlaced
  <2>6. ASSUME NEW b \in Addrs PROVE OneOp(b)'
    <3>1. OnNet(net, b) = DOMAIN net \cap MemOps(b) /\ OnNet(msgs, b) = DOMAIN msgs \cap MemOps(b)
      BY <1>2, <1>3, Classes
    <3>2. Kept(OnNet(net, b), net, OnNet(net', b), net')
      BY <2>1, <3>1, SameKept
    <3>3. \A S, B : Kept(S, B, S, B)
      BY DEF Kept
    <3> QED BY <1>1, <2>1, <3>2, <3>3, OneOpKept
  <2>7. Bagged'
    BY <1>2, <2>1 DEF Bagged
  <2> QED BY <2>4, <2>5, <2>6, <2>7 DEF CoherenceInv, OpsCounted
<1>9. CASE r.callback = "write"
  <2>1. StoreTo(p, a, r.c, msgs)
    BY <1>9 DEF L1Commit
  <2> DEFINE own == [r.c EXCEPT !.entry[a].data = "fresh"]
             L == [q \in Procs |-> IF q = p THEN own ELSE AgeL1(l1[q], a)]
             d2 == [l2 EXCEPT !.entry[a].data = Age(@), !.tbe[a].data = Age(@)]
  <2>2. /\ l1' = L /\ l2' = d2 /\ directory' = [directory EXCEPT ![a] = "stale"]
        /\ m_input_queue' = AgeBag(m_input_queue, a)
        /\ m_response_queue' = AgeBag(m_response_queue, a)
        /\ net' = AgeBag(msgs, a)
    BY <2>1 DEF StoreTo
  <2>3. L1Alike(r.c, own)
    BY L1Aged
  <2>4. \A q \in Procs : L1Alike(l1[q], AgeL1(l1[q], a))
    BY <1>2, L1Aged
  <2>5. L2Alike(l2, d2)
    BY <1>2, L2Aged
  <2> HIDE DEF own, d2
  <2>6. L1Sound(own) /\ Placed(own, outstanding'[p])
    <3>1. outstanding'[p] = After(outstanding[p], a, r.callback)
      BY <1>2, <1>4
    <3> QED BY <2>3, <3>1, L1AlikeSame
  <2>7. ASSUME NEW q \in Procs PROVE L1Sound(L[q]) /\ Placed(L[q], outstanding'[q])
    <3>1. CASE q = p
      BY <2>6, <3>1
    <3>2. CASE q # p
      <4>1. L[q] = AgeL1(l1[q], a) /\ outstanding'[q] = outstanding[q]
        BY <1>2, <1>4, <3>2
      <4> HIDE DEF L
      <4> QED BY <1>2, <2>4, <4>1, L1AlikeSame
    <3> QED BY <3>1, <3>2
  <2>8. L \in [Procs -> L1Controller]
    <3>1. own \in L1Controller
      BY <2>6 DEF L1Sound
    <3>2. \A q \in Procs : AgeL1(l1[q], a) \in L1Controller
      BY <2>4 DEF L1Alike
    <3> QED BY <3>1, <3>2
  <2> HIDE DEF L
  <2>9. L2Sound(d2) /\ \A b \in Addrs : Busy(d2, b) <=> Busy(l2, b)
    BY <1>2, <2>5, L2AlikeSame
  <2>10. directory' \in [Addrs -> Blocks]
    BY <1>2, <2>2 DEF Blocks
  <2>11. /\ IsABag(m_input_queue') /\ DOMAIN m_input_queue' \subseteq MemoryMsgs
         /\ IsABag(m_response_queue') /\ DOMAIN m_response_queue' \subseteq MemoryMsgs
         /\ IsABag(net') /\ DOMAIN net' \subseteq SoundMsgs
    BY <1>2, <2>2, Aged, Carried
  <2>12. Sounds'
    BY <1>2, <1>3, <1>6, <1>7, <2>2, <2>7, <2>8, <2>9, <2>10, <2>11 DEF Sounds
  <2>13. RequestsPlaced'
    BY <2>2, <2>7 DEF RequestsPlaced
  <2>14. ASSUME NEW b \in Addrs PROVE OneOp(b)'
    <3>1. /\ OnNet(net, b) = DOMAIN net \cap MemOps(b)
          /\ OnNet(net', b) = DOMAIN net' \cap MemOps(b)
          /\ Queued(m_input_queue, b) = DOMAIN m_input_queue \cap OpsAt(b)
          /\ Queued(m_input_queue', b) = DOMAIN m_input_queue' \cap OpsAt(b)
          /\ Queued(m_response_queue, b) = DOMAIN m_response_queue \cap OpsAt(b)
          /\ Queued(m_response_queue', b) = DOMAIN m_response_queue' \cap OpsAt(b)
      BY <1>2, <1>3, <2>11, Classes
    <3>2. Carries(SoundMsgs, MemOps(b)) /\ Carries(MemoryMsgs, OpsAt(b))
      BY Carried
    <3>3. Kept(DOMAIN msgs \cap MemOps(b), msgs, DOMAIN net' \cap MemOps(b), net')
      BY <2>2, <3>2, Aged DEF Kept
    <3>4. Kept(DOMAIN m_input_queue \cap OpsAt(b), m_input_queue,
               DOMAIN m_input_queue' \cap OpsAt(b), m_input_queue')
      BY <1>2, <2>2, <3>2, Aged DEF Kept
    <3>5. Kept(DOMAIN m_response_queue \cap OpsAt(b), m_response_queue,
               DOMAIN m_response_queue' \cap OpsAt(b), m_response_queue')
      BY <1>2, <2>2, <3>2, Aged DEF Kept
    <3>6. Kept(DOMAIN net \cap MemOps(b), net, DOMAIN msgs \cap MemOps(b), msgs)
      BY SameKept
    <3>7. Kept(DOMAIN net \cap MemOps(b), net, DOMAIN net' \cap MemOps(b), net')
      BY <3>3, <3>6 DEF Kept
    <3>8. Busy(l2', b) <=> Busy(l2, b)
      BY <2>2, <2>9
    <3> QED BY <1>1, <3>1, <3>4, <3>5, <3>7, <3>8, OneOpKept
  <2>15. Bagged'
    BY <2>11 DEF Bagged
  <2> QED BY <2>12, <2>13, <2>14, <2>15 DEF CoherenceInv, OpsCounted
<1> QED BY <1>8, <1>9

-----------------------------------------------------------------------------
(* The steps of the L1s.                                                   *)

(* The network after messages that do not concern memory have come and     *)
(* gone.                                                                   *)
LEMMA SentSame ==
    ASSUME NEW B, IsABag(B), DOMAIN B \subseteq SoundMsgs, NEW out, out \subseteq SoundMsgs,
           \A x \in out : ~ToMemory(x)
    PROVE  /\ IsABag(B (+) SetToBag(out)) /\ DOMAIN (B (+) SetToBag(out)) \subseteq SoundMsgs
           /\ \A b : SameIn(MemOps(b), B, B (+) SetToBag(out))
<1> DEFINE C == B (+) SetToBag(out)
<1>1. /\ IsABag(C) /\ DOMAIN C = DOMAIN B \cup out
      /\ \A x \in DOMAIN B \ out : C[x] = B[x]
  BY BagAdd
<1>2. \A b, x : x \in MemOps(b) => ToMemory(x)
  BY DEF MemOps
<1> HIDE DEF C
<1>3. \A b : SameIn(MemOps(b), B, C)
  BY <1>1, <1>2 DEF SameIn
<1> QED BY <1>1, <1>3 DEF C

(* A message that does not concern memory is taken.                        *)
LEMMA TakenSame ==
    ASSUME NEW B, IsABag(B), DOMAIN B \subseteq SoundMsgs, NEW m \in DOMAIN B, ~ToMemory(m)
    PROVE  /\ IsABag(B (-) SetToBag({m})) /\ DOMAIN (B (-) SetToBag({m})) \subseteq SoundMsgs
           /\ \A b : SameIn(MemOps(b), B, B (-) SetToBag({m}))
<1> DEFINE C == B (-) SetToBag({m})
<1>1. /\ IsABag(C) /\ DOMAIN C = IF B[m] = 1 THEN DOMAIN B \ {m} ELSE DOMAIN B
      /\ \A x \in DOMAIN B \ {m} : C[x] = B[x]
  BY BagTake
<1>2. \A b, x : x \in MemOps(b) => ToMemory(x)
  BY DEF MemOps
<1> HIDE DEF C
<1>3. \A b : SameIn(MemOps(b), B, C)
  BY <1>1, <1>2 DEF SameIn
<1> QED BY <1>1, <1>3 DEF C

(* Both at once.                                                           *)
LEMMA ExchangeSame ==
    ASSUME IsABag(net), DOMAIN net \subseteq SoundMsgs, NEW m \in DOMAIN net, ~ToMemory(m),
           NEW r, r.out \subseteq SoundMsgs, \A x \in r.out : ~ToMemory(x)
    PROVE  /\ IsABag(Exchange(m, r)) /\ DOMAIN Exchange(m, r) \subseteq SoundMsgs
           /\ \A b : SameIn(MemOps(b), net, Exchange(m, r))
<1> DEFINE B == IF r.pop THEN net (-) SetToBag({m}) ELSE net
<1>1. IsABag(B) /\ DOMAIN B \subseteq SoundMsgs /\ \A b : SameIn(MemOps(b), net, B)
  <2>1. CASE r.pop
    BY <2>1, TakenSame
  <2>2. CASE ~r.pop
    BY <2>2 DEF SameIn
  <2> QED BY <2>1, <2>2
<1>2. Exchange(m, r) = B (+) SetToBag(r.out)
  BY DEF Exchange
<1> HIDE DEF B
<1>3. /\ IsABag(Exchange(m, r)) /\ DOMAIN Exchange(m, r) \subseteq SoundMsgs
      /\ \A b : SameIn(MemOps(b), B, Exchange(m, r))
  BY <1>1, <1>2, SentSame
<1>4. \A b : SameIn(MemOps(b), net, Exchange(m, r))
  BY <1>1, <1>3 DEF SameIn
<1> QED BY <1>3, <1>4

(* What the L1 sends concerns no memory.                                   *)
LEMMA L1OutSame ==
    ASSUME NEW p \in Procs, NEW a, NEW out, out \subseteq L1Out(p, a)
    PROVE  out \subseteq SoundMsgs /\ \A x \in out : ~ToMemory(x)
<1>1. p # Dir
  BY CoherenceAssumption
<1> QED BY <1>1 DEF L1Out, SoundMsgs, ToMemory

(* A transition of the L1 on an event for which everything is ready.       *)
LEMMA L1StepKeeps ==
    ASSUME CoherenceInv, NEW p \in Procs, NEW a \in Addrs, NEW m, NEW ev, NEW row, NEW r,
           NEW msgs, row = L1Transition(L1State(l1[p], a), ev), Takes(row),
           r = L1Do(l1[p], p, a, m, ev),
           L1RowFits(L1State(l1[p], a), ev, row.next, Names(row.acts)) =>
              L1Ready(l1[p], a, m, Names(row.acts)),
           Asks(ev) # "none" => m \in l1[p].mandatory /\ Stands(m, a, ev),
           r.out \subseteq L1Out(p, a) =>
              /\ IsABag(msgs) /\ DOMAIN msgs \subseteq SoundMsgs
              /\ \A b \in Addrs : SameIn(MemOps(b), net, msgs),
           L1Commit(p, a, r, msgs)
    PROVE  CoherenceInv'
<1> DEFINE c == l1[p]
           asked == outstanding[p]
<1>1. L1Sound(c) /\ Placed(c, asked) /\ asked \in SUBSET (Addrs \X Ops)
  BY DEF CoherenceInv, Sounds, RequestsPlaced
<1>2. L1RowFits(L1State(c, a), ev, row.next, Names(row.acts))
  <2>1. L1RowOK(L1State(c, a), ev, row)
    BY <1>1, L1StateTyped, L1Rows
  <2> QED BY <2>1 DEF L1RowOK
<1>3. L1Moves(c, r, p, a, m, ev, row)
  BY <1>1, <1>2, L1DoDoes
<1>4. Placed(r.c, After(asked, a, r.callback))
  BY <1>1, <1>2, <1>3, PlacedAfter
<1>5. L1Sound(r.c) /\ r.out \subseteq L1Out(p, a) /\ r.callback \in {"none", "read", "write"}
  BY <1>3 DEF L1Moves, Calls
<1>6. /\ IsABag(msgs) /\ DOMAIN msgs \subseteq SoundMsgs
      /\ \A b \in Addrs : SameIn(MemOps(b), net, msgs)
  BY <1>5
<1> QED BY <1>4, <1>5, <1>6, L1CommitKeeps

(* An L1 serves a request of its processor.                                *)
LEMMA MandatoryKeeps ==
    ASSUME CoherenceInv, NEW p \in Procs, NEW req \in l1[p].mandatory, L1Mandatory(p, req)
    PROVE  CoherenceInv'
<1> DEFINE c == l1[p]
<1>1. PICK e \in L1MandatoryEvents(c, req[1], req[2]) :
        /\ Takes(L1Transition(L1State(c, e[2]), e[1]))
        /\ \E r \in {L1Do(c, p, e[2], req, e[1])} :
              L1Commit(p, e[2], r, net (+) SetToBag(r.out))
  BY DEF L1Mandatory
<1> DEFINE ev == e[1]
           a == e[2]
           op == req[2]
           own == IF op = "IFETCH" THEN c.icache ELSE c.dcache
           other == IF op = "IFETCH" THEN c.dcache ELSE c.icache
           row == L1Transition(L1State(c, a), ev)
           r == L1Do(c, p, a, req, ev)
<1>2. c \in L1Controller
  BY DEF CoherenceInv, Sounds
<1>3. /\ req \in Addrs \X Ops /\ req = <<req[1], op>> /\ req[1] \in Addrs
      /\ op \in {"LD", "IFETCH", "ST"}
      /\ c.icache \subseteq Addrs /\ c.dcache \subseteq Addrs
  BY <1>2 DEF L1Controller, Ops
<1>4. \/ ev = "L1_Replacement" /\ a \in Addrs
      \/ /\ ev = L1OpEvent(op) /\ a = req[1]
         /\ a \notin other /\ cacheAvail(own, L1_WAYS, a)
  BY <1>1, <1>3 DEF L1MandatoryEvents, cacheProbe
<1>5. a \in Addrs
  BY <1>3, <1>4
<1>6. /\ op = "LD" => L1OpEvent(op) = "Load"
      /\ op = "IFETCH" => L1OpEvent(op) = "Ifetch"
      /\ op = "ST" => L1OpEvent(op) = "Store"
  BY DEF L1OpEvent
<1>7. L1Commit(p, a, r, net (+) SetToBag(r.out))
  BY <1>1
<1> HIDE DEF ev, a, op, row, r
<1>8. Asks(ev) # "none" => req \in c.mandatory /\ Stands(req, a, ev)
  BY <1>3, <1>4, <1>6 DEF Asks, Stands, Reads, Writes
<1>9. ev \in {"L1_Replacement", "Load", "Ifetch", "Store"}
  BY <1>3, <1>4, <1>6
<1>10. ASSUME L1RowFits(L1State(c, a), ev, row.next, Names(row.acts))
       PROVE  L1Ready(c, a, req, Names(row.acts))
  <2> DEFINE A == Names(row.acts)
  <2>1. /\ A \cap {"d_sendDataToRequestor", "dt_sendDataToRequestor_fromTBE", "fi_sendInvAck",
                   "u_writeDataToL1Cache", "q_updateAckCount"} = {}
        /\ "oo_allocateL1DCacheBlock" \in A => ev \in {"Load", "Store"}
        /\ "pp_allocateL1ICacheBlock" \in A => ev = "Ifetch"
    BY <1>9, <1>10 DEF L1RowFits
  <2>2. \A act \in A : L1Fits(req, act)
    BY <2>1 DEF L1Fits
  <2>3. ev \in {"Load", "Store"} => cacheAvail(c.dcache, L1_WAYS, a) /\ a \notin c.icache
    BY <1>3, <1>4, <1>6
  <2>4. ev = "Ifetch" => cacheAvail(c.icache, L1_WAYS, a) /\ a \notin c.dcache
    BY <1>3, <1>4, <1>6
  <2> QED BY <2>1, <2>2, <2>3, <2>4 DEF L1Ready
<1>11. ASSUME r.out \subseteq L1Out(p, a)
       PROVE  /\ IsABag(net (+) SetToBag(r.out)) /\ DOMAIN (net (+) SetToBag(r.out)) \subseteq SoundMsgs
              /\ \A b \in Addrs : SameIn(MemOps(b), net, net (+) SetToBag(r.out))
  <2>1. IsABag(net) /\ DOMAIN net \subseteq SoundMsgs
    BY DEF CoherenceInv, Sounds, OpsCounted, Bagged, SoundMsgs, Sound
  <2>2. r.out \subseteq SoundMsgs /\ \A x \in r.out : ~ToMemory(x)
    BY <1>11, L1OutSame
  <2> QED BY <2>1, <2>2, SentSame
<1>12. row = L1Transition(L1State(c, a), ev) /\ r = L1Do(c, p, a, req, ev) /\ Takes(row)
  BY <1>1 DEF row, r, ev, a
<1> QED BY <1>5, <1>7, <1>8, <1>10, <1>11, <1>12, L1StepKeeps

(* The events of messages.                                                 *)
LEMMA L1Events ==
    ASSUME NEW c, NEW m, NEW ev, ev = L1MessageEvent(c, m)
    PROVE  /\ ev \in {"Fwd_GETX", "Fwd_GETS", "Fwd_GET_INSTR"} =>
                m.type \in Requests /\ m.type \in {"GETX", "UPGRADE", "GETS", "GET_INSTR"}
           /\ ev = "Inv" => m.type \in Requests
           /\ Asks(ev) = "none"
<1>1. CASE m.type \in Requests
  <2>1. ev = L1RequestEvent(m)
    BY <1>1 DEF L1MessageEvent
  <2> QED BY <1>1, <2>1 DEF L1RequestEvent, Asks, Requests
<1>2. CASE m.type \notin Requests
  <2>1. ev = L1ResponseEvent(c, m)
    BY <1>2 DEF L1MessageEvent
  <2>2. ev \in {"Data_Exclusive", "WB_Ack", "DataS_fromL1", "error", "Data_all_Acks", "Data",
                "Ack_all", "Ack"}
    <3> DEFINE left == c.tbe[m.addr].pendingAcks - m.acks
    <3>1. CASE m.type = "DATA_EXCLUSIVE"
      BY <2>1, <3>1 DEF L1ResponseEvent
    <3>2. CASE m.type = "WB_ACK"
      BY <2>1, <3>2 DEF L1ResponseEvent
    <3>3. CASE m.type \in {"DATA", "ACK"}
      BY <2>1, <3>3 DEF L1ResponseEvent
    <3>4. CASE m.type \notin {"DATA_EXCLUSIVE", "WB_ACK", "DATA", "ACK"}
      BY <2>1, <3>4 DEF L1ResponseEvent
    <3> QED BY <3>1, <3>2, <3>3, <3>4
  <2> QED BY <2>2 DEF Asks
<1> QED BY <1>1, <1>2

(* An L1 takes a message.                                                  *)
LEMMA L1ReceiveKeeps ==
    ASSUME CoherenceInv, NEW m \in DOMAIN net, m.dest \in Procs, L1Receive(m.dest, m)
    PROVE  CoherenceInv'
<1> DEFINE p == m.dest
           a == m.addr
           c == l1[p]
           ev == L1MessageEvent(c, m)
           row == L1Transition(L1State(c, a), ev)
           r == L1Do(c, p, a, m, ev)
<1>1. Takes(row) /\ L1Commit(p, a, r, Exchange(m, r))
  BY DEF L1Receive
<1>2. IsABag(net) /\ DOMAIN net \subseteq SoundMsgs
  BY DEF CoherenceInv, Sounds, OpsCounted, Bagged, SoundMsgs, Sound
<1>3. Sound(m) /\ m \in Message
  BY <1>2 DEF SoundMsgs
<1>4. /\ a \in Addrs /\ m.peer \in Procs \cup {L2, Dir} /\ m.data \in Blocks
      /\ m.dirty \in BOOLEAN /\ m.acks \in Int
  BY <1>3 DEF Message
<1>5. p # L2 /\ p # Dir
  BY CoherenceAssumption
<1>6. ~ToMemory(m)
  BY <1>3, <1>5 DEF ToMemory, Sound
<1> HIDE DEF row, r, ev
<1>7. /\ ev \in {"Fwd_GETX", "Fwd_GETS", "Fwd_GET_INSTR"} => m.peer \in Procs
      /\ ev = "Inv" => m.peer \in Procs \cup {L2}
      /\ Asks(ev) = "none"
  BY <1>3, <1>4, L1Events DEF ev, Sound
<1>8. ASSUME L1RowFits(L1State(c, a), ev, row.next, Names(row.acts))
      PROVE  L1Ready(c, a, m, Names(row.acts))
  <2> DEFINE A == Names(row.acts)
  <2>1. /\ A \cap {"d_sendDataToRequestor", "dt_sendDataToRequestor_fromTBE"} # {} =>
             ev \in {"Fwd_GETX", "Fwd_GETS", "Fwd_GET_INSTR"}
        /\ "fi_sendInvAck" \in A => ev = "Inv"
        /\ "oo_allocateL1DCacheBlock" \notin A /\ "pp_allocateL1ICacheBlock" \notin A
    BY <1>7, <1>8 DEF L1RowFits, Asks
  <2> HIDE DEF A
  <2>2. \A act \in A : L1Fits(m, act)
    BY <1>4, <1>7, <2>1 DEF L1Fits
  <2> QED BY <2>1, <2>2 DEF L1Ready, A
<1>9. ASSUME r.out \subseteq L1Out(p, a)
      PROVE  /\ IsABag(Exchange(m, r)) /\ DOMAIN Exchange(m, r) \subseteq SoundMsgs
             /\ \A b \in Addrs : SameIn(MemOps(b), net, Exchange(m, r))
  <2>1. r.out \subseteq SoundMsgs /\ \A x \in r.out : ~ToMemory(x)
    BY <1>9, L1OutSame
  <2> QED BY <1>2, <1>6, <2>1, ExchangeSame
<1>10. row = L1Transition(L1State(c, a), ev) /\ r = L1Do(c, p, a, m, ev)
  BY DEF row, r
<1> QED BY <1>1, <1>4, <1>7, <1>8, <1>9, <1>10, L1StepKeeps

(* A processor makes a request for a line it has no request for.           *)
LEMMA MakeRequestKeeps ==
    ASSUME CoherenceInv, NEW p \in Procs, NEW a \in Addrs, NEW op \in Ops, MakeRequest(p, a, op)
    PROVE  CoherenceInv'
<1> DEFINE c == l1[p]
           asked == outstanding[p]
           req == <<a, op>>
           M == c.mandatory \cup {req}
           d == [c EXCEPT !.mandatory = M]
<1>1. /\ Sounds /\ RequestsPlaced /\ Bagged /\ \A b \in Addrs : OneOp(b)
  BY DEF CoherenceInv, OpsCounted
<1>2. /\ l1 \in [Procs -> L1Controller] /\ outstanding \in [Procs -> SUBSET (Addrs \X Ops)]
      /\ \A q \in Procs : L1Sound(l1[q]) /\ Placed(l1[q], outstanding[q])
  BY <1>1 DEF Sounds, RequestsPlaced
<1>3. /\ \A r \in asked : r[1] # a
      /\ outstanding' = [outstanding EXCEPT ![p] = asked \cup {req}]
      /\ l1' = [l1 EXCEPT ![p] = d]
      /\ UNCHANGED <<workload, l2, directory, m_input_queue, m_response_queue, net>>
  BY DEF MakeRequest
<1>4. req \in Addrs \X Ops
  OBVIOUS
<1>5. c \in L1Controller /\ c.mandatory \in SUBSET (Addrs \X Ops)
  BY <1>2 DEF L1Controller
<1>6. M \in SUBSET (Addrs \X Ops)
  BY <1>4, <1>5
<1>7. /\ d \in L1Controller /\ d.mandatory = M /\ d.tbe = c.tbe /\ d.entry = c.entry
      /\ d.dcache = c.dcache /\ d.icache = c.icache
  <2> HIDE DEF M
  <2> QED BY <1>5, <1>6 DEF L1Controller
<1> HIDE DEF d
<1>8. L1Sound(d)
  BY <1>2, <1>7 DEF L1Sound
<1>9. \A b : L1State(d, b) = L1State(c, b)
  BY <1>7 DEF L1State, isL1CacheTagPresent
<1>10. Placed(d, asked \cup {req})
  <2>1. /\ c.mandatory \subseteq asked /\ \A x, y \in asked : x[1] = y[1] => x = y
        /\ \A b \in Addrs : Waiting(c, asked, b)
    BY <1>2 DEF Placed
  <2>2. M \subseteq asked \cup {req}
    BY <2>1
  <2>3. req[1] = a
    OBVIOUS
  <2>4. \A x, y \in asked \cup {req} : x[1] = y[1] => x = y
    BY <1>3, <2>1, <2>3
  <2>5. \A b : /\ \A x \in Reads(b) : x[1] = b /\ x \notin Writes(b)
               /\ \A x \in Writes(b) : x[1] = b
    BY DEF Reads, Writes
  <2>6. op \in {"LD", "IFETCH", "ST"}
    BY DEF Ops
  <2>7. req \in Reads(a) \/ req \in Writes(a)
    BY <2>6 DEF Reads, Writes
  <2> HIDE DEF req
  <2>8. ASSUME NEW b \in Addrs, b # a PROVE Waiting(d, asked \cup {req}, b)
    <3>1. /\ Reads(b) \cap (asked \cup {req}) = Reads(b) \cap asked
          /\ Writes(b) \cap (asked \cup {req}) = Writes(b) \cap asked
          /\ Reads(b) \cap d.mandatory = Reads(b) \cap c.mandatory
          /\ Writes(b) \cap d.mandatory = Writes(b) \cap c.mandatory
      BY <1>7, <2>3, <2>5, <2>8
    <3>2. L1State(d, b) = L1State(c, b) /\ Waiting(c, asked, b)
      BY <1>9, <2>1
    <3> QED BY <3>1, <3>2, WaitingIs
  <2>9. Waiting(d, asked \cup {req}, a)
    <3>1. Reads(a) \cap asked = {} /\ Writes(a) \cap asked = {}
      BY <1>3, <2>5
    <3>2. Awaits(L1State(c, a)) \notin {"read", "write"}
      BY <2>1, <3>1, WaitingIs
    <3>3. /\ ~(Reads(a) \cap (asked \cup {req}) # {} /\ Reads(a) \cap d.mandatory = {})
          /\ ~(Writes(a) \cap (asked \cup {req}) # {} /\ Writes(a) \cap d.mandatory = {})
      BY <1>7, <2>7, <3>1
    <3> QED BY <1>9, <3>2, <3>3, WaitingIs
  <2> QED BY <1>7, <2>2, <2>4, <2>8, <2>9 DEF Placed
<1>11. /\ l1' \in [Procs -> L1Controller] /\ outstanding' \in [Procs -> SUBSET (Addrs \X Ops)]
       /\ \A q \in Procs : L1Sound(l1'[q]) /\ Placed(l1'[q], outstanding'[q])
  <2>1. asked \in SUBSET (Addrs \X Ops)
    BY <1>2
  <2>2. asked \cup {req} \in SUBSET (Addrs \X Ops)
    BY <1>4, <2>1
  <2> HIDE DEF req
  <2>3. l1' \in [Procs -> L1Controller] /\ outstanding' \in [Procs -> SUBSET (Addrs \X Ops)]
    BY <1>2, <1>3, <1>7, <2>2
  <2> QED BY <1>2, <1>3, <1>8, <1>10, <2>3
<1>12. Sounds' /\ RequestsPlaced'
  BY <1>1, <1>3, <1>11 DEF Sounds, RequestsPlaced
<1>13. OpsCounted'
  BY <1>1, <1>3 DEF OpsCounted, Bagged, OneOp
<1> QED BY <1>12, <1>13 DEF CoherenceInv

-----------------------------------------------------------------------------
(* What an action of the L2 does.                                          *)

(* Its transitions, too, run the actions of a row one after the other.     *)
L2Runs(run, c, a, m, acts) ==
    /\ run[0] = L2Run(c)
    /\ \A k \in 1 .. Len(acts) : run[k] = L2Act(a, m, run[k - 1], acts[k])

(* The run of a row is the recursive function of L2Do.                     *)
LEMMA L2Chain ==
    ASSUME NEW c, NEW a, NEW m, NEW ev, NEW row, row = L2Transition(L2State(c, a), ev),
           Len(row.acts) \in Nat
    PROVE  \E run : /\ L2Runs(run, c, a, m, row.acts)
                    /\ L2Do(c, a, m, ev) =
                         [run[Len(row.acts)] EXCEPT
                            !.c = L2SetState(run[Len(row.acts)].c, a, row.next)]
<1> DEFINE acts == row.acts
           Next1(g, k) == IF k = 0 THEN L2Run(c) ELSE L2Act(a, m, g[k - 1], acts[k])
           Is(g, n) == g = [k \in 0 .. n |-> Next1(g, k)]
           S == {n \in Nat : \E g : Is(g, n)}
<1>1. 0 \in S
  <2> DEFINE g == [k \in 0 .. 0 |-> L2Run(c)]
  <2>1. g = [k \in 0 .. 0 |-> Next1(g, k)]
    OBVIOUS
  <2> QED BY <2>1
<1>2. ASSUME NEW n \in Nat, n \in S PROVE n + 1 \in S
  <2>1. PICK g : g = [k \in 0 .. n |-> Next1(g, k)]
    BY <1>2
  <2> DEFINE h == [k \in 0 .. n + 1 |-> IF k = n + 1 THEN L2Act(a, m, g[n], acts[n + 1])
                                        ELSE g[k]]
  <2>2. ASSUME NEW k \in 0 .. n + 1 PROVE h[k] = Next1(h, k)
    <3>1. CASE k = n + 1
      <4>1. h[k] = L2Act(a, m, g[n], acts[n + 1]) /\ h[k - 1] = g[n] /\ k # 0
        BY <3>1
      <4> QED BY <3>1, <4>1
    <3>2. CASE k # n + 1
      <4>1. k \in 0 .. n /\ h[k] = g[k]
        BY <3>2
      <4>2. g[k] = Next1(g, k)
        BY <2>1, <4>1
      <4>3. k # 0 => h[k - 1] = g[k - 1]
        BY <4>1
      <4> QED BY <4>1, <4>2, <4>3
    <3> QED BY <3>1, <3>2
  <2>3. h = [k \in 0 .. n + 1 |-> Next1(h, k)]
    <3>1. h = [k \in 0 .. n + 1 |-> h[k]]
      OBVIOUS
    <3> HIDE DEF h, Next1
    <3> QED BY <2>2, <3>1
  <2> HIDE DEF h
  <2> QED BY <2>3
<1>3. \E g : Is(g, Len(acts))
  <2>1. \A k \in 0 .. Len(acts) - 1 : k \in S => k + 1 \in S
    BY <1>2
  <2>2. Len(acts) \in Nat /\ Len(acts) \in 0 .. Len(acts)
    OBVIOUS
  <2> HIDE DEF S, acts
  <2>3. \A k \in 0 .. Len(acts) : k \in S
    BY <1>1, <2>1, <2>2, UpTo
  <2> QED BY <2>2, <2>3 DEF S
<1> DEFINE run == CHOOSE g : Is(g, Len(acts))
<1>4. Is(run, Len(acts))
  BY <1>3
<1>5. L2Do(c, a, m, ev) = [run[Len(acts)] EXCEPT !.c = L2SetState(run[Len(acts)].c, a, row.next)]
  BY DEF L2Do
<1> HIDE DEF run
<1>6. run[0] = L2Run(c)
  BY <1>4
<1>7. ASSUME NEW k \in 1 .. Len(acts) PROVE run[k] = L2Act(a, m, run[k - 1], acts[k])
  BY <1>4
<1> QED BY <1>5, <1>6, <1>7 DEF L2Runs

(* The actions that turn to memory, and the other actions that send.       *)
L2Fetches ==
    {"a_issueFetchToMemory", "c_exclusiveReplacement", "c_exclusiveCleanReplacement",
     "ct_exclusiveReplacementFromTBE"}

L2Sends ==
    {"b_forwardRequestToExclusive", "d_sendDataToRequestor", "dd_sendExclusiveDataToRequestor",
     "ds_sendSharedDataToRequestor", "e_sendDataToGetSRequestors",
     "ex_sendExclusiveDataToGetSRequestors", "ee_sendDataToGetXRequestor", "f_sendInvToSharers",
     "fwm_sendFwdInvToSharersMinusRequestor", "t_sendWBAck", "ts_sendInvAckToUpgrader"}

L2Pops == {"jj_popL1RequestQueue", "k_popUnblockQueue", "o_popIncomingResponseQueue"}

(* What changes the line's entry, and what changes its TBE.                *)
L2OnEntry ==
    {"m_writeDataToCache", "mr_writeDataToCacheFromRequest", "nn_addSharer",
     "nnu_addSharerFromUnblock", "ll_clearSharers", "mmu_markExclusiveFromUnblock"}

L2OnTBE ==
    {"i_allocateTBE", "s_deallocateTBE", "q_updateAck", "qq_writeDataToTBE", "ss_recordGetSL1ID",
     "xx_recordGetXL1ID"}

L2OnTags == {"qq_allocateL2CacheBlock", "rr_deallocateL2CacheBlock"}

L2Acts == L2Fetches \cup L2Sends \cup L2Pops \cup L2OnEntry \cup L2OnTBE \cup L2OnTags

(* The actions that use who sent the message.                              *)
PeerActs ==
    {"b_forwardRequestToExclusive", "d_sendDataToRequestor", "dd_sendExclusiveDataToRequestor",
     "ds_sendSharedDataToRequestor", "fwm_sendFwdInvToSharersMinusRequestor", "t_sendWBAck",
     "ts_sendInvAckToUpgrader", "ss_recordGetSL1ID", "xx_recordGetXL1ID", "nn_addSharer",
     "nnu_addSharerFromUnblock", "mmu_markExclusiveFromUnblock"}

(* What the L2 sends about line a.                                         *)
L2Out(a) == {x \in Message : Sound(x) /\ x.addr = a /\ x.peer # Dir /\ x.dest # L2}

L2RunT(a) == [c : L2Controller, out : SUBSET L2Out(a), pop : BOOLEAN]

(* What an action needs of the message and of the line.                    *)
L2Fits(r, a, m, act) ==
    /\ act \in PeerActs => m.peer \in Procs
    /\ act = "b_forwardRequestToExclusive" =>
         m.type \in Requests /\ r.c.entry[a].exclusive \in Procs
    /\ act = "ee_sendDataToGetXRequestor" => r.c.tbe[a].getX \in Procs

ToDir(out) == {x \in out : x.dest = Dir}

(* An action changes nothing but line a, and of it only what it is named   *)
(* for.                                                                    *)
L2Does(r, t, a, m, act) ==
    /\ \A b \in Addrs \ {a} : /\ t.c.tbe[b] = r.c.tbe[b] /\ t.c.entry[b] = r.c.entry[b]
                              /\ b \in t.c.tags <=> b \in r.c.tags
    /\ act # "qq_allocateL2CacheBlock" => t.c.tags \subseteq r.c.tags
    /\ act # "rr_deallocateL2CacheBlock" => r.c.tags \subseteq t.c.tags
    /\ t.c.tbe[a].state = IF act = "i_allocateTBE" THEN "NP"
                          ELSE IF act = "s_deallocateTBE" THEN "none" ELSE r.c.tbe[a].state
    /\ act \notin {"i_allocateTBE", "s_deallocateTBE"} =>
         t.c.tbe[a].getX = IF act = "xx_recordGetXL1ID" THEN m.peer ELSE r.c.tbe[a].getX
    /\ act # "rr_deallocateL2CacheBlock" =>
         t.c.entry[a].exclusive = IF act = "mmu_markExclusiveFromUnblock" THEN m.peer
                                  ELSE r.c.entry[a].exclusive
    /\ act \notin L2Fetches => ToDir(t.out) = ToDir(r.out)
    /\ act \in L2Fetches => \E x : ToDir(t.out) = ToDir(r.out) \cup {x}
    /\ t.pop <=> r.pop \/ act \in L2Pops

(* A message of the L2, with or without data, is one of those.             *)
LEMMA L2Messages ==
    ASSUME NEW a \in Addrs
    PROVE  /\ \A peer \in Procs \cup {L2}, dest \in Procs : RequestMsg("INV", a, peer, dest) \in L2Out(a)
           /\ \A type \in Requests, peer \in Procs, dest \in Procs :
                RequestMsg(type, a, peer, dest) \in L2Out(a)
           /\ RequestMsg("GETS", a, L2, Dir) \in L2Out(a)
           /\ \A type \in Responses, dest \in Procs \cup {Dir}, acks \in Int :
                ResponseMsg(type, a, L2, dest, acks) \in L2Out(a)
           /\ \A x \in L2Out(a) : \A block : block.data \in Blocks /\ block.dirty \in BOOLEAN =>
                WithData(x, block) \in L2Out(a) /\ WithData(x, block).dest = x.dest
           /\ \A type, peer, dest : RequestMsg(type, a, peer, dest).dest = dest
           /\ \A type, peer, dest, acks : ResponseMsg(type, a, peer, dest, acks).dest = dest
<1>1. L2 # Dir /\ L2 \notin Procs /\ Dir \notin Procs
  BY CoherenceAssumption DEF L2, Dir
<1>2. "unset" \in Blocks /\ FALSE \in BOOLEAN /\ 0 \in Int
  BY DEF Blocks
<1>3. ASSUME NEW type \in Requests, NEW peer \in Procs \cup {L2}, NEW dest \in Procs,
             type = "INV" \/ peer \in Procs
      PROVE  RequestMsg(type, a, peer, dest) \in L2Out(a)
  <2> DEFINE x == RequestMsg(type, a, peer, dest)
  <2>1. /\ x \in Message /\ x.dest = dest /\ x.peer = peer /\ x.addr = a /\ x.type = type
    BY <1>2 DEF RequestMsg, Message
  <2> HIDE DEF x
  <2>2. Sound(x)
    BY <1>1, <1>3, <2>1 DEF Sound
  <2> QED BY <1>1, <2>1, <2>2 DEF L2Out, x
<1>4. "INV" \in Requests
  BY DEF Requests
<1>5. RequestMsg("GETS", a, L2, Dir) \in L2Out(a)
  <2> DEFINE x == RequestMsg("GETS", a, L2, Dir)
  <2>1. /\ x \in Message /\ x.dest = Dir /\ x.peer = L2 /\ x.addr = a /\ x.type = "GETS"
    BY <1>2 DEF RequestMsg, Message, Requests
  <2> HIDE DEF x
  <2>2. Sound(x)
    BY <1>1, <2>1 DEF Sound
  <2> QED BY <1>1, <2>1, <2>2 DEF L2Out, x
<1>6. ASSUME NEW type \in Responses, NEW dest \in Procs \cup {Dir}, NEW acks \in Int
      PROVE  ResponseMsg(type, a, L2, dest, acks) \in L2Out(a)
  <2> DEFINE x == ResponseMsg(type, a, L2, dest, acks)
  <2>1. /\ x \in Message /\ x.dest = dest /\ x.peer = L2 /\ x.addr = a /\ x.type = type
    BY <1>2 DEF ResponseMsg, Message
  <2> HIDE DEF x
  <2>2. type \notin Requests /\ type \notin Unblocks
    BY DEF Requests, Responses, Unblocks
  <2>3. Sound(x)
    BY <1>1, <2>1, <2>2 DEF Sound, Requests
  <2> QED BY <1>1, <2>1, <2>3 DEF L2Out, x
<1>7. ASSUME NEW x \in L2Out(a), NEW block, block.data \in Blocks, block.dirty \in BOOLEAN
      PROVE  WithData(x, block) \in L2Out(a) /\ WithData(x, block).dest = x.dest
  <2> DEFINE y == WithData(x, block)
  <2>1. /\ y \in Message /\ y.dest = x.dest /\ y.peer = x.peer /\ y.addr = x.addr
        /\ y.type = x.type
    BY <1>7 DEF WithData, L2Out, Message
  <2> HIDE DEF y
  <2>2. Sound(y)
    BY <2>1 DEF Sound, L2Out
  <2> QED BY <2>1, <2>2 DEF L2Out, y
<1>8. /\ \A type, peer, dest : RequestMsg(type, a, peer, dest).dest = dest
      /\ \A type, peer, dest, acks : ResponseMsg(type, a, peer, dest, acks).dest = dest
  BY DEF RequestMsg, ResponseMsg
<1> QED BY <1>3, <1>4, <1>5, <1>6, <1>7, <1>8

(* What a sending action sends.                                            *)
LEMMA L2SendDoes ==
    ASSUME NEW a \in Addrs, NEW m \in Message, NEW r \in L2RunT(a),
           NEW act \in L2Fetches \cup L2Sends, L2Fits(r, a, m, act)
    PROVE  \E X \in SUBSET L2Out(a) :
             /\ L2Act(a, m, r, act) = L2Send(r, X)
             /\ act \in L2Fetches => \E x : X = {x} /\ x.dest = Dir
             /\ act \in L2Sends => \A x \in X : x.dest # Dir
<1>1. /\ r.c.entry[a].data \in Blocks /\ r.c.entry[a].dirty \in BOOLEAN
      /\ r.c.tbe[a].data \in Blocks /\ r.c.tbe[a].dirty \in BOOLEAN
      /\ r.c.tbe[a].getS \in SUBSET Procs /\ r.c.entry[a].sharers \in SUBSET Procs
  BY DEF L2RunT, L2Controller, L2Entry, L2TBE
<1>2. Dir \notin Procs
  BY CoherenceAssumption
<1>3. \A S \in SUBSET Procs : Cardinality(S) \in Nat
  BY CoherenceAssumption, FS_Subset, FS_CardinalityType
<1>4. act \in L2Fetches => act \notin L2Sends
  BY DEF L2Fetches, L2Sends
<1> DEFINE entry == r.c.entry[a]
           tbe == r.c.tbe[a]
           n == -Cardinality(entry.sharers \ {m.peer})
<1>5. entry.sharers \ {m.peer} \in SUBSET Procs /\ n \in Int /\ 0 \in Int
  BY <1>1, <1>3
<1>6. ASSUME NEW type \in {"DATA", "DATA_EXCLUSIVE"}, NEW dests \in SUBSET Procs, NEW acks \in Int
      PROVE  /\ {WithData(ResponseMsg(type, a, L2, d, acks), entry) : d \in dests} \in SUBSET L2Out(a)
             /\ \A x \in {WithData(ResponseMsg(type, a, L2, d, acks), entry) : d \in dests} :
                  x.dest # Dir
  <2>1. type \in Responses
    BY DEF Responses
  <2>2. ASSUME NEW d \in dests
        PROVE  /\ WithData(ResponseMsg(type, a, L2, d, acks), entry) \in L2Out(a)
               /\ WithData(ResponseMsg(type, a, L2, d, acks), entry).dest = d
    <3>1. ResponseMsg(type, a, L2, d, acks) \in L2Out(a) /\ ResponseMsg(type, a, L2, d, acks).dest = d
      BY <2>1, L2Messages
    <3> HIDE DEF entry
    <3> QED BY <1>1, <3>1, L2Messages DEF entry
  <2> HIDE DEF entry
  <2> QED BY <1>2, <2>2
<1>7. ASSUME NEW peer \in Procs \cup {L2}, NEW dests \in SUBSET Procs
      PROVE  /\ {RequestMsg("INV", a, peer, d) : d \in dests} \in SUBSET L2Out(a)
             /\ \A x \in {RequestMsg("INV", a, peer, d) : d \in dests} : x.dest # Dir
  <2>1. ASSUME NEW d \in dests
        PROVE  RequestMsg("INV", a, peer, d) \in L2Out(a) /\ RequestMsg("INV", a, peer, d).dest = d
    BY L2Messages
  <2> QED BY <1>2, <2>1
<1>8. ASSUME NEW x \in L2Out(a), x.dest = Dir, act \in L2Fetches,
             L2Act(a, m, r, act) = L2Send(r, {x})
      PROVE  \E X \in SUBSET L2Out(a) :
               /\ L2Act(a, m, r, act) = L2Send(r, X)
               /\ act \in L2Fetches => \E y : X = {y} /\ y.dest = Dir
               /\ act \in L2Sends => \A y \in X : y.dest # Dir
  <2>1. {x} \in SUBSET L2Out(a)
    OBVIOUS
  <2> QED BY <1>4, <1>8, <2>1
<1>9. ASSUME NEW X \in SUBSET L2Out(a), \A x \in X : x.dest # Dir, act \in L2Sends,
             L2Act(a, m, r, act) = L2Send(r, X)
      PROVE  \E Y \in SUBSET L2Out(a) :
               /\ L2Act(a, m, r, act) = L2Send(r, Y)
               /\ act \in L2Fetches => \E y : Y = {y} /\ y.dest = Dir
               /\ act \in L2Sends => \A y \in Y : y.dest # Dir
  BY <1>4, <1>9
<1>10. CASE act = "a_issueFetchToMemory"
  <2>1. L2Act(a, m, r, act) = L2Send(r, {RequestMsg("GETS", a, L2, Dir)})
    BY <1>10 DEF L2Act
  <2>2. RequestMsg("GETS", a, L2, Dir) \in L2Out(a) /\ RequestMsg("GETS", a, L2, Dir).dest = Dir
    BY L2Messages
  <2>3. act \in L2Fetches
    BY <1>10 DEF L2Fetches
  <2> QED BY <1>8, <2>1, <2>2, <2>3
<1>11. CASE act = "c_exclusiveReplacement"
  <2> DEFINE x == WithData(ResponseMsg("MEMORY_DATA", a, L2, Dir, 0), entry)
  <2>1. L2Act(a, m, r, act) = L2Send(r, {x})
    BY <1>11 DEF L2Act
  <2>2. x \in L2Out(a) /\ x.dest = Dir
    <3>1. /\ ResponseMsg("MEMORY_DATA", a, L2, Dir, 0) \in L2Out(a)
          /\ ResponseMsg("MEMORY_DATA", a, L2, Dir, 0).dest = Dir
      BY L2Messages DEF Responses
    <3> QED BY <1>1, <3>1, L2Messages
  <2>3. act \in L2Fetches
    BY <1>11 DEF L2Fetches
  <2> QED BY <1>8, <2>1, <2>2, <2>3
<1>12. CASE act = "c_exclusiveCleanReplacement"
  <2> DEFINE x == ResponseMsg("ACK", a, L2, Dir, 0)
  <2>1. L2Act(a, m, r, act) = L2Send(r, {x})
    BY <1>12 DEF L2Act
  <2>2. x \in L2Out(a) /\ x.dest = Dir
    <3>1. "ACK" \in Responses /\ Dir \in Procs \cup {Dir} /\ 0 \in Int
      BY DEF Responses
    <3>2. \A type \in Responses, dest \in Procs \cup {Dir}, acks \in Int :
            ResponseMsg(type, a, L2, dest, acks) \in L2Out(a)
      BY L2Messages
    <3>3. x.dest = Dir
      BY DEF ResponseMsg
    <3> QED BY <3>1, <3>2, <3>3
  <2>3. act \in L2Fetches
    BY <1>12 DEF L2Fetches
  <2> QED BY <1>8, <2>1, <2>2, <2>3
<1>13. CASE act = "ct_exclusiveReplacementFromTBE"
  <2> DEFINE x == WithData(ResponseMsg("MEMORY_DATA", a, L2, Dir, 0), tbe)
  <2>1. L2Act(a, m, r, act) = L2Send(r, {x})
    BY <1>13 DEF L2Act
  <2>2. x \in L2Out(a) /\ x.dest = Dir
    <3>1. /\ ResponseMsg("MEMORY_DATA", a, L2, Dir, 0) \in L2Out(a)
          /\ ResponseMsg("MEMORY_DATA", a, L2, Dir, 0).dest = Dir
      BY L2Messages DEF Responses
    <3> QED BY <1>1, <3>1, L2Messages
  <2>3. act \in L2Fetches
    BY <1>13 DEF L2Fetches
  <2> QED BY <1>8, <2>1, <2>2, <2>3
<1>14. CASE act = "b_forwardRequestToExclusive"
  <2> DEFINE x == RequestMsg(m.type, a, m.peer, entry.exclusive)
  <2>1. L2Act(a, m, r, act) = L2Send(r, {x})
    BY <1>14 DEF L2Act
  <2>2. m.type \in Requests /\ m.peer \in Procs /\ entry.exclusive \in Procs
    BY <1>14 DEF L2Fits, PeerActs
  <2>3. x \in L2Out(a) /\ x.dest = entry.exclusive
    <3> HIDE DEF entry
    <3> QED BY <2>2, L2Messages
  <2>4. {x} \in SUBSET L2Out(a) /\ \A y \in {x} : y.dest # Dir
    BY <1>2, <2>2, <2>3
  <2>5. act \in L2Sends
    BY <1>14 DEF L2Sends
  <2> HIDE DEF x
  <2> QED BY <1>9, <2>1, <2>4, <2>5
<1>15. CASE act = "d_sendDataToRequestor"
  <2> DEFINE X == {WithData(ResponseMsg("DATA", a, L2, d, n), entry) : d \in {m.peer}}
  <2>1. L2Act(a, m, r, act) = L2Send(r, X)
    BY <1>15 DEF L2Act
  <2>2. {m.peer} \in SUBSET Procs
    BY <1>15 DEF L2Fits, PeerActs
  <2>3. act \in L2Sends
    BY <1>15 DEF L2Sends
  <2> HIDE DEF entry, tbe, n
  <2>4. X \in SUBSET L2Out(a) /\ \A x \in X : x.dest # Dir
    BY <1>5, <1>6, <2>2
  <2> HIDE DEF X
  <2> QED BY <1>9, <2>1, <2>3, <2>4
<1>16. CASE act = "dd_sendExclusiveDataToRequestor"
  <2> DEFINE X == {WithData(ResponseMsg("DATA_EXCLUSIVE", a, L2, d, n), entry) : d \in {m.peer}}
  <2>1. L2Act(a, m, r, act) = L2Send(r, X)
    BY <1>16 DEF L2Act
  <2>2. {m.peer} \in SUBSET Procs
    BY <1>16 DEF L2Fits, PeerActs
  <2>3. act \in L2Sends
    BY <1>16 DEF L2Sends
  <2> HIDE DEF entry, tbe, n
  <2>4. X \in SUBSET L2Out(a) /\ \A x \in X : x.dest # Dir
    BY <1>5, <1>6, <2>2
  <2> HIDE DEF X
  <2> QED BY <1>9, <2>1, <2>3, <2>4
<1>17. CASE act = "ds_sendSharedDataToRequestor"
  <2> DEFINE X == {WithData(ResponseMsg("DATA", a, L2, d, 0), entry) : d \in {m.peer}}
  <2>1. L2Act(a, m, r, act) = L2Send(r, X)
    BY <1>17 DEF L2Act
  <2>2. {m.peer} \in SUBSET Procs
    BY <1>17 DEF L2Fits, PeerActs
  <2>3. act \in L2Sends
    BY <1>17 DEF L2Sends
  <2> HIDE DEF entry, tbe, n
  <2>4. X \in SUBSET L2Out(a) /\ \A x \in X : x.dest # Dir
    BY <1>5, <1>6, <2>2
  <2> HIDE DEF X
  <2> QED BY <1>9, <2>1, <2>3, <2>4
<1>18. CASE act = "e_sendDataToGetSRequestors"
  <2> DEFINE X == {WithData(ResponseMsg("DATA", a, L2, d, 0), entry) : d \in tbe.getS}
  <2>1. L2Act(a, m, r, act) = L2Send(r, X)
    BY <1>18 DEF L2Act
  <2>2. tbe.getS \in SUBSET Procs
    BY <1>1
  <2>3. act \in L2Sends
    BY <1>18 DEF L2Sends
  <2> HIDE DEF entry, tbe, n
  <2>4. X \in SUBSET L2Out(a) /\ \A x \in X : x.dest # Dir
    BY <1>5, <1>6, <2>2
  <2> HIDE DEF X
  <2> QED BY <1>9, <2>1, <2>3, <2>4
<1>19. CASE act = "ex_sendExclusiveDataToGetSRequestors"
  <2> DEFINE X == {WithData(ResponseMsg("DATA_EXCLUSIVE", a, L2, d, 0), entry) : d \in tbe.getS}
  <2>1. L2Act(a, m, r, act) = L2Send(r, X)
    BY <1>19 DEF L2Act
  <2>2. tbe.getS \in SUBSET Procs
    BY <1>1
  <2>3. act \in L2Sends
    BY <1>19 DEF L2Sends
  <2> HIDE DEF entry, tbe, n
  <2>4. X \in SUBSET L2Out(a) /\ \A x \in X : x.dest # Dir
    BY <1>5, <1>6, <2>2
  <2> HIDE DEF X
  <2> QED BY <1>9, <2>1, <2>3, <2>4
<1>20. CASE act = "ee_sendDataToGetXRequestor"
  <2> DEFINE X == {WithData(ResponseMsg("DATA", a, L2, d, 0), entry) : d \in {tbe.getX}}
  <2>1. L2Act(a, m, r, act) = L2Send(r, X)
    BY <1>20 DEF L2Act
  <2>2. {tbe.getX} \in SUBSET Procs
    BY <1>20 DEF L2Fits, PeerActs
  <2>3. act \in L2Sends
    BY <1>20 DEF L2Sends
  <2> HIDE DEF entry, tbe, n
  <2>4. X \in SUBSET L2Out(a) /\ \A x \in X : x.dest # Dir
    BY <1>5, <1>6, <2>2
  <2> HIDE DEF X
  <2> QED BY <1>9, <2>1, <2>3, <2>4
<1>21. CASE act = "f_sendInvToSharers"
  <2> DEFINE X == {RequestMsg("INV", a, L2, d) : d \in entry.sharers}
  <2>1. L2Act(a, m, r, act) = L2Send(r, X)
    BY <1>21 DEF L2Act
  <2>2. L2 \in Procs \cup {L2}
    OBVIOUS
  <2>3. act \in L2Sends
    BY <1>21 DEF L2Sends
  <2>4. entry.sharers \in SUBSET Procs
    BY <1>1, <1>5
  <2>5. X \in SUBSET L2Out(a) /\ \A x \in X : x.dest # Dir
    <3> HIDE DEF entry
    <3> QED BY <1>7, <2>2, <2>4
  <2> HIDE DEF X
  <2> QED BY <1>9, <2>1, <2>3, <2>5
<1>22. CASE act = "fwm_sendFwdInvToSharersMinusRequestor"
  <2> DEFINE X == {RequestMsg("INV", a, m.peer, d) : d \in entry.sharers \ {m.peer}}
  <2>1. L2Act(a, m, r, act) = L2Send(r, X)
    BY <1>22 DEF L2Act
  <2>2. m.peer \in Procs \cup {L2}
    BY <1>22 DEF L2Fits, PeerActs
  <2>3. act \in L2Sends
    BY <1>22 DEF L2Sends
  <2>4. entry.sharers \ {m.peer} \in SUBSET Procs
    BY <1>1, <1>5
  <2>5. X \in SUBSET L2Out(a) /\ \A x \in X : x.dest # Dir
    <3> HIDE DEF entry
    <3> QED BY <1>7, <2>2, <2>4
  <2> HIDE DEF X
  <2> QED BY <1>9, <2>1, <2>3, <2>5
<1>23. CASE act = "t_sendWBAck"
  <2> DEFINE x == ResponseMsg("WB_ACK", a, L2, m.peer, 0)
  <2>1. L2Act(a, m, r, act) = L2Send(r, {x})
    BY <1>23 DEF L2Act
  <2>2. m.peer \in Procs
    BY <1>23 DEF L2Fits, PeerActs
  <2>3. 0 \in Int /\ "WB_ACK" \in Responses
    BY <1>1, <1>3 DEF Responses
  <2>4. x \in L2Out(a) /\ x.dest = m.peer
    <3> HIDE DEF entry
    <3> QED BY <2>2, <2>3, L2Messages
  <2>5. {x} \in SUBSET L2Out(a) /\ \A y \in {x} : y.dest # Dir
    BY <1>2, <2>2, <2>4
  <2>6. act \in L2Sends
    BY <1>23 DEF L2Sends
  <2> HIDE DEF x
  <2> QED BY <1>9, <2>1, <2>5, <2>6
<1>24. CASE act = "ts_sendInvAckToUpgrader"
  <2> DEFINE x == ResponseMsg("ACK", a, L2, m.peer, 1 - Cardinality(entry.sharers))
  <2>1. L2Act(a, m, r, act) = L2Send(r, {x})
    BY <1>24 DEF L2Act
  <2>2. m.peer \in Procs
    BY <1>24 DEF L2Fits, PeerActs
  <2>3. 1 - Cardinality(entry.sharers) \in Int /\ "ACK" \in Responses
    BY <1>1, <1>3 DEF Responses
  <2>4. x \in L2Out(a) /\ x.dest = m.peer
    <3> HIDE DEF entry
    <3> QED BY <2>2, <2>3, L2Messages
  <2>5. {x} \in SUBSET L2Out(a) /\ \A y \in {x} : y.dest # Dir
    BY <1>2, <2>2, <2>4
  <2>6. act \in L2Sends
    BY <1>24 DEF L2Sends
  <2> HIDE DEF x
  <2> QED BY <1>9, <2>1, <2>5, <2>6
<1> QED
  BY <1>10, <1>11, <1>12, <1>13, <1>14, <1>15, <1>16, <1>17, <1>18, <1>19, <1>20, <1>21, <1>22, <1>23, <1>24
  DEF L2Fetches, L2Sends

(* What an action of the L2 does.                                          *)
LEMMA L2ActionDoes ==
    ASSUME NEW a \in Addrs, NEW m \in Message, NEW r \in L2RunT(a),
           NEW act \in L2Acts, L2Fits(r, a, m, act)
    PROVE  /\ L2Act(a, m, r, act) \in L2RunT(a)
           /\ L2Does(r, L2Act(a, m, r, act), a, m, act)
<1> DEFINE t == L2Act(a, m, r, act)
<1>r. r.c \in L2Controller /\ r.out \in SUBSET L2Out(a) /\ r.pop \in BOOLEAN
  BY DEF L2RunT
<1>e. /\ r.c.entry \in [Addrs -> L2Entry] /\ r.c.entry[a] \in L2Entry
      /\ r.c.tbe \in [Addrs -> L2TBE] /\ r.c.tbe[a] \in L2TBE
      /\ r.c.tags \in SUBSET Addrs
  BY <1>r DEF L2Controller
<1>m. /\ m.data \in Blocks /\ m.dirty \in BOOLEAN /\ m.acks \in Int
  BY DEF Message
<1>1. CASE act \in L2Fetches \cup L2Sends
  <2>1. PICK X \in SUBSET L2Out(a) :
          /\ t = L2Send(r, X)
          /\ act \in L2Fetches => \E x : X = {x} /\ x.dest = Dir
          /\ act \in L2Sends => \A x \in X : x.dest # Dir
    BY <1>1, L2SendDoes
  <2>2. t = [r EXCEPT !.out = r.out \cup X]
    BY <2>1 DEF L2Send
  <2>3. t \in L2RunT(a) /\ t.c = r.c /\ t.pop = r.pop /\ t.out = r.out \cup X
    BY <1>r, <2>2 DEF L2RunT
  <2> HIDE DEF t
  <2>4. /\ act \notin L2Fetches => ToDir(t.out) = ToDir(r.out)
        /\ act \in L2Fetches => \E x : ToDir(t.out) = ToDir(r.out) \cup {x}
    BY <1>1, <2>1, <2>3 DEF ToDir
  <2>5. act \notin L2Pops \cup L2OnEntry \cup L2OnTBE \cup L2OnTags
    BY <1>1 DEF L2Fetches, L2Sends, L2Pops, L2OnEntry, L2OnTBE, L2OnTags
  <2> QED BY <2>3, <2>4, <2>5 DEF L2Does, L2Pops, L2OnEntry, L2OnTBE, L2OnTags, t
<1>2. CASE act \in L2Pops
  <2>1. t = [r EXCEPT !.pop = TRUE]
    BY <1>2 DEF L2Act, L2Pops
  <2>2. t \in L2RunT(a) /\ t.c = r.c /\ t.pop = TRUE /\ t.out = r.out
    BY <1>r, <2>1 DEF L2RunT
  <2> HIDE DEF t
  <2> QED BY <1>2, <2>2 DEF L2Does, L2Pops, L2Fetches, t
<1>3. ASSUME NEW d \in L2Controller, t = [r EXCEPT !.c = d]
      PROVE  t \in L2RunT(a) /\ t.c = d /\ t.out = r.out /\ t.pop = r.pop
  BY <1>r, <1>3 DEF L2RunT
<1>4. CASE act \in L2OnEntry
  <2> DEFINE ent == CASE act \in {"m_writeDataToCache", "mr_writeDataToCacheFromRequest"} ->
                           [r.c.entry[a] EXCEPT !.data = m.data, !.dirty = m.dirty]
                      [] act \in {"nn_addSharer", "nnu_addSharerFromUnblock"} ->
                           [r.c.entry[a] EXCEPT !.sharers = r.c.entry[a].sharers \cup {m.peer}]
                      [] act = "ll_clearSharers" -> [r.c.entry[a] EXCEPT !.sharers = {}]
                      [] act = "mmu_markExclusiveFromUnblock" ->
                           [r.c.entry[a] EXCEPT !.sharers = {m.peer}, !.exclusive = m.peer]
             en == [r.c.entry EXCEPT ![a] = ent]
             d == [r.c EXCEPT !.entry = en]
  <2>1. t = [r EXCEPT !.c = d]
    <3>1. CASE act \in {"m_writeDataToCache", "mr_writeDataToCacheFromRequest"}
      <4> DEFINE e1 == [r.c.entry[a] EXCEPT !.data = m.data]
                 n1 == [r.c.entry EXCEPT ![a] = e1]
                 c1 == [r.c EXCEPT !.entry = n1]
                 r1 == [r EXCEPT !.c = c1]
      <4>1. t = [r1 EXCEPT !.c = [r1.c EXCEPT !.entry = [r1.c.entry EXCEPT ![a] =
                   [r1.c.entry[a] EXCEPT !.dirty = m.dirty]]]]
        BY <3>1 DEF L2Act
      <4>2. r1.c = c1 /\ c1.entry = n1 /\ n1[a] = e1
        BY <1>r, <1>e DEF L2RunT, L2Controller
      <4>3. t = [r EXCEPT !.c = [c1 EXCEPT !.entry = [n1 EXCEPT ![a] = [e1 EXCEPT !.dirty = m.dirty]]]]
        <5> HIDE DEF c1, n1, e1
        <5> QED BY <4>1, <4>2, <1>r DEF L2RunT
      <4>4. [n1 EXCEPT ![a] = [e1 EXCEPT !.dirty = m.dirty]]
              = [r.c.entry EXCEPT ![a] = [e1 EXCEPT !.dirty = m.dirty]]
        <5> HIDE DEF e1
        <5> QED BY <1>e
      <4>5. \A n : [c1 EXCEPT !.entry = n] = [r.c EXCEPT !.entry = n]
        <5> HIDE DEF n1
        <5> QED BY <1>r DEF L2Controller
      <4>6. [e1 EXCEPT !.dirty = m.dirty] = [r.c.entry[a] EXCEPT !.data = m.data, !.dirty = m.dirty]
        OBVIOUS
      <4> HIDE DEF c1, n1, e1, r1
      <4> QED BY <3>1, <4>3, <4>4, <4>5, <4>6
    <3>2. CASE act \in {"nn_addSharer", "nnu_addSharerFromUnblock"}
      BY <3>2, <1>r, <1>e DEF L2Act, L2RunT, L2Controller
    <3>3. CASE act = "ll_clearSharers"
      BY <3>3, <1>r, <1>e DEF L2Act, L2RunT, L2Controller
    <3>4. CASE act = "mmu_markExclusiveFromUnblock"
      <4> DEFINE e1 == [r.c.entry[a] EXCEPT !.sharers = {m.peer}]
                 n1 == [r.c.entry EXCEPT ![a] = e1]
                 c1 == [r.c EXCEPT !.entry = n1]
                 r1 == [r EXCEPT !.c = c1]
      <4>1. t = [r1 EXCEPT !.c = [r1.c EXCEPT !.entry = [r1.c.entry EXCEPT ![a] =
                   [r1.c.entry[a] EXCEPT !.exclusive = m.peer]]]]
        BY <3>4 DEF L2Act
      <4>2. r1.c = c1 /\ c1.entry = n1 /\ n1[a] = e1
        BY <1>r, <1>e DEF L2RunT, L2Controller
      <4>3. t = [r EXCEPT !.c = [c1 EXCEPT !.entry = [n1 EXCEPT ![a] = [e1 EXCEPT !.exclusive = m.peer]]]]
        <5> HIDE DEF c1, n1, e1
        <5> QED BY <4>1, <4>2, <1>r DEF L2RunT
      <4>4. [n1 EXCEPT ![a] = [e1 EXCEPT !.exclusive = m.peer]]
              = [r.c.entry EXCEPT ![a] = [e1 EXCEPT !.exclusive = m.peer]]
        <5> HIDE DEF e1
        <5> QED BY <1>e
      <4>5. \A n : [c1 EXCEPT !.entry = n] = [r.c EXCEPT !.entry = n]
        <5> HIDE DEF n1
        <5> QED BY <1>r DEF L2Controller
      <4>6. [e1 EXCEPT !.exclusive = m.peer] = [r.c.entry[a] EXCEPT !.sharers = {m.peer}, !.exclusive = m.peer]
        OBVIOUS
      <4> HIDE DEF c1, n1, e1, r1
      <4> QED BY <3>4, <4>3, <4>4, <4>5, <4>6
    <3> QED BY <3>1, <3>2, <3>3, <3>4, <1>4 DEF L2OnEntry
  <2>2. /\ ent \in L2Entry
        /\ ent.exclusive = IF act = "mmu_markExclusiveFromUnblock" THEN m.peer
                           ELSE r.c.entry[a].exclusive
    <3>1. CASE act \in {"m_writeDataToCache", "mr_writeDataToCacheFromRequest"}
      BY <3>1, <1>e, <1>m DEF L2Entry
    <3>2. CASE act \in {"nn_addSharer", "nnu_addSharerFromUnblock"}
      <4>1. m.peer \in Procs
        BY <3>2 DEF L2Fits, PeerActs
      <4> QED BY <3>2, <4>1, <1>e DEF L2Entry
    <3>3. CASE act = "ll_clearSharers"
      BY <3>3, <1>e DEF L2Entry
    <3>4. CASE act = "mmu_markExclusiveFromUnblock"
      <4>1. m.peer \in Procs
        BY <3>4 DEF L2Fits, PeerActs
      <4> QED BY <3>4, <4>1, <1>e DEF L2Entry
    <3> QED BY <3>1, <3>2, <3>3, <3>4, <1>4 DEF L2OnEntry
  <2> HIDE DEF ent
  <2>3. en \in [Addrs -> L2Entry] /\ en[a] = ent /\ \A b \in Addrs \ {a} : en[b] = r.c.entry[b]
    BY <1>e, <2>2
  <2> HIDE DEF en
  <2>4. d \in L2Controller /\ d.entry = en /\ d.tbe = r.c.tbe /\ d.tags = r.c.tags
    BY <1>r, <2>3 DEF L2Controller
  <2> HIDE DEF d
  <2>5. t \in L2RunT(a) /\ t.c = d /\ t.out = r.out /\ t.pop = r.pop
    BY <1>3, <2>1, <2>4
  <2>6. act \notin L2Pops \cup L2Fetches \cup L2OnTBE \cup L2OnTags
    BY <1>4 DEF L2Fetches, L2Pops, L2OnEntry, L2OnTBE, L2OnTags
  <2> HIDE DEF t
  <2> QED BY <2>2, <2>3, <2>4, <2>5, <2>6 DEF L2Does, L2OnTBE, L2OnTags, t
<1>5. CASE act \in L2OnTBE
  <2> DEFINE tb == CASE act = "i_allocateTBE" ->
                          [state |-> "NP", data |-> r.c.entry[a].data,
                           dirty |-> r.c.entry[a].dirty, getS |-> {}, getX |-> NoProc,
                           pendingAcks |-> Cardinality(r.c.entry[a].sharers)]
                     [] act = "s_deallocateTBE" -> NoL2TBE
                     [] act = "q_updateAck" ->
                          [r.c.tbe[a] EXCEPT !.pendingAcks = r.c.tbe[a].pendingAcks - m.acks]
                     [] act = "qq_writeDataToTBE" ->
                          [r.c.tbe[a] EXCEPT !.data = m.data, !.dirty = m.dirty]
                     [] act = "ss_recordGetSL1ID" ->
                          [r.c.tbe[a] EXCEPT !.getS = r.c.tbe[a].getS \cup {m.peer}]
                     [] act = "xx_recordGetXL1ID" -> [r.c.tbe[a] EXCEPT !.getX = m.peer]
             en == [r.c.tbe EXCEPT ![a] = tb]
             d == [r.c EXCEPT !.tbe = en]
  <2>1. t = [r EXCEPT !.c = d]
    <3>1. CASE act = "i_allocateTBE"
      BY <3>1, <1>r, <1>e DEF L2Act, L2RunT, L2Controller
    <3>2. CASE act = "s_deallocateTBE"
      BY <3>2, <1>r, <1>e DEF L2Act, L2RunT, L2Controller
    <3>3. CASE act = "q_updateAck"
      BY <3>3, <1>r, <1>e DEF L2Act, L2RunT, L2Controller
    <3>4. CASE act = "qq_writeDataToTBE"
      <4> DEFINE e1 == [r.c.tbe[a] EXCEPT !.data = m.data]
                 n1 == [r.c.tbe EXCEPT ![a] = e1]
                 c1 == [r.c EXCEPT !.tbe = n1]
                 r1 == [r EXCEPT !.c = c1]
      <4>1. t = [r1 EXCEPT !.c = [r1.c EXCEPT !.tbe = [r1.c.tbe EXCEPT ![a] =
                   [r1.c.tbe[a] EXCEPT !.dirty = m.dirty]]]]
        BY <3>4 DEF L2Act
      <4>2. r1.c = c1 /\ c1.tbe = n1 /\ n1[a] = e1
        BY <1>r, <1>e DEF L2RunT, L2Controller
      <4>3. t = [r EXCEPT !.c = [c1 EXCEPT !.tbe = [n1 EXCEPT ![a] = [e1 EXCEPT !.dirty = m.dirty]]]]
        <5> HIDE DEF c1, n1, e1
        <5> QED BY <4>1, <4>2, <1>r DEF L2RunT
      <4>4. [n1 EXCEPT ![a] = [e1 EXCEPT !.dirty = m.dirty]]
              = [r.c.tbe EXCEPT ![a] = [e1 EXCEPT !.dirty = m.dirty]]
        <5> HIDE DEF e1
        <5> QED BY <1>e
      <4>5. \A n : [c1 EXCEPT !.tbe = n] = [r.c EXCEPT !.tbe = n]
        <5> HIDE DEF n1
        <5> QED BY <1>r DEF L2Controller
      <4>6. [e1 EXCEPT !.dirty = m.dirty] = [r.c.tbe[a] EXCEPT !.data = m.data, !.dirty = m.dirty]
        OBVIOUS
      <4> HIDE DEF c1, n1, e1, r1
      <4> QED BY <3>4, <4>3, <4>4, <4>5, <4>6
    <3>5. CASE act = "ss_recordGetSL1ID"
      BY <3>5, <1>r, <1>e DEF L2Act, L2RunT, L2Controller
    <3>6. CASE act = "xx_recordGetXL1ID"
      BY <3>6, <1>r, <1>e DEF L2Act, L2RunT, L2Controller
    <3> QED BY <3>1, <3>2, <3>3, <3>4, <3>5, <3>6, <1>5 DEF L2OnTBE
  <2>2. /\ tb \in L2TBE
        /\ tb.state = IF act = "i_allocateTBE" THEN "NP"
                      ELSE IF act = "s_deallocateTBE" THEN "none" ELSE r.c.tbe[a].state
        /\ act \notin {"i_allocateTBE", "s_deallocateTBE"} =>
             tb.getX = IF act = "xx_recordGetXL1ID" THEN m.peer ELSE r.c.tbe[a].getX
    <3>1. CASE act = "i_allocateTBE"
      <4>1. /\ r.c.entry[a].sharers \in SUBSET Procs /\ r.c.entry[a].data \in Blocks
            /\ r.c.entry[a].dirty \in BOOLEAN
        BY <1>e DEF L2Entry
      <4>2. Cardinality(r.c.entry[a].sharers) \in Int
        BY <4>1, CoherenceAssumption, FS_Subset, FS_CardinalityType
      <4> QED BY <3>1, <4>1, <4>2 DEF L2TBE, L2States
    <3>2. CASE act = "s_deallocateTBE"
      BY <3>2 DEF L2TBE, NoL2TBE, Blocks
    <3>3. CASE act = "q_updateAck"
      BY <3>3, <1>e, <1>m DEF L2TBE
    <3>4. CASE act = "qq_writeDataToTBE"
      BY <3>4, <1>e, <1>m DEF L2TBE
    <3>5. CASE act = "ss_recordGetSL1ID"
      <4>1. m.peer \in Procs
        BY <3>5 DEF L2Fits, PeerActs
      <4> QED BY <3>5, <4>1, <1>e DEF L2TBE
    <3>6. CASE act = "xx_recordGetXL1ID"
      <4>1. m.peer \in Procs
        BY <3>6 DEF L2Fits, PeerActs
      <4> QED BY <3>6, <4>1, <1>e DEF L2TBE
    <3> QED BY <3>1, <3>2, <3>3, <3>4, <3>5, <3>6, <1>5 DEF L2OnTBE
  <2> HIDE DEF tb
  <2>3. en \in [Addrs -> L2TBE] /\ en[a] = tb /\ \A b \in Addrs \ {a} : en[b] = r.c.tbe[b]
    BY <1>e, <2>2
  <2> HIDE DEF en
  <2>4. d \in L2Controller /\ d.entry = r.c.entry /\ d.tbe = en /\ d.tags = r.c.tags
    BY <1>r, <2>3 DEF L2Controller
  <2> HIDE DEF d
  <2>5. t \in L2RunT(a) /\ t.c = d /\ t.out = r.out /\ t.pop = r.pop
    BY <1>3, <2>1, <2>4
  <2>6. act \notin L2Pops \cup L2Fetches \cup L2OnEntry \cup L2OnTags
    BY <1>5 DEF L2Fetches, L2Pops, L2OnEntry, L2OnTBE, L2OnTags
  <2> HIDE DEF t
  <2> QED BY <2>2, <2>3, <2>4, <2>5, <2>6 DEF L2Does, L2OnEntry, L2OnTags, t
<1>6. CASE act \in L2OnTags
  <2> DEFINE en == IF act = "rr_deallocateL2CacheBlock"
                   THEN [r.c.entry EXCEPT ![a] = NewL2Entry] ELSE r.c.entry
             tg == IF act = "rr_deallocateL2CacheBlock" THEN r.c.tags \ {a}
                   ELSE r.c.tags \cup {a}
             d == [r.c EXCEPT !.entry = en, !.tags = tg]
  <2>1. NewL2Entry \in L2Entry
    BY DEF NewL2Entry, L2Entry, L2States, Blocks
  <2>2. /\ en \in [Addrs -> L2Entry] /\ \A b \in Addrs \ {a} : en[b] = r.c.entry[b]
        /\ act # "rr_deallocateL2CacheBlock" => en = r.c.entry
    BY <1>e, <2>1
  <2>3. /\ tg \in SUBSET Addrs /\ \A b \in Addrs \ {a} : b \in tg <=> b \in r.c.tags
        /\ act # "qq_allocateL2CacheBlock" => tg \subseteq r.c.tags
        /\ act # "rr_deallocateL2CacheBlock" => r.c.tags \subseteq tg
    BY <1>6, <1>e DEF L2OnTags
  <2>4. t = [r EXCEPT !.c = d]
    <3>1. CASE act = "rr_deallocateL2CacheBlock"
      BY <3>1, <1>r, <1>e DEF L2Act, L2RunT, L2Controller
    <3>2. CASE act = "qq_allocateL2CacheBlock"
      BY <3>2, <1>r, <1>e DEF L2Act, L2RunT, L2Controller
    <3> QED BY <3>1, <3>2, <1>6 DEF L2OnTags
  <2> HIDE DEF en, tg
  <2>5. d \in L2Controller /\ d.entry = en /\ d.tbe = r.c.tbe /\ d.tags = tg
    BY <1>r, <2>2, <2>3 DEF L2Controller
  <2> HIDE DEF d
  <2>6. t \in L2RunT(a) /\ t.c = d /\ t.out = r.out /\ t.pop = r.pop
    BY <1>3, <2>4, <2>5
  <2>7. act \notin L2Pops \cup L2Fetches \cup L2OnEntry \cup L2OnTBE
    BY <1>6 DEF L2Fetches, L2Pops, L2OnEntry, L2OnTBE, L2OnTags
  <2> HIDE DEF t
  <2> QED BY <2>2, <2>3, <2>5, <2>6, <2>7 DEF L2Does, L2OnEntry, L2OnTBE, t
<1> QED BY <1>1, <1>2, <1>4, <1>5, <1>6 DEF L2Acts

(* The order of some actions of a row: a TBE is not allocated after the    *)
(* writer has been recorded in it, nor freed before the writer has been    *)
(* answered, and the L2 turns to memory once.                              *)
Ordered(acts) ==
    \A i, j \in 1 .. Len(acts) : i < j =>
        /\ acts[i] = "xx_recordGetXL1ID" => acts[j] # "i_allocateTBE"
        /\ acts[i] = "s_deallocateTBE" => acts[j] # "ee_sendDataToGetXRequestor"
        /\ acts[i] \in L2Fetches => acts[j] \notin L2Fetches

(* What the actions A need of the message and of the line.                 *)
L2Ready(c, a, m, A) ==
    /\ A \cap PeerActs # {} => m.peer \in Procs
    /\ "b_forwardRequestToExclusive" \in A =>
         /\ m.type \in Requests /\ c.entry[a].exclusive \in Procs
         /\ A \cap {"mmu_markExclusiveFromUnblock", "rr_deallocateL2CacheBlock"} = {}
    /\ "ee_sendDataToGetXRequestor" \in A =>
         /\ c.tbe[a].getX \in Procs
         /\ A \cap {"i_allocateTBE", "xx_recordGetXL1ID"} = {}

(* What the first k actions of a row have done to controller c.            *)
L2Ran(c, t, a, m, acts, k) ==
    /\ \A b \in Addrs \ {a} : /\ t.c.tbe[b] = c.tbe[b] /\ t.c.entry[b] = c.entry[b]
                              /\ b \in t.c.tags <=> b \in c.tags
    /\ ~Early(acts, k, "qq_allocateL2CacheBlock") => t.c.tags \subseteq c.tags
    /\ ~Early(acts, k, "rr_deallocateL2CacheBlock") => c.tags \subseteq t.c.tags
    /\ ~Early(acts, k, "s_deallocateTBE") =>
         /\ t.c.tbe[a].state = IF Early(acts, k, "i_allocateTBE") THEN "NP" ELSE c.tbe[a].state
         /\ Early(acts, k, "xx_recordGetXL1ID") => t.c.tbe[a].getX = m.peer
         /\ ~Early(acts, k, "xx_recordGetXL1ID") /\ ~Early(acts, k, "i_allocateTBE") =>
              t.c.tbe[a].getX = c.tbe[a].getX
    /\ ~Early(acts, k, "rr_deallocateL2CacheBlock") =>
         t.c.entry[a].exclusive =
             IF Early(acts, k, "mmu_markExclusiveFromUnblock") THEN m.peer
             ELSE c.entry[a].exclusive
    /\ (\A x \in L2Fetches : ~Early(acts, k, x)) => ToDir(t.out) = {}
    /\ (\E x \in L2Fetches : Early(acts, k, x)) => \E x : ToDir(t.out) = {x}
    /\ t.pop <=> \E x \in L2Pops : Early(acts, k, x)

(* What the actions of a whole row do to it.                               *)
LEMMA L2RowDoes ==
    ASSUME NEW a \in Addrs, NEW m \in Message, NEW c \in L2Controller, NEW acts, NEW run,
           Len(acts) \in Nat, L2Runs(run, c, a, m, acts), Names(acts) \subseteq L2Acts,
           Ordered(acts), L2Ready(c, a, m, Names(acts))
    PROVE  /\ run[Len(acts)] \in L2RunT(a)
           /\ L2Ran(c, run[Len(acts)], a, m, acts, Len(acts))
<1> DEFINE n == Len(acts)
           A == Names(acts)
           S == {k \in 0 .. n : run[k] \in L2RunT(a) /\ L2Ran(c, run[k], a, m, acts, k)}
<1>1. 0 \in S
  <2>1. run[0] = L2Run(c)
    BY DEF L2Runs
  <2>2. run[0] \in L2RunT(a)
    BY <2>1 DEF L2Run, L2RunT
  <2>3. run[0].c = c /\ run[0].pop = FALSE /\ run[0].out = {}
    BY <2>1 DEF L2Run
  <2>4. \A x : ~Early(acts, 0, x)
    BY EarlyStep
  <2>5. L2Ran(c, run[0], a, m, acts, 0)
    BY <2>3, <2>4 DEF L2Ran, ToDir
  <2> QED BY <2>2, <2>5
<1>2. ASSUME NEW k \in 0 .. n - 1, k \in S PROVE k + 1 \in S
  <2> DEFINE r == run[k]
             t == run[k + 1]
             act == acts[k + 1]
  <2>1. k \in Nat /\ k + 1 \in 1 .. n /\ (k + 1) - 1 = k /\ k + 1 \in 0 .. n
    OBVIOUS
  <2>2. t = L2Act(a, m, r, act) /\ act \in A /\ act \in L2Acts
    BY <2>1 DEF L2Runs, Names
  <2>3. r \in L2RunT(a) /\ L2Ran(c, r, a, m, acts, k)
    BY <1>2
  <2>4. \A x : Early(acts, k + 1, x) <=> Early(acts, k, x) \/ act = x
    BY <2>1, EarlyStep
  <2>5. \A x : Early(acts, k, x) => x \in A
    BY <2>1 DEF Early, Names
  <2>6. /\ act = "i_allocateTBE" => ~Early(acts, k, "xx_recordGetXL1ID")
        /\ act = "ee_sendDataToGetXRequestor" => ~Early(acts, k, "s_deallocateTBE")
        /\ act \in L2Fetches => \A x \in L2Fetches : ~Early(acts, k, x)
    BY <2>1 DEF Ordered, Early
  <2> HIDE DEF r, t, act, n, A
  <2>7. L2Fits(r, a, m, act)
    <3>1. act \in PeerActs => m.peer \in Procs
      BY <2>2 DEF L2Ready, A
    <3>2. act = "b_forwardRequestToExclusive" =>
            m.type \in Requests /\ r.c.entry[a].exclusive \in Procs
      BY <2>2, <2>3, <2>5 DEF L2Ready, L2Ran, A
    <3>3. act = "ee_sendDataToGetXRequestor" => r.c.tbe[a].getX \in Procs
      BY <2>2, <2>3, <2>5, <2>6 DEF L2Ready, L2Ran, A
    <3> QED BY <3>1, <3>2, <3>3 DEF L2Fits
  <2>8. t \in L2RunT(a) /\ L2Does(r, t, a, m, act)
    BY <2>2, <2>3, <2>7, L2ActionDoes
  <2>9. /\ \A b \in Addrs \ {a} : /\ t.c.tbe[b] = c.tbe[b] /\ t.c.entry[b] = c.entry[b]
                                  /\ b \in t.c.tags <=> b \in c.tags
        /\ ~Early(acts, k + 1, "qq_allocateL2CacheBlock") => t.c.tags \subseteq c.tags
        /\ ~Early(acts, k + 1, "rr_deallocateL2CacheBlock") => c.tags \subseteq t.c.tags
    BY <2>3, <2>4, <2>8 DEF L2Ran, L2Does
  <2>10. ~Early(acts, k + 1, "s_deallocateTBE") =>
           /\ t.c.tbe[a].state = IF Early(acts, k + 1, "i_allocateTBE") THEN "NP"
                                 ELSE c.tbe[a].state
           /\ Early(acts, k + 1, "xx_recordGetXL1ID") => t.c.tbe[a].getX = m.peer
           /\ ~Early(acts, k + 1, "xx_recordGetXL1ID") /\ ~Early(acts, k + 1, "i_allocateTBE") =>
                t.c.tbe[a].getX = c.tbe[a].getX
    BY <2>3, <2>4, <2>6, <2>8 DEF L2Ran, L2Does
  <2>11. ~Early(acts, k + 1, "rr_deallocateL2CacheBlock") =>
           t.c.entry[a].exclusive =
               IF Early(acts, k + 1, "mmu_markExclusiveFromUnblock") THEN m.peer
               ELSE c.entry[a].exclusive
    BY <2>3, <2>4, <2>8 DEF L2Ran, L2Does
  <2>12. /\ (\A x \in L2Fetches : ~Early(acts, k + 1, x)) => ToDir(t.out) = {}
         /\ (\E x \in L2Fetches : Early(acts, k + 1, x)) => \E x : ToDir(t.out) = {x}
    <3>1. CASE act \in L2Fetches
      <4>1. ToDir(r.out) = {}
        BY <2>3, <2>6, <3>1 DEF L2Ran
      <4>2. PICK x : ToDir(t.out) = ToDir(r.out) \cup {x}
        BY <2>8, <3>1 DEF L2Does
      <4>3. ToDir(t.out) = {x}
        BY <4>1, <4>2
      <4> QED BY <2>4, <3>1, <4>3
    <3>2. CASE act \notin L2Fetches
      <4>1. ToDir(t.out) = ToDir(r.out)
        BY <2>8, <3>2 DEF L2Does
      <4> QED BY <2>3, <2>4, <3>2, <4>1 DEF L2Ran
    <3> QED BY <3>1, <3>2
  <2>13. t.pop <=> \E x \in L2Pops : Early(acts, k + 1, x)
    <3>1. t.pop <=> r.pop \/ act \in L2Pops
      BY <2>8 DEF L2Does
    <3>2. r.pop <=> \E x \in L2Pops : Early(acts, k, x)
      BY <2>3 DEF L2Ran
    <3> QED BY <2>4, <3>1, <3>2
  <2>14. L2Ran(c, t, a, m, acts, k + 1)
    BY <2>9, <2>10, <2>11, <2>12, <2>13 DEF L2Ran
  <2> QED BY <2>1, <2>8, <2>14 DEF t, n
<1> HIDE DEF S
<1>3. n \in Nat /\ n \in 0 .. n
  OBVIOUS
<1> HIDE DEF n
<1>4. n \in S
  BY <1>1, <1>2, <1>3, UpTo
<1> QED BY <1>4 DEF S, n

-----------------------------------------------------------------------------
(* What the rows of the L2's table are made of.                            *)

L1Asks == {"L1_GETS", "L1_GET_INSTR", "L1_GETX", "L1_UPGRADE", "L1_PUTX", "L1_PUTX_old"}

FromMemory == {"Mem_Data", "Mem_Ack"}

BusyIn(s) == s \in {"IM", "IS", "ISS", "M_I"}

(* Event ev takes a line from state s to state next with the actions A: an *)
(* answer of memory ends the wait for it, and the L2 begins to wait where, *)
(* and only where, it turns to memory; it keeps a TBE or the line for as   *)
(* long.  A line in MT has an owner and one in IM a writer.                *)
L2RowFits(s, ev, next, A) ==
    /\ next \in L2States
    /\ A \subseteq L2Acts
    /\ A \cap PeerActs # {} => ev \in L1Asks \cup {"Unblock", "Exclusive_Unblock"}
    /\ "b_forwardRequestToExclusive" \in A =>
         /\ ev \in L1Asks /\ s = "MT"
         /\ A \cap {"mmu_markExclusiveFromUnblock", "rr_deallocateL2CacheBlock"} = {}
    /\ "ee_sendDataToGetXRequestor" \in A =>
         s = "IM" /\ A \cap {"i_allocateTBE", "xx_recordGetXL1ID"} = {}
    /\ "qq_allocateL2CacheBlock" \in A => ev \in L1Asks
    /\ next = "MT" => /\ "rr_deallocateL2CacheBlock" \notin A
                      /\ "mmu_markExclusiveFromUnblock" \in A \/ s = "MT"
    /\ next = "IM" => "xx_recordGetXL1ID" \in A \/ (s = "IM" /\ "i_allocateTBE" \notin A)
    /\ BusyIn(next) => /\ "s_deallocateTBE" \notin A
                       /\ \/ "i_allocateTBE" \in A
                          \/ "rr_deallocateL2CacheBlock" \notin A /\ s # "NP"
    /\ ev \in FromMemory =>
         BusyIn(s) /\ ~BusyIn(next) /\ A \cap L2Fetches = {} /\ A \cap L2Pops # {}
    /\ ev \notin FromMemory =>
         \/ A \cap L2Fetches # {} /\ ~BusyIn(s) /\ BusyIn(next)
         \/ A \cap L2Fetches = {} /\ (BusyIn(s) <=> BusyIn(next))

L2RowOK(s, ev, row) ==
    Takes(row) =>
        /\ Len(row.acts) \in Nat /\ Ordered(row.acts)
        /\ L2RowFits(s, ev, row.next, Names(row.acts))

(* Most rows have none of the actions whose order matters.                 *)
LEMMA OrderedIf ==
    ASSUME NEW acts, Names(acts) \cap L2Fetches = {},
           Names(acts) \cap {"xx_recordGetXL1ID", "ee_sendDataToGetXRequestor"} = {}
    PROVE  Ordered(acts)
<1>1. \A i \in 1 .. Len(acts) : acts[i] \in Names(acts)
  BY DEF Names
<1> QED BY <1>1 DEF Ordered

(* Every row of the L2's table fits.                                       *)
LEMMA L2Rows ==
    ASSUME NEW s \in L2States, NEW ev
    PROVE  L2RowOK(s, ev, L2Transition(s, ev))
<1>0. ASSUME NEW row, ~Takes(row) PROVE L2RowOK(s, ev, row)
  BY <1>0 DEF L2RowOK
<1>1. ASSUME NEW next, NEW acts, Len(acts) \in Nat, L2RowFits(s, ev, next, Names(acts)), Ordered(acts)
      PROVE  L2RowOK(s, ev, Row(next, acts))
  BY <1>1 DEF L2RowOK, Row
<1>2. ASSUME NEW next, NEW acts, Len(acts) \in Nat, L2RowFits(s, ev, next, Names(acts)),
             Names(acts) \cap L2Fetches = {},
             Names(acts) \cap {"xx_recordGetXL1ID", "ee_sendDataToGetXRequestor"} = {}
      PROVE  L2RowOK(s, ev, Row(next, acts))
  BY <1>1, <1>2, OrderedIf
<1>3. CASE L2Recycles(s, ev)
  BY <1>0, <1>3 DEF L2Transition, Takes
<1> DEFINE row == L2Table(s, ev)
<1>4. SUFFICES ASSUME ~L2Recycles(s, ev) PROVE L2RowOK(s, ev, row)
  BY <1>3 DEF L2Transition
<1>5. L2RowOK(s, ev, Invalid)
  BY <1>0 DEF Takes
<1> USE DEF L2RowFits, L2States, L2Acts, L2Fetches, L2Sends, L2Pops, L2OnEntry, L2OnTBE, L2OnTags,
            PeerActs, L1Asks, FromMemory, BusyIn, Fetching, Blocked, WritingBack, Gets, Puts, AckPut
<1>6. CASE s = "NP"
  <2>1. row = L2FromNP(ev)
    BY <1>6 DEF L2Table
  <2>2. CASE ev = "L1_GETS"
    <3>1. Ordered(<<"qq_allocateL2CacheBlock", "ll_clearSharers", "nn_addSharer", "i_allocateTBE",
                   "ss_recordGetSL1ID", "a_issueFetchToMemory",
                   "jj_popL1RequestQueue">>)
      BY DEF Ordered
    <3> QED BY <1>1, <1>6, <2>1, <2>2, <3>1, NamesOf, SMTT(30) DEF L2FromNP
  <2>3. CASE ev = "L1_GET_INSTR"
    <3>1. Ordered(<<"qq_allocateL2CacheBlock", "ll_clearSharers", "nn_addSharer", "i_allocateTBE",
                   "ss_recordGetSL1ID", "a_issueFetchToMemory",
                   "jj_popL1RequestQueue">>)
      BY DEF Ordered
    <3> QED BY <1>1, <1>6, <2>1, <2>3, <3>1, NamesOf, SMTT(30) DEF L2FromNP
  <2>4. CASE ev = "L1_GETX"
    <3> DEFINE acts == <<"qq_allocateL2CacheBlock", "ll_clearSharers", "i_allocateTBE",
                           "xx_recordGetXL1ID", "a_issueFetchToMemory",
                           "jj_popL1RequestQueue">>
               names == {"qq_allocateL2CacheBlock", "ll_clearSharers", "i_allocateTBE",
                           "xx_recordGetXL1ID", "a_issueFetchToMemory",
                           "jj_popL1RequestQueue"}
    <3>1. Names(acts) = names /\ Len(acts) = 6
      BY NamesOf
    <3>2. row = Row("IM", acts)
      BY <1>6, <2>1, <2>4 DEF L2FromNP
    <3>3. L2RowFits(s, ev, "IM", names)
      <4>1. s = "NP" /\ ev = "L1_GETX" /\ "IM" \in L2States
        BY <1>6, <2>4
      <4>2. names \subseteq L2Acts
        OBVIOUS
      <4>3. /\ "b_forwardRequestToExclusive" \notin names
            /\ "ee_sendDataToGetXRequestor" \notin names
            /\ "s_deallocateTBE" \notin names
            /\ "xx_recordGetXL1ID" \in names /\ "i_allocateTBE" \in names
        OBVIOUS
      <4>4. names \cap L2Fetches # {}
        OBVIOUS
      <4>5. ev \in L1Asks /\ ev \notin FromMemory /\ ~BusyIn(s) /\ BusyIn("IM") /\ "IM" # "MT"
        BY <4>1
      <4> HIDE DEF names, L2Acts, L2Fetches, L1Asks, FromMemory, BusyIn, L2Pops, PeerActs, L2States
      <4> QED BY <4>1, <4>2, <4>3, <4>4, <4>5
    <3>4. Ordered(acts)
      BY DEF Ordered
    <3> HIDE DEF acts, names, L2RowFits
    <3> QED BY <1>1, <3>1, <3>2, <3>3, <3>4
  <2>5. CASE ev \in Puts
    BY <1>2, <1>6, <2>1, <2>5, NamesOf DEF L2FromNP
  <2> QED
    BY <1>5, <1>6, <2>1, <2>2, <2>3, <2>4, <2>5
    DEF L2FromNP
<1>7. CASE s \in Fetching
  <2>1. row = L2FromFetching(s, ev)
    BY <1>7 DEF L2Table
  <2>2. CASE ev = "Mem_Data" /\ s = "ISS"
    <3> DEFINE acts == <<"m_writeDataToCache", "ex_sendExclusiveDataToGetSRequestors",
                           "s_deallocateTBE", "o_popIncomingResponseQueue">>
               names == {"m_writeDataToCache", "ex_sendExclusiveDataToGetSRequestors",
                           "s_deallocateTBE", "o_popIncomingResponseQueue"}
    <3>1. Names(acts) = names /\ Len(acts) = 4
      BY NamesOf
    <3>2. row = Row("MT_MB", acts)
      BY <1>7, <2>1, <2>2 DEF L2FromFetching
    <3>3. L2RowFits(s, ev, "MT_MB", names)
      BY <1>7, <2>2
    <3>4. Ordered(acts)
      BY <3>1, OrderedIf
    <3> HIDE DEF acts, names, L2RowFits
    <3> QED BY <1>1, <3>1, <3>2, <3>3, <3>4
  <2>3. CASE ev = "Mem_Data" /\ s = "IS"
    <3> DEFINE acts == <<"m_writeDataToCache", "e_sendDataToGetSRequestors", "s_deallocateTBE",
                           "o_popIncomingResponseQueue">>
               names == {"m_writeDataToCache", "e_sendDataToGetSRequestors", "s_deallocateTBE",
                           "o_popIncomingResponseQueue"}
    <3>1. Names(acts) = names /\ Len(acts) = 4
      BY NamesOf
    <3>2. row = Row("SS", acts)
      BY <1>7, <2>1, <2>3 DEF L2FromFetching
    <3>3. L2RowFits(s, ev, "SS", names)
      BY <1>7, <2>3
    <3>4. Ordered(acts)
      BY <3>1, OrderedIf
    <3> HIDE DEF acts, names, L2RowFits
    <3> QED BY <1>1, <3>1, <3>2, <3>3, <3>4
  <2>4. CASE ev = "Mem_Data" /\ s = "IM"
    <3>1. Ordered(<<"m_writeDataToCache", "ee_sendDataToGetXRequestor", "s_deallocateTBE",
                   "o_popIncomingResponseQueue">>)
      BY DEF Ordered
    <3> QED BY <1>1, <1>7, <2>1, <2>4, <3>1, NamesOf DEF L2FromFetching
  <2>5. CASE ev \in Gets /\ s # "IM"
    BY <1>2, <1>7, <2>1, <2>5, NamesOf DEF L2FromFetching
  <2>6. CASE ev \in Puts
    BY <1>2, <1>7, <2>1, <2>6, NamesOf DEF L2FromFetching
  <2> QED
    BY <1>5, <1>7, <2>1, <2>2, <2>3, <2>4, <2>5, <2>6
    DEF L2FromFetching
<1>8. CASE s = "SS"
  <2>1. row = L2FromSS(ev)
    BY <1>8 DEF L2Table
  <2>2. CASE ev \in Gets
    BY <1>2, <1>8, <2>1, <2>2, NamesOf DEF L2FromSS
  <2>3. CASE ev = "L1_GETX"
    BY <1>2, <1>8, <2>1, <2>3, NamesOf DEF L2FromSS
  <2>4. CASE ev = "L1_UPGRADE"
    BY <1>2, <1>8, <2>1, <2>4, NamesOf DEF L2FromSS
  <2>5. CASE ev = "L2_Replacement_clean"
    BY <1>2, <1>8, <2>1, <2>5, NamesOf DEF L2FromSS
  <2>6. CASE ev = "L2_Replacement"
    BY <1>2, <1>8, <2>1, <2>6, NamesOf DEF L2FromSS
  <2>7. CASE ev \in Puts
    BY <1>2, <1>8, <2>1, <2>7, NamesOf DEF L2FromSS
  <2> QED
    BY <1>5, <1>8, <2>1, <2>2, <2>3, <2>4, <2>5, <2>6, <2>7
    DEF L2FromSS
<1>9. CASE s = "M"
  <2>1. row = L2FromM(ev)
    BY <1>9 DEF L2Table
  <2>2. CASE ev = "L1_GETX"
    BY <1>2, <1>9, <2>1, <2>2, NamesOf DEF L2FromM
  <2>3. CASE ev = "L1_GET_INSTR"
    BY <1>2, <1>9, <2>1, <2>3, NamesOf DEF L2FromM
  <2>4. CASE ev = "L1_GETS"
    BY <1>2, <1>9, <2>1, <2>4, NamesOf DEF L2FromM
  <2>5. CASE ev = "L2_Replacement"
    <3> DEFINE acts == <<"i_allocateTBE", "c_exclusiveReplacement", "rr_deallocateL2CacheBlock">>
               names == {"i_allocateTBE", "c_exclusiveReplacement", "rr_deallocateL2CacheBlock"}
    <3>1. Names(acts) = names /\ Len(acts) = 3
      BY NamesOf
    <3>2. row = Row("M_I", acts)
      BY <1>9, <2>1, <2>5 DEF L2FromM
    <3>3. L2RowFits(s, ev, "M_I", names)
      BY <1>9, <2>5
    <3>4. Ordered(acts)
      BY DEF Ordered
    <3> HIDE DEF acts, names, L2RowFits
    <3> QED BY <1>1, <3>1, <3>2, <3>3, <3>4
  <2>6. CASE ev = "L2_Replacement_clean"
    <3> DEFINE acts == <<"i_allocateTBE", "c_exclusiveCleanReplacement", "rr_deallocateL2CacheBlock">>
               names == {"i_allocateTBE", "c_exclusiveCleanReplacement", "rr_deallocateL2CacheBlock"}
    <3>1. Names(acts) = names /\ Len(acts) = 3
      BY NamesOf
    <3>2. row = Row("M_I", acts)
      BY <1>9, <2>1, <2>6 DEF L2FromM
    <3>3. L2RowFits(s, ev, "M_I", names)
      BY <1>9, <2>6
    <3>4. Ordered(acts)
      BY DEF Ordered
    <3> HIDE DEF acts, names, L2RowFits
    <3> QED BY <1>1, <3>1, <3>2, <3>3, <3>4
  <2>7. CASE ev \in Puts
    BY <1>2, <1>9, <2>1, <2>7, NamesOf DEF L2FromM
  <2> QED
    BY <1>5, <1>9, <2>1, <2>2, <2>3, <2>4, <2>5, <2>6, <2>7
    DEF L2FromM
<1>10. CASE s = "MT"
  <2>1. row = L2FromMT(ev)
    BY <1>10 DEF L2Table
  <2>2. CASE ev = "L1_GETX"
    BY <1>2, <1>10, <2>1, <2>2, NamesOf DEF L2FromMT
  <2>3. CASE ev \in Gets
    BY <1>2, <1>10, <2>1, <2>3, NamesOf DEF L2FromMT
  <2>4. CASE ev = "L2_Replacement"
    BY <1>2, <1>10, <2>1, <2>4, NamesOf DEF L2FromMT
  <2>5. CASE ev = "L2_Replacement_clean"
    BY <1>2, <1>10, <2>1, <2>5, NamesOf DEF L2FromMT
  <2>6. CASE ev = "L1_PUTX"
    BY <1>2, <1>10, <2>1, <2>6, NamesOf DEF L2FromMT
  <2>7. CASE ev = "L1_PUTX_old"
    BY <1>2, <1>10, <2>1, <2>7, NamesOf DEF L2FromMT
  <2> QED
    BY <1>5, <1>10, <2>1, <2>2, <2>3, <2>4, <2>5, <2>6, <2>7
    DEF L2FromMT
<1>11. CASE s \in Blocked
  <2>1. row = L2FromBlocked(s, ev)
    BY <1>11 DEF L2Table
  <2>2. CASE s \in {"SS_MB", "MT_MB"} /\ ev = "Exclusive_Unblock"
    BY <1>2, <1>11, <2>1, <2>2, NamesOf DEF L2FromBlocked
  <2>3. CASE s = "MT_IIB" /\ ev = "Unblock"
    BY <1>2, <1>11, <2>1, <2>3, NamesOf DEF L2FromBlocked
  <2>4. CASE s = "MT_IIB" /\ ev \in {"WB_Data", "WB_Data_clean"}
    BY <1>2, <1>11, <2>1, <2>4, NamesOf DEF L2FromBlocked
  <2>5. CASE s = "MT_IB" /\ ev \in {"WB_Data", "WB_Data_clean"}
    BY <1>2, <1>11, <2>1, <2>5, NamesOf DEF L2FromBlocked
  <2>6. CASE s = "MT_SB" /\ ev = "Unblock"
    BY <1>2, <1>11, <2>1, <2>6, NamesOf DEF L2FromBlocked
  <2>7. CASE s \in {"MT_IB", "MT_SB"} /\ ev \in Puts
    BY <1>2, <1>11, <2>1, <2>7, NamesOf DEF L2FromBlocked
  <2> QED
    BY <1>5, <1>11, <2>1, <2>2, <2>3, <2>4, <2>5, <2>6, <2>7
    DEF L2FromBlocked
<1>12. CASE s \in WritingBack
  <2>1. row = L2FromWritingBack(s, ev)
    BY <1>12 DEF L2Table
  <2>2. CASE s \in {"I_I", "S_I"} /\ ev = "Ack"
    BY <1>2, <1>12, <2>1, <2>2, NamesOf DEF L2FromWritingBack
  <2>3. CASE s = "I_I" /\ ev = "Ack_all"
    <3>1. Ordered(<<"c_exclusiveCleanReplacement", "o_popIncomingResponseQueue">>)
      BY DEF Ordered
    <3> QED BY <1>1, <1>12, <2>1, <2>3, <3>1, NamesOf DEF L2FromWritingBack
  <2>4. CASE s = "S_I" /\ ev = "Ack_all"
    <3>1. Ordered(<<"ct_exclusiveReplacementFromTBE", "o_popIncomingResponseQueue">>)
      BY DEF Ordered
    <3> QED BY <1>1, <1>12, <2>1, <2>4, <3>1, NamesOf DEF L2FromWritingBack
  <2>5. CASE s \in {"MT_I", "MCT_I"} /\ ev = "WB_Data"
    <3> DEFINE acts == <<"qq_writeDataToTBE", "ct_exclusiveReplacementFromTBE",
                           "o_popIncomingResponseQueue">>
               names == {"qq_writeDataToTBE", "ct_exclusiveReplacementFromTBE",
                           "o_popIncomingResponseQueue"}
    <3>1. Names(acts) = names /\ Len(acts) = 3
      BY NamesOf
    <3>2. row = Row("M_I", acts)
      BY <1>12, <2>1, <2>5 DEF L2FromWritingBack
    <3>3. L2RowFits(s, ev, "M_I", names)
      BY <1>12, <2>5
    <3>4. Ordered(acts)
      BY DEF Ordered
    <3> HIDE DEF acts, names, L2RowFits
    <3> QED BY <1>1, <3>1, <3>2, <3>3, <3>4
  <2>6. CASE s = "MCT_I" /\ ev \in {"WB_Data_clean", "Ack_all"}
    <3>1. Ordered(<<"c_exclusiveCleanReplacement", "o_popIncomingResponseQueue">>)
      BY DEF Ordered
    <3> QED BY <1>1, <1>12, <2>1, <2>6, <3>1, NamesOf DEF L2FromWritingBack
  <2>7. CASE s = "MT_I" /\ ev = "Ack_all"
    <3>1. Ordered(<<"ct_exclusiveReplacementFromTBE", "o_popIncomingResponseQueue">>)
      BY DEF Ordered
    <3> QED BY <1>1, <1>12, <2>1, <2>7, <3>1, NamesOf DEF L2FromWritingBack
  <2>8. CASE s = "MT_I" /\ ev = "WB_Data_clean"
    BY <1>2, <1>12, <2>1, <2>8, NamesOf DEF L2FromWritingBack
  <2>9. CASE s = "M_I" /\ ev = "Mem_Ack"
    <3> DEFINE acts == <<"s_deallocateTBE", "o_popIncomingResponseQueue">>
               names == {"s_deallocateTBE", "o_popIncomingResponseQueue"}
    <3>1. Names(acts) = names /\ Len(acts) = 2
      BY NamesOf
    <3>2. row = Row("NP", acts)
      BY <1>12, <2>1, <2>9 DEF L2FromWritingBack
    <3>3. L2RowFits(s, ev, "NP", names)
      BY <1>12, <2>9
    <3>4. Ordered(acts)
      BY <3>1, OrderedIf
    <3> HIDE DEF acts, names, L2RowFits
    <3> QED BY <1>1, <3>1, <3>2, <3>3, <3>4
  <2>10. CASE s \in {"M_I", "I_I", "S_I"} /\ ev \in Puts
    BY <1>2, <1>12, <2>1, <2>10, NamesOf DEF L2FromWritingBack
  <2> QED
    BY <1>5, <1>12, <2>1, <2>2, <2>3, <2>4, <2>5, <2>6, <2>7, <2>8, <2>9, <2>10
    DEF L2FromWritingBack
<1> QED BY <1>6, <1>7, <1>8, <1>9, <1>10, <1>11, <1>12

-----------------------------------------------------------------------------
(* What a transition of the L2 does.                                       *)

(* Entering a state: nothing but the state of the line changes.            *)
LEMMA L2Enters ==
    ASSUME NEW c \in L2Controller, NEW a \in Addrs, NEW s \in L2States
    PROVE  /\ L2SetState(c, a, s) \in L2Controller
           /\ \A b \in Addrs \ {a} : /\ L2SetState(c, a, s).tbe[b] = c.tbe[b]
                                     /\ L2SetState(c, a, s).entry[b] = c.entry[b]
           /\ L2SetState(c, a, s).tags = c.tags
           /\ L2SetState(c, a, s).tbe[a].getX = c.tbe[a].getX
           /\ L2SetState(c, a, s).entry[a].exclusive = c.entry[a].exclusive
           /\ c.tbe[a] = NoL2TBE => L2SetState(c, a, s).tbe[a] = NoL2TBE
           /\ c.tbe[a] # NoL2TBE => L2SetState(c, a, s).tbe[a].state = s
           /\ a \in c.tags => L2SetState(c, a, s).entry[a].state = s
<1> DEFINE ts == IF c.tbe[a] # NoL2TBE THEN s ELSE c.tbe[a].state
           es == IF a \in c.tags THEN s ELSE c.entry[a].state
           tb == [c.tbe[a] EXCEPT !.state = ts]
           en == [c.entry[a] EXCEPT !.state = es]
           T == [c.tbe EXCEPT ![a] = tb]
           N == [c.entry EXCEPT ![a] = en]
           d == [c EXCEPT !.tbe = T, !.entry = N]
<1>1. c.tbe \in [Addrs -> L2TBE] /\ c.entry \in [Addrs -> L2Entry]
  BY DEF L2Controller
<1>2. c.tbe[a] \in L2TBE /\ c.entry[a] \in L2Entry
  BY <1>1
<1>3. ts \in L2States \cup {"none"} /\ es \in L2States
  BY <1>2 DEF L2TBE, L2Entry
<1>4. /\ tb \in L2TBE /\ en \in L2Entry /\ tb.state = ts /\ en.state = es
      /\ tb.getX = c.tbe[a].getX /\ en.exclusive = c.entry[a].exclusive
      /\ c.tbe[a] = NoL2TBE => tb = NoL2TBE
  <2> HIDE DEF ts, es
  <2>1. /\ tb \in L2TBE /\ en \in L2Entry /\ tb.state = ts /\ en.state = es
        /\ tb.getX = c.tbe[a].getX /\ en.exclusive = c.entry[a].exclusive
    BY <1>2, <1>3 DEF L2TBE, L2Entry
  <2>2. c.tbe[a] = NoL2TBE => ts = c.tbe[a].state
    BY DEF ts
  <2>3. ts = c.tbe[a].state => tb = c.tbe[a]
    BY <1>2 DEF L2TBE
  <2> QED BY <2>1, <2>2, <2>3
<1>5. /\ T \in [Addrs -> L2TBE] /\ N \in [Addrs -> L2Entry] /\ T[a] = tb /\ N[a] = en
      /\ \A b \in Addrs \ {a} : T[b] = c.tbe[b] /\ N[b] = c.entry[b]
  <2> HIDE DEF tb, en
  <2> QED BY <1>1, <1>4
<1>6. L2SetState(c, a, s) = d
  BY <1>1, <1>2 DEF L2SetState, L2Controller
<1>7. d \in L2Controller /\ d.tbe = T /\ d.entry = N /\ d.tags = c.tags
  <2> HIDE DEF T, N
  <2> QED BY <1>5 DEF L2Controller
<1> HIDE DEF d, T, N, tb, en
<1> QED BY <1>4, <1>5, <1>6, <1>7

(* The state of a line is one of the table's.                              *)
LEMMA L2StateTyped ==
    ASSUME NEW c, L2Sound(c), NEW a \in Addrs
    PROVE  L2State(c, a) \in L2States
<1>1. c.tbe[a] \in L2TBE /\ c.entry[a] \in L2Entry
  BY DEF L2Sound, L2Controller
<1>2. c.tbe[a] # NoL2TBE => c.tbe[a].state # "none"
  BY DEF L2Sound
<1>3. c.tbe[a].state \in L2States \cup {"none"} /\ c.entry[a].state \in L2States
  BY <1>1 DEF L2TBE, L2Entry
<1>4. "NP" \in L2States
  BY DEF L2States
<1> QED BY <1>2, <1>3, <1>4 DEF L2State

(* A transition keeps the controller sound and leaves the other lines      *)
(* alone; it turns to memory, and takes memory's answer, as its row says.  *)
L2Moves(c, r, a, ev, row) ==
    /\ L2Sound(r.c)
    /\ r.out \subseteq L2Out(a)
    /\ \A b \in Addrs \ {a} : L2State(r.c, b) = L2State(c, b)
    /\ BusyIn(L2State(r.c, a)) <=> BusyIn(row.next)
    /\ Names(row.acts) \cap L2Fetches = {} => ToDir(r.out) = {}
    /\ Names(row.acts) \cap L2Fetches # {} => \E x : ToDir(r.out) = {x}
    /\ Names(row.acts) \cap L2Pops # {} => r.pop

(* The induction along the row, and the state that is entered.             *)
LEMMA L2DoDoes ==
    ASSUME NEW a \in Addrs, NEW m \in Message, NEW c, L2Sound(c), NEW ev, NEW row,
           row = L2Transition(L2State(c, a), ev), Takes(row),
           ev \in L1Asks \cup {"Unblock", "Exclusive_Unblock"} => m.peer \in Procs,
           ev \in L1Asks => m.type \in Requests /\ cacheAvail(c.tags, L2_WAYS, a)
    PROVE  L2Moves(c, L2Do(c, a, m, ev), a, ev, row)
<1> DEFINE s == L2State(c, a)
           acts == row.acts
           A == Names(acts)
           r == L2Do(c, a, m, ev)
<1>1. Len(acts) \in Nat /\ L2RowFits(s, ev, row.next, A) /\ Ordered(acts)
  <2>1. L2RowOK(s, ev, row)
    BY L2StateTyped, L2Rows
  <2> QED BY <2>1 DEF L2RowOK
<1>2. PICK run : /\ L2Runs(run, c, a, m, acts)
                 /\ r = [run[Len(acts)] EXCEPT !.c = L2SetState(run[Len(acts)].c, a, row.next)]
  BY <1>1, L2Chain
<1> DEFINE t == run[Len(acts)]
<1>3. c \in L2Controller
  BY DEF L2Sound
<1>4. /\ s = "MT" => c.entry[a].exclusive \in Procs
      /\ s = "IM" => c.tbe[a].getX \in Procs
  BY DEF L2Sound
<1> HIDE DEF s, r, A
<1>5. A \cap PeerActs # {} => m.peer \in Procs
  BY <1>1 DEF L2RowFits
<1>6. L2Ready(c, a, m, A)
  BY <1>1, <1>4, <1>5 DEF L2RowFits, L2Ready
<1>7. t \in L2RunT(a) /\ L2Ran(c, t, a, m, acts, Len(acts))
  <2>1. A \subseteq L2Acts
    BY <1>1 DEF L2RowFits
  <2> QED BY <1>1, <1>2, <1>3, <1>6, <2>1, L2RowDoes DEF A
<1>8. \A x : Early(acts, Len(acts), x) <=> x \in A
  BY NamesAre DEF A
<1>9. row.next \in L2States /\ t.c \in L2Controller
  BY <1>1, <1>7 DEF L2RowFits, L2RunT
<1> DEFINE d == L2SetState(t.c, a, row.next)
<1>10. r.c = d /\ r.out = t.out /\ r.pop = t.pop
  BY <1>2, <1>7 DEF L2RunT
<1>11. /\ d \in L2Controller
       /\ \A b \in Addrs \ {a} : d.tbe[b] = t.c.tbe[b] /\ d.entry[b] = t.c.entry[b]
       /\ d.tags = t.c.tags
       /\ d.tbe[a].getX = t.c.tbe[a].getX /\ d.entry[a].exclusive = t.c.entry[a].exclusive
       /\ t.c.tbe[a] = NoL2TBE => d.tbe[a] = NoL2TBE
       /\ t.c.tbe[a] # NoL2TBE => d.tbe[a].state = row.next
       /\ a \in t.c.tags => d.entry[a].state = row.next
  <2> DEFINE u == t.c
             w == row.next
  <2>1. u \in L2Controller /\ w \in L2States
    BY <1>9
  <2> HIDE DEF u, w
  <2>2. L2SetState(u, a, w) = d
    BY DEF u, w
  <2>3. /\ L2SetState(u, a, w) \in L2Controller
        /\ \A b \in Addrs \ {a} : /\ L2SetState(u, a, w).tbe[b] = u.tbe[b]
                                  /\ L2SetState(u, a, w).entry[b] = u.entry[b]
        /\ L2SetState(u, a, w).tags = u.tags
        /\ L2SetState(u, a, w).tbe[a].getX = u.tbe[a].getX
        /\ L2SetState(u, a, w).entry[a].exclusive = u.entry[a].exclusive
        /\ u.tbe[a] = NoL2TBE => L2SetState(u, a, w).tbe[a] = NoL2TBE
        /\ u.tbe[a] # NoL2TBE => L2SetState(u, a, w).tbe[a].state = w
        /\ a \in u.tags => L2SetState(u, a, w).entry[a].state = w
    BY <2>1, L2Enters
  <2> HIDE DEF d
  <2> QED BY <2>2, <2>3 DEF u, w
<1> HIDE DEF t, d
<1>12. \A b \in Addrs \ {a} : /\ d.tbe[b] = c.tbe[b] /\ d.entry[b] = c.entry[b]
                              /\ b \in d.tags <=> b \in c.tags
  BY <1>7, <1>11 DEF L2Ran
<1>13. /\ "qq_allocateL2CacheBlock" \notin A => d.tags \subseteq c.tags
       /\ "rr_deallocateL2CacheBlock" \notin A => c.tags \subseteq d.tags
  BY <1>7, <1>8, <1>11 DEF L2Ran
<1>14. \A b \in Addrs \ {a} : L2State(d, b) = L2State(c, b)
  BY <1>12 DEF L2State
<1>15. L2State(d, a) \in {row.next, "NP"}
  BY <1>11 DEF L2State
<1>16. "s_deallocateTBE" \notin A =>
         /\ t.c.tbe[a].state = IF "i_allocateTBE" \in A THEN "NP" ELSE c.tbe[a].state
         /\ "xx_recordGetXL1ID" \in A => t.c.tbe[a].getX = m.peer
         /\ "xx_recordGetXL1ID" \notin A /\ "i_allocateTBE" \notin A =>
              t.c.tbe[a].getX = c.tbe[a].getX
  BY <1>7, <1>8 DEF L2Ran
<1>17. ASSUME BusyIn(row.next) PROVE L2State(d, a) = row.next
  <2>1. /\ "s_deallocateTBE" \notin A
        /\ \/ "i_allocateTBE" \in A
           \/ "rr_deallocateL2CacheBlock" \notin A /\ s # "NP"
    BY <1>1, <1>17 DEF L2RowFits
  <2>2. t.c.tbe[a].state = IF "i_allocateTBE" \in A THEN "NP" ELSE c.tbe[a].state
    BY <1>16, <2>1
  <2>3. t.c.tbe[a].state # "none" => L2State(d, a) = row.next
    <3>1. t.c.tbe[a].state # "none" => t.c.tbe[a] # NoL2TBE
      BY DEF NoL2TBE
    <3>2. row.next # "none" /\ NoL2TBE.state = "none"
      BY <1>9 DEF L2States, NoL2TBE
    <3> QED BY <1>11, <3>1, <3>2 DEF L2State
  <2>4. CASE "i_allocateTBE" \in A
    BY <2>2, <2>3, <2>4
  <2>5. CASE "i_allocateTBE" \notin A
    <3>1. c.tbe[a] # NoL2TBE \/ a \in c.tags
      BY <2>1, <2>5 DEF s, L2State
    <3>2. CASE c.tbe[a] # NoL2TBE
      <4>1. c.tbe[a].state # "none"
        BY <3>2 DEF L2Sound
      <4> QED BY <2>2, <2>3, <2>5, <4>1
    <3>3. CASE a \in c.tags
      <4>1. a \in d.tags /\ a \in t.c.tags
        BY <1>11, <1>13, <2>1, <2>5, <3>3
      <4>2. d.tbe[a] # NoL2TBE => d.tbe[a].state = row.next
        BY <1>11
      <4> QED BY <1>11, <4>1, <4>2 DEF L2State
    <3> QED BY <3>1, <3>2, <3>3
  <2> QED BY <2>4, <2>5
<1>18. BusyIn(L2State(d, a)) <=> BusyIn(row.next)
  <2>1. ~BusyIn("NP")
    BY DEF BusyIn
  <2> QED BY <1>15, <1>17, <2>1
<1>19. L2State(d, a) = "MT" => d.entry[a].exclusive \in Procs
  <2>1. SUFFICES ASSUME L2State(d, a) = "MT" PROVE d.entry[a].exclusive \in Procs
    OBVIOUS
  <2>2. row.next = "MT"
    BY <1>15, <2>1
  <2>3. /\ "rr_deallocateL2CacheBlock" \notin A
        /\ "mmu_markExclusiveFromUnblock" \in A \/ s = "MT"
    BY <1>1, <2>2 DEF L2RowFits
  <2>4. t.c.entry[a].exclusive = IF "mmu_markExclusiveFromUnblock" \in A THEN m.peer
                                 ELSE c.entry[a].exclusive
    BY <1>7, <1>8, <2>3 DEF L2Ran
  <2>5. "mmu_markExclusiveFromUnblock" \in A => m.peer \in Procs
    BY <1>5 DEF PeerActs
  <2> QED BY <1>4, <1>11, <2>3, <2>4, <2>5
<1>20. L2State(d, a) = "IM" => d.tbe[a].getX \in Procs
  <2>1. SUFFICES ASSUME L2State(d, a) = "IM" PROVE d.tbe[a].getX \in Procs
    OBVIOUS
  <2>2. row.next = "IM"
    BY <1>15, <2>1
  <2>3. /\ "s_deallocateTBE" \notin A
        /\ "xx_recordGetXL1ID" \in A \/ (s = "IM" /\ "i_allocateTBE" \notin A)
    BY <1>1, <2>2 DEF L2RowFits, BusyIn
  <2>4. "xx_recordGetXL1ID" \in A => m.peer \in Procs
    BY <1>5 DEF PeerActs
  <2> QED BY <1>4, <1>11, <1>16, <2>3, <2>4
<1>21. L2Sound(d)
  <2>1. d.tags \in SUBSET Addrs /\ c.tags \in SUBSET Addrs /\ L2_WAYS \in Nat
    BY <1>3, <1>11, CoherenceAssumption DEF L2Controller
  <2>2. d.tags \subseteq c.tags \cup {a}
    BY <1>12, <2>1
  <2>3. d.tags \subseteq c.tags \/ cacheAvail(c.tags, L2_WAYS, a)
    BY <1>1, <1>13 DEF L2RowFits
  <2>4. Cardinality(d.tags) <= L2_WAYS
    BY <2>1, <2>2, <2>3, TagsBounded DEF L2Sound
  <2>5. row.next # "none"
    BY <1>9 DEF L2States
  <2>6. ASSUME NEW b \in Addrs
        PROVE  /\ d.tbe[b] # NoL2TBE => d.tbe[b].state # "none"
               /\ L2State(d, b) = "MT" => d.entry[b].exclusive \in Procs
               /\ L2State(d, b) = "IM" => d.tbe[b].getX \in Procs
    <3>1. CASE b = a
      BY <1>11, <1>19, <1>20, <2>5, <3>1
    <3>2. CASE b # a
      <4>1. /\ c.tbe[b] # NoL2TBE => c.tbe[b].state # "none"
            /\ L2State(c, b) = "MT" => c.entry[b].exclusive \in Procs
            /\ L2State(c, b) = "IM" => c.tbe[b].getX \in Procs
        BY DEF L2Sound
      <4> QED BY <1>12, <1>14, <3>2, <4>1
    <3> QED BY <3>1, <3>2
  <2> QED BY <1>11, <2>4, <2>6 DEF L2Sound
<1>22. t.out \subseteq L2Out(a)
  BY <1>7 DEF L2RunT
<1>23. /\ A \cap L2Fetches = {} => ToDir(t.out) = {}
       /\ A \cap L2Fetches # {} => \E x : ToDir(t.out) = {x}
  BY <1>7, <1>8 DEF L2Ran
<1>24. A \cap L2Pops # {} => t.pop
  BY <1>7, <1>8 DEF L2Ran
<1> QED BY <1>10, <1>14, <1>18, <1>21, <1>22, <1>23, <1>24 DEF L2Moves, r, A

-----------------------------------------------------------------------------
(* The steps of the L2.                                                    *)

(* Whom the events of the L2's in_ports are for, and who causes them.      *)
LEMMA L2Events ==
    ASSUME NEW c, L2Sound(c), NEW m, Sound(m), m.dest = L2, NEW e \in L2MessageEvents(c, m)
    PROVE  /\ e[2] \in Addrs
           /\ e[1] \in L1Asks \cup {"Unblock", "Exclusive_Unblock"} => m.peer \in Procs
           /\ e[1] \in L1Asks => m.type \in Requests /\ cacheAvail(c.tags, L2_WAYS, e[2])
           /\ e[1] \in FromMemory => m.peer = Dir /\ e[2] = m.addr
           /\ e[1] \notin FromMemory \cup {"error"} => m.peer # Dir
<1>1. m \in Message /\ m.addr \in Addrs /\ m.type \in Requests \cup Responses \cup Unblocks
  BY DEF Sound, Message
<1>2. Dir \notin Procs /\ L2 # Dir
  BY CoherenceAssumption DEF L2, Dir
<1>3. CASE m.type \notin Requests
  <2>1. e = <<L2ResponseEvent(c, m), m.addr>>
    BY <1>3 DEF L2MessageEvents
  <2> DEFINE ev == L2ResponseEvent(c, m)
  <2>2. e[1] = ev /\ e[2] = m.addr
    BY <2>1
  <2>3. CASE m.type \in Unblocks
    <3>1. m.peer \in Procs
      BY <2>3 DEF Sound
    <3>2. ev \in {"Unblock", "Exclusive_Unblock"}
      BY <2>3 DEF L2ResponseEvent, Unblocks
    <3> QED BY <1>1, <1>2, <2>2, <3>1, <3>2 DEF L1Asks, FromMemory
  <2>4. CASE m.type \in {"DATA", "ACK"} /\ m.peer \in Procs
    <3>1. CASE m.type = "DATA"
      <4>1. ev \in {"WB_Data", "WB_Data_clean"}
        BY <2>4, <3>1 DEF L2ResponseEvent
      <4> QED BY <1>1, <1>2, <2>2, <2>4, <4>1 DEF L1Asks, FromMemory
    <3>2. CASE m.type = "ACK"
      <4>1. ev \in {"error", "Ack_all", "Ack"}
        BY <2>4, <3>2 DEF L2ResponseEvent
      <4> QED BY <1>1, <1>2, <2>2, <2>4, <4>1 DEF L1Asks, FromMemory
    <3> QED BY <2>4, <3>1, <3>2
  <2>5. CASE m.type \in {"MEMORY_DATA", "MEMORY_ACK"} /\ m.peer = Dir
    <3>1. ev \in {"Mem_Data", "Mem_Ack"}
      BY <2>5 DEF L2ResponseEvent
    <3> QED BY <1>1, <2>2, <2>5, <3>1 DEF L1Asks, FromMemory
  <2>6. CASE /\ m.type \notin Unblocks
             /\ ~(m.type \in {"DATA", "ACK"} /\ m.peer \in Procs)
             /\ ~(m.type \in {"MEMORY_DATA", "MEMORY_ACK"} /\ m.peer = Dir)
    <3>1. ev = "error"
      BY <2>6 DEF L2ResponseEvent, Unblocks
    <3> QED BY <1>1, <2>2, <3>1 DEF L1Asks, FromMemory
  <2> QED BY <2>3, <2>4, <2>5, <2>6
<1>4. CASE m.type \in Requests
  <2>1. m.peer \in Procs
    BY <1>4 DEF Sound
  <2>2. CASE cacheAvail(c.tags, L2_WAYS, m.addr)
    <3> DEFINE ev == L2RequestEvent(c, m)
    <3>1. e = <<ev, m.addr>>
      BY <1>4, <2>2 DEF L2MessageEvents
    <3>2. ev \in L1Asks \cup {"error"}
      BY <1>4 DEF L2RequestEvent, Requests, L1Asks
    <3>3. "error" \notin FromMemory /\ L1Asks \cap FromMemory = {}
      BY DEF L1Asks, FromMemory
    <3> HIDE DEF ev
    <3> QED BY <1>1, <1>2, <1>4, <2>1, <2>2, <3>1, <3>2, <3>3
  <2>3. CASE ~cacheAvail(c.tags, L2_WAYS, m.addr)
    <3>1. e[1] \in Replacements /\ e[2] \in c.tags
      BY <1>4, <2>3 DEF L2MessageEvents, Replacements, cacheProbe
    <3>2. c.tags \subseteq Addrs
      BY DEF L2Sound, L2Controller
    <3>3. Replacements \cap L1Asks = {} /\ Replacements \cap FromMemory = {}
      BY DEF Replacements, L1Asks, FromMemory
    <3> QED BY <1>2, <2>1, <3>1, <3>2, <3>3
  <2> QED BY <2>2, <2>3
<1> QED BY <1>3, <1>4

(* No row of the table is taken for a message no in_port knows.            *)
LEMMA ErrorStops ==
    ASSUME NEW s \in L2States
    PROVE  ~Takes(L2Transition(s, "error"))
<1>1. ~L2Recycles(s, "error")
  BY DEF L2Recycles, Replacements, Gets, Puts
<1>2. L2Table(s, "error") = Invalid
  <2>1. CASE s \in Fetching
    <3>1. L2Table(s, "error") = L2FromFetching(s, "error")
      BY <2>1 DEF L2Table, Fetching, Blocked, WritingBack
    <3>2. L2FromFetching(s, "error") = Invalid
      BY DEF L2FromFetching, Gets, Puts
    <3> QED BY <3>1, <3>2
  <2>2. CASE s \in Blocked
    <3>1. L2Table(s, "error") = L2FromBlocked(s, "error")
      BY <2>2 DEF L2Table, Fetching, Blocked, WritingBack
    <3>2. L2FromBlocked(s, "error") = Invalid
      BY DEF L2FromBlocked, Puts
    <3> QED BY <3>1, <3>2
  <2>3. CASE s \in WritingBack
    <3>1. L2Table(s, "error") = L2FromWritingBack(s, "error")
      BY <2>3 DEF L2Table, Fetching, Blocked, WritingBack
    <3>2. L2FromWritingBack(s, "error") = Invalid
      BY DEF L2FromWritingBack, Puts
    <3> QED BY <3>1, <3>2
  <2>4. CASE s \in {"NP", "SS", "M", "MT"}
    <3>1. /\ s = "NP" => L2Table(s, "error") = L2FromNP("error")
          /\ s = "SS" => L2Table(s, "error") = L2FromSS("error")
          /\ s = "M" => L2Table(s, "error") = L2FromM("error")
          /\ s = "MT" => L2Table(s, "error") = L2FromMT("error")
      BY DEF L2Table, Fetching, Blocked, WritingBack
    <3>2. L2FromNP("error") = Invalid /\ L2FromSS("error") = Invalid
      BY DEF L2FromNP, L2FromSS, Gets, Puts
    <3>3. L2FromM("error") = Invalid /\ L2FromMT("error") = Invalid
      BY DEF L2FromM, L2FromMT, Gets, Puts
    <3> QED BY <2>4, <3>1, <3>2, <3>3
  <2> QED BY <2>1, <2>2, <2>3, <2>4 DEF L2States, Fetching, Blocked, WritingBack
<1> QED BY <1>1, <1>2 DEF L2Transition, Takes

(* The network after m has been taken and out sent, class by class.        *)
LEMMA Exchanged ==
    ASSUME IsABag(net), DOMAIN net \subseteq SoundMsgs, NEW m \in DOMAIN net,
           NEW r, r.out \subseteq SoundMsgs, NEW U
    PROVE  /\ IsABag(Exchange(m, r)) /\ DOMAIN Exchange(m, r) \subseteq SoundMsgs
           /\ m \notin U /\ r.out \cap U = {} => SameIn(U, net, Exchange(m, r))
           /\ r.pop /\ net[m] = 1 /\ DOMAIN net \cap U = {m} /\ r.out \cap U = {} =>
                DOMAIN Exchange(m, r) \cap U = {}
           /\ DOMAIN net \cap U = {} /\ (\E x : r.out \cap U = {x}) =>
                One(DOMAIN Exchange(m, r) \cap U, Exchange(m, r))
<1> DEFINE out == r.out
           B == IF r.pop THEN net (-) SetToBag({m}) ELSE net
           C == B (+) SetToBag(out)
<1>1. /\ IsABag(B) /\ DOMAIN B \subseteq DOMAIN net
      /\ \A x \in DOMAIN net \ {m} : x \in DOMAIN B /\ B[x] = net[x]
      /\ r.pop /\ net[m] = 1 => DOMAIN B = DOMAIN net \ {m}
  <2>1. CASE r.pop
    BY <2>1, BagTake
  <2>2. CASE ~r.pop
    BY <2>2
  <2> QED BY <2>1, <2>2
<1>2. Exchange(m, r) = C
  BY DEF Exchange
<1> HIDE DEF B, out
<1>3. /\ IsABag(C) /\ DOMAIN C = DOMAIN B \cup out
      /\ \A x \in DOMAIN B \ out : C[x] = B[x]
      /\ \A x \in out \ DOMAIN B : C[x] = 1
  <2>1. IsABag(B)
    BY <1>1
  <2> QED BY <2>1, BagAdd
<1> HIDE DEF C
<1>4. ASSUME m \notin U, out \cap U = {} PROVE SameIn(U, net, C)
  BY <1>1, <1>3, <1>4 DEF SameIn
<1>5. ASSUME r.pop, net[m] = 1, DOMAIN net \cap U = {m}, out \cap U = {}
      PROVE  DOMAIN C \cap U = {}
  BY <1>1, <1>3, <1>5
<1>6. ASSUME DOMAIN net \cap U = {}, NEW x, out \cap U = {x} PROVE One(DOMAIN C \cap U, C)
  <2>1. DOMAIN C \cap U = {x} /\ x \in out \ DOMAIN B
    BY <1>1, <1>3, <1>6
  <2> QED BY <1>3, <2>1 DEF One
<1>7. DOMAIN C \subseteq SoundMsgs
  BY <1>1, <1>3 DEF out
<1> QED BY <1>2, <1>3, <1>4, <1>5, <1>6, <1>7 DEF out

(* What the L2 sends to memory about a line is what its row turns to       *)
(* memory for, and it sends nothing to memory about another line.          *)
LEMMA L2OutOps ==
    ASSUME NEW a, NEW out, out \subseteq L2Out(a)
    PROVE  /\ out \subseteq SoundMsgs
           /\ out \cap MemOps(a) = ToDir(out)
           /\ \A b : b # a => out \cap MemOps(b) = {}
BY DEF L2Out, SoundMsgs, MemOps, ToDir, ToMemory

(* The L2 takes a message, or replaces a line for it.                      *)
LEMMA L2ReceiveKeeps ==
    ASSUME CoherenceInv, NEW m \in DOMAIN net, m.dest = L2, L2Receive(m)
    PROVE  CoherenceInv'
<1>1. PICK e \in L2MessageEvents(l2, m) :
        /\ Takes(L2Transition(L2State(l2, e[2]), e[1]))
        /\ \E r \in {L2Do(l2, e[2], m, e[1])} : l2' = r.c /\ net' = Exchange(m, r)
        /\ UNCHANGED <<workload, l1, directory, m_input_queue, m_response_queue, outstanding>>
  BY DEF L2Receive
<1> DEFINE ev == e[1]
           a == e[2]
           s == L2State(l2, a)
           row == L2Transition(s, ev)
           r == L2Do(l2, a, m, ev)
<1>2. /\ Sounds /\ RequestsPlaced /\ Bagged /\ \A b \in Addrs : OneOp(b)
      /\ L2Sound(l2) /\ IsABag(net) /\ DOMAIN net \subseteq SoundMsgs
  BY DEF CoherenceInv, OpsCounted, Sounds, Bagged, SoundMsgs, Sound
<1>3. Sound(m) /\ m \in Message
  BY <1>2 DEF SoundMsgs
<1>4. /\ a \in Addrs
      /\ ev \in L1Asks \cup {"Unblock", "Exclusive_Unblock"} => m.peer \in Procs
      /\ ev \in L1Asks => m.type \in Requests /\ cacheAvail(l2.tags, L2_WAYS, a)
      /\ ev \in FromMemory => m.peer = Dir /\ a = m.addr
      /\ ev \notin FromMemory \cup {"error"} => m.peer # Dir
  BY <1>2, <1>3, L2Events
<1>5. l2' = r.c /\ net' = Exchange(m, r) /\ Takes(row)
  BY <1>1
<1> HIDE DEF ev, a
<1>6. s \in L2States
  BY <1>2, <1>4, L2StateTyped
<1>7. L2RowFits(s, ev, row.next, Names(row.acts))
  <2>1. L2RowOK(s, ev, row)
    BY <1>6, L2Rows
  <2> QED BY <1>5, <2>1 DEF L2RowOK
<1>8. L2Moves(l2, r, a, ev, row)
  BY <1>2, <1>3, <1>4, <1>5, L2DoDoes
<1>9. ev # "error"
  BY <1>5, <1>6, ErrorStops
<1> DEFINE A == Names(row.acts)
<1> HIDE DEF r, s, row
<1>10. /\ L2Sound(r.c) /\ r.out \subseteq L2Out(a)
       /\ \A b \in Addrs \ {a} : L2State(r.c, b) = L2State(l2, b)
       /\ BusyIn(L2State(r.c, a)) <=> BusyIn(row.next)
       /\ A \cap L2Fetches = {} => ToDir(r.out) = {}
       /\ A \cap L2Fetches # {} => \E x : ToDir(r.out) = {x}
       /\ A \cap L2Pops # {} => r.pop
  BY <1>8 DEF L2Moves
<1>11. /\ ev \in FromMemory =>
            BusyIn(s) /\ ~BusyIn(row.next) /\ A \cap L2Fetches = {} /\ A \cap L2Pops # {}
       /\ ev \notin FromMemory =>
            \/ A \cap L2Fetches # {} /\ ~BusyIn(s) /\ BusyIn(row.next)
            \/ A \cap L2Fetches = {} /\ (BusyIn(s) <=> BusyIn(row.next))
  BY <1>7 DEF L2RowFits
<1> HIDE DEF A
<1>12. \A c, b : Busy(c, b) <=> BusyIn(L2State(c, b))
  BY DEF Busy, BusyIn, Fetching
<1>13. /\ r.out \subseteq SoundMsgs /\ r.out \cap MemOps(a) = ToDir(r.out)
       /\ \A b : b # a => r.out \cap MemOps(b) = {}
  BY <1>10, L2OutOps
<1>14. IsABag(net') /\ DOMAIN net' \subseteq SoundMsgs
  BY <1>2, <1>5, <1>13, Exchanged
<1>15. /\ SoundMsgs \subseteq Message
       /\ \A b \in Addrs : /\ OnNet(net, b) = DOMAIN net \cap MemOps(b)
                           /\ OnNet(net', b) = DOMAIN net' \cap MemOps(b)
  <2>1. SoundMsgs \subseteq Message
    BY DEF SoundMsgs
  <2> QED BY <1>2, <1>14, <2>1, Classes
<1>16. ~(m.peer = Dir) => \A b : m \notin MemOps(b)
  BY CoherenceAssumption DEF MemOps, ToMemory, L2, Dir
<1>17. \A b : m \in MemOps(b) => b = m.addr
  BY DEF MemOps
<1>18. \A S, B : Kept(S, B, S, B)
  BY DEF Kept
<1>19. ASSUME NEW b \in Addrs, m \notin MemOps(b), r.out \cap MemOps(b) = {},
              Busy(l2', b) <=> Busy(l2, b)
       PROVE  OneOp(b)'
  <2>1. SameIn(MemOps(b), net, net')
    BY <1>2, <1>5, <1>13, <1>19, Exchanged
  <2>2. Kept(OnNet(net, b), net, OnNet(net', b), net')
    BY <1>15, <2>1, SameKept
  <2>3. m_input_queue' = m_input_queue /\ m_response_queue' = m_response_queue
    BY <1>1
  <2> QED BY <1>2, <1>18, <1>19, <2>2, <2>3, OneOpKept
<1>20. ASSUME NEW b \in Addrs, b # a PROVE OneOp(b)'
  <2>1. Busy(l2', b) <=> Busy(l2, b)
    BY <1>5, <1>10, <1>12, <1>20
  <2>2. m \notin MemOps(b)
    BY <1>4, <1>9, <1>16, <1>17, <1>20
  <2> QED BY <1>13, <1>19, <1>20, <2>1, <2>2
<1>21. OneOp(a)'
  <2>1. Busy(l2', a) <=> BusyIn(row.next)
    BY <1>5, <1>10, <1>12
  <2>2. Busy(l2, a) <=> BusyIn(s)
    BY <1>12 DEF s
  <2>3. OneOp(a) /\ m_input_queue' = m_input_queue /\ m_response_queue' = m_response_queue
    BY <1>1, <1>2, <1>4
  <2>4. CASE ev \in FromMemory
    <3>1. m \in MemOps(a) /\ m \in OnNet(net, a)
      BY <1>3, <1>4, <2>4 DEF MemOps, OnNet, ToMemory
    <3>2. /\ OnNet(net, a) = {m} /\ net[m] = 1
          /\ Queued(m_input_queue, a) = {} /\ Queued(m_response_queue, a) = {}
      BY <1>11, <2>2, <2>3, <2>4, <3>1 DEF OneOp, One
    <3>3. r.pop /\ r.out \cap MemOps(a) = {}
      BY <1>10, <1>11, <1>13, <2>4
    <3>4. DOMAIN Exchange(m, r) \cap MemOps(a) = {}
      <4>1. DOMAIN net \cap MemOps(a) = {m}
        BY <1>4, <1>15, <3>2
      <4> QED BY <1>2, <1>13, <3>2, <3>3, <4>1, Exchanged
    <3>5. OnNet(net', a) = {}
      BY <1>4, <1>5, <1>15, <3>4
    <3>6. ~Busy(l2', a)
      BY <1>11, <2>1, <2>4
    <3> QED BY <2>3, <3>2, <3>5, <3>6 DEF OneOp
  <2>5. CASE ev \notin FromMemory /\ A \cap L2Fetches # {}
    <3>1. ~Busy(l2, a) /\ Busy(l2', a) /\ \E x : ToDir(r.out) = {x}
      BY <1>10, <1>11, <2>1, <2>2, <2>5
    <3>2. /\ OnNet(net, a) = {}
          /\ Queued(m_input_queue, a) = {} /\ Queued(m_response_queue, a) = {}
      BY <2>3, <3>1 DEF OneOp
    <3>3. DOMAIN net \cap MemOps(a) = {} /\ \E x : r.out \cap MemOps(a) = {x}
      BY <1>4, <1>13, <1>15, <3>1, <3>2
    <3>4. One(DOMAIN Exchange(m, r) \cap MemOps(a), Exchange(m, r))
      BY <1>2, <1>13, <3>3, Exchanged
    <3>5. One(OnNet(net', a), net')
      BY <1>4, <1>5, <1>15, <3>4
    <3> QED BY <2>3, <3>1, <3>2, <3>5 DEF OneOp
  <2>6. CASE ev \notin FromMemory /\ A \cap L2Fetches = {}
    <3>1. (Busy(l2', a) <=> Busy(l2, a)) /\ r.out \cap MemOps(a) = {}
      BY <1>10, <1>11, <1>13, <2>1, <2>2, <2>6
    <3>2. m \notin MemOps(a)
      BY <1>4, <1>9, <1>16, <2>6
    <3> QED BY <1>4, <1>19, <3>1, <3>2
  <2> QED BY <2>4, <2>5, <2>6
<1>22. Sounds'
  <2>1. \A x \in DOMAIN net' : Sound(x)
    BY <1>14 DEF SoundMsgs
  <2> QED BY <1>1, <1>2, <1>5, <1>10, <2>1 DEF Sounds
<1>23. RequestsPlaced' /\ Bagged'
  BY <1>1, <1>2, <1>14 DEF RequestsPlaced, Bagged
<1> QED BY <1>20, <1>21, <1>22, <1>23 DEF CoherenceInv, OpsCounted

-----------------------------------------------------------------------------
(* The steps of the memory controller and of the DRAM.  Each of them takes *)
(* the one thing its line has under way out of one place and puts it into  *)
(* the next one.                                                           *)
LEMMA OneTaken ==
    ASSUME NEW B, IsABag(B), NEW x \in DOMAIN B
    PROVE  /\ IsABag(B (-) SetToBag({x})) /\ DOMAIN (B (-) SetToBag({x})) \subseteq DOMAIN B
           /\ \A U : DOMAIN B \cap U = {x} /\ B[x] = 1 => DOMAIN (B (-) SetToBag({x})) \cap U = {}
           /\ \A U : x \notin U => SameIn(U, B, B (-) SetToBag({x}))
<1> DEFINE C == B (-) SetToBag({x})
<1>1. /\ IsABag(C) /\ DOMAIN C = IF B[x] = 1 THEN DOMAIN B \ {x} ELSE DOMAIN B
      /\ \A y \in DOMAIN B \ {x} : C[y] = B[y]
  BY BagTake
<1> HIDE DEF C
<1>2. \A U : x \notin U => SameIn(U, B, C)
  BY <1>1 DEF SameIn
<1> QED BY <1>1, <1>2 DEF C

(* The counterpart: something new is put into a bag.                       *)
LEMMA OneAdded ==
    ASSUME NEW B, IsABag(B), NEW x
    PROVE  /\ IsABag(B (+) SetToBag({x})) /\ DOMAIN (B (+) SetToBag({x})) = DOMAIN B \cup {x}
           /\ \A U : DOMAIN B \cap U = {} /\ x \in U =>
                One(DOMAIN (B (+) SetToBag({x})) \cap U, B (+) SetToBag({x}))
           /\ \A U : x \notin U => SameIn(U, B, B (+) SetToBag({x}))
<1> DEFINE S == {x}
           C == B (+) SetToBag(S)
<1> HIDE DEF S
<1>1. /\ IsABag(C) /\ DOMAIN C = DOMAIN B \cup S
      /\ \A y \in DOMAIN B \ S : C[y] = B[y]
      /\ \A y \in S \ DOMAIN B : C[y] = 1
  BY BagAdd
<1> HIDE DEF C
<1>2. \A U : x \notin U => SameIn(U, B, C)
  BY <1>1 DEF SameIn, S
<1>3. ASSUME NEW U, DOMAIN B \cap U = {}, x \in U PROVE One(DOMAIN C \cap U, C)
  <2>1. DOMAIN C \cap U = {x} /\ x \in S \ DOMAIN B
    BY <1>1, <1>3 DEF S
  <2> QED BY <1>1, <2>1 DEF One
<1> QED BY <1>1, <1>2, <1>3 DEF C, S

(* What the three steps have in common: nothing changes at the caches, and *)
(* of the lines but a nothing moves.                                       *)
LEMMA MemoryStepKeeps ==
    ASSUME CoherenceInv, NEW a \in Addrs, OneOp(a)',
           UNCHANGED <<workload, l1, l2, outstanding>>, directory' \in [Addrs -> Blocks],
           IsABag(net'), IsABag(m_input_queue'), IsABag(m_response_queue'),
           DOMAIN net' \subseteq SoundMsgs, DOMAIN m_input_queue' \subseteq MemoryMsgs,
           DOMAIN m_response_queue' \subseteq MemoryMsgs,
           \A b \in Addrs \ {a} : /\ SameIn(MemOps(b), net, net')
                                  /\ SameIn(OpsAt(b), m_input_queue, m_input_queue')
                                  /\ SameIn(OpsAt(b), m_response_queue, m_response_queue')
    PROVE  CoherenceInv'
<1>1. /\ Sounds /\ RequestsPlaced /\ \A b \in Addrs : OneOp(b)
      /\ DOMAIN net \subseteq SoundMsgs /\ DOMAIN m_input_queue \subseteq MemoryMsgs
      /\ DOMAIN m_response_queue \subseteq MemoryMsgs
  BY DEF CoherenceInv, OpsCounted, Sounds, SoundMsgs, Sound
<1>2. SoundMsgs \subseteq Message /\ \A m \in SoundMsgs : Sound(m)
  BY DEF SoundMsgs
<1>3. Sounds'
  BY <1>1, <1>2 DEF Sounds
<1>4. RequestsPlaced' /\ Bagged'
  BY <1>1 DEF RequestsPlaced, Bagged
<1>5. ASSUME NEW b \in Addrs, b # a PROVE OneOp(b)'
  <2>1. /\ OnNet(net, b) = DOMAIN net \cap MemOps(b)
        /\ OnNet(net', b) = DOMAIN net' \cap MemOps(b)
        /\ Queued(m_input_queue, b) = DOMAIN m_input_queue \cap OpsAt(b)
        /\ Queued(m_input_queue', b) = DOMAIN m_input_queue' \cap OpsAt(b)
        /\ Queued(m_response_queue, b) = DOMAIN m_response_queue \cap OpsAt(b)
        /\ Queued(m_response_queue', b) = DOMAIN m_response_queue' \cap OpsAt(b)
    BY <1>1, <1>2, Classes
  <2>2. /\ SameIn(MemOps(b), net, net') /\ SameIn(OpsAt(b), m_input_queue, m_input_queue')
        /\ SameIn(OpsAt(b), m_response_queue, m_response_queue')
    BY <1>5
  <2>3. /\ Kept(OnNet(net, b), net, OnNet(net', b), net')
        /\ Kept(Queued(m_input_queue, b), m_input_queue, Queued(m_input_queue', b), m_input_queue')
        /\ Kept(Queued(m_response_queue, b), m_response_queue,
                Queued(m_response_queue', b), m_response_queue')
    BY <2>1, <2>2, SameKept
  <2>4. OneOp(b) /\ (Busy(l2', b) <=> Busy(l2, b))
    BY <1>1
  <2> QED BY <2>3, <2>4, OneOpKept
<1> QED BY <1>3, <1>4, <1>5 DEF CoherenceInv, OpsCounted

(* What an invariant state says of the line a memory step is about.        *)
LEMMA LineOps ==
    ASSUME CoherenceInv, NEW a \in Addrs
    PROVE  /\ OneOp(a) /\ OnNet(net, a) = DOMAIN net \cap MemOps(a)
           /\ Queued(m_input_queue, a) = DOMAIN m_input_queue \cap OpsAt(a)
           /\ Queued(m_response_queue, a) = DOMAIN m_response_queue \cap OpsAt(a)
           /\ IsABag(net) /\ IsABag(m_input_queue) /\ IsABag(m_response_queue)
           /\ DOMAIN net \subseteq SoundMsgs /\ DOMAIN m_input_queue \subseteq MemoryMsgs
           /\ DOMAIN m_response_queue \subseteq MemoryMsgs
           /\ SoundMsgs \subseteq Message /\ directory \in [Addrs -> Blocks]
<1>1. /\ OneOp(a) /\ DOMAIN net \subseteq SoundMsgs /\ DOMAIN m_input_queue \subseteq MemoryMsgs
      /\ DOMAIN m_response_queue \subseteq MemoryMsgs /\ SoundMsgs \subseteq Message
      /\ IsABag(net) /\ IsABag(m_input_queue) /\ IsABag(m_response_queue)
      /\ directory \in [Addrs -> Blocks]
  BY DEF CoherenceInv, OpsCounted, Bagged, Sounds, SoundMsgs, Sound
<1> QED BY <1>1, Classes

(* A bag that is the same in every respect is.                             *)
LEMMA SameSelf ==
    ASSUME NEW B, NEW U
    PROVE  SameIn(U, B, B)
BY DEF SameIn

(* The directory takes a request of the L2 and queues it for the DRAM.     *)
LEMMA DirReceiveKeeps ==
    ASSUME CoherenceInv, NEW m \in DOMAIN net, m.dest = Dir, DirReceive(m)
    PROVE  CoherenceInv'
<1> DEFINE a == m.addr
           op == IF m.type = "GETS" THEN qf_queueMemoryFetchRequest(directory, m)
                 ELSE qw_queueMemoryWBRequest(m)
<1>1. Sound(m) /\ m \in Message
  BY DEF CoherenceInv, Sounds, Sound
<1>2. a \in Addrs /\ m.peer = L2 /\ m.data \in Blocks
  BY <1>1 DEF Sound, Message
<1> HIDE DEF a
<1>3. /\ OneOp(a) /\ OnNet(net, a) = DOMAIN net \cap MemOps(a)
      /\ Queued(m_input_queue, a) = DOMAIN m_input_queue \cap OpsAt(a)
      /\ Queued(m_response_queue, a) = DOMAIN m_response_queue \cap OpsAt(a)
      /\ IsABag(net) /\ IsABag(m_input_queue) /\ IsABag(m_response_queue)
      /\ DOMAIN net \subseteq SoundMsgs /\ DOMAIN m_input_queue \subseteq MemoryMsgs
      /\ DOMAIN m_response_queue \subseteq MemoryMsgs
      /\ SoundMsgs \subseteq Message /\ directory \in [Addrs -> Blocks]
  BY <1>2, LineOps
<1>4. m \in OnNet(net, a) /\ \A b : b # a => m \notin MemOps(b)
  BY DEF OnNet, ToMemory, MemOps, a
<1>5. /\ Busy(l2, a) /\ OnNet(net, a) = {m} /\ net[m] = 1
      /\ Queued(m_input_queue, a) = {} /\ Queued(m_response_queue, a) = {}
  BY <1>3, <1>4 DEF OneOp, One
<1>6. /\ op \in OpsAt(a) /\ op \in MemoryMsgs /\ \A b : b # a => op \notin OpsAt(b)
  <2>1. op \in MemoryMsgs /\ op.addr = a
    <3>1. directory[a] \in Blocks
      BY <1>2, <1>3
    <3> QED BY <1>2, <3>1 DEF MemoryMsgs, MemoryMsg, qf_queueMemoryFetchRequest,
                              qw_queueMemoryWBRequest, a
  <2> HIDE DEF op
  <2> QED BY <2>1 DEF OpsAt
<1>7. /\ net' = net (-) SetToBag({m}) /\ m_input_queue' = m_input_queue (+) SetToBag({op})
      /\ UNCHANGED <<workload, l1, l2, m_response_queue, outstanding>>
      /\ directory' = directory \/ directory' = [directory EXCEPT ![a] = m.data]
  BY DEF DirReceive, m_writeDataToMemory, a
<1> HIDE DEF op
<1>8. directory' \in [Addrs -> Blocks]
  BY <1>2, <1>3, <1>7
<1>9. /\ IsABag(net') /\ DOMAIN net' \subseteq DOMAIN net
      /\ \A U : DOMAIN net \cap U = {m} => DOMAIN net' \cap U = {}
      /\ \A U : m \notin U => SameIn(U, net, net')
  BY <1>3, <1>5, <1>7, OneTaken
<1>10. /\ IsABag(m_input_queue') /\ DOMAIN m_input_queue' = DOMAIN m_input_queue \cup {op}
       /\ \A U : DOMAIN m_input_queue \cap U = {} /\ op \in U =>
            One(DOMAIN m_input_queue' \cap U, m_input_queue')
       /\ \A U : op \notin U => SameIn(U, m_input_queue, m_input_queue')
  BY <1>3, <1>7, OneAdded
<1>11. /\ DOMAIN net' \subseteq SoundMsgs /\ DOMAIN m_input_queue' \subseteq MemoryMsgs
  BY <1>3, <1>6, <1>9, <1>10
<1>12. OneOp(a)'
  <2>1. OnNet(net', a) = DOMAIN net' \cap MemOps(a)
    BY <1>2, <1>3, <1>11, Classes
  <2>2. Queued(m_input_queue', a) = DOMAIN m_input_queue' \cap OpsAt(a)
    BY <1>2, <1>11, Classes
  <2>3. OnNet(net', a) = {} /\ One(Queued(m_input_queue', a), m_input_queue')
    BY <1>3, <1>5, <1>6, <1>9, <1>10, <2>1, <2>2
  <2> QED BY <1>5, <1>7, <2>3 DEF OneOp, Busy
<1>13. \A b \in Addrs \ {a} : /\ SameIn(MemOps(b), net, net')
                              /\ SameIn(OpsAt(b), m_input_queue, m_input_queue')
                              /\ SameIn(OpsAt(b), m_response_queue, m_response_queue')
  BY <1>4, <1>6, <1>7, <1>9, <1>10, SameSelf
<1>14. IsABag(m_response_queue') /\ DOMAIN m_response_queue' \subseteq MemoryMsgs
  BY <1>3, <1>7
<1> QED BY <1>2, <1>7, <1>8, <1>9, <1>10, <1>11, <1>12, <1>13, <1>14, MemoryStepKeeps

(* The DRAM answers: everything queued for the line, which is one request, *)
(* has been served.                                                        *)
LEMMA DramCompleteKeeps ==
    ASSUME CoherenceInv, NEW a \in Addrs, DramComplete(a)
    PROVE  CoherenceInv'
<1>1. /\ OneOp(a) /\ OnNet(net, a) = DOMAIN net \cap MemOps(a)
      /\ Queued(m_input_queue, a) = DOMAIN m_input_queue \cap OpsAt(a)
      /\ Queued(m_response_queue, a) = DOMAIN m_response_queue \cap OpsAt(a)
      /\ IsABag(net) /\ IsABag(m_input_queue) /\ IsABag(m_response_queue)
      /\ DOMAIN net \subseteq SoundMsgs /\ DOMAIN m_input_queue \subseteq MemoryMsgs
      /\ DOMAIN m_response_queue \subseteq MemoryMsgs
      /\ SoundMsgs \subseteq Message /\ directory \in [Addrs -> Blocks]
  BY LineOps
<1>2. OfAddress(m_input_queue, a) = [op \in Queued(m_input_queue, a) |-> m_input_queue[op]]
  BY DEF OfAddress, Queued
<1>3. Queued(m_input_queue, a) # {}
  BY <1>2 DEF DramComplete, EmptyBag, SetToBag
<1>4. PICK x : /\ Queued(m_input_queue, a) = {x} /\ m_input_queue[x] = 1
               /\ Busy(l2, a) /\ OnNet(net, a) = {} /\ Queued(m_response_queue, a) = {}
  BY <1>1, <1>3 DEF OneOp, One
<1>5. OfAddress(m_input_queue, a) = SetToBag({x})
  BY <1>2, <1>4 DEF SetToBag
<1>6. /\ m_input_queue' = m_input_queue (-) SetToBag({x})
      /\ m_response_queue' = m_response_queue (+) SetToBag({x})
      /\ UNCHANGED <<workload, l1, l2, directory, net, outstanding>>
  BY <1>5 DEF DramComplete
<1>7. x \in DOMAIN m_input_queue /\ x \in OpsAt(a) /\ \A b : b # a => x \notin OpsAt(b)
  BY <1>1, <1>4 DEF OpsAt
<1>8. /\ IsABag(m_input_queue') /\ DOMAIN m_input_queue' \subseteq DOMAIN m_input_queue
      /\ \A U : DOMAIN m_input_queue \cap U = {x} => DOMAIN m_input_queue' \cap U = {}
      /\ \A U : x \notin U => SameIn(U, m_input_queue, m_input_queue')
  BY <1>1, <1>4, <1>6, <1>7, OneTaken
<1>9. /\ IsABag(m_response_queue') /\ DOMAIN m_response_queue' = DOMAIN m_response_queue \cup {x}
      /\ \A U : DOMAIN m_response_queue \cap U = {} /\ x \in U =>
           One(DOMAIN m_response_queue' \cap U, m_response_queue')
      /\ \A U : x \notin U => SameIn(U, m_response_queue, m_response_queue')
  BY <1>1, <1>6, OneAdded
<1>10. /\ DOMAIN m_input_queue' \subseteq MemoryMsgs /\ DOMAIN m_response_queue' \subseteq MemoryMsgs
  BY <1>1, <1>7, <1>8, <1>9
<1>11. OneOp(a)'
  <2>1. /\ Queued(m_input_queue', a) = DOMAIN m_input_queue' \cap OpsAt(a)
        /\ Queued(m_response_queue', a) = DOMAIN m_response_queue' \cap OpsAt(a)
    BY <1>10, Classes
  <2>2. /\ Queued(m_input_queue', a) = {}
        /\ One(Queued(m_response_queue', a), m_response_queue')
    BY <1>1, <1>4, <1>7, <1>8, <1>9, <2>1
  <2> QED BY <1>4, <1>6, <2>2 DEF OneOp, Busy
<1>12. \A b \in Addrs \ {a} : /\ SameIn(MemOps(b), net, net')
                              /\ SameIn(OpsAt(b), m_input_queue, m_input_queue')
                              /\ SameIn(OpsAt(b), m_response_queue, m_response_queue')
  BY <1>6, <1>7, <1>8, <1>9, SameSelf
<1>13. IsABag(net') /\ DOMAIN net' \subseteq SoundMsgs /\ directory' \in [Addrs -> Blocks]
  BY <1>1, <1>6
<1> QED BY <1>6, <1>8, <1>9, <1>10, <1>11, <1>12, <1>13, MemoryStepKeeps

(* The directory answers the L2.                                           *)
LEMMA DirMemoryKeeps ==
    ASSUME CoherenceInv, NEW op \in DOMAIN m_response_queue, DirMemory(op)
    PROVE  CoherenceInv'
<1> DEFINE a == op.addr
           x == DirectoryAnswer(op)
<1>1. op \in MemoryMsgs
  BY DEF CoherenceInv, Sounds
<1>2. a \in Addrs /\ op.peer = L2 /\ op.data \in Blocks
  BY <1>1 DEF MemoryMsgs
<1> HIDE DEF a
<1>3. /\ OneOp(a) /\ OnNet(net, a) = DOMAIN net \cap MemOps(a)
      /\ Queued(m_input_queue, a) = DOMAIN m_input_queue \cap OpsAt(a)
      /\ Queued(m_response_queue, a) = DOMAIN m_response_queue \cap OpsAt(a)
      /\ IsABag(net) /\ IsABag(m_input_queue) /\ IsABag(m_response_queue)
      /\ DOMAIN net \subseteq SoundMsgs /\ DOMAIN m_input_queue \subseteq MemoryMsgs
      /\ DOMAIN m_response_queue \subseteq MemoryMsgs
      /\ SoundMsgs \subseteq Message /\ directory \in [Addrs -> Blocks]
  BY <1>2, LineOps
<1>4. op \in Queued(m_response_queue, a) /\ \A b : b # a => op \notin OpsAt(b)
  BY DEF Queued, OpsAt, a
<1>5. /\ Busy(l2, a) /\ Queued(m_response_queue, a) = {op} /\ m_response_queue[op] = 1
      /\ OnNet(net, a) = {} /\ Queued(m_input_queue, a) = {}
  BY <1>3, <1>4 DEF OneOp, One
<1>6. x \in SoundMsgs /\ x \in MemOps(a) /\ \A b : b # a => x \notin MemOps(b)
  <2>1. /\ x \in Message /\ x.addr = a /\ x.peer = Dir /\ x.dest = L2
        /\ x.type \in {"MEMORY_DATA", "MEMORY_ACK"}
    <3>1. CASE op.type = "MEMORY_READ"
      <4>1. x = [type |-> "MEMORY_DATA", addr |-> a, peer |-> Dir, dest |-> L2,
                 data |-> op.data, dirty |-> FALSE, acks |-> 0]
        BY <1>2, <3>1 DEF DirectoryAnswer, WithData, ResponseMsg, a
      <4> HIDE DEF x
      <4> QED BY <1>2, <4>1 DEF Message, Responses
    <3>2. CASE op.type # "MEMORY_READ"
      <4>1. x = [type |-> "MEMORY_ACK", addr |-> a, peer |-> Dir, dest |-> L2,
                 data |-> "unset", dirty |-> FALSE, acks |-> 0]
        BY <1>2, <3>2 DEF DirectoryAnswer, ResponseMsg, a
      <4> HIDE DEF x
      <4> QED BY <1>2, <4>1 DEF Message, Responses, Blocks
    <3> QED BY <3>1, <3>2
  <2> HIDE DEF x
  <2>2. Sound(x)
    BY <2>1, CoherenceAssumption DEF Sound, Requests, Unblocks, L2, Dir
  <2> QED BY <2>1, <2>2 DEF SoundMsgs, MemOps, ToMemory
<1>7. /\ net' = net (+) SetToBag({x}) /\ m_response_queue' = m_response_queue (-) SetToBag({op})
      /\ UNCHANGED <<workload, l1, l2, directory, m_input_queue, outstanding>>
  BY DEF DirMemory
<1> HIDE DEF x
<1>8. /\ IsABag(m_response_queue') /\ DOMAIN m_response_queue' \subseteq DOMAIN m_response_queue
      /\ \A U : DOMAIN m_response_queue \cap U = {op} => DOMAIN m_response_queue' \cap U = {}
      /\ \A U : op \notin U => SameIn(U, m_response_queue, m_response_queue')
  BY <1>3, <1>5, <1>7, OneTaken
<1>9. /\ IsABag(net') /\ DOMAIN net' = DOMAIN net \cup {x}
      /\ \A U : DOMAIN net \cap U = {} /\ x \in U => One(DOMAIN net' \cap U, net')
      /\ \A U : x \notin U => SameIn(U, net, net')
  BY <1>3, <1>7, OneAdded
<1>10. DOMAIN net' \subseteq SoundMsgs /\ DOMAIN m_response_queue' \subseteq MemoryMsgs
  BY <1>3, <1>6, <1>8, <1>9
<1>11. OneOp(a)'
  <2>1. OnNet(net', a) = DOMAIN net' \cap MemOps(a)
    BY <1>2, <1>3, <1>10, Classes
  <2>2. Queued(m_response_queue', a) = DOMAIN m_response_queue' \cap OpsAt(a)
    BY <1>2, <1>10, Classes
  <2>3. Queued(m_response_queue', a) = {} /\ One(OnNet(net', a), net')
    BY <1>3, <1>5, <1>6, <1>8, <1>9, <2>1, <2>2
  <2> QED BY <1>5, <1>7, <2>3 DEF OneOp, Busy
<1>12. \A b \in Addrs \ {a} : /\ SameIn(MemOps(b), net, net')
                              /\ SameIn(OpsAt(b), m_input_queue, m_input_queue')
                              /\ SameIn(OpsAt(b), m_response_queue, m_response_queue')
  BY <1>4, <1>6, <1>7, <1>8, <1>9, SameSelf
<1>13. /\ IsABag(m_input_queue') /\ DOMAIN m_input_queue' \subseteq MemoryMsgs
       /\ directory' \in [Addrs -> Blocks]
  BY <1>3, <1>7
<1> QED BY <1>2, <1>7, <1>8, <1>9, <1>10, <1>11, <1>12, <1>13, MemoryStepKeeps

-----------------------------------------------------------------------------
(* The invariant holds in every reachable state.                           *)
LEMMA InitSatisfies == Init => CoherenceInv
<1> SUFFICES ASSUME Init PROVE CoherenceInv
  OBVIOUS
<1>1. L1Sound(L1Init) /\ Placed(L1Init, {})
  <2>1. L1Init \in L1Controller
    BY DEF L1Init, L1Controller, NewL1Entry, NoL1TBE, L1Entry, L1TBE, L1States, Blocks
  <2>2. /\ L1Init.icache = {} /\ L1Init.dcache = {} /\ L1Init.mandatory = {}
        /\ \A a \in Addrs : L1Init.tbe[a] = NoL1TBE
    BY DEF L1Init
  <2>3. L1Sound(L1Init)
    BY <2>1, <2>2, CoherenceAssumption, FS_EmptySet DEF L1Sound
  <2>4. \A a \in Addrs : L1State(L1Init, a) = "NP"
    BY <2>2 DEF L1State, isL1CacheTagPresent
  <2>5. \A a \in Addrs : Waiting(L1Init, {}, a)
    BY <2>4 DEF Waiting
  <2> QED BY <2>2, <2>3, <2>5 DEF Placed
<1>2. L2Sound(L2Init) /\ \A a \in Addrs : ~Busy(L2Init, a)
  <2>1. L2Init \in L2Controller
    BY DEF L2Init, L2Controller, NewL2Entry, NoL2TBE, L2Entry, L2TBE, L2States, Blocks
  <2>2. L2Init.tags = {} /\ \A a \in Addrs : L2Init.tbe[a] = NoL2TBE
    BY DEF L2Init
  <2>3. \A a \in Addrs : L2State(L2Init, a) = "NP"
    BY <2>2 DEF L2State
  <2> QED BY <2>1, <2>2, <2>3, CoherenceAssumption, FS_EmptySet DEF L2Sound, Busy, Fetching
<1>3. IsABag(EmptyBag) /\ DOMAIN EmptyBag = {}
  BY DEF EmptyBag, SetToBag, IsABag
<1>4. /\ net = EmptyBag /\ m_input_queue = EmptyBag /\ m_response_queue = EmptyBag
      /\ l2 = L2Init /\ l1 = [p \in Procs |-> L1Init] /\ outstanding = [p \in Procs |-> {}]
      /\ directory = [a \in Addrs |-> "fresh"] /\ workload \in Workloads
  BY DEF Init
<1>5. L1Init \in L1Controller
  BY <1>1 DEF L1Sound
<1>6. Sounds
  BY <1>1, <1>2, <1>3, <1>4, <1>5, WorkloadAssumption DEF Sounds, Blocks
<1>7. RequestsPlaced
  BY <1>1, <1>4 DEF RequestsPlaced
<1>8. OpsCounted
  BY <1>2, <1>3, <1>4 DEF OpsCounted, Bagged, OneOp, OnNet, Queued
<1> QED BY <1>6, <1>7, <1>8 DEF CoherenceInv

(* Every step of every controller keeps it.                                *)
LEMMA NextKeeps == CoherenceInv /\ [Next]_vars => CoherenceInv'
<1> SUFFICES ASSUME CoherenceInv, [Next]_vars PROVE CoherenceInv'
  OBVIOUS
<1>1. ASSUME NEW w \in workload, MakeRequest(w[1], w[2], w[3]) PROVE CoherenceInv'
  <2>1. w[1] \in Procs /\ w[2] \in Addrs /\ w[3] \in Ops
    BY DEF CoherenceInv, Sounds
  <2> QED BY <1>1, <2>1, MakeRequestKeeps
<1>2. ASSUME NEW p \in Procs, NEW req \in l1[p].mandatory, L1Mandatory(p, req)
      PROVE  CoherenceInv'
  BY <1>2, MandatoryKeeps
<1>3. ASSUME NEW m \in DOMAIN net, Deliver(m) PROVE CoherenceInv'
  <2>1. m.dest \in Procs \cup {L2, Dir}
    BY DEF CoherenceInv, Sounds, Sound, Message
  <2>2. Procs \cap {L2, Dir} = {} /\ L2 # Dir
    BY CoherenceAssumption DEF L2, Dir
  <2>3. CASE m.dest \in Procs
    <3>1. L1Receive(m.dest, m)
      BY <1>3, <2>2, <2>3 DEF Deliver
    <3> QED BY <2>3, <3>1, L1ReceiveKeeps
  <2>4. CASE m.dest = L2
    <3>1. L2Receive(m)
      BY <1>3, <2>2, <2>4 DEF Deliver
    <3> QED BY <2>4, <3>1, L2ReceiveKeeps
  <2>5. CASE m.dest = Dir
    <3>1. DirReceive(m)
      BY <1>3, <2>2, <2>5 DEF Deliver
    <3> QED BY <2>5, <3>1, DirReceiveKeeps
  <2> QED BY <2>1, <2>3, <2>4, <2>5
<1>4. ASSUME NEW a \in Addrs, DramComplete(a) PROVE CoherenceInv'
  BY <1>4, DramCompleteKeeps
<1>5. ASSUME NEW op \in DOMAIN m_response_queue, DirMemory(op) PROVE CoherenceInv'
  BY <1>5, DirMemoryKeeps
<1>6. ASSUME UNCHANGED vars PROVE CoherenceInv'
  <2>1. Sounds' /\ RequestsPlaced'
    BY <1>6 DEF CoherenceInv, Sounds, RequestsPlaced, vars
  <2>2. OpsCounted'
    BY <1>6 DEF CoherenceInv, OpsCounted, Bagged, OneOp, vars
  <2> QED BY <2>1, <2>2 DEF CoherenceInv
<1> QED BY <1>1, <1>2, <1>3, <1>4, <1>5, <1>6 DEF Next

(* What the invariant says of the properties the runs check.               *)
LEMMA InvImplies == CoherenceInv => TypeOK /\ RequestInOnePlace /\ OneMemoryOp
<1> SUFFICES ASSUME CoherenceInv PROVE TypeOK /\ RequestInOnePlace /\ OneMemoryOp
  OBVIOUS
<1>1. Sounds /\ RequestsPlaced /\ OpsCounted
  BY DEF CoherenceInv
<1>2. TypeOK
  BY <1>1 DEF Sounds, L1Sound, L2Sound, Sound, TypeOK, TagsConsistent
<1>3. RequestInOnePlace
  BY <1>1 DEF RequestsPlaced, Placed, Waiting, Reads, Writes, RequestInOnePlace, St
<1>4. OneMemoryOp
  <2>1. SUFFICES ASSUME NEW op \in DOMAIN m_input_queue, NEW other \in DOMAIN m_input_queue,
                        op.addr = other.addr
                 PROVE  op = other /\ m_input_queue[op] = 1
    BY DEF OneMemoryOp
  <2> DEFINE a == op.addr
  <2>2. a \in Addrs
    BY <1>1 DEF Sounds, MemoryMsgs
  <2>3. op \in Queued(m_input_queue, a) /\ other \in Queued(m_input_queue, a)
    BY <2>1 DEF Queued
  <2> HIDE DEF a
  <2>4. One(Queued(m_input_queue, a), m_input_queue)
    BY <1>1, <2>2, <2>3 DEF OpsCounted, OneOp
  <2> QED BY <2>3, <2>4 DEF One
<1> QED BY <1>2, <1>3, <1>4

(* So it holds in every behaviour.                                         *)
LEMMA Invariance == Spec => []CoherenceInv
BY InitSatisfies, NextKeeps, PTL DEF Spec

-----------------------------------------------------------------------------
(* The controllers, the messages on the network and the queues of the      *)
(* memory controller keep their types, a line is in one of the two L1      *)
(* caches of a processor only and no cache set holds more lines than it    *)
(* has ways: what getState, setState and allocate assert, for any number   *)
(* of processors, lines and ways.                                          *)
THEOREM CoherenceTyped == Spec => []TypeOK
BY Invariance, InvImplies, PTL

(* A request of a processor is in the mandatory queue or its line is in    *)
(* the transient state that waits for it, never both and never neither:    *)
(* readCallback and writeCallback of the L1's actions find their request   *)
(* in the sequencer's table, and no request is lost or called back twice.  *)
THEOREM RequestsInOnePlace == Spec => []RequestInOnePlace
BY Invariance, InvImplies, PTL

(* The L2 has one request per line with the memory controller, so that     *)
(* enqueueToResponse, which completes everything queued for the address,   *)
(* completes what the DRAM has served and nothing else.                    *)
THEOREM OneMemoryOpPerLine == Spec => []OneMemoryOp
BY Invariance, InvImplies, PTL
=============================================================================
