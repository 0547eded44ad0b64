------------------------- MODULE MemoryCycleProofs -------------------------
(***************************************************************************)
(* Proofs about the memory unit and Ruby, for any lines, any accesses, any *)
(* number of MSHR slots and of outstanding requests.                       *)
(***************************************************************************)
EXTENDS MemoryCycle, MemoryProofs

(* A lane is stalled while its access is in the list or answered, so that  *)
(* each node is at one place only.                                         *)
NodesOnce ==
    /\ \A i, j \in Positions : Entry(i).nodeid = Entry(j).nodeid => i = j
    /\ \A i \in Positions : Entry(i).nodeid \in waiting
    /\ \A i \in Positions : Entry(i).nodeid \notin Elements(m_mem_resp_list)
    /\ Elements(m_mem_resp_list) \subseteq waiting
    /\ Distinct(m_mem_resp_list)

(* A line is in Ruby's queue once.  It can be in a table as well only      *)
(* between access() and the end of process_mshr, which empties the queue.  *)
QueueInPhase ==
    /\ Distinct(m_callback_queue)
    /\ phase \in {"ruby", "send", "access"} =>
          Queued \cap Outstanding = {}
    /\ phase = "wake" => m_callback_queue = <<>>

TablesCounted ==
    /\ IsFiniteSet(m_readRequestTable)
    /\ IsFiniteSet(m_writeRequestTable)
    /\ CountMatchesTables

SlotsCounted ==
    /\ IsFiniteSet(IssuedNodes)
    /\ MshrConserved

(* The inductive invariant. *)
IInv ==
    /\ TypeOK
    /\ TablesCounted
    /\ NodesOnce
    /\ QueueInPhase
    /\ IssuedInOrder
    /\ IssuedMatchesRuby
    /\ SlotsCounted

IssuedOf(line) == {i \in Positions : LineOf(i) = line /\ Entry(i).is_issue}

-----------------------------------------------------------------------------
(* Memory::initialize and an idle sequencer satisfy the invariant. *)
LEMMA InitIInv == Init => IInv
<1> SUFFICES ASSUME Init PROVE IInv
  OBVIOUS
<1> USE DEF Init, RubyInit, MemoryInit
<1>1. TypeOK
  BY RubyAssumption, MemoryAssumption
     DEF TypeOK, RubyTypeOK, MemoryTypeOK, Phases
<1>2. TablesCounted
  BY FS_EmptySet DEF TablesCounted, CountMatchesTables
<1>3. Positions = {} /\ Elements(m_mem_resp_list) = {} /\ Queued = {}
  BY DEF Positions, Elements, Queued
<1>4. NodesOnce
  BY <1>3 DEF NodesOnce, Distinct
<1>5. QueueInPhase
  BY <1>3 DEF QueueInPhase, Distinct
<1>6. IssuedInOrder
  BY <1>3 DEF IssuedInOrder
<1>7. IssuedMatchesRuby
  BY <1>3, FS_EmptySet DEF IssuedMatchesRuby, Outstanding
<1>8. SlotsCounted
  <2>1. IssuedNodes = {}
    BY <1>3 DEF IssuedNodes
  <2> QED BY <2>1, FS_EmptySet, MemoryAssumption DEF SlotsCounted, MshrConserved
<1> QED BY <1>1, <1>2, <1>4, <1>5, <1>6, <1>7, <1>8 DEF IInv

(* The number of issued requests of a line, which IssuedMatchesRuby names. *)
LEMMA IssuedCount ==
    ASSUME TypeOK
    PROVE  /\ \A line \in Lines : IsFiniteSet(IssuedOf(line))
           /\ \A line \in Lines : Cardinality(IssuedOf(line)) \in Nat
<1>1. Len(ldst_addr_buffer) \in Nat /\ Positions = 1..Len(ldst_addr_buffer)
  BY LenProperties DEF TypeOK, MemoryTypeOK, Positions
<1>2. IsFiniteSet(Positions)
  BY <1>1, FS_Interval
<1>3. \A line \in Lines : IssuedOf(line) \in SUBSET Positions
  BY DEF IssuedOf
<1> QED BY <1>2, <1>3, FS_Subset, FS_CardinalityType

(* Ruby's callback: the line leaves its table and is counted out.          *)
LEMMA CallbackTables ==
    ASSUME IInv, NEW line \in Lines, hitCallback(line)
    PROVE  /\ TablesCounted'
           /\ m_readRequestTable' \in SUBSET Lines
           /\ m_writeRequestTable' \in SUBSET Lines
           /\ m_outstanding_count' \in Nat
           /\ line \in Outstanding
           /\ Outstanding' = Outstanding \ {line}
           /\ m_callback_queue' = Append(m_callback_queue, line)
<1> USE DEF IInv, TablesCounted, CountMatchesTables, TypeOK, RubyTypeOK, Outstanding
<1>0. Cardinality(m_readRequestTable) \in Nat /\ Cardinality(m_writeRequestTable) \in Nat
  BY FS_CardinalityType
<1>1. CASE readCallback(line)
  <2>1. /\ IsFiniteSet(m_readRequestTable \ {line})
        /\ Cardinality(m_readRequestTable \ {line}) = Cardinality(m_readRequestTable) - 1
    BY <1>1, FS_RemoveElement DEF readCallback
  <2>2. Cardinality(m_readRequestTable \ {line}) \in Nat
    BY <2>1, FS_CardinalityType
  <2> QED BY <1>0, <1>1, <2>1, <2>2 DEF readCallback
<1>2. CASE writeCallback(line)
  <2>1. /\ IsFiniteSet(m_writeRequestTable \ {line})
        /\ Cardinality(m_writeRequestTable \ {line}) = Cardinality(m_writeRequestTable) - 1
    BY <1>2, FS_RemoveElement DEF writeCallback
  <2>2. Cardinality(m_writeRequestTable \ {line}) \in Nat
    BY <2>1, FS_CardinalityType
  <2> QED BY <1>0, <1>2, <2>1, <2>2 DEF writeCallback
<1> QED BY <1>1, <1>2 DEF hitCallback

(* The invariant's part about the list of requests, which only the list,   *)
(* the answers, the slots and the waiting nodes can disturb.               *)
LEMMA ListUnchanged ==
    ASSUME NodesOnce, IssuedInOrder, SlotsCounted, MemoryTypeOK, UNCHANGED <<memoryVars, waiting>>
    PROVE  /\ NodesOnce' /\ IssuedInOrder' /\ SlotsCounted' /\ MemoryTypeOK'
           /\ \A line : IssuedOf(line)' = IssuedOf(line)
<1> USE DEF memoryVars
<1>1. Positions' = Positions /\ (\A i : Entry(i)' = Entry(i) /\ LineOf(i)' = LineOf(i))
  BY DEF Positions, Entry, LineOf
<1>2. NodesOnce'
  BY <1>1 DEF NodesOnce
<1>3. IssuedInOrder'
  BY <1>1 DEF IssuedInOrder
<1>4. IssuedNodes' = IssuedNodes
  BY <1>1 DEF IssuedNodes
<1>5. SlotsCounted'
  BY <1>4 DEF SlotsCounted, MshrConserved
<1>6. MemoryTypeOK'
  BY DEF MemoryTypeOK
<1>7. \A line : IssuedOf(line)' = IssuedOf(line)
  BY <1>1 DEF IssuedOf
<1> QED BY <1>2, <1>3, <1>5, <1>6, <1>7

(* A callback moves the line of an issued request from a table to the      *)
(* queue.                                                                  *)
LEMMA CallbackStep ==
    ASSUME IInv, NEW line \in Lines, Callback(line)
    PROVE  IInv'
<1>1. phase = "ruby" /\ phase' = "ruby" /\ hitCallback(line)
      /\ UNCHANGED <<memoryVars, waiting>>
  BY DEF Callback
<1>2. /\ TablesCounted'
      /\ m_readRequestTable' \in SUBSET Lines
      /\ m_writeRequestTable' \in SUBSET Lines
      /\ m_outstanding_count' \in Nat
      /\ line \in Outstanding
      /\ Outstanding' = Outstanding \ {line}
      /\ m_callback_queue' = Append(m_callback_queue, line)
  BY <1>1, CallbackTables
<1>3. /\ NodesOnce' /\ IssuedInOrder' /\ SlotsCounted' /\ MemoryTypeOK'
      /\ \A l : IssuedOf(l)' = IssuedOf(l)
  BY <1>1, ListUnchanged DEF IInv, TypeOK
<1>4. line \notin Queued
  BY <1>1, <1>2 DEF IInv, QueueInPhase
<1>5. /\ m_callback_queue' \in Seq(Lines)
      /\ Queued' = Queued \cup {line}
      /\ Distinct(m_callback_queue')
  BY <1>2, <1>4, PushDistinct DEF IInv, QueueInPhase, TypeOK, RubyTypeOK, Queued, Elements
<1>6. TypeOK'
  BY <1>1, <1>2, <1>3, <1>5 DEF IInv, TypeOK, RubyTypeOK, Phases
<1>7. QueueInPhase'
  BY <1>1, <1>2, <1>5 DEF IInv, QueueInPhase
<1>8. IssuedMatchesRuby'
  <2>1. ASSUME NEW l \in Lines
        PROVE  Cardinality(IssuedOf(l)') =
                 (IF l \in Outstanding' THEN 1 ELSE 0) + (IF l \in Queued' THEN 1 ELSE 0)
    <3>1. Cardinality(IssuedOf(l)) =
            (IF l \in Outstanding THEN 1 ELSE 0) + (IF l \in Queued THEN 1 ELSE 0)
      BY DEF IInv, IssuedMatchesRuby, IssuedOf
    <3>2. Cardinality(IssuedOf(l)') = Cardinality(IssuedOf(l))
      BY <1>3
    <3> QED BY <1>2, <1>4, <1>5, <3>1, <3>2
  <2> QED BY <2>1 DEF IssuedMatchesRuby, IssuedOf
<1> QED BY <1>2, <1>3, <1>6, <1>7, <1>8 DEF IInv

(* The steps that only go on to the next part of the cycle.                *)
LEMMA PhaseStep ==
    ASSUME IInv, UNCHANGED <<rubyVars, memoryVars, waiting>>, phase' \in Phases,
           phase' \in {"ruby", "send", "access"} =>
              phase \in {"ruby", "send", "access"} \/ m_callback_queue = <<>>,
           phase' = "wake" => m_callback_queue = <<>>
    PROVE  IInv'
<1>1. /\ NodesOnce' /\ IssuedInOrder' /\ SlotsCounted' /\ MemoryTypeOK'
      /\ \A l : IssuedOf(l)' = IssuedOf(l)
  BY ListUnchanged DEF IInv, TypeOK
<1>2. Queued' = Queued /\ Outstanding' = Outstanding
  BY DEF Queued, Outstanding, rubyVars
<1>3. m_callback_queue = <<>> => Queued = {}
  BY DEF Queued
<1>4. QueueInPhase'
  BY <1>2, <1>3 DEF IInv, QueueInPhase, rubyVars
<1>5. TablesCounted'
  BY DEF IInv, TablesCounted, CountMatchesTables, rubyVars
<1>6. TypeOK'
  BY <1>1 DEF IInv, TypeOK, RubyTypeOK, rubyVars
<1>7. IssuedMatchesRuby'
  <2>1. IssuedMatchesRuby
    BY DEF IInv
  <2> QED BY <1>1, <1>2, <2>1 DEF IssuedMatchesRuby, IssuedOf
<1> QED BY <1>1, <1>4, <1>5, <1>6, <1>7 DEF IInv

(* A request enters the list as the youngest one, not issued.              *)
LEMMA SendReqStep ==
    ASSUME IInv, NEW iter \in Iters, NEW nodeid \in Nodes, SendReq(iter, nodeid)
    PROVE  IInv'
<1>1. /\ UNCHANGED <<rubyVars, phase, mem_req_stack, m_mem_resp_list>>
      /\ phase = "send"
      /\ nodeid \notin waiting
      /\ waiting' = waiting \cup {nodeid}
  BY DEF SendReq, send_req
<1>2. TablesCounted' /\ RubyTypeOK' /\ phase' \in Phases /\ waiting' \in SUBSET Nodes
  BY <1>1 DEF IInv, TypeOK, TablesCounted, CountMatchesTables, RubyTypeOK, rubyVars
<1>3. Queued' = Queued /\ Outstanding' = Outstanding /\ QueueInPhase'
  BY <1>1 DEF IInv, QueueInPhase, Queued, Outstanding, rubyVars
<1>4. CASE <<iter, nodeid>> \notin DOMAIN memaddr_map
  <2>1. ldst_addr_buffer' = ldst_addr_buffer
    BY <1>4 DEF SendReq, send_req
  <2>2. Positions' = Positions /\ (\A i : Entry(i)' = Entry(i) /\ LineOf(i)' = LineOf(i))
    BY <2>1 DEF Positions, Entry, LineOf
  <2>3. NodesOnce'
    BY <1>1, <2>2 DEF IInv, NodesOnce
  <2>4. IssuedInOrder'
    BY <2>2 DEF IInv, IssuedInOrder
  <2>5. IssuedNodes' = IssuedNodes
    BY <2>2 DEF IssuedNodes
  <2>6. SlotsCounted'
    BY <1>1, <2>5 DEF IInv, SlotsCounted, MshrConserved
  <2>7. MemoryTypeOK'
    BY <1>1, <2>1 DEF IInv, TypeOK, MemoryTypeOK
  <2>8. IssuedMatchesRuby'
    BY <1>3, <2>2 DEF IInv, IssuedMatchesRuby
  <2> QED BY <1>2, <1>3, <2>3, <2>4, <2>6, <2>7, <2>8 DEF IInv, TypeOK
<1>5. CASE <<iter, nodeid>> \in DOMAIN memaddr_map
  <2> DEFINE value == memaddr_map[<<iter, nodeid>>]
             e == [isWrite |-> value.isWrite, nodeid |-> nodeid,
                   vaddr |-> value.addr, is_issue |-> FALSE]
  <2>0. PICK n \in Nat : n = Len(ldst_addr_buffer)
    BY LenProperties DEF IInv, TypeOK, MemoryTypeOK
  <2>1. /\ e \in MemValue_t /\ base_addr(e.vaddr) \in Lines
        /\ e.nodeid = nodeid /\ e.is_issue = FALSE
    BY <1>5, MemoryAssumption DEF MemValue_t
  <2>2. ldst_addr_buffer \in Seq(MemValue_t) /\ ldst_addr_buffer' = Append(ldst_addr_buffer, e)
    BY <1>5 DEF SendReq, send_req, IInv, TypeOK, MemoryTypeOK
  <2> HIDE DEF e
  <2>3. /\ n \in Nat /\ Positions = 1..n /\ Positions' = 1..(n + 1)
        /\ \A i \in 1..n : Entry(i)' = Entry(i) /\ LineOf(i)' = LineOf(i)
        /\ Entry(n + 1)' = e
        /\ ldst_addr_buffer' \in Seq(MemValue_t)
    <3>1. /\ n \in Nat /\ DOMAIN ldst_addr_buffer = 1..n
          /\ DOMAIN ldst_addr_buffer' = 1..(n + 1)
          /\ \A i \in 1..n : ldst_addr_buffer'[i] = ldst_addr_buffer[i]
          /\ ldst_addr_buffer'[n + 1] = e
          /\ ldst_addr_buffer' \in Seq(MemValue_t)
      BY <2>0, <2>1, <2>2, AppendProperties, LenProperties
    <3> QED BY <3>1 DEF Positions, Entry, LineOf
  <2>a. \A i \in 1..(n + 1) : i \in 1..n \/ i = n + 1
    BY <2>3
  <2>b. /\ ~Entry(n + 1)'.is_issue
        /\ Entry(n + 1)'.nodeid = nodeid
        /\ LineOf(n + 1)' \in Lines
    BY <2>1, <2>3 DEF LineOf
  <2>4. NodesOnce'
    <3>1. \A i \in 1..n : Entry(i).nodeid \in waiting
      BY <2>3 DEF IInv, NodesOnce
    <3>2. \A i, j \in 1..(n + 1) : Entry(i)'.nodeid = Entry(j)'.nodeid => i = j
      BY <1>1, <2>3, <2>a, <2>b, <3>1 DEF IInv, NodesOnce
    <3>3. \A i \in 1..(n + 1) : Entry(i)'.nodeid \in waiting'
      BY <1>1, <2>3, <2>a, <2>b, <3>1
    <3>4. \A i \in 1..(n + 1) : Entry(i)'.nodeid \notin Elements(m_mem_resp_list)
      BY <1>1, <2>3, <2>a, <2>b DEF IInv, NodesOnce
    <3> QED BY <1>1, <2>3, <3>2, <3>3, <3>4 DEF IInv, NodesOnce
  <2>5. IssuedInOrder'
    <3>1. ASSUME NEW i \in 1..(n + 1), NEW j \in 1..(n + 1), i < j,
                 LineOf(i)' = LineOf(j)', Entry(j)'.is_issue
          PROVE  Entry(i)'.is_issue
      <4>1. i \in 1..n /\ j \in 1..n
        BY <2>3, <2>a, <2>b, <3>1
      <4> QED BY <2>3, <3>1, <4>1 DEF IInv, IssuedInOrder
    <3> QED BY <2>3, <3>1 DEF IssuedInOrder
  <2>6. IssuedNodes' = IssuedNodes
    <3>1. \A k \in Nodes : (\E i \in Positions' : Entry(i)'.nodeid = k /\ Entry(i)'.is_issue)
                       <=> (\E i \in Positions : Entry(i).nodeid = k /\ Entry(i).is_issue)
      BY <2>3, <2>a, <2>b
    <3> QED BY <3>1 DEF IssuedNodes
  <2>7. SlotsCounted'
    BY <1>1, <2>6 DEF IInv, SlotsCounted, MshrConserved
  <2>8. MemoryTypeOK'
    <3>1. \A i \in 1..n : base_addr(ldst_addr_buffer[i].vaddr) \in Lines
      BY <2>3 DEF IInv, TypeOK, MemoryTypeOK, Positions
    <3>2. \A i \in 1..n : LineOf(i) \in Lines
      BY <3>1 DEF LineOf, Entry
    <3>3. \A i \in 1..(n + 1) : LineOf(i)' \in Lines
      BY <2>3, <2>a, <2>b, <3>2
    <3>4. \A i \in 1..(n + 1) : base_addr(ldst_addr_buffer'[i].vaddr) \in Lines
      BY <3>3 DEF LineOf, Entry
    <3> QED BY <1>1, <2>3, <3>4 DEF IInv, TypeOK, MemoryTypeOK, Positions
  <2>9. IssuedMatchesRuby'
    <3>1. ASSUME NEW l \in Lines PROVE IssuedOf(l)' = IssuedOf(l)
      <4>1. \A i \in 1..(n + 1) : (LineOf(i)' = l /\ Entry(i)'.is_issue)
                 <=> (i \in 1..n /\ LineOf(i) = l /\ Entry(i).is_issue)
        BY <2>3, <2>a, <2>b
      <4> QED BY <2>3, <4>1 DEF IssuedOf
    <3>2. IssuedMatchesRuby
      BY DEF IInv
    <3> QED BY <1>3, <3>1, <3>2 DEF IssuedMatchesRuby, IssuedOf
  <2> QED BY <1>2, <1>3, <2>4, <2>5, <2>7, <2>8, <2>9 DEF IInv, TypeOK
<1> QED BY <1>4, <1>5

(* A request Ruby accepts enters one table, and is counted.                *)
LEMMA RequestTables ==
    ASSUME IInv, NEW line \in Lines, NEW isWrite \in BOOLEAN,
           isReady(line), makeRequest(line, isWrite)
    PROVE  /\ TablesCounted'
           /\ RubyTypeOK'
           /\ line \notin Outstanding
           /\ Outstanding' = Outstanding \cup {line}
           /\ m_callback_queue' = m_callback_queue
<1> USE DEF IInv, TablesCounted, CountMatchesTables, TypeOK, RubyTypeOK, Outstanding,
            isReady, makeRequest
<1>1. Cardinality(m_readRequestTable) \in Nat /\ Cardinality(m_writeRequestTable) \in Nat
  BY FS_CardinalityType
<1>2. /\ IsFiniteSet(m_readRequestTable \cup {line})
      /\ Cardinality(m_readRequestTable \cup {line}) = Cardinality(m_readRequestTable) + 1
  BY FS_AddElement
<1>3. /\ IsFiniteSet(m_writeRequestTable \cup {line})
      /\ Cardinality(m_writeRequestTable \cup {line}) = Cardinality(m_writeRequestTable) + 1
  BY FS_AddElement
<1>4. CASE isWrite
  <2>1. /\ m_readRequestTable' = m_readRequestTable
        /\ m_writeRequestTable' = m_writeRequestTable \cup {line}
        /\ m_outstanding_count' = m_outstanding_count + 1
        /\ m_callback_queue' = m_callback_queue
    BY <1>4
  <2> QED BY <1>1, <1>3, <2>1
<1>5. CASE ~isWrite
  <2>1. /\ m_writeRequestTable' = m_writeRequestTable
        /\ m_readRequestTable' = m_readRequestTable \cup {line}
        /\ m_outstanding_count' = m_outstanding_count + 1
        /\ m_callback_queue' = m_callback_queue
    BY <1>5
  <2> QED BY <1>1, <1>2, <2>1
<1> QED BY <1>4, <1>5

(* Memory::access issues the oldest request of its line that is not issued *)
(* yet: an older one of the same line would have been accepted as well.    *)
LEMMA AccessStep ==
    ASSUME IInv, Access
    PROVE  IInv'
<1>1. access /\ phase = "access" /\ phase' = "mshr" /\ waiting' = waiting
  BY DEF Access
<1>2. CASE ~(mem_req_stack # 0 /\ Issuable # {})
  <2>1. UNCHANGED <<rubyVars, memoryVars, waiting>>
    BY <1>1, <1>2 DEF access
  <2> QED BY <1>1, <2>1, PhaseStep DEF Phases
<1>3. CASE mem_req_stack # 0 /\ Issuable # {}
  <2> DEFINE b == ldst_addr_buffer
  <2>0. b \in Seq(MemValue_t) /\ DOMAIN b = 1..Len(b) /\ Len(b) \in Nat
        /\ Positions = DOMAIN b
    BY LenProperties DEF IInv, TypeOK, MemoryTypeOK, Positions
  <2>1. Issuable \in SUBSET Nat
    BY <2>0 DEF Issuable
  <2>2. PICK i \in Issuable : i = First(Issuable) /\ \A j \in Issuable : i <= j
    BY <1>3, <2>1, FirstIsLeast
  <2>3. /\ i \in DOMAIN b /\ isReady(base_addr(b[i].vaddr)) /\ ~b[i].is_issue
        /\ base_addr(b[i].vaddr) \in Lines /\ b[i] \in MemValue_t
    BY <2>0, <2>2, ElementOfSeq DEF Issuable, IInv, TypeOK, MemoryTypeOK
  <2>4. PICK line \in Lines : line = LineOf(i)
    BY <2>3 DEF LineOf, Entry
  <2>5. /\ b' = [b EXCEPT ![i].is_issue = TRUE]
        /\ mem_req_stack' = mem_req_stack - 1
        /\ makeRequest(line, b[i].isWrite)
        /\ m_mem_resp_list' = m_mem_resp_list
    BY <1>1, <1>3, <2>2, <2>4 DEF access, LineOf, Entry
  <2>6. /\ TablesCounted'
        /\ RubyTypeOK'
        /\ line \notin Outstanding
        /\ Outstanding' = Outstanding \cup {line}
        /\ m_callback_queue' = m_callback_queue
    <3>1. b[i].isWrite \in BOOLEAN /\ isReady(line)
      BY <2>3, <2>4 DEF MemValue_t, LineOf, Entry
    <3> QED BY <2>5, <3>1, RequestTables
  <2>7. /\ Positions' = Positions
        /\ \A k \in Positions : /\ Entry(k)'.nodeid = Entry(k).nodeid
                                /\ LineOf(k)' = LineOf(k)
                                /\ Entry(k)'.is_issue <=> (k = i \/ Entry(k).is_issue)
        /\ b' \in Seq(MemValue_t)
    <3>0. DOMAIN b' = DOMAIN b
      BY <2>0, <2>5
    <3>1. b'[i] = [b[i] EXCEPT !.is_issue = TRUE]
      BY <2>3, <2>5
    <3>2. /\ b'[i] \in MemValue_t /\ b'[i].nodeid = b[i].nodeid
          /\ b'[i].vaddr = b[i].vaddr /\ b'[i].is_issue = TRUE
      BY <2>3, <3>1 DEF MemValue_t
    <3>3. \A k \in DOMAIN b : k # i => b'[k] = b[k]
      BY <2>0, <2>5
    <3>4. \A k \in DOMAIN b : b'[k] \in MemValue_t
      BY <2>0, <3>2, <3>3, ElementOfSeq
    <3>5. b' \in [1..Len(b) -> MemValue_t]
      BY <2>0, <2>5, <3>0, <3>4
    <3>6. b' \in Seq(MemValue_t)
      BY <2>0, <3>5
    <3>7. \A k \in Positions : Entry(k) = b[k] /\ Entry(k)' = b'[k]
      BY DEF Entry
    <3>8. \A k \in Positions : Entry(k)'.nodeid = Entry(k).nodeid
                               /\ Entry(k)'.vaddr = Entry(k).vaddr
                               /\ (Entry(k)'.is_issue <=> (k = i \/ Entry(k).is_issue))
      BY <2>0, <3>2, <3>3, <3>7
    <3>9. \A k \in Positions : LineOf(k)' = LineOf(k)
      BY <3>8 DEF LineOf
    <3> QED BY <2>0, <3>0, <3>6, <3>8, <3>9 DEF Positions
  <2> HIDE DEF b
  <2>8. i \in Positions /\ ~Entry(i).is_issue /\ Entry(i).nodeid \in Nodes
    BY <2>0, <2>3 DEF Entry, b, MemValue_t
  <2>9. NodesOnce'
    BY <1>1, <2>5, <2>7 DEF IInv, NodesOnce
  <2>10. IssuedInOrder'
    <3>1. \A k \in Positions : k < i /\ LineOf(k) = LineOf(i) => Entry(k).is_issue
      <4>1. SUFFICES ASSUME NEW k \in Positions, k < i, LineOf(k) = LineOf(i),
                            ~Entry(k).is_issue
                     PROVE  FALSE
        OBVIOUS
      <4>2. isReady(LineOf(k))
        BY <2>3, <4>1 DEF LineOf, Entry, b
      <4>3. k \in Issuable
        BY <4>1, <4>2 DEF Issuable, LineOf, Entry, Positions
      <4> QED BY <2>0, <2>1, <2>2, <4>1, <4>3
    <3>2. \A k, j \in Positions :
             k < j /\ LineOf(k) = LineOf(j) /\ Entry(j).is_issue => Entry(k).is_issue
      BY DEF IInv, IssuedInOrder
    <3> QED BY <2>7, <2>8, <3>1, <3>2 DEF IssuedInOrder
  <2>11. IssuedNodes' = IssuedNodes \cup {Entry(i).nodeid} /\ Entry(i).nodeid \notin IssuedNodes
    <3>1. \A n \in Nodes : (\E k \in Positions' : Entry(k)'.nodeid = n /\ Entry(k)'.is_issue)
             <=> (\E k \in Positions : Entry(k).nodeid = n /\ Entry(k).is_issue)
                 \/ n = Entry(i).nodeid
      BY <2>7, <2>8
    <3>2. Entry(i).nodeid \notin IssuedNodes
      BY <2>8 DEF IssuedNodes, IInv, NodesOnce
    <3> QED BY <2>8, <3>1, <3>2 DEF IssuedNodes
  <2>12. SlotsCounted' /\ mem_req_stack' \in 0..MEM_MSHR_SIZE
    <3>1. /\ IsFiniteSet(IssuedNodes')
          /\ Cardinality(IssuedNodes') = Cardinality(IssuedNodes) + 1
      BY <2>11, FS_AddElement DEF IInv, SlotsCounted
    <3>2. Cardinality(IssuedNodes) \in Nat
      BY FS_CardinalityType DEF IInv, SlotsCounted
    <3>3. /\ mem_req_stack + Cardinality(IssuedNodes) = MEM_MSHR_SIZE
          /\ mem_req_stack \in Nat \ {0} /\ mem_req_stack' = mem_req_stack - 1
      BY <1>3, <2>5, MemoryAssumption
         DEF IInv, TypeOK, MemoryTypeOK, SlotsCounted, MshrConserved
    <3> DEFINE before == Cardinality(IssuedNodes)
               after == Cardinality(IssuedNodes')
    <3>4. /\ mem_req_stack' + after = MEM_MSHR_SIZE
          /\ mem_req_stack' \in 0..MEM_MSHR_SIZE
      <4>1. before \in Nat /\ after = before + 1 /\ mem_req_stack + before = MEM_MSHR_SIZE
        BY <3>1, <3>2, <3>3
      <4> HIDE DEF before, after
      <4> QED BY <3>3, <4>1, MemoryAssumption
    <3> QED BY <3>1, <3>4 DEF SlotsCounted, MshrConserved
  <2>13. TypeOK'
    <3>1. \A k \in Positions : LineOf(k) \in Lines
      BY DEF IInv, TypeOK, MemoryTypeOK, Positions, LineOf, Entry
    <3>2. \A k \in Positions' : LineOf(k)' \in Lines
      BY <2>7, <3>1
    <3>3. \A k \in DOMAIN ldst_addr_buffer' : base_addr(ldst_addr_buffer'[k].vaddr) \in Lines
      BY <3>2 DEF Positions, LineOf, Entry
    <3> QED BY <1>1, <2>5, <2>6, <2>7, <2>12, <3>3 DEF IInv, TypeOK, MemoryTypeOK, Phases, b
  <2>14. Queued' = Queued /\ QueueInPhase'
    BY <1>1, <2>6 DEF IInv, QueueInPhase, Queued
  <2>15. IssuedMatchesRuby'
    <3>1. ASSUME NEW l \in Lines
          PROVE  Cardinality(IssuedOf(l)') =
                   (IF l \in Outstanding' THEN 1 ELSE 0) + (IF l \in Queued' THEN 1 ELSE 0)
      <4>1. /\ IsFiniteSet(IssuedOf(l)) /\ Cardinality(IssuedOf(l)) \in Nat
            /\ Cardinality(IssuedOf(l)) =
                 (IF l \in Outstanding THEN 1 ELSE 0) + (IF l \in Queued THEN 1 ELSE 0)
        BY IssuedCount DEF IInv, IssuedMatchesRuby, IssuedOf
      <4>2. CASE l = line
        <5>1. IssuedOf(l)' = IssuedOf(l) \cup {i} /\ i \notin IssuedOf(l)
          BY <2>4, <2>7, <2>8, <4>2 DEF IssuedOf
        <5>2. Cardinality(IssuedOf(l)') = Cardinality(IssuedOf(l)) + 1
          BY <4>1, <5>1, FS_AddElement
        <5> QED BY <2>6, <2>14, <4>1, <4>2, <5>2
      <4>3. CASE l # line
        <5>1. IssuedOf(l)' = IssuedOf(l)
          BY <2>4, <2>7, <4>3 DEF IssuedOf
        <5> QED BY <2>6, <2>14, <4>1, <4>3, <5>1
      <4> QED BY <4>2, <4>3
    <3> QED BY <3>1 DEF IssuedMatchesRuby, IssuedOf
  <2> QED BY <2>6, <2>9, <2>10, <2>12, <2>13, <2>14, <2>15 DEF IInv
<1> QED BY <1>2, <1>3

(* The request that first-match search finds for a queued line is issued,  *)
(* and is a request of that line.                                          *)
LEMMA SearchFindsIssued ==
    ASSUME IInv, ~RubyQueueEmpty
    PROVE  LET p == search_req(RubyQueueTop) IN
           /\ p # 0
           /\ p \in Positions
           /\ LineOf(p) = RubyQueueTop
           /\ Entry(p).is_issue
<1>1. RubyQueueTop \in Queued /\ RubyQueueTop \in Lines
  BY PopDistinct DEF IInv, TypeOK, RubyTypeOK, QueueInPhase, RubyQueueTop, RubyQueueEmpty,
                     Queued, Elements
<1>2. PICK line \in Lines : line = RubyQueueTop /\ line \in Queued
  BY <1>1
<1>3. /\ ldst_addr_buffer \in Seq(MemValue_t) /\ Positions \in SUBSET (Nat \ {0})
      /\ \A i \in Positions : Entry(i).vaddr \in Nat
  <2>1. ldst_addr_buffer \in Seq(MemValue_t)
    BY DEF IInv, TypeOK, MemoryTypeOK
  <2>2. Positions = 1..Len(ldst_addr_buffer) /\ Len(ldst_addr_buffer) \in Nat
    BY <2>1, LenProperties DEF Positions
  <2>3. \A i \in Positions : Entry(i) \in MemValue_t
    BY <2>1, <2>2, ElementOfSeq DEF Entry
  <2> QED BY <2>1, <2>2, <2>3 DEF MemValue_t
<1>4. \A i \in Positions : i \in Matches(line) <=> LineOf(i) = line
  BY <1>3, LineOfAddress DEF Matches, Positions, LineOf, Entry
<1>5. Matches(line) \in SUBSET Positions
  BY DEF Matches, Positions
<1>6. PICK i \in Positions : LineOf(i) = line /\ Entry(i).is_issue
  <2>a. Cardinality(IssuedOf(line)) =
          (IF line \in Outstanding THEN 1 ELSE 0) + (IF line \in Queued THEN 1 ELSE 0)
    BY DEF IInv, IssuedMatchesRuby, IssuedOf
  <2>1. IsFiniteSet(IssuedOf(line)) /\ Cardinality(IssuedOf(line)) # 0
    BY <1>2, <2>a, IssuedCount DEF IInv
  <2>2. IssuedOf(line) # {}
    BY <2>1, FS_EmptySet
  <2> QED BY <2>2 DEF IssuedOf
<1>7. i \in Matches(line)
  BY <1>4, <1>6
<1>8. PICK p \in Matches(line) : p = First(Matches(line)) /\ \A j \in Matches(line) : p <= j
  BY <1>3, <1>5, <1>7, FirstIsLeast
<1>9. search_req(line) = p
  BY <1>7, <1>8 DEF search_req
<1>10. p \in Positions /\ LineOf(p) = line /\ p <= i
  BY <1>4, <1>5, <1>7, <1>8
<1>11. Entry(p).is_issue
  <2>1. CASE p = i
    BY <1>6, <2>1
  <2>2. CASE p # i
    <3>1. p < i
      BY <1>3, <1>10, <2>2
    <3> QED BY <1>6, <1>10, <3>1 DEF IInv, IssuedInOrder
  <2> QED BY <2>1, <2>2
<1> QED BY <1>2, <1>3, <1>9, <1>10, <1>11

(* One answer: the request leaves the list, its node is answered and its   *)
(* slot is free again.                                                     *)
LEMMA ProcessMshrStep ==
    ASSUME IInv, ProcessMshr
    PROVE  IInv'
<1>1. /\ phase = "mshr" /\ phase' = "mshr" /\ waiting' = waiting
      /\ process_mshr /\ ~RubyQueueEmpty
  BY DEF ProcessMshr, process_mshr
<1>2. PICK line \in Lines : line = RubyQueueTop
  BY <1>1, PopDistinct DEF IInv, TypeOK, RubyTypeOK, QueueInPhase, RubyQueueTop, RubyQueueEmpty
<1>3. PICK p \in Positions : /\ p = search_req(RubyQueueTop)
                             /\ LineOf(p) = line /\ Entry(p).is_issue
  BY <1>1, <1>2, SearchFindsIssued
<1>4. PICK n \in Nat : n = Len(ldst_addr_buffer)
  BY LenProperties DEF IInv, TypeOK, MemoryTypeOK
<1>5. PICK node \in Nodes : node = Entry(p).nodeid
  <2>1. Entry(p) \in MemValue_t
    BY ElementOfSeq, LenProperties DEF IInv, TypeOK, MemoryTypeOK, Entry, Positions
  <2> QED BY <2>1 DEF MemValue_t
<1>6. /\ m_mem_resp_list' = Append(m_mem_resp_list, node)
      /\ ldst_addr_buffer' = ListRemove(ldst_addr_buffer, Entry(p))
      /\ mem_req_stack' = mem_req_stack + 1
      /\ m_callback_queue' = Tail(m_callback_queue)
      /\ UNCHANGED <<m_readRequestTable, m_writeRequestTable, m_outstanding_count>>
  BY <1>1, <1>3, <1>5 DEF process_mshr, RubyQueuePop, Entry
<1>7. /\ Positions = 1..n /\ p \in 1..n /\ Positions' = 1..(n - 1)
      /\ \A k \in Positions' : /\ Entry(k)' = Entry(Shift(p, k))
                               /\ Shift(p, k) \in Positions \ {p}
      /\ ldst_addr_buffer' \in Seq(MemValue_t)
  <2> DEFINE b == ldst_addr_buffer
  <2>1. b \in Seq(MemValue_t) /\ DOMAIN b = 1..n /\ Positions = DOMAIN b /\ p \in DOMAIN b
    BY <1>4, LenProperties DEF IInv, TypeOK, MemoryTypeOK, Positions
  <2>2. \A i, j \in DOMAIN b : b[i].nodeid = b[j].nodeid => i = j
    BY DEF IInv, NodesOnce, Positions, Entry
  <2>3. ldst_addr_buffer' = KeepAt(b, DOMAIN b \ {p})
    BY <1>6, <2>1, <2>2, RemoveIsKeepAllBut DEF Entry
  <2>4. /\ ldst_addr_buffer' \in Seq(MemValue_t)
        /\ DOMAIN ldst_addr_buffer' = 1..(n - 1)
        /\ \A k \in 1..(n - 1) : ldst_addr_buffer'[k] = b[Shift(p, k)]
    <3> DEFINE t == KeepAt(b, DOMAIN b \ {p})
    <3>1. /\ t \in Seq(MemValue_t)
          /\ DOMAIN t = 1..(Len(b) - 1)
          /\ \A k \in DOMAIN t : t[k] = b[Shift(p, k)]
      BY <2>1, KeepAllBut
    <3>2. ldst_addr_buffer' = t /\ Len(b) = n
      BY <1>4, <2>3
    <3> HIDE DEF t
    <3> QED BY <3>1, <3>2
  <2>5. \A k \in 1..(n - 1) : Shift(p, k) \in Positions \ {p}
    BY <2>1 DEF Shift
  <2> QED BY <2>1, <2>4, <2>5 DEF Entry, Positions
<1>8. \A k \in Positions' : LineOf(k)' = LineOf(Shift(p, k))
  BY <1>7 DEF LineOf
<1>9. \A i \in Positions \ {p} : \E k \in Positions' : Shift(p, k) = i
  <2>1. SUFFICES ASSUME NEW i \in Positions \ {p} PROVE \E k \in Positions' : Shift(p, k) = i
    OBVIOUS
  <2> DEFINE k == IF i < p THEN i ELSE i - 1
  <2>2. k \in Positions' /\ Shift(p, k) = i
    BY <1>7 DEF Shift
  <2> QED BY <2>2
<1>a. \A k, j \in Positions' : /\ Shift(p, k) = Shift(p, j) => k = j
                               /\ k < j => Shift(p, k) < Shift(p, j)
  BY <1>7 DEF Shift
<1>10. node \notin Elements(m_mem_resp_list)
  BY <1>5 DEF IInv, NodesOnce
<1>11. /\ m_mem_resp_list' \in Seq(Nodes)
       /\ Elements(m_mem_resp_list') = Elements(m_mem_resp_list) \cup {node}
       /\ Distinct(m_mem_resp_list')
  BY <1>6, <1>10, PushDistinct DEF IInv, TypeOK, MemoryTypeOK, NodesOnce
<1>12. NodesOnce'
  <2>1. /\ \A i, j \in Positions : Entry(i).nodeid = Entry(j).nodeid => i = j
        /\ \A i \in Positions : Entry(i).nodeid \in waiting
        /\ \A i \in Positions : Entry(i).nodeid \notin Elements(m_mem_resp_list)
        /\ Elements(m_mem_resp_list) \subseteq waiting
    BY DEF IInv, NodesOnce
  <2>2. \A k, j \in Positions' : Entry(k)'.nodeid = Entry(j)'.nodeid => k = j
    BY <1>7, <1>a, <2>1
  <2>3. \A k \in Positions' : Entry(k)'.nodeid \in waiting /\ Entry(k)'.nodeid # node
    BY <1>5, <1>7, <2>1
  <2>4. \A k \in Positions' : Entry(k)'.nodeid \notin Elements(m_mem_resp_list')
    BY <1>7, <1>11, <2>1, <2>3
  <2> QED BY <1>1, <1>5, <1>11, <2>1, <2>2, <2>3, <2>4 DEF NodesOnce
<1>13. IssuedInOrder'
  <2>1. \A i, j \in Positions :
            i < j /\ LineOf(i) = LineOf(j) /\ Entry(j).is_issue => Entry(i).is_issue
    BY DEF IInv, IssuedInOrder
  <2> QED BY <1>7, <1>8, <1>a, <2>1 DEF IssuedInOrder
<1>14. IssuedNodes' = IssuedNodes \ {node} /\ node \in IssuedNodes
  <2>1. \A i \in Positions : Entry(i).nodeid = node => i = p
    BY <1>5 DEF IInv, NodesOnce
  <2>2. \A m \in Nodes : (\E k \in Positions' : Entry(k)'.nodeid = m /\ Entry(k)'.is_issue)
            <=> (\E i \in Positions \ {p} : Entry(i).nodeid = m /\ Entry(i).is_issue)
    BY <1>7, <1>9
  <2>3. \A m \in Nodes : (\E i \in Positions \ {p} : Entry(i).nodeid = m /\ Entry(i).is_issue)
            <=> (\E i \in Positions : Entry(i).nodeid = m /\ Entry(i).is_issue) /\ m # node
    BY <1>5, <2>1
  <2> QED BY <1>3, <1>5, <2>2, <2>3 DEF IssuedNodes
<1>15. SlotsCounted' /\ mem_req_stack' \in 0..MEM_MSHR_SIZE
  <2>1. /\ IsFiniteSet(IssuedNodes')
        /\ Cardinality(IssuedNodes') = Cardinality(IssuedNodes) - 1
    BY <1>14, FS_RemoveElement DEF IInv, SlotsCounted
  <2>2. Cardinality(IssuedNodes) \in Nat /\ Cardinality(IssuedNodes') \in Nat
    BY <2>1, FS_CardinalityType DEF IInv, SlotsCounted
  <2>3. /\ mem_req_stack + Cardinality(IssuedNodes) = MEM_MSHR_SIZE
        /\ mem_req_stack \in Nat
    BY MemoryAssumption DEF IInv, TypeOK, MemoryTypeOK, SlotsCounted, MshrConserved
  <2>4. mem_req_stack' = mem_req_stack + 1
    BY <1>6
  <2> DEFINE before == Cardinality(IssuedNodes)
             after == Cardinality(IssuedNodes')
  <2>5. /\ mem_req_stack' + after = MEM_MSHR_SIZE
        /\ mem_req_stack' \in 0..MEM_MSHR_SIZE
    <3>1. before \in Nat /\ after \in Nat /\ after = before - 1
          /\ mem_req_stack + before = MEM_MSHR_SIZE
      BY <2>1, <2>2, <2>3
    <3> HIDE DEF before, after
    <3> QED BY <2>3, <2>4, <3>1, MemoryAssumption
  <2> QED BY <2>1, <2>5 DEF SlotsCounted, MshrConserved
<1>16. /\ m_callback_queue' \in Seq(Lines)
       /\ Queued' = Queued \ {line} /\ line \in Queued
       /\ Distinct(m_callback_queue')
       /\ Outstanding' = Outstanding
  <2>1. m_callback_queue \in Seq(Lines) /\ m_callback_queue # <<>> /\ Distinct(m_callback_queue)
    BY <1>1 DEF IInv, TypeOK, RubyTypeOK, QueueInPhase, RubyQueueEmpty
  <2>2. Queued = Elements(m_callback_queue) /\ Queued' = Elements(m_callback_queue')
    BY DEF Queued, Elements
  <2> QED BY <1>2, <1>6, <2>1, <2>2, PopDistinct DEF RubyQueueTop, Outstanding
<1>17. QueueInPhase'
  BY <1>1, <1>16 DEF QueueInPhase
<1>18. TablesCounted'
  BY <1>6 DEF IInv, TablesCounted, CountMatchesTables
<1>19. TypeOK'
  <2>1. \A i \in Positions : LineOf(i) \in Lines
    BY DEF IInv, TypeOK, MemoryTypeOK, Positions, LineOf, Entry
  <2>2. \A k \in Positions' : LineOf(k)' \in Lines
    BY <1>7, <1>8, <2>1
  <2>3. \A k \in DOMAIN ldst_addr_buffer' : base_addr(ldst_addr_buffer'[k].vaddr) \in Lines
    BY <2>2 DEF Positions, LineOf, Entry
  <2> QED BY <1>1, <1>6, <1>7, <1>11, <1>15, <1>16, <2>3
          DEF IInv, TypeOK, MemoryTypeOK, RubyTypeOK, Phases
<1>20. IssuedMatchesRuby'
  <2>1. ASSUME NEW l \in Lines
        PROVE  Cardinality(IssuedOf(l)') =
                 (IF l \in Outstanding' THEN 1 ELSE 0) + (IF l \in Queued' THEN 1 ELSE 0)
    <3>1. Cardinality(IssuedOf(l)) =
            (IF l \in Outstanding THEN 1 ELSE 0) + (IF l \in Queued THEN 1 ELSE 0)
      BY DEF IInv, IssuedMatchesRuby, IssuedOf
    <3>2. IssuedOf(l)' = {k \in 1..(n - 1) : Shift(p, k) \in IssuedOf(l)}
      BY <1>7, <1>8 DEF IssuedOf
    <3>3. IssuedOf(l) \in SUBSET (1..n)
      BY <1>7 DEF IssuedOf
    <3>4. p \in IssuedOf(l) <=> l = line
      BY <1>3 DEF IssuedOf
    <3>a. Cardinality(IssuedOf(l)') = IF p \in IssuedOf(l) THEN Cardinality(IssuedOf(l)) - 1
                           ELSE Cardinality(IssuedOf(l))
      BY <1>7, <3>2, <3>3, ShiftCount
    <3>5. Cardinality(IssuedOf(l)') = IF l = line THEN Cardinality(IssuedOf(l)) - 1
                                      ELSE Cardinality(IssuedOf(l))
      BY <3>2, <3>4, <3>a
    <3> QED BY <1>16, <3>1, <3>5
  <2> QED BY <2>1 DEF IssuedMatchesRuby, IssuedOf
<1> QED BY <1>12, <1>13, <1>15, <1>17, <1>18, <1>19, <1>20 DEF IInv

(* update_mem_exe takes one answered node. *)
LEMMA WakeStep ==
    ASSUME IInv, Wake
    PROVE  IInv'
<1>1. /\ waiting' = waiting \ {Head(m_mem_resp_list)}
      /\ m_mem_resp_list # <<>>
      /\ m_mem_resp_list' = Tail(m_mem_resp_list)
      /\ UNCHANGED <<rubyVars, ldst_addr_buffer, mem_req_stack, phase>>
  BY DEF Wake
<1>2. /\ m_mem_resp_list' \in Seq(Nodes)
      /\ Head(m_mem_resp_list) \in Elements(m_mem_resp_list)
      /\ Elements(m_mem_resp_list') = Elements(m_mem_resp_list) \ {Head(m_mem_resp_list)}
      /\ Distinct(m_mem_resp_list')
  BY <1>1, PopDistinct DEF IInv, TypeOK, MemoryTypeOK, NodesOnce
<1>3. Positions' = Positions /\ (\A i : Entry(i)' = Entry(i) /\ LineOf(i)' = LineOf(i))
  BY <1>1 DEF Positions, Entry, LineOf
<1>4. NodesOnce'
  BY <1>1, <1>2, <1>3 DEF IInv, NodesOnce
<1>5. IssuedInOrder'
  BY <1>3 DEF IInv, IssuedInOrder
<1>6. IssuedNodes' = IssuedNodes
  BY <1>3 DEF IssuedNodes
<1>7. SlotsCounted'
  BY <1>1, <1>6 DEF IInv, SlotsCounted, MshrConserved
<1>8. TypeOK' /\ TablesCounted'
  BY <1>1, <1>2 DEF IInv, TypeOK, RubyTypeOK, MemoryTypeOK, TablesCounted,
                    CountMatchesTables, rubyVars
<1>9. Queued' = Queued /\ Outstanding' = Outstanding /\ QueueInPhase'
  BY <1>1 DEF IInv, QueueInPhase, Queued, Outstanding, rubyVars
<1>10. IssuedMatchesRuby'
  BY <1>3, <1>9 DEF IInv, IssuedMatchesRuby
<1> QED BY <1>4, <1>5, <1>7, <1>8, <1>9, <1>10 DEF IInv

(* Every step of the cycle keeps the invariant. *)
LEMMA NextIInv == IInv /\ [Next]_vars => IInv'
<1> SUFFICES ASSUME IInv, [Next]_vars PROVE IInv'
  OBVIOUS
<1>1. CASE \E line \in Lines : Callback(line)
  BY <1>1, CallbackStep
<1>2. CASE AdvanceTimeReturns
  BY <1>2, PhaseStep DEF AdvanceTimeReturns, Phases
<1>3. CASE \E iter \in Iters, nodeid \in Nodes : SendReq(iter, nodeid)
  BY <1>3, SendReqStep
<1>4. CASE SendReturns
  BY <1>4, PhaseStep DEF SendReturns, Phases
<1>5. CASE Access
  BY <1>5, AccessStep
<1>6. CASE ProcessMshr
  BY <1>6, ProcessMshrStep
<1>7. CASE RecvRespReturns
  BY <1>7, PhaseStep DEF RecvRespReturns, RubyQueueEmpty, Phases
<1>8. CASE Wake
  BY <1>8, WakeStep
<1>9. CASE UpdateMemExeReturns
  <2>1. m_callback_queue = <<>>
    BY <1>9 DEF UpdateMemExeReturns, IInv, QueueInPhase
  <2> QED BY <1>9, <2>1, PhaseStep DEF UpdateMemExeReturns, Phases
<1>10. CASE UNCHANGED vars
  <2>1. UNCHANGED <<rubyVars, memoryVars, waiting>> /\ phase' = phase
    BY <1>10 DEF vars
  <2>2. /\ phase' \in {"ruby", "send", "access"} =>
              phase \in {"ruby", "send", "access"}
        /\ phase' = "wake" => m_callback_queue = <<>>
        /\ phase' \in Phases
    BY <2>1 DEF IInv, QueueInPhase, TypeOK, Phases
  <2> QED BY <2>1, <2>2, PhaseStep
<1> QED BY <1>1, <1>2, <1>3, <1>4, <1>5, <1>6, <1>7, <1>8, <1>9, <1>10 DEF Next

-----------------------------------------------------------------------------
(* The invariant holds in every state the memory unit can reach.           *)
THEOREM InvariantHolds == Spec => []IInv
BY InitIInv, NextIInv, PTL DEF Spec

(* The queues, tables and counters of the memory unit and of Ruby keep     *)
(* their types; in particular the counter of free MSHR slots never leaves  *)
(* 0..MEM_MSHR_SIZE, which no test of access() or process_mshr checks.     *)
THEOREM MemoryTypeCorrect == Spec => []TypeOK
<1>1. IInv => TypeOK
  BY DEF IInv
<1> QED BY <1>1, InvariantHolds, PTL

(* The Sequencer's own assertion, m_outstanding_count = the sizes of its   *)
(* tables, and the promise behind isReady that a line is in one of them.   *)
THEOREM CountAlwaysMatches == Spec => []CountMatchesTables
<1>1. IInv => CountMatchesTables
  BY DEF IInv, TablesCounted
<1> QED BY <1>1, InvariantHolds, PTL

(* process_mshr's assertion that the answered line is found, and that the  *)
(* request found has been issued, although search_req ignores is_issue.    *)
THEOREM ResponseAlwaysFindsIssued == Spec => []ResponseFindsIssued
<1>1. IInv => ResponseFindsIssued
  BY SearchFindsIssued DEF ResponseFindsIssued
<1> QED BY <1>1, InvariantHolds, PTL

(* access() issues the requests of a line in their arrival order.          *)
THEOREM AlwaysIssuedInOrder == Spec => []IssuedInOrder
<1>1. IInv => IssuedInOrder
  BY DEF IInv
<1> QED BY <1>1, InvariantHolds, PTL

(* The issued requests in the list of the memory unit are, line by line,   *)
(* those that the Sequencer holds or has answered.                         *)
THEOREM IssuedAlwaysMatchesRuby == Spec => []IssuedMatchesRuby
<1>1. IInv => IssuedMatchesRuby
  BY DEF IInv
<1> QED BY <1>1, InvariantHolds, PTL

(* No MSHR slot is leaked by access() or freed twice by process_mshr.      *)
THEOREM MshrAlwaysConserved == Spec => []MshrConserved
<1>1. IInv => MshrConserved
  BY DEF IInv, SlotsCounted
<1> QED BY <1>1, InvariantHolds, PTL

=============================================================================
