----------------------------- MODULE HostProofs -----------------------------
(***************************************************************************)
(* Proofs about the main loop: the host and the core never have requests   *)
(* in the sequencer at the same time, so that each sees its own answers    *)
(* only, for any trace, any program and any sequencer.                     *)
(***************************************************************************)
EXTENDS Host, MemoryProofs

(* The core with a sequencer of its own, and what is proved about it. *)
CP == INSTANCE CoreProofs WITH
    m_readRequestTable <- idle(m_readRequestTable, {}),
    m_writeRequestTable <- idle(m_writeRequestTable, {}),
    m_outstanding_count <- idle(m_outstanding_count, 0),
    m_callback_queue <- idle(m_callback_queue, <<>>)

Places == {"getline", "advance", "isReady", "wait", "answers", "drain", "drained",
           "chunk", "acc", "done"}

(* What the place in the loop says about the host's requests. *)
LoopInPlace ==
    /\ at \in Places /\ req \in HostRequests /\ flag_empty \in BOOLEAN
    /\ flag_empty => memory_vector = <<>>
    /\ at \in {"advance", "isReady", "wait"} => ~flag_empty
    /\ at \in {"isReady", "wait"} => req_addr \notin Elements(memory_vector)
    /\ at \in {"chunk", "acc"} => memory_vector = <<>>
    /\ at # "acc" => phase = "host"

(* The requests Ruby holds are the host's, each in one of its tables or in *)
(* its queue.                                                              *)
HostOwns ==
    /\ RubyTypeOK
    /\ memory_vector \in Seq(Lines) /\ Distinct(memory_vector)
    /\ Distinct(m_callback_queue)
    /\ Elements(memory_vector) = Outstanding \cup Elements(m_callback_queue)
    /\ Outstanding \cap Elements(m_callback_queue) = {}
    /\ m_readRequestTable \cap m_writeRequestTable = {}
    /\ IsFiniteSet(m_readRequestTable) /\ IsFiniteSet(m_writeRequestTable)
    /\ m_outstanding_count =
          Cardinality(m_readRequestTable) + Cardinality(m_writeRequestTable)

HInv ==
    /\ CP!CInv
    /\ LoopInPlace
    /\ at # "acc" => HostOwns

-----------------------------------------------------------------------------
(* memory_vector: erasing the one entry of a line. *)
LEMMA EraseOne ==
    ASSUME NEW T, NEW s \in Seq(T), Distinct(s), NEW e \in Elements(s)
    PROVE  /\ RemoveFirst(s, e) \in Seq(T)
           /\ Distinct(RemoveFirst(s, e))
           /\ Elements(RemoveFirst(s, e)) = Elements(s) \ {e}
<1>1. Len(s) \in Nat /\ DOMAIN s = 1..Len(s) /\ \A i \in 1..Len(s) : s[i] \in T
  BY LenProperties, ElementOfSeq
<1>2. PICK i \in 1..Len(s) : s[i] = e
  BY <1>1 DEF Elements
<1>3. {j \in 1..Len(s) : s[j] = e} = {i}
  BY <1>1, <1>2 DEF Distinct
<1>4. Min({i}) = i
  BY <1>1, <1>2 DEF Min
<1>5. RemoveFirst(s, e) = RemoveAt(s, i)
  BY <1>2, <1>3, <1>4 DEF RemoveFirst, SelectInSeq
<1> DEFINE a == SubSeq(s, 1, i - 1)
           b == SubSeq(s, i + 1, Len(s))
           r == a \o b
<1>6. /\ a \in Seq(T) /\ Len(a) = i - 1
      /\ \A k \in 1..(i - 1) : a[k] = s[k]
  <2>1. \A k \in 1..(i - 1) : s[k] \in T
    BY <1>1
  <2>2. /\ a \in Seq(T) /\ Len(a) = IF 1 <= i - 1 THEN (i - 1) - 1 + 1 ELSE 0
        /\ \A k \in 1..((i - 1) - 1 + 1) : a[k] = s[1 + k - 1]
    BY <1>1, <2>1, SubSeqProperties
  <2> HIDE DEF a
  <2> QED BY <1>1, <2>2
<1>7. /\ b \in Seq(T) /\ Len(b) = Len(s) - i
      /\ \A k \in 1..(Len(s) - i) : b[k] = s[i + k]
  <2>1. \A k \in (i + 1)..Len(s) : s[k] \in T
    BY <1>1
  <2>2. /\ b \in Seq(T) /\ Len(b) = IF i + 1 <= Len(s) THEN Len(s) - (i + 1) + 1 ELSE 0
        /\ \A k \in 1..(Len(s) - (i + 1) + 1) : b[k] = s[(i + 1) + k - 1]
    BY <1>1, <2>1, SubSeqProperties
  <2> HIDE DEF b
  <2>3. \A k \in 1..(Len(s) - i) : b[k] = s[(i + 1) + k - 1] /\ (i + 1) + k - 1 = i + k
    <3>1. Len(s) - (i + 1) + 1 = Len(s) - i
      BY <1>1
    <3>2. \A k \in 1..(Len(s) - i) : (i + 1) + k - 1 = i + k
      BY <1>1
    <3>3. \A k \in 1..(Len(s) - i) : b[k] = s[(i + 1) + k - 1]
      BY <2>2, <3>1, Zenon
    <3> QED BY <3>2, <3>3, Zenon
  <2>4. Len(b) = Len(s) - i
    <3>1. CASE i + 1 <= Len(s)
      <4>1. Len(b) = Len(s) - (i + 1) + 1
        BY <2>2, <3>1
      <4>2. Len(s) - (i + 1) + 1 = Len(s) - i
        BY <1>1
      <4> QED BY <4>1, <4>2, Zenon
    <3>2. CASE ~(i + 1 <= Len(s))
      <4>1. Len(b) = 0
        BY <2>2, <3>2
      <4>2. i \in Nat /\ Len(s) \in Nat /\ i <= Len(s)
        BY <1>1
      <4>3. Len(s) = i /\ i - i = 0
        BY <3>2, <4>2
      <4> QED BY <4>1, <4>3, Zenon
    <3> QED BY <3>1, <3>2
  <2>5. ASSUME NEW k \in 1..(Len(s) - i) PROVE b[k] = s[i + k]
    BY <2>3, Zenon
  <2> QED BY <2>2, <2>4, <2>5
<1> HIDE DEF a, b
<1>8. /\ r \in Seq(T) /\ Len(r) = Len(s) - 1
      /\ \A k \in 1..(Len(s) - 1) : r[k] = IF k < i THEN s[k] ELSE s[k + 1]
  <2>1. /\ r \in Seq(T) /\ Len(r) = Len(a) + Len(b)
        /\ \A k \in 1..(Len(a) + Len(b)) : r[k] = IF k <= Len(a) THEN a[k] ELSE b[k - Len(a)]
    BY <1>6, <1>7, ConcatProperties
  <2>2. Len(r) = Len(s) - 1
    BY <1>1, <1>6, <1>7, <2>1
  <2>3. ASSUME NEW k \in 1..(Len(s) - 1)
        PROVE  r[k] = IF k < i THEN s[k] ELSE s[k + 1]
    <3>1. k \in 1..(Len(a) + Len(b))
      BY <1>1, <1>6, <1>7
    <3>2. CASE k < i
      BY <1>1, <1>6, <2>1, <3>1, <3>2
    <3>3. CASE ~(k < i)
      <4>1. k - Len(a) \in 1..(Len(s) - i) /\ i + (k - Len(a)) = k + 1 /\ ~(k <= Len(a))
        BY <1>1, <1>6, <3>3
      <4> QED BY <1>7, <2>1, <3>1, <3>3, <4>1
    <3> QED BY <3>2, <3>3
  <2> QED BY <2>1, <2>2, <2>3
<1>9. RemoveFirst(s, e) = r
  BY <1>5 DEF RemoveAt, a, b
<1> HIDE DEF r
<1>10. DOMAIN r = 1..(Len(s) - 1)
  BY <1>8, LenProperties
<1>11. Distinct(r)
  <2> SUFFICES ASSUME NEW k \in 1..(Len(s) - 1), NEW m \in 1..(Len(s) - 1), r[k] = r[m]
               PROVE  k = m
    BY <1>10 DEF Distinct
  <2>1. \A x, y \in 1..Len(s) : s[x] = s[y] => x = y
    BY <1>1 DEF Distinct
  <2>2. k \in 1..Len(s) /\ k + 1 \in 1..Len(s) /\ m \in 1..Len(s) /\ m + 1 \in 1..Len(s)
    BY <1>1
  <2> QED BY <1>1, <1>8, <2>1, <2>2
<1>12. ASSUME NEW x \in Elements(r) PROVE x \in Elements(s) \ {e}
  <2>1. PICK k \in 1..(Len(s) - 1) : x = r[k]
    BY <1>10 DEF Elements
  <2>2. PICK m \in 1..Len(s) : x = s[m] /\ m # i
    BY <1>1, <1>8, <2>1
  <2> QED BY <1>1, <1>2, <2>2 DEF Elements, Distinct
<1>13. ASSUME NEW x \in Elements(s), x # e PROVE x \in Elements(r)
  <2>1. PICK m \in 1..Len(s) : x = s[m] /\ m # i
    BY <1>1, <1>2, <1>13 DEF Elements
  <2>2. CASE m < i
    <3>1. m \in 1..(Len(s) - 1) /\ r[m] = x
      BY <1>1, <1>8, <2>1, <2>2
    <3> QED BY <1>10, <3>1 DEF Elements
  <2>3. CASE ~(m < i)
    <3>1. m - 1 \in 1..(Len(s) - 1) /\ ~(m - 1 < i) /\ (m - 1) + 1 = m
      BY <1>1, <2>1, <2>3
    <3>2. r[m - 1] = x
      BY <1>8, <2>1, <3>1
    <3> QED BY <1>10, <3>1, <3>2 DEF Elements
  <2> QED BY <2>2, <2>3
<1> QED BY <1>8, <1>9, <1>11, <1>12, <1>13

(* A sequence without duplicates is as long as the set of its members.     *)
LEMMA DistinctLength ==
    ASSUME NEW T, NEW s \in Seq(T), Distinct(s)
    PROVE  IsFiniteSet(Elements(s)) /\ Cardinality(Elements(s)) = Len(s)
<1>1. Len(s) \in Nat /\ DOMAIN s = 1..Len(s) /\ s \in [1..Len(s) -> T]
  BY LenProperties, SeqDef
<1>2. s \in Bijection(1..Len(s), Elements(s))
  BY <1>1 DEF Bijection, Injection, Surjection, IsInjective, Distinct, Elements
<1>3. IsFiniteSet(1..Len(s)) /\ Cardinality(1..Len(s)) = Len(s)
  BY <1>1, FS_Interval
<1> QED BY <1>2, <1>3, FS_Bijection DEF ExistsBijection

(* SetToSeq lists a finite set. *)
LEMMA SequenceOfSet ==
    ASSUME NEW T, NEW S \in SUBSET T, IsFiniteSet(S)
    PROVE  /\ SetToSeq(S) \in Seq(T)
           /\ Len(SetToSeq(S)) = Cardinality(S)
           /\ Elements(SetToSeq(S)) = S
<1>1. PICK n \in Nat : n = Cardinality(S)
  BY FS_CardinalityType
<1>2. IsFiniteSet(1..n) /\ Cardinality(1..n) = n
  BY FS_Interval
<1>3. \E f \in [1..n -> S] : IsInjective(f)
  <2>1. ExistsBijection(1..n, S)
    BY <1>1, <1>2, FS_SameCardinalityBij
  <2> QED BY <2>1 DEF ExistsBijection, Bijection, Injection
<1> DEFINE f == SetToSeq(S)
<1>4. f \in [1..n -> S] /\ IsInjective(f)
  BY <1>1, <1>3 DEF SetToSeq
<1> HIDE DEF f
<1>5. f \in Surjection(1..n, S)
  <2>1. f \in Injection(1..n, S)
    BY <1>4 DEF Injection
  <2> QED BY <1>1, <1>2, <2>1, FS_Injection
<1>6. Elements(f) = S
  BY <1>4, <1>5 DEF Surjection, Elements
<1>7. f \in Seq(T) /\ Len(f) = n
  <2>1. f \in [1..n -> T]
    BY <1>4
  <2>2. f \in Seq(T)
    BY <2>1, SeqDef
  <2>3. Len(f) \in Nat /\ 1..Len(f) = 1..n
    BY <2>1, <2>2, LenProperties
  <2>4. Len(f) = n
    BY <2>3
  <2> QED BY <2>2, <2>4
<1> QED BY <1>1, <1>6, <1>7 DEF f

-----------------------------------------------------------------------------
(* The core's part.                                                        *)

(* What CoreProofs proves of the core, for the core with a sequencer       *)
(* of its own.                                                             *)
LEMMA CoreAloneInvariant ==
    /\ CP!Init => CP!CInv
    /\ CP!CInv /\ [CP!Next]_(CP!vars) => CP!CInv'
    /\ CP!CInv => (phase = "host" => CP!RubyInit)
<1>1. \A S : CP!Cardinality(S) = Cardinality(S)
  BY DEF CP!Cardinality, Cardinality
<1>2. \A S : CP!IsFiniteSet(S) <=> IsFiniteSet(S)
  BY DEF CP!IsFiniteSet, IsFiniteSet
<1> USE RubyAssumption, MemoryAssumption, LaneAssumption, CoreAssumption, ChainAssumption
    DEF CP!base_addr, base_addr, CP!isMemory, isMemory, CP!Ids, Ids
<1>3. CP!Init => CP!CInv
  BY <1>1, <1>2, CP!InitCycle
<1>4. CP!CInv /\ [CP!Next]_(CP!vars) => CP!CInv'
  BY <1>1, <1>2, CP!NextCycle
<1>5. CP!CInv => (phase = "host" => CP!RubyInit)
  BY <1>1, <1>2, CP!HostPhaseRuby
<1> QED BY <1>3, <1>4, <1>5

(* While a chunk runs, a step of the core is one of the core alone. *)
LEMMA SameStep ==
    ASSUME at = "acc", at' = "acc"
    PROVE  /\ Step => CP!Step
           /\ \A l \in Lines : Callback(l) => CP!Callback(l)
<1> USE DEF idle, rubyVars, CP!rubyVars, memoryVars, CP!memoryVars, laneVars,
       CP!laneVars, coreVars, CP!coreVars
<1>1. BeginChunk => CP!BeginChunk
  BY DEF BeginChunk, CP!BeginChunk, initialize_depen_table,
     CP!initialize_depen_table
<1>2. Preschedule => CP!Preschedule
  BY DEF Preschedule, CP!Preschedule, stack_sche_chain, CP!stack_sche_chain,
     Before, CP!Before, findMinimum, CP!findMinimum, block_lane,
     CP!block_lane, First, CP!First, Loop, CP!Loop, Cardinality,
     CP!Cardinality
<1>3. RunLane => CP!RunLane
  BY DEF RunLane, CP!RunLane, run, CP!run, updateCounter, CP!updateCounter,
     retires, CP!retires, issues, CP!issues, isMemory, CP!isMemory, fetch,
     CP!fetch, FetchCycles, CP!FetchCycles, execute, CP!execute, exeDelay,
     CP!exeDelay, Loop, CP!Loop
<1>4. AdvanceTimeReturns => CP!AdvanceTimeReturns
  BY DEF AdvanceTimeReturns, CP!AdvanceTimeReturns, Return, CP!Return
<1>5. SendMemoryReq => CP!SendMemoryReq
  BY DEF SendMemoryReq, CP!SendMemoryReq, send_req, CP!send_req
<1>6. SendMemoryReqReturns => CP!SendMemoryReqReturns
  BY DEF SendMemoryReqReturns, CP!SendMemoryReqReturns, Return, CP!Return
<1>7. Access => CP!Access
  BY ZenonT(60) DEF Access, CP!Access, access, CP!access, Issuable, CP!Issuable, isReady,
     CP!isReady, base_addr, CP!base_addr, First, CP!First, makeRequest,
     CP!makeRequest, Return, CP!Return
<1>8. ProcessMshr => CP!ProcessMshr
  <2>1. \A list, value : CP!ListRemove(list, value) = ListRemove(list, value)
    BY DEF ListRemove, CP!ListRemove, KeepAt, CP!KeepAt, Cardinality, CP!Cardinality,
       SameRequest, CP!SameRequest
  <2>2. \A line : CP!search_req(line) = search_req(line)
    BY DEF search_req, CP!search_req, Matches, CP!Matches, InLine, CP!InLine, line_size,
       CP!line_size, First, CP!First
  <2>3. CP!RubyQueueTop = RubyQueueTop /\ (CP!RubyQueueEmpty <=> RubyQueueEmpty)
    BY DEF RubyQueueTop, CP!RubyQueueTop, RubyQueueEmpty, CP!RubyQueueEmpty
  <2>4. RubyQueuePop => CP!RubyQueuePop
    BY DEF RubyQueuePop, CP!RubyQueuePop
  <2>5. process_mshr => CP!process_mshr
    BY <2>1, <2>2, <2>3, <2>4 DEF process_mshr, CP!process_mshr
  <2> QED BY <2>5 DEF ProcessMshr, CP!ProcessMshr
<1>9. RecvRespReturns => CP!RecvRespReturns
  BY DEF RecvRespReturns, CP!RecvRespReturns, RubyQueueEmpty,
     CP!RubyQueueEmpty, Return, CP!Return
<1>10. WakeLane => CP!WakeLane
  BY DEF WakeLane, CP!WakeLane, LanesOf, CP!LanesOf, First, CP!First, wakeLane,
     CP!wakeLane
<1>11. UpdateMemExeReturns => CP!UpdateMemExeReturns
  BY DEF UpdateMemExeReturns, CP!UpdateMemExeReturns, Return, CP!Return
<1>12. UpdateChains => CP!UpdateChains
  BY DEF UpdateChains, CP!UpdateChains, Released, CP!Released
<1>13. UpdateChainsReturns => CP!UpdateChainsReturns
  BY DEF UpdateChainsReturns, CP!UpdateChainsReturns
<1>14. Schedule => CP!Schedule
  BY DEF Schedule, CP!Schedule, ReadyChains, CP!ReadyChains, is_free,
     CP!is_free, First, CP!First, EraseFromBuffer, CP!EraseFromBuffer,
     KeepAt, CP!KeepAt, Cardinality, CP!Cardinality, LoadInstructionQueue,
     CP!LoadInstructionQueue, Loop, CP!Loop
<1>15. EndCycle => CP!EndCycle
  BY DEF EndCycle, CP!EndCycle, is_finish, CP!is_finish, is_free, CP!is_free,
     Return, CP!Return
<1>16. \A l \in Lines : Callback(l) => CP!Callback(l)
  BY DEF Callback, CP!Callback, hitCallback, CP!hitCallback, readCallback,
     CP!readCallback, writeCallback, CP!writeCallback
<1> QED BY <1>1, <1>2, <1>3, <1>4, <1>5, <1>6, <1>7, <1>8, <1>9, <1>10,
           <1>11, <1>12, <1>13, <1>14, <1>15, <1>16 DEF Step, CP!Step

-----------------------------------------------------------------------------
(* The host's part: Ruby's answers, and the requests sent to it.           *)

(* A callback moves a line from a table to the queue. *)
LEMMA HostCallbackOwns ==
    ASSUME HostOwns, NEW l \in Lines, hitCallback(l), memory_vector' = memory_vector
    PROVE  HostOwns'
<1>1. /\ RubyTypeOK /\ memory_vector \in Seq(Lines) /\ Distinct(m_callback_queue)
      /\ IsFiniteSet(m_readRequestTable) /\ IsFiniteSet(m_writeRequestTable)
      /\ m_readRequestTable \cap m_writeRequestTable = {}
      /\ m_outstanding_count =
            Cardinality(m_readRequestTable) + Cardinality(m_writeRequestTable)
  BY DEF HostOwns
<1>2. Cardinality(m_readRequestTable) \in Nat /\ Cardinality(m_writeRequestTable) \in Nat
  BY <1>1, FS_CardinalityType
<1>3. /\ l \in Outstanding /\ Outstanding' = Outstanding \ {l}
      /\ m_callback_queue' = Append(m_callback_queue, l)
      /\ m_readRequestTable' \in SUBSET Lines /\ m_writeRequestTable' \in SUBSET Lines
      /\ m_readRequestTable' \cap m_writeRequestTable' = {}
  BY <1>1 DEF hitCallback, readCallback, writeCallback, Outstanding, RubyTypeOK
<1>4. /\ IsFiniteSet(m_readRequestTable') /\ IsFiniteSet(m_writeRequestTable')
      /\ m_outstanding_count' =
            Cardinality(m_readRequestTable') + Cardinality(m_writeRequestTable')
  <2>1. CASE readCallback(l)
    <3>1. /\ IsFiniteSet(m_readRequestTable \ {l})
          /\ Cardinality(m_readRequestTable \ {l}) = Cardinality(m_readRequestTable) - 1
      BY <1>1, <2>1, FS_RemoveElement DEF readCallback
    <3> QED BY <1>1, <1>2, <2>1, <3>1 DEF readCallback
  <2>2. CASE writeCallback(l)
    <3>1. /\ IsFiniteSet(m_writeRequestTable \ {l})
          /\ Cardinality(m_writeRequestTable \ {l}) = Cardinality(m_writeRequestTable) - 1
      BY <1>1, <2>2, FS_RemoveElement DEF writeCallback
    <3> QED BY <1>1, <1>2, <2>2, <3>1 DEF writeCallback
  <2> QED BY <2>1, <2>2 DEF hitCallback
<1>5. m_outstanding_count' \in Nat
  BY <1>4, FS_CardinalityType
<1>6. l \notin Elements(m_callback_queue)
  BY <1>3 DEF HostOwns
<1>7. /\ m_callback_queue' \in Seq(Lines) /\ Distinct(m_callback_queue')
      /\ Elements(m_callback_queue') = Elements(m_callback_queue) \cup {l}
  BY <1>1, <1>3, <1>6, PushDistinct DEF RubyTypeOK
<1>8. /\ Elements(memory_vector') = Outstanding' \cup Elements(m_callback_queue')
      /\ Outstanding' \cap Elements(m_callback_queue') = {}
  BY <1>3, <1>7 DEF HostOwns
<1>9. RubyTypeOK'
  BY <1>3, <1>5, <1>7 DEF RubyTypeOK
<1>10. memory_vector' \in Seq(Lines) /\ Distinct(memory_vector')
  BY DEF HostOwns
<1> QED BY <1>3, <1>4, <1>7, <1>8, <1>9, <1>10 DEF HostOwns, Elements, Distinct

(* A request goes to memory_vector and to one of the tables. *)
LEMMA SendRequestOwns ==
    ASSUME HostOwns, LoopInPlace, SendRequest
    PROVE  HostOwns'
<1>1. PICK l \in Lines : l = req_addr
  BY HostAssumption DEF LoopInPlace, req_addr
<1>2. /\ l \notin m_readRequestTable /\ l \notin m_writeRequestTable
      /\ l \notin Elements(memory_vector)
      /\ memory_vector' = Append(memory_vector, l)
      /\ makeRequest(l, req.isWrite) /\ req.isWrite \in BOOLEAN
  BY <1>1, HostAssumption DEF SendRequest, isReady, LoopInPlace
<1>3. /\ RubyTypeOK /\ memory_vector \in Seq(Lines) /\ Distinct(memory_vector)
      /\ IsFiniteSet(m_readRequestTable) /\ IsFiniteSet(m_writeRequestTable)
      /\ m_readRequestTable \cap m_writeRequestTable = {}
      /\ m_outstanding_count =
            Cardinality(m_readRequestTable) + Cardinality(m_writeRequestTable)
      /\ Elements(memory_vector) = Outstanding \cup Elements(m_callback_queue)
      /\ Outstanding \cap Elements(m_callback_queue) = {}
  BY DEF HostOwns
<1>4. Cardinality(m_readRequestTable) \in Nat /\ Cardinality(m_writeRequestTable) \in Nat
  BY <1>3, FS_CardinalityType
<1>5. /\ memory_vector' \in Seq(Lines) /\ Distinct(memory_vector')
      /\ Elements(memory_vector') = Elements(memory_vector) \cup {l}
  BY <1>2, <1>3, PushDistinct
<1>6. /\ m_callback_queue' = m_callback_queue
      /\ m_readRequestTable' \in SUBSET Lines /\ m_writeRequestTable' \in SUBSET Lines
      /\ Outstanding' = Outstanding \cup {l}
      /\ m_readRequestTable' \cap m_writeRequestTable' = {}
  BY <1>2, <1>3 DEF makeRequest, Outstanding, RubyTypeOK
<1>7. /\ IsFiniteSet(m_readRequestTable') /\ IsFiniteSet(m_writeRequestTable')
      /\ m_outstanding_count' =
            Cardinality(m_readRequestTable') + Cardinality(m_writeRequestTable')
  <2>1. CASE req.isWrite
    <3>1. /\ IsFiniteSet(m_writeRequestTable \cup {l})
          /\ Cardinality(m_writeRequestTable \cup {l}) = Cardinality(m_writeRequestTable) + 1
      BY <1>2, <1>3, FS_AddElement
    <3> QED BY <1>2, <1>3, <1>4, <2>1, <3>1 DEF makeRequest
  <2>2. CASE ~req.isWrite
    <3>1. /\ IsFiniteSet(m_readRequestTable \cup {l})
          /\ Cardinality(m_readRequestTable \cup {l}) = Cardinality(m_readRequestTable) + 1
      BY <1>2, <1>3, FS_AddElement
    <3> QED BY <1>2, <1>3, <1>4, <2>2, <3>1 DEF makeRequest
  <2> QED BY <2>1, <2>2
<1>8. m_outstanding_count' \in Nat
  BY <1>7, FS_CardinalityType
<1>9. RubyTypeOK'
  BY <1>3, <1>6, <1>8 DEF RubyTypeOK
<1>10. /\ Elements(memory_vector') = Outstanding' \cup Elements(m_callback_queue')
       /\ Outstanding' \cap Elements(m_callback_queue') = {}
  BY <1>2, <1>3, <1>5, <1>6
<1>11. Distinct(m_callback_queue')
  BY <1>6 DEF HostOwns
<1> QED BY <1>5, <1>6, <1>7, <1>9, <1>10, <1>11 DEF HostOwns, Elements, Distinct

(* An answer leaves the queue and memory_vector together. *)
LEMMA AnswerOwns ==
    ASSUME HostOwns, Answer
    PROVE  HostOwns'
<1>1. /\ m_callback_queue # <<>> /\ m_callback_queue' = Tail(m_callback_queue)
      /\ memory_vector' = RemoveFirst(memory_vector, Head(m_callback_queue))
      /\ UNCHANGED <<m_readRequestTable, m_writeRequestTable, m_outstanding_count>>
  BY DEF Answer, RubyQueueEmpty, RubyQueueTop, RubyQueuePop
<1>2. /\ m_callback_queue \in Seq(Lines) /\ Distinct(m_callback_queue)
      /\ memory_vector \in Seq(Lines) /\ Distinct(memory_vector)
  BY DEF HostOwns, RubyTypeOK
<1>3. /\ m_callback_queue' \in Seq(Lines) /\ Distinct(m_callback_queue')
      /\ Head(m_callback_queue) \in Elements(m_callback_queue)
      /\ Elements(m_callback_queue') = Elements(m_callback_queue) \ {Head(m_callback_queue)}
  BY <1>1, <1>2, PopDistinct
<1>4. Head(m_callback_queue) \in Elements(memory_vector)
  BY <1>3 DEF HostOwns
<1>5. /\ memory_vector' \in Seq(Lines) /\ Distinct(memory_vector')
      /\ Elements(memory_vector') = Elements(memory_vector) \ {Head(m_callback_queue)}
  BY <1>1, <1>2, <1>4, EraseOne
<1>6. Outstanding' = Outstanding
  BY <1>1 DEF Outstanding
<1>7. /\ Elements(memory_vector') = Outstanding' \cup Elements(m_callback_queue')
      /\ Outstanding' \cap Elements(m_callback_queue') = {}
  BY <1>3, <1>5, <1>6 DEF HostOwns
<1>8. RubyTypeOK'
  BY <1>1, <1>3 DEF HostOwns, RubyTypeOK
<1>9. /\ m_readRequestTable' \cap m_writeRequestTable' = {}
      /\ IsFiniteSet(m_readRequestTable') /\ IsFiniteSet(m_writeRequestTable')
      /\ m_outstanding_count' =
            Cardinality(m_readRequestTable') + Cardinality(m_writeRequestTable')
  BY <1>1 DEF HostOwns
<1> QED BY <1>3, <1>5, <1>7, <1>8, <1>9 DEF HostOwns, Elements, Distinct

(* Without a request of the host, the sequencer is as it was at the start, *)
(* and the other way round.                                                *)
LEMMA NothingOwned ==
    /\ HostOwns /\ memory_vector = <<>> => RubyInit
    /\ RubyInit /\ memory_vector = <<>> => HostOwns
<1>0. Elements(<<>>) = {} /\ Cardinality({}) = 0 /\ IsFiniteSet({}) /\ <<>> \in Seq(Lines)
      /\ Distinct(<<>>)
  BY FS_EmptySet, EmptySeq DEF Elements, Distinct
<1>1. ASSUME HostOwns, memory_vector = <<>> PROVE RubyInit
  <2>1. Outstanding = {} /\ Elements(m_callback_queue) = {}
    BY <1>0, <1>1 DEF HostOwns
  <2>2. m_readRequestTable = {} /\ m_writeRequestTable = {}
    BY <2>1 DEF Outstanding
  <2>3. m_outstanding_count = 0
    BY <1>0, <1>1, <2>2 DEF HostOwns
  <2>4. m_callback_queue = <<>>
    <3>1. m_callback_queue \in Seq(Lines)
      BY <1>1 DEF HostOwns, RubyTypeOK
    <3> QED BY <2>1, <3>1, NoElements
  <2> QED BY <2>2, <2>3, <2>4 DEF RubyInit
<1>2. ASSUME RubyInit, memory_vector = <<>> PROVE HostOwns
  <2>1. Outstanding = {}
    BY <1>2 DEF RubyInit, Outstanding
  <2> QED BY <1>0, <1>2, <2>1 DEF RubyInit, HostOwns, RubyTypeOK
<1> QED BY <1>1, <1>2

-----------------------------------------------------------------------------
(* main() begins with an idle core and sequencer. *)
LEMMA HostInitHolds == HostInit => HInv /\ CP!Init
<1> SUFFICES ASSUME HostInit PROVE HInv /\ CP!Init
  OBVIOUS
<1>1. CP!Init
  <2>1. Init /\ at = "getline"
    BY DEF HostInit
  <2>2. CP!RubyInit
    BY <2>1 DEF CP!RubyInit, idle
  <2>3. CP!MemoryInit /\ CP!LaneInit
    BY <2>1 DEF Init, MemoryInit, CP!MemoryInit, LaneInit, CP!LaneInit
  <2>4. CP!None = None
    BY DEF CP!None, None
  <2> QED BY <2>1, <2>2, <2>3, <2>4 DEF Init, CP!Init, Ids, CP!Ids
<1>2. CP!CInv
  BY <1>1, CoreAloneInvariant
<1>3. LoopInPlace
  BY DEF HostInit, Init, LoopInPlace, Places
<1>4. HostOwns
  BY NothingOwned DEF HostInit, Init
<1> QED BY <1>1, <1>2, <1>3, <1>4 DEF HInv

(* A step of the main loop is a step of the core with its own sequencer,   *)
(* or none.                                                                *)
LEMMA HostCoreStep ==
    ASSUME HInv, [HostNext]_hvars
    PROVE  [CP!Next]_(CP!vars)
<1> DEFINE ruby == <<m_readRequestTable, m_writeRequestTable, m_outstanding_count,
                     m_callback_queue>>
<1>1. ASSUME at # "acc", at' # "acc", UNCHANGED coreOnly
      PROVE  [CP!Next]_(CP!vars)
  BY <1>1 DEF coreOnly, idle, CP!vars, CP!rubyVars, CP!memoryVars, CP!laneVars,
     CP!coreVars, memoryVars, laneVars, coreVars
<1>2. ASSUME UNCHANGED vars PROVE UNCHANGED coreOnly
  BY <1>2 DEF vars, coreOnly
<1>3. CASE \E r \in HostRequests : ReadRequest(r)
  BY <1>1, <1>2, <1>3 DEF ReadRequest, Goto
<1>4. CASE \E l \in Lines : HostCallback(l)
  BY <1>1, <1>4 DEF HostCallback, hostVars
<1>5. CASE AdvanceReturns \/ NotReady \/ WaitReturns \/ AnswersDone \/ DrainReturns
           \/ Drained \/ GetlineFails
  BY <1>1, <1>2, <1>5 DEF AdvanceReturns, NotReady, WaitReturns, AnswersDone, DrainReturns,
     Drained, GetlineFails, Goto
<1>6. CASE SendRequest
  BY <1>1, <1>6 DEF SendRequest, Goto
<1>7. CASE Answer
  BY <1>1, <1>7 DEF Answer
<1>8. CASE ReadChunk
  BY <1>1, <1>2, <1>8 DEF ReadChunk, Goto
<1>9. CASE StartChunk
  <2>1. at = "chunk" /\ at' = "acc" /\ BeginChunk /\ UNCHANGED ruby
    BY <1>9 DEF StartChunk, Goto, BeginChunk, rubyVars
  <2>2. RubyInit
    BY <2>1, NothingOwned DEF HInv, LoopInPlace
  <2>3. CP!BeginChunk
    BY <2>1, <2>2 DEF RubyInit, idle, BeginChunk, CP!BeginChunk, rubyVars, CP!rubyVars,
       memoryVars, CP!memoryVars, laneVars, CP!laneVars,
       initialize_depen_table, CP!initialize_depen_table
  <2> QED BY <2>3 DEF CP!Next, CP!Step
<1>10. CASE RunACycle
  BY <1>10, SameStep DEF RunACycle, hostVars, CP!Next
<1>11. CASE \E l \in Lines : CoreCallback(l)
  BY <1>11, SameStep DEF CoreCallback, hostVars, CP!Next
<1>12. CASE ChunkDone
  <2>1. /\ at = "acc" /\ at' # "acc" /\ phase = "host" /\ UNCHANGED vars
    BY <1>12 DEF ChunkDone, Goto
  <2>2. CP!RubyInit
    BY <2>1, CoreAloneInvariant DEF HInv
  <2> QED BY <2>1, <2>2 DEF vars, idle, CP!RubyInit, CP!vars, CP!rubyVars, CP!memoryVars,
        CP!laneVars, CP!coreVars, rubyVars, memoryVars, laneVars, coreVars
<1>13. CASE UNCHANGED hvars
  BY <1>13 DEF hvars, vars, hostVars, idle, CP!vars, CP!rubyVars, CP!memoryVars,
        CP!laneVars, CP!coreVars, rubyVars, memoryVars, laneVars, coreVars
<1> QED BY <1>3, <1>4, <1>5, <1>6, <1>7, <1>8, <1>9, <1>10, <1>11, <1>12, <1>13
        DEF HostNext, HostStep, Done

(* Every step of the main loop keeps its invariant. *)
LEMMA HostNextHolds == HInv /\ [HostNext]_hvars => HInv'
<1> SUFFICES ASSUME HInv, [HostNext]_hvars PROVE HInv'
  OBVIOUS
<1>0. /\ LoopInPlace /\ (at # "acc" => HostOwns) /\ CP!CInv /\ CP!CInv'
  BY HostCoreStep, CoreAloneInvariant DEF HInv
<1> SUFFICES LoopInPlace' /\ (at' # "acc" => HostOwns')
  BY <1>0 DEF HInv
<1>1. ASSUME UNCHANGED <<vars, memory_vector>>, at # "acc"
      PROVE  HostOwns' /\ phase' = phase /\ phase = "host"
             /\ Elements(memory_vector') = Elements(memory_vector)
  <2>1. HostOwns'
    BY <1>0, <1>1 DEF vars, rubyVars, HostOwns, RubyTypeOK, Outstanding, Distinct, Elements
  <2> QED BY <1>0, <1>1, <2>1 DEF vars, LoopInPlace
<1> USE DEF Goto
<1>2. CASE \E r \in HostRequests : ReadRequest(r)
  <2>1. /\ at = "getline" /\ at' = "advance" /\ req' \in HostRequests /\ flag_empty' = FALSE
        /\ UNCHANGED <<vars, memory_vector>>
    BY <1>2 DEF ReadRequest
  <2> QED BY <1>1, <2>1 DEF LoopInPlace, Places
<1>3. CASE \E l \in Lines : HostCallback(l)
  <2>1. PICK l \in Lines : HostCallback(l)
    BY <1>3
  <2>2. at # "acc" /\ hitCallback(l) /\ UNCHANGED <<coreOnly, hostVars>>
    BY <2>1 DEF HostCallback
  <2>3. UNCHANGED <<at, req, memory_vector, flag_empty, phase>>
    BY <2>2 DEF coreOnly, hostVars
  <2>4. HostOwns'
    BY <1>0, <2>2, <2>3, HostCallbackOwns
  <2>5. LoopInPlace'
    BY <1>0, <2>3 DEF LoopInPlace, req_addr, Elements
  <2> QED BY <2>4, <2>5
<1>4. CASE AdvanceReturns
  <2>1. /\ at = "advance" /\ UNCHANGED <<vars, req, memory_vector, flag_empty>>
        /\ at' = IF Contains(memory_vector, req_addr) THEN "answers" ELSE "isReady"
    BY <1>4 DEF AdvanceReturns
  <2>2. HostOwns' /\ phase' = "host"
    BY <1>1, <2>1
  <2>3. ~Contains(memory_vector, req_addr) => req_addr \notin Elements(memory_vector)
    BY <1>0, <2>1, LenProperties DEF Contains, Elements, HostOwns
  <2>4. LoopInPlace'
    BY <1>0, <2>1, <2>2, <2>3 DEF LoopInPlace, Places, req_addr, Elements
  <2> QED BY <2>2, <2>4
<1>5. CASE NotReady \/ WaitReturns
  <2>1. /\ at \in {"isReady", "wait"} /\ at' \in {"isReady", "wait"}
        /\ UNCHANGED <<vars, req, memory_vector, flag_empty>>
    BY <1>5 DEF NotReady, WaitReturns
  <2>2. HostOwns' /\ phase' = "host"
    BY <1>1, <2>1
  <2>3. LoopInPlace'
    BY <1>0, <2>1, <2>2 DEF LoopInPlace, Places, req_addr, Elements
  <2> QED BY <2>2, <2>3
<1>6. CASE SendRequest
  <2>1. /\ at = "isReady" /\ at' = "answers" /\ UNCHANGED <<coreOnly, req, flag_empty>>
    BY <1>6 DEF SendRequest
  <2>2. HostOwns'
    BY <1>0, <1>6, <2>1, SendRequestOwns
  <2>3. LoopInPlace'
    BY <1>0, <2>1 DEF LoopInPlace, Places, coreOnly
  <2> QED BY <2>2, <2>3
<1>7. CASE Answer
  <2>1. /\ at \in {"answers", "drained"} /\ ~RubyQueueEmpty
        /\ UNCHANGED <<coreOnly, at, req, flag_empty>>
    BY <1>7 DEF Answer
  <2>2. HostOwns'
    BY <1>0, <1>7, <2>1, AnswerOwns
  <2>3. memory_vector # <<>>
    <3>1. m_callback_queue \in Seq(Lines) /\ m_callback_queue # <<>>
      BY <1>0, <2>1 DEF HostOwns, RubyTypeOK, RubyQueueEmpty
    <3>2. RubyInit => m_callback_queue = <<>>
      BY DEF RubyInit
    <3> QED BY <1>0, <2>1, <3>1, <3>2, NothingOwned
  <2>4. LoopInPlace'
    BY <1>0, <2>1, <2>3 DEF LoopInPlace, Places, coreOnly
  <2> QED BY <2>2, <2>4
<1>8. CASE AnswersDone \/ DrainReturns \/ GetlineFails
  <2>1. /\ at \in Places \ {"acc"} /\ at' \in {"getline", "drained", "done"}
        /\ UNCHANGED <<vars, req, memory_vector, flag_empty>>
    BY <1>8 DEF AnswersDone, DrainReturns, GetlineFails, Places
  <2>2. HostOwns' /\ phase' = "host"
    BY <1>1, <2>1
  <2>3. LoopInPlace'
    BY <1>0, <2>1, <2>2 DEF LoopInPlace, Places
  <2> QED BY <2>2, <2>3
<1>9. CASE ReadChunk
  <2>1. /\ at = "getline" /\ UNCHANGED <<vars, req, memory_vector>>
        /\ at' = IF ~flag_empty /\ memory_vector # <<>> THEN "drain" ELSE "chunk"
        /\ flag_empty' = ~(~flag_empty /\ memory_vector # <<>>)
    BY <1>9 DEF ReadChunk
  <2>2. HostOwns' /\ phase' = "host"
    BY <1>1, <2>1
  <2>3. LoopInPlace'
    BY <1>0, <2>1, <2>2 DEF LoopInPlace, Places
  <2> QED BY <2>2, <2>3
<1>10. CASE Drained
  <2>1. /\ at = "drained" /\ UNCHANGED <<vars, req, memory_vector>>
        /\ at' = IF memory_vector = <<>> THEN "chunk" ELSE "drain"
        /\ flag_empty' = (memory_vector = <<>>)
    BY <1>10 DEF Drained
  <2>2. HostOwns' /\ phase' = "host"
    BY <1>1, <2>1
  <2>3. LoopInPlace'
    BY <1>0, <2>1, <2>2 DEF LoopInPlace, Places
  <2> QED BY <2>2, <2>3
<1>11. CASE StartChunk
  BY <1>0, <1>11 DEF StartChunk, LoopInPlace, Places
<1>12. CASE RunACycle \/ \E l \in Lines : CoreCallback(l)
  <2>1. at = "acc" /\ UNCHANGED hostVars
    BY <1>12 DEF RunACycle, CoreCallback
  <2> QED BY <1>0, <2>1 DEF hostVars, LoopInPlace, Places
<1>13. CASE ChunkDone
  <2>1. /\ at = "acc" /\ at' \in {"done", "getline"} /\ phase = "host"
        /\ UNCHANGED <<vars, req, memory_vector, flag_empty>>
    BY <1>13 DEF ChunkDone
  <2>2. RubyInit
    BY <1>0, <2>1, CoreAloneInvariant DEF CP!RubyInit, RubyInit, idle
  <2>3. HostOwns
    BY <1>0, <2>1, <2>2, NothingOwned DEF LoopInPlace
  <2>4. HostOwns'
    <3>1. UNCHANGED <<m_readRequestTable, m_writeRequestTable, m_outstanding_count,
                      m_callback_queue, memory_vector>>
      BY <2>1 DEF vars, rubyVars
    <3> QED BY <2>3, <3>1 DEF HostOwns, RubyTypeOK, Outstanding, Distinct, Elements
  <2>5. LoopInPlace'
    BY <1>0, <2>1 DEF LoopInPlace, Places, vars
  <2> QED BY <2>4, <2>5
<1>14. CASE UNCHANGED hvars
  <2>1. UNCHANGED <<vars, at, req, memory_vector, flag_empty>>
    BY <1>14 DEF hvars, hostVars
  <2>2. LoopInPlace'
    BY <1>0, <2>1 DEF LoopInPlace, req_addr, Elements, vars
  <2> QED BY <1>1, <2>1, <2>2
<1> QED BY <1>2, <1>3, <1>4, <1>5, <1>6, <1>7, <1>8, <1>9, <1>10, <1>11, <1>12, <1>13, <1>14
        DEF HostNext, HostStep, Done

-----------------------------------------------------------------------------
(* The invariant of the main loop: the core's own, and that outside a      *)
(* chunk the sequencer holds the host's requests and nothing else.         *)
THEOREM HostInvariant == HostSpec => []HInv
<1>1. HostSpec => HostInit /\ [][HostNext]_hvars
  BY PTL DEF HostSpec
<1> QED BY <1>1, HostInitHolds, HostNextHolds, PTL

(* The assertions of the two loops that pop Ruby's queue: the line popped  *)
(* is in memory_vector, which lists, each once, exactly the lines Ruby has *)
(* outstanding or has answered.                                            *)
THEOREM HostAlwaysOwnsAnswers == HostSpec => []HostOwnsAnswers
<1>1. HInv => HostOwnsAnswers
  <2> SUFFICES ASSUME HInv, at # "acc" PROVE HostOwnsAnswers
    BY DEF HostOwnsAnswers
  <2> DEFINE table == SetToSeq(Outstanding)
             owed == table \o m_callback_queue
  <2>1. /\ HostOwns
        /\ m_callback_queue \in Seq(Lines) /\ Distinct(m_callback_queue)
        /\ memory_vector \in Seq(Lines) /\ Distinct(memory_vector)
        /\ Outstanding \in SUBSET Lines
    BY DEF HInv, HostOwns, RubyTypeOK, Outstanding
  <2>2. IsFiniteSet(Outstanding)
    BY <2>1, FS_Union DEF HostOwns, Outstanding
  <2>3. table \in Seq(Lines) /\ Len(table) = Cardinality(Outstanding) /\ Elements(table) = Outstanding
    BY <2>1, <2>2, SequenceOfSet
  <2> HIDE DEF table
  <2>4. /\ Len(owed) = Cardinality(Outstanding) + Len(m_callback_queue)
        /\ Elements(owed) = Outstanding \cup Elements(m_callback_queue)
    <3>1. Len(owed) = Len(table) + Len(m_callback_queue)
      BY <2>1, <2>3, ConcatProperties
    <3>2. Elements(owed) = Elements(table) \cup Elements(m_callback_queue)
      BY <2>1, <2>3, ConcatElements
    <3> QED BY <2>3, <3>1, <3>2
  <2> HIDE DEF owed
  <2>5. /\ IsFiniteSet(Elements(m_callback_queue))
        /\ Cardinality(Elements(m_callback_queue)) = Len(m_callback_queue)
        /\ Cardinality(Elements(memory_vector)) = Len(memory_vector)
    BY <2>1, DistinctLength
  <2>6. Cardinality(Elements(memory_vector)) =
          Cardinality(Outstanding) + Cardinality(Elements(m_callback_queue)) - Cardinality({})
    BY <2>1, <2>2, <2>5, FS_Union DEF HostOwns
  <2>7. /\ Cardinality({}) = 0 /\ Cardinality(Outstanding) \in Nat
        /\ Cardinality(Elements(m_callback_queue)) \in Nat
    BY <2>2, <2>5, FS_EmptySet, FS_CardinalityType
  <2>8. Len(memory_vector) = Len(owed)
    BY <2>4, <2>5, <2>6, <2>7
  <2>9. ToSet(memory_vector) = ToSet(owed)
    BY <2>1, <2>4 DEF HostOwns, ToSet, Elements
  <2>10. IsInjective(memory_vector)
    BY <2>1 DEF IsInjective, Distinct
  <2> QED BY <2>8, <2>9, <2>10 DEF HostOwnsAnswers, owed, table
<1> QED BY <1>1, HostInvariant, PTL

(* Core::run_a_cycle under main(): although the host uses the same         *)
(* sequencer and callback queue between the chunks, the core behaves as    *)
(* with a sequencer of its own, so that all that is proved of the core     *)
(* holds under the host.                                                   *)
THEOREM HostImplementsCore == HostSpec => ImplementsCore
<1>1. HostSpec => HostInit /\ [][HostNext]_hvars
  BY PTL DEF HostSpec
<1>2. HostInit => CoreAlone!Init
  <2>1. CP!Init => CoreAlone!Init
    BY DEF CP!Init, CoreAlone!Init, CP!RubyInit, CoreAlone!RubyInit, CP!MemoryInit,
       CoreAlone!MemoryInit, CP!LaneInit, CoreAlone!LaneInit, CP!None, CoreAlone!None,
       CP!Ids, CoreAlone!Ids
  <2> QED BY <2>1, HostInitHolds
<1>3. HInv /\ [HostNext]_hvars => [CoreAlone!Next]_(CoreAlone!vars)
  <2>1. [CP!Next]_(CP!vars) => [CoreAlone!Next]_(CoreAlone!vars)
    BY DEF CP!Next, CoreAlone!Next, CP!Step, CoreAlone!Step, CP!vars,
       CoreAlone!vars, CP!rubyVars, CoreAlone!rubyVars, CP!memoryVars,
       CoreAlone!memoryVars, CP!laneVars, CoreAlone!laneVars, CP!coreVars,
       CoreAlone!coreVars, CP!Callback, CoreAlone!Callback, CP!hitCallback,
       CoreAlone!hitCallback, CP!readCallback, CoreAlone!readCallback,
       CP!writeCallback, CoreAlone!writeCallback, CP!EndOfTrace,
       CoreAlone!EndOfTrace, CP!BeginChunk, CoreAlone!BeginChunk,
       CP!initialize_depen_table, CoreAlone!initialize_depen_table,
       CP!Preschedule, CoreAlone!Preschedule, CP!stack_sche_chain,
       CoreAlone!stack_sche_chain, CP!Before, CoreAlone!Before,
       CP!findMinimum, CoreAlone!findMinimum, CP!block_lane,
       CoreAlone!block_lane, CP!First, CoreAlone!First, CP!Loop,
       CoreAlone!Loop, CP!Cardinality, CoreAlone!Cardinality, CP!RunLane,
       CoreAlone!RunLane, CP!run, CoreAlone!run, CP!updateCounter,
       CoreAlone!updateCounter, CP!retires, CoreAlone!retires, CP!issues,
       CoreAlone!issues, CP!isMemory, CoreAlone!isMemory, CP!fetch,
       CoreAlone!fetch, CP!FetchCycles, CoreAlone!FetchCycles, CP!execute,
       CoreAlone!execute, CP!exeDelay, CoreAlone!exeDelay,
       CP!AdvanceTimeReturns, CoreAlone!AdvanceTimeReturns, CP!Return,
       CoreAlone!Return, CP!SendMemoryReq, CoreAlone!SendMemoryReq,
       CP!send_req, CoreAlone!send_req, CP!SendMemoryReqReturns,
       CoreAlone!SendMemoryReqReturns, CP!Access, CoreAlone!Access, CP!access,
       CoreAlone!access, CP!Issuable, CoreAlone!Issuable, CP!isReady,
       CoreAlone!isReady, CP!base_addr, CoreAlone!base_addr, CP!makeRequest,
       CoreAlone!makeRequest, CP!ProcessMshr, CoreAlone!ProcessMshr,
       CP!process_mshr, CoreAlone!process_mshr, CP!search_req,
       CoreAlone!search_req, CP!Matches, CoreAlone!Matches, CP!InLine,
       CoreAlone!InLine, CP!line_size, CoreAlone!line_size, CP!ListRemove,
       CoreAlone!ListRemove, CP!KeepAt, CoreAlone!KeepAt, CP!SameRequest,
       CoreAlone!SameRequest, CP!RubyQueueEmpty, CoreAlone!RubyQueueEmpty,
       CP!RubyQueueTop, CoreAlone!RubyQueueTop, CP!RubyQueuePop,
       CoreAlone!RubyQueuePop, CP!RecvRespReturns, CoreAlone!RecvRespReturns,
       CP!WakeLane, CoreAlone!WakeLane, CP!LanesOf, CoreAlone!LanesOf,
       CP!wakeLane, CoreAlone!wakeLane, CP!UpdateMemExeReturns,
       CoreAlone!UpdateMemExeReturns, CP!UpdateChains, CoreAlone!UpdateChains,
       CP!Released, CoreAlone!Released, CP!UpdateChainsReturns,
       CoreAlone!UpdateChainsReturns, CP!Schedule, CoreAlone!Schedule,
       CP!ReadyChains, CoreAlone!ReadyChains, CP!is_free, CoreAlone!is_free,
       CP!EraseFromBuffer, CoreAlone!EraseFromBuffer, CP!LoadInstructionQueue,
       CoreAlone!LoadInstructionQueue, CP!EndCycle, CoreAlone!EndCycle,
       CP!is_finish, CoreAlone!is_finish
  <2> QED BY <2>1, HostCoreStep
<1> QED BY <1>1, <1>2, <1>3, HostInvariant, PTL DEF ImplementsCore, CoreAlone!Spec

=============================================================================
