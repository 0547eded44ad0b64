------------------------- MODULE LanePipelineProofs -------------------------
(***************************************************************************)
(* Proofs about the lanes, for any number of lanes, any program, any       *)
(* memory mode and any backlog.                                            *)
(***************************************************************************)
EXTENDS LanePipeline, LaneProofs

(* Type correctness: every queue of a lane holds instructions of the       *)
(* program and its counters keep their ranges, in every step of run,       *)
(* LoadInstructionQueue, setExeCounter and the draining of the queues.     *)
THEOREM TypeCorrect == Spec => []TypeOK
<1>1. Init => TypeOK
  BY DEF Init, LaneInit, TypeOK, LaneTypeOK, LaneState
<1>2. TypeOK /\ [Next]_vars => TypeOK'
  <2> SUFFICES ASSUME TypeOK, [Next]_vars PROVE TypeOK'
    OBVIOUS
  <2> USE DEF TypeOK, LaneTypeOK
  <2>1. ASSUME NEW l \in Lanes, Run(l) PROVE TypeOK'
    <3> DEFINE u == updateCounter(m_lanes[l])
    <3>1. u \in LaneState
      BY CounterType
    <3>2. m_lanes' \in [Lanes -> LaneState]
      BY <2>1, RunType DEF Run, run
    <3>3. finished_chains' \in Seq({node[n].c_id : n \in Ids})
      <4>1. CASE retires(u)
        <5>1. Head(u.exe_stack) \in Ids
          BY <3>1, <4>1, HeadTailProperties DEF retires, LaneState
        <5> QED BY <2>1, <4>1, <5>1, AppendProperties DEF Run, run
      <4>2. CASE ~retires(u)
        BY <2>1, <4>2 DEF Run, run
      <4> QED BY <4>1, <4>2
    <3>4. mem_req_queue' \in Seq(Lanes \X Ids)
      <4>1. CASE issues(u)
        <5>1. Head(u.fetch_stack) \in Ids
          BY <3>1, <4>1, HeadTailProperties DEF issues, LaneState
        <5> QED BY <2>1, <5>1, AppendProperties DEF Run, run
      <4>2. CASE ~issues(u)
        BY <2>1, <4>2 DEF Run, run
      <4> QED BY <4>1, <4>2
    <3> QED BY <2>1, <3>2, <3>3, <3>4 DEF Run
  <2>2. ASSUME NEW l \in Lanes, Wake(l) PROVE TypeOK'
    BY <2>2 DEF Wake, wakeLane, LaneState
  <2>3. ASSUME NEW l \in Lanes, NEW chain \in Programs, Load(l, chain) PROVE TypeOK'
    <3>1. m_lanes[l].instruction_queue \o chain \in Seq(Ids)
      BY PipelineAssumption, ConcatProperties DEF LaneState
    <3> QED BY <2>3, <3>1 DEF Load, LoadInstructionQueue, LaneState
  <2>4. CASE PopMemReq
    BY <2>4, HeadTailProperties DEF PopMemReq
  <2>5. CASE PopFinished
    BY <2>5, HeadTailProperties DEF PopFinished
  <2>6. CASE NewCycle
    BY <2>6 DEF NewCycle, laneVars
  <2>7. CASE UNCHANGED vars
    BY <2>7 DEF vars, laneVars
  <2> QED BY <2>1, <2>2, <2>3, <2>4, <2>5, <2>6, <2>7 DEF Next
<1> QED BY <1>1, <1>2, PTL DEF Spec

-----------------------------------------------------------------------------
(* The execution stage of every lane holds one instruction at most, and a  *)
(* lane is stalled only on a load or store in Ruby mode: what lets         *)
(* execute() read the front of exe_stack without a test and the core find  *)
(* the stalled lane of a node.                                             *)
THEOREM OneExecutingAlways == Spec => []OneExecuting
<1>1. Init => OneExecuting
  <2> SUFFICES ASSUME Init, NEW l \in Lanes PROVE ExecutesOne(m_lanes[l])
    BY DEF OneExecuting
  <2>1. m_lanes[l].exe_stack = <<>> /\ m_lanes[l].exe_cnt = 0
    BY DEF Init, LaneInit
  <2> QED BY <2>1 DEF ExecutesOne
<1>2. TypeOK /\ OneExecuting /\ [Next]_vars => OneExecuting'
  <2> SUFFICES ASSUME TypeOK, OneExecuting, [Next]_vars PROVE OneExecuting'
    OBVIOUS
  <2> USE DEF TypeOK, LaneTypeOK, OneExecuting
  <2>1. ASSUME NEW l \in Lanes, Run(l) PROVE OneExecuting'
    BY <2>1, RunExecutesOne DEF Run, run
  <2>2. ASSUME NEW l \in Lanes, Wake(l) PROVE OneExecuting'
    BY <2>2 DEF Wake, wakeLane, LaneState, ExecutesOne
  <2>3. ASSUME NEW l \in Lanes, NEW chain \in Programs, Load(l, chain) PROVE OneExecuting'
    BY <2>3 DEF Load, LoadInstructionQueue, LaneState, ExecutesOne
  <2>4. CASE UNCHANGED m_lanes
    BY <2>4
  <2> QED BY <2>1, <2>2, <2>3, <2>4 DEF Next, PopMemReq, PopFinished, NewCycle, vars, laneVars
<1> QED BY <1>1, <1>2, TypeCorrect, PTL DEF Spec

-----------------------------------------------------------------------------
CoveredInv == \A l \in Lanes : Covered(m_lanes[l])

(* When every instruction that is slow, or stalls until Ruby answers, is   *)
(* the last of its chain, a lane that Lane::is_free() reports free holds   *)
(* no instruction: the fetch stack it does not look at is empty.           *)
THEOREM FreeMeansDrainedAlways == SlowEndsPrograms => (Spec => []FreeMeansDrained)
<1> SUFFICES ASSUME SlowEndsPrograms PROVE Spec => []FreeMeansDrained
  OBVIOUS
<1>1. Init => CoveredInv
  <2> SUFFICES ASSUME Init, NEW l \in Lanes PROVE Covered(m_lanes[l])
    BY DEF CoveredInv
  <2>1. /\ m_lanes[l].exe_stack = <<>> /\ m_lanes[l].exe_cnt = 0
        /\ m_lanes[l].fetch_stack = <<>> /\ m_lanes[l].instruction_queue = <<>>
    BY DEF Init, LaneInit
  <2> QED BY <2>1, EmptyCovered
<1>2. TypeOK /\ CoveredInv /\ [Next]_vars => CoveredInv'
  <2> SUFFICES ASSUME TypeOK, CoveredInv, [Next]_vars
               PROVE  \A k \in Lanes : Covered(m_lanes'[k])
    BY DEF CoveredInv
  <2>0. /\ \A k \in Lanes : Covered(m_lanes[k]) /\ m_lanes[k] \in LaneState
        /\ m_lanes \in [Lanes -> LaneState]
    BY DEF CoveredInv, TypeOK, LaneTypeOK
  <2>1. ASSUME NEW l \in Lanes, Run(l) PROVE \A k \in Lanes : Covered(m_lanes'[k])
    BY <2>0, <2>1, RunCovered DEF Run, run
  <2>2. ASSUME NEW l \in Lanes, Wake(l) PROVE \A k \in Lanes : Covered(m_lanes'[k])
    <3>1. Covered([m_lanes[l] EXCEPT !.exe_cnt = 0])
      BY <2>0, <2>2, WakeCovered DEF Wake
    <3>2. /\ m_lanes'[l] = [m_lanes[l] EXCEPT !.exe_cnt = 0]
          /\ \A k \in Lanes \ {l} : m_lanes'[k] = m_lanes[k]
      BY <2>0, <2>2 DEF Wake, wakeLane
    <3> QED BY <2>0, <3>1, <3>2
  <2>3. ASSUME NEW l \in Lanes, NEW chain \in Programs, Load(l, chain)
        PROVE  \A k \in Lanes : Covered(m_lanes'[k])
    <3>1. chain \in Seq(Ids) /\ SlowIsLast(chain)
      BY PipelineAssumption DEF SlowEndsPrograms
    <3>2. Covered([m_lanes[l] EXCEPT !.instruction_queue = @ \o chain])
      BY <2>0, <2>3, <3>1, LoadCovered DEF Load
    <3>3. /\ m_lanes'[l] = [m_lanes[l] EXCEPT !.instruction_queue = @ \o chain]
          /\ \A k \in Lanes \ {l} : m_lanes'[k] = m_lanes[k]
      BY <2>0, <2>3 DEF Load, LoadInstructionQueue
    <3> QED BY <2>0, <3>2, <3>3
  <2>4. CASE UNCHANGED m_lanes
    BY <2>0, <2>4
  <2> QED BY <2>1, <2>2, <2>3, <2>4 DEF Next, PopMemReq, PopFinished, NewCycle, vars, laneVars
<1>3. TypeOK /\ CoveredInv => FreeMeansDrained
  BY FreeCovered DEF FreeMeansDrained, CoveredInv, Pending, TypeOK, LaneTypeOK
<1> QED BY <1>1, <1>2, <1>3, TypeCorrect, PTL DEF Spec

-----------------------------------------------------------------------------
(* The pipeline of Lane::run implements the FIFO of LaneFifo: instructions *)
(* complete in the order they were loaded, each once, whatever the memory  *)
(* does and whenever chains are loaded, and each completion pushes the     *)
(* chain of the instruction that completed.                                *)
THEOREM PipelineImplementsFifo == Spec => InOrder
<1>1. Init => Fifo!Init
  <2> SUFFICES ASSUME Init, NEW l \in Lanes PROVE Pending(l) = <<>>
    BY DEF Init, LaneInit, Fifo!Init, pendingMap
  <2>1. /\ m_lanes[l].exe_stack = <<>> /\ m_lanes[l].fetch_stack = <<>>
        /\ m_lanes[l].instruction_queue = <<>>
    BY DEF Init, LaneInit
  <2> QED BY <2>1 DEF Pending, PendingOf
<1>2. TypeOK /\ [Next]_vars => [Fifo!Next]_(Fifo!vars)
  <2> SUFFICES ASSUME TypeOK, [Next]_vars PROVE [Fifo!Next]_(Fifo!vars)
    OBVIOUS
  <2>0. \A k \in Lanes : m_lanes[k] \in LaneState
    BY DEF TypeOK, LaneTypeOK
  <2>1. ASSUME NEW l \in Lanes, Run(l) PROVE [Fifo!Next]_(Fifo!vars)
    <3> DEFINE u == updateCounter(m_lanes[l])
    <3>1. m_lanes' = [m_lanes EXCEPT ![l] = fetch(execute(u))]
      BY <2>1 DEF Run, run
    <3>2. CASE retires(u)
      <4>1. /\ PendingOf(m_lanes[l]) # <<>>
            /\ Head(PendingOf(m_lanes[l])) = Head(u.exe_stack)
            /\ PendingOf(fetch(execute(u))) = Tail(PendingOf(m_lanes[l]))
            /\ PendingOf(m_lanes[l]) \in Seq(Ids)
        BY <2>0, <3>2, RunPending
      <4>2. finished_chains' = Append(finished_chains, node[Head(u.exe_stack)].c_id)
        BY <2>1, <3>2 DEF Run, run
      <4>3. pendingMap' = [pendingMap EXCEPT ![l] = Tail(@)]
        BY <2>0, <3>1, <4>1 DEF pendingMap, Pending, TypeOK, LaneTypeOK
      <4>4. Head(u.exe_stack) \in Ids
        BY <4>1, HeadTailProperties
      <4>5. finished_chains' = Append(finished_chains, chainMap[Head(pendingMap[l])])
        BY <4>1, <4>2, <4>4 DEF chainMap, pendingMap, Pending
      <4>6. Fifo!Complete(l)
        BY <4>1, <4>3, <4>5 DEF Fifo!Complete, pendingMap, Pending
      <4> QED BY <4>6 DEF Fifo!Next
    <3>3. CASE ~retires(u)
      <4>1. PendingOf(fetch(execute(u))) = PendingOf(m_lanes[l])
        BY <2>0, <3>3, RunPending
      <4>2. pendingMap' = pendingMap
        BY <2>0, <3>1, <4>1 DEF pendingMap, Pending, TypeOK, LaneTypeOK
      <4>3. finished_chains' = finished_chains
        BY <2>1, <3>3 DEF Run, run
      <4> QED BY <4>2, <4>3 DEF Fifo!vars
    <3> QED BY <3>2, <3>3
  <2>2. ASSUME NEW l \in Lanes, Wake(l) PROVE [Fifo!Next]_(Fifo!vars)
    <3>1. \A k \in Lanes : PendingOf(m_lanes'[k]) = PendingOf(m_lanes[k])
      BY <2>0, <2>2 DEF Wake, wakeLane, PendingOf, TypeOK, LaneTypeOK, LaneState
    <3>2. pendingMap' = pendingMap
      BY <3>1 DEF pendingMap, Pending
    <3> QED BY <2>2, <3>2 DEF Wake, wakeLane, Fifo!vars
  <2>3. ASSUME NEW l \in Lanes, NEW chain \in Programs, Load(l, chain)
        PROVE  [Fifo!Next]_(Fifo!vars)
    <3>1. chain \in Seq(Ids)
      BY PipelineAssumption
    <3>2. /\ m_lanes'[l] = [m_lanes[l] EXCEPT !.instruction_queue = @ \o chain]
          /\ \A k \in Lanes \ {l} : m_lanes'[k] = m_lanes[k]
      BY <2>3 DEF Load, LoadInstructionQueue, TypeOK, LaneTypeOK
    <3>3. PendingOf(m_lanes'[l]) = PendingOf(m_lanes[l]) \o chain
      BY <2>0, <3>1, <3>2, LoadPending
    <3>4. pendingMap' = [pendingMap EXCEPT ![l] = @ \o chain]
      BY <3>2, <3>3 DEF pendingMap, Pending
    <3>5. Fifo!Load(l, chain)
      BY <2>3, <3>4 DEF Fifo!Load, Load, LoadInstructionQueue
    <3> QED BY <3>5 DEF Fifo!Next
  <2>4. CASE PopFinished
    <3>1. pendingMap' = pendingMap
      BY <2>4 DEF PopFinished, pendingMap, Pending
    <3> QED BY <2>4, <3>1 DEF PopFinished, Fifo!Next, Fifo!See
  <2>5. CASE UNCHANGED <<m_lanes, finished_chains>>
    BY <2>5 DEF Fifo!vars, pendingMap, Pending
  <2> QED BY <2>1, <2>2, <2>3, <2>4, <2>5 DEF Next, PopMemReq, NewCycle, vars, laneVars
<1> QED BY <1>1, <1>2, TypeCorrect, PTL DEF Spec, InOrder, Fifo!Spec

=============================================================================

