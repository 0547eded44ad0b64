---------------------------- MODULE LanePipeline ----------------------------
(***************************************************************************)
(* The lanes with everything around them reduced to what may touch a lane: *)
(* in a cycle every lane runs once, then the queues the lanes filled are   *)
(* drained, stalled lanes may be woken and free lanes may be loaded.       *)
(***************************************************************************)
EXTENDS Lane

CONSTANTS
    Programs,   \* the instruction lists of the chains
    MaxBacklog  \* bound on the instructions a lane holds

ASSUME PipelineAssumption ==
    /\ Programs \subseteq Seq(Ids)
    /\ MaxBacklog \in Nat

VARIABLE
    ran         \* lanes that have run in this cycle

vars == <<laneVars, ran>>

(* Types of the lanes' state. *)
TypeOK ==
    /\ LaneTypeOK
    /\ ran \in SUBSET Lanes

Init ==
    /\ LaneInit
    /\ ran = Lanes

Run(l) ==
    /\ l \notin ran
    /\ run(l)
    /\ ran' = ran \cup {l}

(* Core::send_memory_req and Core::updateChains pop the lanes' queues. *)
PopMemReq ==
    /\ ran = Lanes
    /\ mem_req_queue # <<>>
    /\ mem_req_queue' = Tail(mem_req_queue)
    /\ UNCHANGED <<m_lanes, finished_chains, ran>>

PopFinished ==
    /\ ran = Lanes
    /\ finished_chains # <<>>
    /\ finished_chains' = Tail(finished_chains)
    /\ UNCHANGED <<m_lanes, mem_req_queue, ran>>

(* Core::update_mem_exe: only a stalled lane is woken. *)
Wake(l) ==
    /\ ran = Lanes
    /\ m_lanes[l].exe_cnt = -1
    /\ wakeLane(l)
    /\ UNCHANGED ran

(* Core::ooo_scheduler: only a free lane is loaded. *)
Load(l, chain) ==
    /\ ran = Lanes
    /\ is_free(m_lanes[l])
    /\ Len(Pending(l)) + Len(chain) <= MaxBacklog
    /\ LoadInstructionQueue(l, chain)
    /\ UNCHANGED ran

NewCycle ==
    /\ ran = Lanes
    /\ mem_req_queue = <<>> /\ finished_chains = <<>>
    /\ ran' = {}
    /\ UNCHANGED laneVars

Next ==
    \/ \E l \in Lanes : Run(l) \/ Wake(l)
    \/ \E l \in Lanes, chain \in Programs : Load(l, chain)
    \/ PopMemReq \/ PopFinished \/ NewCycle

Spec == Init /\ [][Next]_vars

(* Cycles follow each other, and memory answers every stalled lane. *)
FairSpec ==
    /\ Spec
    /\ \A l \in Lanes : WF_vars(Run(l)) /\ SF_vars(Wake(l))
    /\ WF_vars(PopMemReq) /\ WF_vars(PopFinished) /\ WF_vars(NewCycle)

-----------------------------------------------------------------------------
pendingMap == [l \in Lanes |-> Pending(l)]

chainMap == [n \in Ids |-> node[n].c_id]

Fifo == INSTANCE LaneFifo WITH pending <- pendingMap, ChainOf <- chainMap

(* The pipeline of fetch and execute stages implements the FIFO: nothing   *)
(* is lost, duplicated or overtaken between the stages, and a completion   *)
(* reports the chain of the instruction that completed.                    *)
InOrder == Fifo!Spec

(* Under fair cycles and a memory that answers, the pipeline never wedges: *)
(* a lane that holds instructions completes them.                          *)
KeepsCompleting == Fifo!FairSpec

(* The execution stage holds one instruction at most, the counter runs     *)
(* only for an instruction that is there (execute() reads the front of the *)
(* queue without a test), and a lane stalls only on a load or a store.     *)
OneExecuting == \A l \in Lanes : ExecutesOne(m_lanes[l])

(* What FreeMeansDrained asks of the chains. *)
SlowEndsPrograms == \A chain \in Programs : SlowIsLast(chain)

=============================================================================
