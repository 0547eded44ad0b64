----------------------------- MODULE MemoryCycle -----------------------------
(***************************************************************************)
(* The memory unit and Ruby under the cycle of Core::run_a_cycle, with the *)
(* lanes reduced to what the unit relies on: a node that has a request in  *)
(* flight does not send another one until it has been answered (its lane   *)
(* is stalled).  Core shows that the real lanes keep that promise.         *)
(*                                                                         *)
(* A cycle is: Ruby's clock advances (any callbacks), the lanes' requests  *)
(* are sent, recv_resp issues at most one request and then drains Ruby's   *)
(* queue, the answered lanes wake up.                                      *)
(***************************************************************************)
EXTENDS Memory

VARIABLES
    phase,      \* where run_a_cycle is
    waiting     \* nodes whose lanes are stalled on an access

vars == <<rubyVars, memoryVars, phase, waiting>>

Phases == {"ruby", "send", "access", "mshr", "wake"}

(* Types of the variables of the memory unit, Ruby and the cycle.          *)
TypeOK ==
    /\ RubyTypeOK
    /\ MemoryTypeOK
    /\ phase \in Phases
    /\ waiting \in SUBSET Nodes

Init ==
    /\ RubyInit
    /\ MemoryInit
    /\ phase = "ruby"
    /\ waiting = {}

(* A callback while m_ruby->advance_time() runs. *)
Callback(line) ==
    /\ phase = "ruby"
    /\ hitCallback(line)
    /\ UNCHANGED <<memoryVars, phase, waiting>>

AdvanceTimeReturns ==
    /\ phase = "ruby"
    /\ phase' = "send"
    /\ UNCHANGED <<rubyVars, memoryVars, waiting>>

(* One turn of the loop of Core::send_memory_req. *)
SendReq(iter, nodeid) ==
    /\ phase = "send"
    /\ nodeid \notin waiting
    /\ send_req(iter, nodeid)
    /\ waiting' = waiting \cup {nodeid}
    /\ UNCHANGED <<rubyVars, phase>>

SendReturns ==
    /\ phase = "send"
    /\ phase' = "access"
    /\ UNCHANGED <<rubyVars, memoryVars, waiting>>

(* Memory::recv_resp: access, then process_mshr until the queue is empty.  *)
Access ==
    /\ phase = "access"
    /\ access
    /\ phase' = "mshr"
    /\ UNCHANGED waiting

ProcessMshr ==
    /\ phase = "mshr"
    /\ process_mshr
    /\ UNCHANGED <<phase, waiting>>

RecvRespReturns ==
    /\ phase = "mshr"
    /\ RubyQueueEmpty
    /\ phase' = "wake"
    /\ UNCHANGED <<rubyVars, memoryVars, waiting>>

(* One turn of the loop of Core::update_mem_exe: an answered lane wakes.   *)
Wake ==
    /\ phase = "wake"
    /\ m_mem_resp_list # <<>>
    /\ waiting' = waiting \ {Head(m_mem_resp_list)}
    /\ m_mem_resp_list' = Tail(m_mem_resp_list)
    /\ UNCHANGED <<rubyVars, ldst_addr_buffer, mem_req_stack, phase>>

UpdateMemExeReturns ==
    /\ phase = "wake"
    /\ m_mem_resp_list = <<>>
    /\ phase' = "ruby"
    /\ UNCHANGED <<rubyVars, memoryVars, waiting>>

Next ==
    \/ \E line \in Lines : Callback(line)
    \/ AdvanceTimeReturns
    \/ \E iter \in Iters, nodeid \in Nodes : SendReq(iter, nodeid)
    \/ SendReturns
    \/ Access
    \/ ProcessMshr
    \/ RecvRespReturns
    \/ Wake
    \/ UpdateMemExeReturns

(* The simulator's loop goes on; Ruby answers every request it has taken   *)
(* (its own deadlock check aborts the run otherwise).                      *)
Fairness ==
    /\ WF_vars(AdvanceTimeReturns \/ SendReturns \/ Access \/ ProcessMshr
                 \/ RecvRespReturns \/ Wake \/ UpdateMemExeReturns)
    /\ \A line \in Lines : SF_vars(Callback(line))

Spec == Init /\ [][Next]_vars

FairSpec == Spec /\ Fairness

-----------------------------------------------------------------------------
Entry(i) == ldst_addr_buffer[i]

Positions == DOMAIN ldst_addr_buffer

LineOf(i) == base_addr(Entry(i).vaddr)

Queued == {m_callback_queue[i] : i \in DOMAIN m_callback_queue}

IssuedNodes == {n \in Nodes : \E i \in Positions : Entry(i).nodeid = n /\ Entry(i).is_issue}

(* The Sequencer's assertion: its count is the size of its two tables, and *)
(* with isReady's comment, no line is in both.                             *)
CountMatchesTables ==
    /\ m_readRequestTable \cap m_writeRequestTable = {}
    /\ m_outstanding_count =
          Cardinality(m_readRequestTable) + Cardinality(m_writeRequestTable)

(* process_mshr's assertion, and more: the entry search_req finds for the  *)
(* line at the top of Ruby's queue is one that has been issued, although   *)
(* the search does not look at is_issue and access() may have issued a     *)
(* second request for the same line while the first answer was queued.     *)
ResponseFindsIssued ==
    phase = "mshr" /\ ~RubyQueueEmpty =>
        /\ search_req(RubyQueueTop) # 0
        /\ Entry(search_req(RubyQueueTop)).is_issue

(* The requests of one line are issued in arrival order, so that first-    *)
(* match search answers them in arrival order too.                         *)
IssuedInOrder ==
    \A i, j \in Positions :
        i < j /\ LineOf(i) = LineOf(j) /\ Entry(j).is_issue => Entry(i).is_issue

(* Issued requests of a line are those Ruby still owes an answer for: one  *)
(* in its tables, one in its callback queue, both or none.                 *)
IssuedMatchesRuby ==
    \A line \in Lines :
        Cardinality({i \in Positions : LineOf(i) = line /\ Entry(i).is_issue})
          = (IF line \in Outstanding THEN 1 ELSE 0) + (IF line \in Queued THEN 1 ELSE 0)

(* MSHR slots are neither leaked nor freed twice: every issued request     *)
(* holds exactly one.                                                      *)
MshrConserved == mem_req_stack + Cardinality(IssuedNodes) = MEM_MSHR_SIZE

(* Every access a lane waits for is answered, whatever the order in which  *)
(* Ruby answers and however many requests compete for lines and slots.     *)
EveryAccessAnswered ==
    \A n \in Nodes : n \in waiting ~> n \notin waiting

=============================================================================
