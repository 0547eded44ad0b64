------------------------------- MODULE Memory -------------------------------
(***************************************************************************)
(* The memory unit between the lanes and Ruby (Memory.cpp): a list of      *)
(* load/store requests in arrival order, each issued to Ruby or not, and a *)
(* counter of free MSHR slots.  A response of Ruby names only a cache      *)
(* line; the unit finds the request it answers by searching the list.      *)
(***************************************************************************)
EXTENDS Ruby

CONSTANTS
    Iters,          \* iteration numbers of the accelerated region
    Nodes,          \* ids of the load and store instructions
    memaddr_map,    \* (iteration, node) -> what the access does, where known
    MEM_MSHR_SIZE

line_size == 64

(* addr & ~63 *)
base_addr(addr) == addr - (addr % 64)

ASSUME MemoryAssumption ==
    /\ MEM_MSHR_SIZE \in Nat \ {0}
    /\ \A line \in Lines : base_addr(line) = line
    /\ DOMAIN memaddr_map \subseteq Iters \X Nodes
    /\ \A key \in DOMAIN memaddr_map :
          /\ memaddr_map[key] \in [isWrite : BOOLEAN, addr : Nat]
          /\ base_addr(memaddr_map[key].addr) \in Lines

VARIABLES
    ldst_addr_buffer,   \* the requests of the lanes, oldest first
    mem_req_stack,      \* free MSHR slots
    m_mem_resp_list     \* nodes answered in this cycle

memoryVars == <<ldst_addr_buffer, mem_req_stack, m_mem_resp_list>>

MemValue_t == [isWrite : BOOLEAN, nodeid : Nodes, vaddr : Nat, is_issue : BOOLEAN]

MemoryTypeOK ==
    /\ ldst_addr_buffer \in Seq(MemValue_t)
    /\ \A i \in DOMAIN ldst_addr_buffer :
          base_addr(ldst_addr_buffer[i].vaddr) \in Lines
    /\ mem_req_stack \in 0..MEM_MSHR_SIZE
    /\ m_mem_resp_list \in Seq(Nodes)

(* Memory::initialize *)
MemoryInit ==
    /\ ldst_addr_buffer = <<>>
    /\ mem_req_stack = MEM_MSHR_SIZE
    /\ m_mem_resp_list = <<>>

-----------------------------------------------------------------------------
(* The entries of list s at the positions in keep, in their order.         *)
KeepAt(s, keep) ==
    [k \in 1..Cardinality(keep) |->
        s[CHOOSE i \in keep : Cardinality({j \in keep : j <= i}) = k]]

(* MemValue_t::operator==, which does not compare is_issue.                *)
SameRequest(e, f) ==
    e.isWrite = f.isWrite /\ e.nodeid = f.nodeid /\ e.vaddr = f.vaddr

(* std::list::remove(value): deletes every element equal to value.         *)
ListRemove(s, value) ==
    KeepAt(s, {i \in DOMAIN s : ~SameRequest(s[i], value)})

InLine(e, line) == line <= e.vaddr /\ e.vaddr < line + line_size

Matches(line) == {i \in DOMAIN ldst_addr_buffer : InLine(ldst_addr_buffer[i], line)}

First(S) == CHOOSE i \in S : \A j \in S : i <= j

(* A search from the back of the list.                                     *)
search_req_Newest(line) ==
    IF Matches(line) = {} THEN 0
    ELSE CHOOSE i \in Matches(line) : \A j \in Matches(line) : j <= i

(* Memory::search_req: the position of the first request in that line,     *)
(* issued or not; 0 stands for NULL.                                       *)
search_req(line) == IF Matches(line) = {} THEN 0 ELSE First(Matches(line))

-----------------------------------------------------------------------------
(* Memory::send_req.  A key that is not in the map hits assert(0), which   *)
(* the release build compiles out: nothing is queued.                      *)
send_req(iter, nodeid) ==
    /\ ldst_addr_buffer' =
          IF <<iter, nodeid>> \in DOMAIN memaddr_map
          THEN LET value == memaddr_map[<<iter, nodeid>>]
               IN  Append(ldst_addr_buffer,
                          [isWrite |-> value.isWrite, nodeid |-> nodeid,
                           vaddr |-> value.addr, is_issue |-> FALSE])
          ELSE ldst_addr_buffer
    /\ UNCHANGED <<mem_req_stack, m_mem_resp_list>>

(* Requests that can be issued when an issued one is not told apart.       *)
Issuable_AlsoIssued ==
    {i \in DOMAIN ldst_addr_buffer : isReady(base_addr(ldst_addr_buffer[i].vaddr))}

(* Requests that can be issued when loads have priority over stores.       *)
Issuable_LoadsFirst ==
    LET able == {i \in Issuable_AlsoIssued : ~ldst_addr_buffer[i].is_issue}
        loads == {i \in able : ~ldst_addr_buffer[i].isWrite}
    IN  IF loads # {} THEN loads ELSE able

(* The requests access() may issue: not issued yet, and accepted by Ruby.  *)
Issuable ==
    {i \in DOMAIN ldst_addr_buffer :
        /\ isReady(base_addr(ldst_addr_buffer[i].vaddr))
        /\ ~ldst_addr_buffer[i].is_issue}

(* Memory::access: issue at most one request per cycle, the oldest that    *)
(* Ruby accepts, if an MSHR slot is free.                                  *)
access ==
    IF mem_req_stack # 0 /\ Issuable # {}
    THEN LET i == First(Issuable) IN
         /\ ldst_addr_buffer' = [ldst_addr_buffer EXCEPT ![i].is_issue = TRUE]
         /\ mem_req_stack' = mem_req_stack - 1
         /\ makeRequest(base_addr(ldst_addr_buffer[i].vaddr),
                        ldst_addr_buffer[i].isWrite)
         /\ UNCHANGED m_mem_resp_list
    ELSE UNCHANGED <<memoryVars, rubyVars>>

(* A turn of process_mshr that does not give the slot back.                *)
process_mshr_LeaksSlot ==
    /\ ~RubyQueueEmpty
    /\ search_req(RubyQueueTop) # 0
    /\ LET match == ldst_addr_buffer[search_req(RubyQueueTop)] IN
       /\ m_mem_resp_list' = Append(m_mem_resp_list, match.nodeid)
       /\ ldst_addr_buffer' = ListRemove(ldst_addr_buffer, match)
    /\ UNCHANGED mem_req_stack
    /\ RubyQueuePop

(* One turn of the loop of Memory::process_mshr.  The assertion that the   *)
(* line is found is compiled out in a release build; a NULL there would    *)
(* crash, so the turn is taken only when the search succeeds.              *)
process_mshr ==
    /\ ~RubyQueueEmpty
    /\ search_req(RubyQueueTop) # 0
    /\ LET match == ldst_addr_buffer[search_req(RubyQueueTop)] IN
       /\ m_mem_resp_list' = Append(m_mem_resp_list, match.nodeid)
       /\ ldst_addr_buffer' = ListRemove(ldst_addr_buffer, match)
    /\ mem_req_stack' = mem_req_stack + 1
    /\ RubyQueuePop

=============================================================================
