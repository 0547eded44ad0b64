------------------------------ MODULE Directory ------------------------------
(***************************************************************************)
(* The memory controller's state machine, MESI_CMP_directory-mem_m.sm, and *)
(* the queues of DRAMsimControl that stand between it and the DRAM.  The   *)
(* directory has a single state; what it keeps is the data of every line.  *)
(***************************************************************************)
EXTENDS Messages, Bags

(* MemoryMsg: peer is OriginalRequestorMachId. *)
MemoryMsg(type, a, peer, data) == [type |-> type, addr |-> a, peer |-> peer, data |-> data]

MemoryMsgs == [type : {"MEMORY_READ", "MEMORY_WB"}, addr : Addrs, peer : {L2}, data : Blocks]

(* Fetch: the data to be answered is taken when the read is queued. *)
qf_queueMemoryFetchRequest(directory, m) ==
    MemoryMsg("MEMORY_READ", m.addr, m.peer, directory[m.addr])

(* Data: a writeback, or the ACK of a clean replacement.  Both run         *)
(* m_writeDataToMemory, and both are queued as writes.                     *)
m_writeDataToMemory(directory, m) == [directory EXCEPT ![m.addr] = m.data]

qw_queueMemoryWBRequest(m) == MemoryMsg("MEMORY_WB", m.addr, m.peer, m.data)

(* Memory_Data and Memory_Ack: the answer to the L2 that asked. *)
DirectoryAnswer(op) ==
    IF op.type = "MEMORY_READ"
    THEN WithData(ResponseMsg("MEMORY_DATA", op.addr, Dir, op.peer, 0),
                  [data |-> op.data, dirty |-> FALSE])
    ELSE ResponseMsg("MEMORY_ACK", op.addr, Dir, op.peer, 0)

(* DRAMsimControl::enqueueToResponse: every queued request of the address  *)
(* is completed by the first callback for it.                              *)
OfAddress(queue, a) == [op \in {q \in DOMAIN queue : q.addr = a} |-> queue[op]]

=============================================================================
