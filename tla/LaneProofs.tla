----------------------------- MODULE LaneProofs -----------------------------
(***************************************************************************)
(* What one cycle of a lane does, for every state of a lane: its types,    *)
(* its execution stage, its pending instructions.                          *)
(***************************************************************************)
EXTENDS Lane, SequenceTheorems, TLAPS

(* A record with the right fields is a lane state. *)
LEMMA LaneRecord ==
    ASSUME NEW r,
           DOMAIN r = {"instruction_queue", "fetch_stack", "exe_stack",
                       "fetch_cnt", "exe_cnt"},
           r = [x \in DOMAIN r |-> r[x]],
           r.instruction_queue \in Seq(Ids),
           r.fetch_stack \in Seq(Ids),
           r.exe_stack \in Seq(Ids),
           r.fetch_cnt \in Nat,
           r.exe_cnt \in Nat \cup {-1}
    PROVE  r \in LaneState
BY DEF LaneState

(* The delay an instruction sets is a latency or the stall mark. *)
LEMMA DelayType == \A n \in Ids : exeDelay(n) \in Nat \cup {-1}
BY LaneAssumption DEF exeDelay, isMemory, Ids

(* What Lane::updateCounter does to the fields of a lane. *)
LEMMA CounterFields ==
    ASSUME NEW lane \in LaneState
    PROVE  LET r == updateCounter(lane) IN
           /\ DOMAIN r = {"instruction_queue", "fetch_stack", "exe_stack",
                          "fetch_cnt", "exe_cnt"}
           /\ r = [x \in DOMAIN r |-> r[x]]
           /\ r.instruction_queue = lane.instruction_queue
           /\ r.fetch_stack = lane.fetch_stack
           /\ r.exe_stack = lane.exe_stack
           /\ r.fetch_cnt = IF lane.fetch_cnt > 0 THEN lane.fetch_cnt - 1 ELSE lane.fetch_cnt
           /\ r.exe_cnt = IF lane.exe_cnt > 0 THEN lane.exe_cnt - 1 ELSE lane.exe_cnt
BY DEF updateCounter, LaneState

(* Its result is a lane. *)
LEMMA CounterType ==
    ASSUME NEW lane \in LaneState
    PROVE  updateCounter(lane) \in LaneState
<1> DEFINE r == updateCounter(lane)
<1>1. /\ r.instruction_queue \in Seq(Ids)
      /\ r.fetch_stack \in Seq(Ids)
      /\ r.exe_stack \in Seq(Ids)
  BY CounterFields DEF LaneState
<1>2. r.fetch_cnt \in Nat
  BY CounterFields DEF LaneState
<1>3. r.exe_cnt \in Nat \cup {-1}
  BY CounterFields DEF LaneState
<1> QED BY <1>1, <1>2, <1>3, CounterFields, LaneRecord

(* What Lane::execute does to each field, in its three cases. *)
LEMMA ExecuteFields ==
    ASSUME NEW lane \in LaneState
    PROVE  LET r == execute(lane)
               n == Head(lane.fetch_stack)
           IN
           /\ DOMAIN r = {"instruction_queue", "fetch_stack", "exe_stack",
                          "fetch_cnt", "exe_cnt"}
           /\ r = [x \in DOMAIN r |-> r[x]]
           /\ r.instruction_queue = lane.instruction_queue
           /\ r.fetch_cnt = lane.fetch_cnt
           /\ retires(lane) =>
                 /\ r.exe_stack = Tail(lane.exe_stack)
                 /\ r.fetch_stack = lane.fetch_stack
                 /\ r.exe_cnt = lane.exe_cnt
           /\ ~retires(lane) /\ issues(lane) =>
                 /\ r.exe_stack = Append(lane.exe_stack, n)
                 /\ r.fetch_stack = Tail(lane.fetch_stack)
                 /\ r.exe_cnt = exeDelay(n)
           /\ ~retires(lane) /\ ~issues(lane) => r = lane
<1>1. CASE retires(lane)
  BY <1>1 DEF execute, LaneState
<1>2. CASE ~retires(lane) /\ issues(lane)
  BY <1>2 DEF execute, LaneState
<1>3. CASE ~retires(lane) /\ ~issues(lane)
  BY <1>3 DEF execute, LaneState
<1> QED BY <1>1, <1>2, <1>3

(* The result of Lane::execute is a lane. *)
LEMMA ExecuteType ==
    ASSUME NEW lane \in LaneState
    PROVE  execute(lane) \in LaneState
<1> DEFINE r == execute(lane)
<1>0. /\ lane.instruction_queue \in Seq(Ids)
      /\ lane.fetch_stack \in Seq(Ids)
      /\ lane.exe_stack \in Seq(Ids)
      /\ lane.fetch_cnt \in Nat
      /\ lane.exe_cnt \in Nat \cup {-1}
  BY DEF LaneState
<1>1. CASE retires(lane)
  <2>1. r.exe_stack \in Seq(Ids)
    BY <1>0, <1>1, ExecuteFields, HeadTailProperties DEF retires
  <2> QED BY <1>0, <1>1, <2>1, ExecuteFields, LaneRecord
<1>2. CASE ~retires(lane) /\ issues(lane)
  <2>1. Head(lane.fetch_stack) \in Ids /\ Tail(lane.fetch_stack) \in Seq(Ids)
    BY <1>0, <1>2, HeadTailProperties DEF issues
  <2>a. /\ r.exe_stack = Append(lane.exe_stack, Head(lane.fetch_stack))
        /\ r.fetch_stack = Tail(lane.fetch_stack)
    BY <1>2, ExecuteFields, Zenon
  <2>b. Append(lane.exe_stack, Head(lane.fetch_stack)) \in Seq(Ids)
    BY <1>0, <2>1, AppendProperties
  <2>2. r.exe_stack \in Seq(Ids) /\ r.fetch_stack \in Seq(Ids)
    BY <2>1, <2>a, <2>b, Zenon
  <2>3. r.exe_cnt \in Nat \cup {-1}
    BY <1>2, <2>1, ExecuteFields, DelayType
  <2> QED BY <1>0, <1>2, <2>2, <2>3, ExecuteFields, LaneRecord
<1>3. CASE ~retires(lane) /\ ~issues(lane)
  BY <1>3 DEF execute
<1> QED BY <1>1, <1>2, <1>3

(* What Lane::fetch does to the fields of a lane. *)
LEMMA FetchFields ==
    ASSUME NEW lane \in LaneState
    PROVE  LET r == fetch(lane)
               idle == lane.fetch_cnt > 0 \/ lane.instruction_queue = <<>>
           IN
           /\ DOMAIN r = {"instruction_queue", "fetch_stack", "exe_stack",
                          "fetch_cnt", "exe_cnt"}
           /\ r = [x \in DOMAIN r |-> r[x]]
           /\ r.exe_stack = lane.exe_stack
           /\ r.exe_cnt = lane.exe_cnt
           /\ idle => r = lane
           /\ ~idle =>
                 /\ r.fetch_stack = Append(lane.fetch_stack, Head(lane.instruction_queue))
                 /\ r.instruction_queue = Tail(lane.instruction_queue)
                 /\ r.fetch_cnt = 4
<1>1. CASE lane.fetch_cnt > 0 \/ lane.instruction_queue = <<>>
  BY <1>1 DEF fetch, LaneState
<1>2. CASE ~(lane.fetch_cnt > 0 \/ lane.instruction_queue = <<>>)
  BY <1>2 DEF fetch, LaneState, FetchCycles
<1> QED BY <1>1, <1>2

(* Its result is a lane. *)
LEMMA FetchType ==
    ASSUME NEW lane \in LaneState
    PROVE  fetch(lane) \in LaneState
<1> DEFINE r == fetch(lane)
<1>0. /\ lane.instruction_queue \in Seq(Ids)
      /\ lane.fetch_stack \in Seq(Ids)
      /\ lane.exe_stack \in Seq(Ids)
      /\ lane.exe_cnt \in Nat \cup {-1}
  BY DEF LaneState
<1>1. CASE lane.fetch_cnt > 0 \/ lane.instruction_queue = <<>>
  BY <1>1 DEF fetch
<1>2. CASE ~(lane.fetch_cnt > 0 \/ lane.instruction_queue = <<>>)
  <2>1. /\ Head(lane.instruction_queue) \in Ids
        /\ Tail(lane.instruction_queue) \in Seq(Ids)
    BY <1>0, <1>2, HeadTailProperties
  <2>2. Append(lane.fetch_stack, Head(lane.instruction_queue)) \in Seq(Ids)
    BY <1>0, <2>1, AppendProperties
  <2>3. /\ r.fetch_stack = Append(lane.fetch_stack, Head(lane.instruction_queue))
        /\ r.instruction_queue = Tail(lane.instruction_queue)
        /\ r.fetch_cnt = 4
    BY <1>2, FetchFields, Zenon
  <2>4. /\ r.fetch_stack \in Seq(Ids)
        /\ r.instruction_queue \in Seq(Ids)
        /\ r.fetch_cnt \in Nat
    BY <2>1, <2>2, <2>3
  <2>5. r.exe_stack \in Seq(Ids) /\ r.exe_cnt \in Nat \cup {-1}
    BY <1>0, FetchFields, Zenon
  <2>6. /\ DOMAIN r = {"instruction_queue", "fetch_stack", "exe_stack",
                       "fetch_cnt", "exe_cnt"}
        /\ r = [x \in DOMAIN r |-> r[x]]
    BY FetchFields, Zenon
  <2>7. r \in LaneState
    <3> HIDE DEF r
    <3> QED BY <2>4, <2>5, <2>6, LaneRecord
  <2> QED BY <2>7
<1> QED BY <1>1, <1>2

(* A cycle keeps a lane well-typed. *)
LEMMA RunType ==
    ASSUME NEW lane \in LaneState
    PROVE  fetch(execute(updateCounter(lane))) \in LaneState
BY CounterType, ExecuteType, FetchType

-----------------------------------------------------------------------------
(* One cycle of a lane keeps at most one instruction in execution. *)
LEMMA RunExecutesOne ==
    ASSUME NEW lane \in LaneState, ExecutesOne(lane)
    PROVE  ExecutesOne(fetch(execute(updateCounter(lane))))
<1> DEFINE u == updateCounter(lane)
           x == execute(u)
           f == fetch(x)
<1>1. u \in LaneState /\ x \in LaneState
  BY CounterType, ExecuteType
<1>2. f.exe_stack = x.exe_stack /\ f.exe_cnt = x.exe_cnt
  BY <1>1, FetchFields, Zenon
<1>3. u.exe_stack = lane.exe_stack /\ Len(u.exe_stack) <= 1 /\ u.exe_stack \in Seq(Ids)
  BY CounterFields DEF ExecutesOne, LaneState
<1>4. /\ u.exe_cnt # 0 => u.exe_stack # <<>>
      /\ u.exe_cnt = -1 => lane.exe_cnt = -1
  BY CounterFields DEF ExecutesOne, LaneState
<1>5. ExecutesOne(x)
  <2>1. CASE retires(u)
    <3>1. x.exe_cnt = 0 /\ x.exe_stack = Tail(u.exe_stack)
      BY <1>1, <2>1, ExecuteFields DEF retires
    <3>2. Len(x.exe_stack) <= 1
      BY <1>3, <2>1, <3>1, HeadTailProperties DEF retires
    <3> QED BY <3>1, <3>2 DEF ExecutesOne
  <2>2. CASE ~retires(u) /\ issues(u)
    <3> DEFINE n == Head(u.fetch_stack)
    <3>1. n \in Ids
      BY <1>1, <2>2, HeadTailProperties DEF issues, LaneState
    <3>2. x.exe_cnt = exeDelay(n) /\ x.exe_stack = <<n>>
      <4>1. x.exe_cnt = exeDelay(n) /\ x.exe_stack = Append(u.exe_stack, n)
        BY <1>1, <2>2, ExecuteFields, Zenon
      <4>2. u.exe_stack = <<>>
        BY <2>2 DEF issues
      <4> QED BY <4>1, <4>2
    <3>3. exeDelay(n) = -1 => MEMORY_MODE = 3 /\ isMemory(n)
      BY <3>1, LaneAssumption DEF exeDelay, isMemory
    <3> HIDE DEF n, x
    <3> QED BY <3>2, <3>3 DEF ExecutesOne
  <2>3. CASE ~retires(u) /\ ~issues(u)
    <3>1. x = u
      BY <2>3 DEF execute
    <3>2. u.exe_cnt = -1 => MEMORY_MODE = 3 /\ isMemory(u.exe_stack[1])
      BY <1>3, <1>4 DEF ExecutesOne
    <3> QED BY <1>3, <1>4, <3>1, <3>2 DEF ExecutesOne
  <2> QED BY <2>1, <2>2, <2>3
<1> HIDE DEF f, x
<1>6. ExecutesOne(f)
  BY <1>2, <1>5 DEF ExecutesOne
<1> QED BY <1>6 DEF f, x

(* A stalled lane stays as it is; a lane that is not stalled stalls exactly *)
(* when it issues a load or store in Ruby mode.                            *)
LEMMA RunStalls ==
    ASSUME NEW lane \in LaneState, ExecutesOne(lane)
    PROVE  LET u == updateCounter(lane)
               f == fetch(execute(u))
               n == Head(u.fetch_stack)
               posts == ~retires(u) /\ issues(u) /\ isMemory(n) /\ MEMORY_MODE = 3
           IN  /\ lane.exe_cnt = -1 =>
                     /\ f.exe_cnt = -1 /\ f.exe_stack = lane.exe_stack
                     /\ ~retires(u) /\ ~issues(u)
               /\ lane.exe_cnt # -1 => (f.exe_cnt = -1 <=> posts)
               /\ posts => n \in Ids /\ f.exe_stack = <<n>>
<1> DEFINE u == updateCounter(lane)
           x == execute(u)
           f == fetch(x)
           n == Head(u.fetch_stack)
<1>1. u \in LaneState /\ x \in LaneState
  BY CounterType, ExecuteType
<1>2. f.exe_stack = x.exe_stack /\ f.exe_cnt = x.exe_cnt
  BY <1>1, FetchFields, Zenon
<1>3. u.exe_stack = lane.exe_stack /\ u.fetch_stack \in Seq(Ids)
  BY <1>1, CounterFields DEF LaneState
<1>4. /\ lane.exe_cnt = -1 => u.exe_cnt = -1
      /\ lane.exe_cnt # -1 => u.exe_cnt # -1
  BY CounterFields DEF LaneState
<1>5. CASE lane.exe_cnt = -1
  <2>1. ~retires(u) /\ ~issues(u)
    BY <1>4, <1>5 DEF retires, issues
  <2>2. x = u
    BY <2>1 DEF execute
  <2> HIDE DEF f, x, u
  <2>3. f.exe_cnt = -1 /\ f.exe_stack = lane.exe_stack
    BY <1>2, <1>3, <1>4, <1>5, <2>2
  <2> QED BY <1>5, <2>1, <2>3 DEF f, x, u
<1>6. CASE lane.exe_cnt # -1
  <2>1. CASE retires(u)
    <3>1. x.exe_cnt = u.exe_cnt
      BY <1>1, <2>1, ExecuteFields, Zenon
    <3>2. f.exe_cnt # -1
      BY <1>2, <1>4, <1>6, <3>1, Zenon
    <3> QED BY <1>6, <2>1, <3>2, Zenon
  <2>2. CASE ~retires(u) /\ issues(u)
    <3>1. n \in Ids
      BY <1>1, <2>2, HeadTailProperties DEF issues, LaneState
    <3>2. x.exe_cnt = exeDelay(n) /\ x.exe_stack = Append(u.exe_stack, n)
      BY <1>1, <2>2, ExecuteFields, Zenon
    <3>3. u.exe_stack = <<>>
      BY <2>2 DEF issues
    <3>4. exeDelay(n) = -1 <=> isMemory(n) /\ MEMORY_MODE = 3
      BY <3>1, LaneAssumption DEF exeDelay, isMemory
    <3>5. Append(<<>>, n) = <<n>>
      OBVIOUS
    <3>6. f.exe_cnt = exeDelay(n) /\ f.exe_stack = <<n>>
      BY <1>2, <3>2, <3>3, <3>5, Zenon
    <3> QED BY <1>6, <2>2, <3>1, <3>4, <3>6, Zenon
  <2>3. CASE ~retires(u) /\ ~issues(u)
    <3>1. x = u
      BY <2>3 DEF execute
    <3>2. f.exe_cnt # -1
      BY <1>2, <1>4, <1>6, <3>1, Zenon
    <3> QED BY <1>6, <2>3, <3>2, Zenon
  <2> QED BY <2>1, <2>2, <2>3
<1> QED BY <1>5, <1>6

-----------------------------------------------------------------------------
(* While an instruction waits in the fetch stack it waits alone, and the   *)
(* fetch counter is strictly ahead of the execution counter; so the fetch  *)
(* counter can reach zero, which is_free() asks for, only in a cycle that  *)
(* issues it.                                                              *)
FetchAhead(lane) ==
    /\ Len(lane.exe_stack) <= 1
    /\ lane.exe_cnt \in 0..(FetchCycles - 1)
    /\ lane.exe_stack # <<>> <=> lane.exe_cnt > 0
    /\ Len(lane.fetch_stack) <= 1
    /\ lane.fetch_stack # <<>> => lane.exe_cnt < lane.fetch_cnt

(* One cycle of a lane that issues no slow instruction. *)
LEMMA RunFetchAhead ==
    ASSUME NEW lane \in LaneState, FetchAhead(lane),
           LET u == updateCounter(lane)
           IN  issues(u) => exeDelay(Head(u.fetch_stack)) \in 1..(FetchCycles - 1)
    PROVE  FetchAhead(fetch(execute(updateCounter(lane))))
<1> DEFINE u == updateCounter(lane)
           x == execute(u)
           f == fetch(x)
<1>1. u \in LaneState /\ x \in LaneState /\ f \in LaneState
  BY CounterType, ExecuteType, FetchType
<1>2. /\ u.exe_stack = lane.exe_stack /\ u.fetch_stack = lane.fetch_stack
      /\ u.fetch_cnt = IF lane.fetch_cnt > 0 THEN lane.fetch_cnt - 1 ELSE lane.fetch_cnt
      /\ u.exe_cnt = IF lane.exe_cnt > 0 THEN lane.exe_cnt - 1 ELSE lane.exe_cnt
  BY CounterFields, Zenon
<1>3. /\ lane.exe_stack \in Seq(Ids) /\ lane.fetch_stack \in Seq(Ids)
      /\ lane.fetch_cnt \in Nat
  BY DEF LaneState
<1>4. /\ lane.exe_cnt \in 0..3
      /\ lane.exe_stack # <<>> <=> lane.exe_cnt > 0
      /\ lane.fetch_stack # <<>> => lane.exe_cnt < lane.fetch_cnt
      /\ Len(lane.exe_stack) <= 1 /\ Len(lane.fetch_stack) <= 1
  BY DEF FetchAhead, FetchCycles
(* After execute, an instruction left in the fetch stack still has its     *)
(* fetch counter running.                                                  *)
<1>5. /\ FetchAhead(x)
      /\ x.fetch_cnt = 0 => x.fetch_stack = <<>>
  <2>0. x.fetch_cnt = u.fetch_cnt
    BY <1>1, ExecuteFields, Zenon
  <2>1. CASE retires(u)
    <3>1. x.exe_stack = Tail(u.exe_stack) /\ x.fetch_stack = u.fetch_stack /\ x.exe_cnt = u.exe_cnt
      BY <1>1, <2>1, ExecuteFields, Zenon
    <3>2. u.exe_cnt = 0 /\ u.exe_stack # <<>>
      BY <2>1 DEF retires
    <3>3. x.exe_stack = <<>>
      BY <1>2, <1>3, <1>4, <3>1, <3>2, HeadTailProperties
    <3>4. lane.exe_cnt = 1
      BY <1>2, <1>4, <3>2
    <3>5. lane.fetch_stack # <<>> => u.fetch_cnt > 0
      BY <1>2, <1>3, <1>4, <3>4
    <3> HIDE DEF x, u
    <3> QED BY <1>2, <1>4, <2>0, <3>1, <3>2, <3>3, <3>5 DEF FetchAhead, FetchCycles
  <2>2. CASE ~retires(u) /\ issues(u)
    <3> DEFINE n == Head(u.fetch_stack)
    <3>1. /\ x.exe_stack = Append(u.exe_stack, n)
          /\ x.fetch_stack = Tail(u.fetch_stack)
          /\ x.exe_cnt = exeDelay(n)
      BY <1>1, <2>2, ExecuteFields, Zenon
    <3>2. u.exe_stack = <<>> /\ u.fetch_stack # <<>>
      BY <2>2 DEF issues
    <3>3. n \in Ids /\ x.fetch_stack = <<>>
      BY <1>2, <1>3, <1>4, <3>1, <3>2, HeadTailProperties
    <3>4. x.exe_cnt \in 1..3
      BY <2>2, <3>1 DEF FetchCycles
    <3>5. x.exe_stack = <<n>>
      BY <3>1, <3>2
    <3> HIDE DEF x, n
    <3> QED BY <3>3, <3>4, <3>5 DEF FetchAhead, FetchCycles
  <2>3. CASE ~retires(u) /\ ~issues(u)
    <3>1. x = u
      BY <2>3 DEF execute
    <3>2. /\ ~(u.exe_cnt = 0 /\ u.exe_stack # <<>>)
          /\ ~(u.exe_cnt = 0 /\ u.exe_stack = <<>> /\ u.fetch_stack # <<>> /\ u.fetch_cnt = 0)
      BY <2>3 DEF retires, issues
    <3> HIDE DEF x, u
    <3>3. u.exe_stack # <<>> <=> u.exe_cnt > 0
      BY <1>2, <1>4, <3>2
    <3>4. u.fetch_stack # <<>> => u.exe_cnt < u.fetch_cnt
      BY <1>2, <1>3, <1>4, <3>2
    <3> QED BY <1>2, <1>3, <1>4, <3>1, <3>3, <3>4 DEF FetchAhead, FetchCycles
  <2> QED BY <2>1, <2>2, <2>3
<1>6. f.exe_stack = x.exe_stack /\ f.exe_cnt = x.exe_cnt
  BY <1>1, FetchFields, Zenon
<1>7. FetchAhead(f)
  <2>1. CASE x.fetch_cnt > 0 \/ x.instruction_queue = <<>>
    <3>1. f = x
      BY <2>1 DEF fetch
    <3> QED BY <1>5, <3>1
  <2>2. CASE ~(x.fetch_cnt > 0 \/ x.instruction_queue = <<>>)
    <3>1. /\ f.fetch_stack = Append(x.fetch_stack, Head(x.instruction_queue))
          /\ f.fetch_cnt = 4
      BY <1>1, <2>2, FetchFields, Zenon
    <3>2. x.fetch_cnt = 0
      BY <1>1, <2>2, SMTT(30) DEF LaneState
    <3>3. Len(f.fetch_stack) = 1
      BY <1>5, <3>1, <3>2
    <3> HIDE DEF f, x
    <3> QED BY <1>5, <1>6, <3>1, <3>3 DEF FetchAhead, FetchCycles
  <2> QED BY <2>1, <2>2
<1> QED BY <1>7

-----------------------------------------------------------------------------
(* Moving the head of the second of two queues to the end of the first. *)
LEMMA MoveHead ==
    ASSUME NEW S, NEW s \in Seq(S), NEW t \in Seq(S), t # <<>>
    PROVE  Append(s, Head(t)) \o Tail(t) = s \o t
<1> DEFINE a == Append(s, Head(t)) \o Tail(t)
           b == s \o t
<1>1. Head(t) \in S /\ Tail(t) \in Seq(S) /\ Len(Tail(t)) = Len(t) - 1 /\ Len(t) \in Nat \ {0}
      /\ Head(t) = t[1]
  BY HeadTailProperties
<1>2. /\ Append(s, Head(t)) \in Seq(S) /\ Len(Append(s, Head(t))) = Len(s) + 1
      /\ \A i \in 1..Len(s) : Append(s, Head(t))[i] = s[i]
      /\ Append(s, Head(t))[Len(s) + 1] = Head(t)
  BY <1>1, AppendProperties
<1>3. a \in Seq(S) /\ b \in Seq(S) /\ Len(a) = Len(b) /\ Len(b) = Len(s) + Len(t)
  BY <1>1, <1>2, ConcatProperties
<1>4. ASSUME NEW i \in 1..Len(a) PROVE a[i] = b[i]
  <2>1. b[i] = IF i <= Len(s) THEN s[i] ELSE t[i - Len(s)]
    BY <1>3, ConcatProperties
  <2>2. a[i] = IF i <= Len(s) + 1 THEN Append(s, Head(t))[i] ELSE Tail(t)[i - (Len(s) + 1)]
    BY <1>1, <1>2, <1>3, ConcatProperties
  <2>3. CASE i <= Len(s)
    BY <1>2, <2>1, <2>2, <2>3
  <2>4. CASE i = Len(s) + 1
    BY <1>1, <1>2, <2>1, <2>2, <2>4
  <2>5. CASE i > Len(s) + 1
    <3>1. i - (Len(s) + 1) \in 1..Len(Tail(t))
      BY <1>1, <1>3, <2>5
    <3>2. Tail(t)[i - (Len(s) + 1)] = t[i - (Len(s) + 1) + 1]
      BY <3>1, HeadTailProperties
    <3> QED BY <2>1, <2>2, <2>5, <3>2
  <2> QED BY <1>3, <2>3, <2>4, <2>5
<1> QED BY <1>3, <1>4, SeqEqual

(* The head and tail of a concatenation whose first part is not empty. *)
LEMMA ConcatHeadTail ==
    ASSUME NEW S, NEW s \in Seq(S), NEW t \in Seq(S), s # <<>>
    PROVE  /\ s \o t # <<>>
           /\ Head(s \o t) = Head(s)
           /\ Tail(s \o t) = Tail(s) \o t
<1> DEFINE a == Tail(s \o t)
           b == Tail(s) \o t
<1>1. /\ Tail(s) \in Seq(S) /\ Len(Tail(s)) = Len(s) - 1 /\ Len(s) \in Nat \ {0}
      /\ Head(s) = s[1]
      /\ \A i \in 1..Len(Tail(s)) : Tail(s)[i] = s[i + 1]
  BY HeadTailProperties
<1>2. /\ s \o t \in Seq(S) /\ Len(s \o t) = Len(s) + Len(t) /\ Len(t) \in Nat
      /\ \A i \in 1..(Len(s) + Len(t)) :
            (s \o t)[i] = IF i <= Len(s) THEN s[i] ELSE t[i - Len(s)]
  BY ConcatProperties
<1>3. s \o t # <<>>
  BY <1>1, <1>2
<1>4. Head(s \o t) = Head(s)
  BY <1>1, <1>2, <1>3
<1>5. /\ a \in Seq(S) /\ Len(a) = Len(s) + Len(t) - 1
      /\ \A i \in 1..Len(a) : a[i] = (s \o t)[i + 1]
  BY <1>1, <1>2, <1>3, HeadTailProperties
<1>6. /\ b \in Seq(S) /\ Len(b) = Len(s) - 1 + Len(t)
      /\ \A i \in 1..(Len(s) - 1 + Len(t)) :
            b[i] = IF i <= Len(s) - 1 THEN Tail(s)[i] ELSE t[i - (Len(s) - 1)]
  BY <1>1, ConcatProperties
<1>7. ASSUME NEW i \in 1..Len(a) PROVE a[i] = b[i]
  <2>1. a[i] = IF i + 1 <= Len(s) THEN s[i + 1] ELSE t[i + 1 - Len(s)]
    BY <1>1, <1>2, <1>5
  <2> QED BY <1>1, <1>2, <1>5, <1>6, <2>1
<1>8. a = b
  BY <1>1, <1>2, <1>5, <1>6, <1>7, SeqEqual
<1> QED BY <1>3, <1>4, <1>8

(* A cycle of a lane completes its oldest instruction or leaves the        *)
(* sequence of its pending instructions as it is.                          *)
LEMMA RunPending ==
    ASSUME NEW lane \in LaneState
    PROVE  LET u == updateCounter(lane)
               f == fetch(execute(u))
           IN  /\ PendingOf(lane) \in Seq(Ids)
               /\ retires(u) =>
                     /\ PendingOf(lane) # <<>>
                     /\ Head(PendingOf(lane)) = Head(u.exe_stack)
                     /\ PendingOf(f) = Tail(PendingOf(lane))
               /\ ~retires(u) => PendingOf(f) = PendingOf(lane)
<1> DEFINE u == updateCounter(lane)
           x == execute(u)
           f == fetch(x)
<1>1. u \in LaneState /\ x \in LaneState
  BY CounterType, ExecuteType
<1>2. \A r \in LaneState : /\ r.exe_stack \in Seq(Ids) /\ r.fetch_stack \in Seq(Ids)
                            /\ r.instruction_queue \in Seq(Ids)
  BY DEF LaneState
<1>3. PendingOf(lane) = PendingOf(u) /\ PendingOf(lane) \in Seq(Ids)
  BY <1>2, CounterFields, ConcatProperties DEF PendingOf
<1>4. PendingOf(f) = PendingOf(x)
  <2>1. CASE x.fetch_cnt > 0 \/ x.instruction_queue = <<>>
    BY <2>1 DEF fetch
  <2>2. CASE ~(x.fetch_cnt > 0 \/ x.instruction_queue = <<>>)
    <3> DEFINE e == x.exe_stack
               s == x.fetch_stack
               q == x.instruction_queue
    <3>1. /\ f.exe_stack = e
          /\ f.fetch_stack = Append(s, Head(q)) /\ f.instruction_queue = Tail(q)
      BY <1>1, <2>2, FetchFields, Zenon
    <3>2. e \in Seq(Ids) /\ s \in Seq(Ids) /\ q \in Seq(Ids) /\ q # <<>>
      BY <1>1, <1>2, <2>2
    <3>3. Append(s, Head(q)) \in Seq(Ids) /\ Tail(q) \in Seq(Ids)
      BY <3>2, HeadTailProperties, AppendProperties
    <3> HIDE DEF e, s, q
    <3>4. (e \o Append(s, Head(q))) \o Tail(q) = e \o (Append(s, Head(q)) \o Tail(q))
      <4>1. \A a, b, c \in Seq(Ids) : (a \o b) \o c = a \o (b \o c)
        BY ConcatAssociative
      <4> QED BY <3>2, <3>3, <4>1, ZenonT(40)
    <3>5. Append(s, Head(q)) \o Tail(q) = s \o q
      BY <3>2, MoveHead
    <3>6. e \o (s \o q) = (e \o s) \o q
      BY <3>2, ConcatAssociative
    <3>7. PendingOf(x) = (e \o s) \o q
      BY DEF PendingOf, e, s, q
    <3> QED BY <3>1, <3>4, <3>5, <3>6, <3>7 DEF PendingOf
  <2> QED BY <2>1, <2>2
<1>5. CASE retires(u)
  <2>1. /\ x.exe_stack = Tail(u.exe_stack) /\ x.fetch_stack = u.fetch_stack
        /\ x.instruction_queue = u.instruction_queue
    BY <1>1, <1>5, ExecuteFields, Zenon
  <2>2. u.exe_stack # <<>>
    BY <1>5 DEF retires
  <2> DEFINE e == u.exe_stack
             s == u.fetch_stack
             q == u.instruction_queue
  <2>3. e \in Seq(Ids) /\ s \in Seq(Ids) /\ q \in Seq(Ids) /\ e # <<>>
    BY <1>1, <1>2, <2>2
  <2>4. PendingOf(u) = (e \o s) \o q /\ PendingOf(x) = (Tail(e) \o s) \o q
    BY <2>1 DEF PendingOf
  <2> HIDE DEF e, s, q, x, f
  <2>5. /\ e \o s # <<>> /\ Head(e \o s) = Head(e) /\ Tail(e \o s) = Tail(e) \o s
        /\ e \o s \in Seq(Ids)
    BY <2>3, ConcatHeadTail, ConcatProperties
  <2>6. /\ (e \o s) \o q # <<>> /\ Head((e \o s) \o q) = Head(e)
        /\ Tail((e \o s) \o q) = (Tail(e) \o s) \o q
    BY <2>3, <2>5, ConcatHeadTail
  <2>7. /\ PendingOf(lane) # <<>> /\ Head(PendingOf(lane)) = Head(u.exe_stack)
        /\ PendingOf(f) = Tail(PendingOf(lane))
    BY <1>3, <1>4, <2>4, <2>6 DEF e
  <2> QED BY <1>3, <1>5, <2>7 DEF f, x
<1>6. CASE ~retires(u) /\ issues(u)
  <2> DEFINE s == u.fetch_stack
             q == u.instruction_queue
  <2>1. /\ x.exe_stack = Append(u.exe_stack, Head(s)) /\ x.fetch_stack = Tail(s)
        /\ x.instruction_queue = q
    BY <1>1, <1>6, ExecuteFields, Zenon
  <2>2. u.exe_stack = <<>> /\ s # <<>>
    BY <1>6 DEF issues
  <2>3. s \in Seq(Ids) /\ q \in Seq(Ids) /\ <<>> \in Seq(Ids)
    BY <1>1, <1>2, EmptySeq
  <2>4. PendingOf(u) = (<<>> \o s) \o q
        /\ PendingOf(x) = (Append(<<>>, Head(s)) \o Tail(s)) \o q
    BY <2>1, <2>2 DEF PendingOf
  <2> HIDE DEF s, q, x, f
  <2>5. Append(<<>>, Head(s)) \o Tail(s) = <<>> \o s
    BY <2>2, <2>3, MoveHead
  <2>6. PendingOf(f) = PendingOf(lane)
    BY <1>3, <1>4, <2>4, <2>5
  <2> QED BY <1>3, <1>6, <2>6 DEF f, x
<1>7. CASE ~retires(u) /\ ~issues(u)
  <2>1. x = u
    BY <1>7 DEF execute
  <2>2. PendingOf(f) = PendingOf(lane)
    BY <1>3, <1>4, <2>1
  <2> QED BY <1>3, <1>7, <2>2
<1> QED BY <1>5, <1>6, <1>7

(* Lists of instructions are closed under concatenation, which is          *)
(* associative.                                                            *)
LEMMA ConcatIds ==
    /\ \A a, b \in Seq(Ids) : a \o b \in Seq(Ids)
    /\ \A a, b, c \in Seq(Ids) : (a \o b) \o c = a \o (b \o c)
<1>1. \A a, b, c \in Seq(Ids) : (a \o b) \o c = a \o (b \o c)
  BY ConcatAssociative
<1>2. \A a, b \in Seq(Ids) : a \o b \in Seq(Ids)
  BY ConcatProperties
<1> QED BY <1>1, <1>2

(* A chain that is loaded comes after everything the lane holds, and does  *)
(* not touch its execution.                                                *)
LEMMA LoadPending ==
    ASSUME NEW lane \in LaneState, NEW chain \in Seq(Ids)
    PROVE  LET r == [lane EXCEPT !.instruction_queue = @ \o chain] IN
           /\ r \in LaneState
           /\ r.exe_stack = lane.exe_stack /\ r.exe_cnt = lane.exe_cnt
           /\ r.fetch_stack = lane.fetch_stack /\ r.fetch_cnt = lane.fetch_cnt
           /\ PendingOf(r) = PendingOf(lane) \o chain
<1> DEFINE r == [lane EXCEPT !.instruction_queue = @ \o chain]
           e == lane.exe_stack
           s == lane.fetch_stack
           q == lane.instruction_queue
<1>1. e \in Seq(Ids) /\ s \in Seq(Ids) /\ q \in Seq(Ids)
  BY DEF LaneState
<1>2. /\ r.exe_stack = e /\ r.exe_cnt = lane.exe_cnt
      /\ r.fetch_stack = s /\ r.fetch_cnt = lane.fetch_cnt
      /\ r.instruction_queue = q \o chain
  BY DEF LaneState
<1>3. q \o chain \in Seq(Ids)
  BY <1>1, ConcatProperties
<1>4. r \in LaneState
  BY <1>3 DEF LaneState
<1> HIDE DEF r, e, s, q
<1>5. (e \o s) \o (q \o chain) = ((e \o s) \o q) \o chain
  <2> DEFINE t == e \o s
  <2>1. t \in Seq(Ids)
    BY <1>1, ConcatIds
  <2> HIDE DEF t
  <2>2. (t \o q) \o chain = t \o (q \o chain)
    BY <1>1, <2>1, ConcatIds, ZenonT(40)
  <2> QED BY <2>2 DEF t
<1>6. PendingOf(r) = (e \o s) \o (q \o chain)
  BY <1>2 DEF PendingOf
<1>7. PendingOf(lane) = (e \o s) \o q
  BY DEF PendingOf, e, s, q
<1> QED BY <1>2, <1>4, <1>5, <1>6, <1>7 DEF r, e, s, q

-----------------------------------------------------------------------------
(* The inductive strengthening of FreeMeansDrained: what the lane holds is *)
(* the rest of a chain in which a slow instruction is the last, and as     *)
(* long as something comes after the executing instruction the fetch stage *)
(* is ahead of it.  When the last one executes, for however long, nothing  *)
(* is left to be fetched.                                                  *)
Behind(lane) == lane.fetch_stack # <<>> \/ lane.instruction_queue # <<>>

Covered(lane) ==
    /\ ExecutesOne(lane)
    /\ SlowIsLast(PendingOf(lane))
    /\ Behind(lane) => FetchAhead(lane)

(* How much a lane holds, and which instruction is the first. *)
LEMMA PendingShape ==
    ASSUME NEW lane \in LaneState
    PROVE  /\ PendingOf(lane) \in Seq(Ids)
           /\ Len(PendingOf(lane)) = Len(lane.exe_stack) + Len(lane.fetch_stack)
                                         + Len(lane.instruction_queue)
           /\ lane.exe_stack = <<>> /\ lane.fetch_stack # <<>> =>
                 PendingOf(lane)[1] = Head(lane.fetch_stack)
<1> DEFINE e == lane.exe_stack
           s == lane.fetch_stack
           q == lane.instruction_queue
<1>1. e \in Seq(Ids) /\ s \in Seq(Ids) /\ q \in Seq(Ids)
  BY DEF LaneState
<1>2. PendingOf(lane) = (e \o s) \o q
  BY DEF PendingOf
<1> HIDE DEF e, s, q
<1>3. e \o s \in Seq(Ids) /\ Len(e \o s) = Len(e) + Len(s)
  BY <1>1, ConcatProperties
<1>4. PendingOf(lane) \in Seq(Ids) /\ Len(PendingOf(lane)) = Len(e) + Len(s) + Len(q)
  BY <1>1, <1>2, <1>3, ConcatProperties
<1>5. ASSUME e = <<>>, s # <<>> PROVE PendingOf(lane)[1] = Head(s)
  <2>1. e \o s = s
    BY <1>1, <1>5, ConcatEmptySeq
  <2>2. s \o q # <<>> /\ Head(s \o q) = Head(s)
    BY <1>1, <1>5, ConcatHeadTail
  <2>3. s \o q \in Seq(Ids)
    BY <1>1, ConcatProperties
  <2>4. Head(s \o q) = (s \o q)[1]
    BY <2>2, <2>3, HeadTailProperties
  <2> QED BY <1>2, <2>1, <2>2, <2>4
<1> QED BY <1>4, <1>5 DEF e, s, q

(* The rest of a chain in which a slow instruction is the last. *)
LEMMA SlowIsLastTail ==
    ASSUME NEW s \in Seq(Ids), s # <<>>, SlowIsLast(s)
    PROVE  SlowIsLast(Tail(s))
<1>1. /\ Len(Tail(s)) = Len(s) - 1 /\ Len(s) \in Nat \ {0}
      /\ \A i \in 1..Len(Tail(s)) : Tail(s)[i] = s[i + 1]
  BY HeadTailProperties, LenProperties
<1> QED BY <1>1 DEF SlowIsLast

(* The length of a queue that is not empty. *)
LEMMA NonEmptyLen ==
    ASSUME NEW s \in Seq(Ids)
    PROVE  Len(s) \in Nat /\ (s # <<>> => Len(s) >= 1)
BY LenProperties, EmptySeq

(* One cycle of a covered lane. *)
LEMMA RunCovered ==
    ASSUME NEW lane \in LaneState, Covered(lane)
    PROVE  Covered(fetch(execute(updateCounter(lane))))
<1> DEFINE u == updateCounter(lane)
           x == execute(u)
           f == fetch(x)
<1>1. u \in LaneState /\ x \in LaneState /\ f \in LaneState
  BY CounterType, ExecuteType, FetchType
<1>2. ExecutesOne(f)
  BY RunExecutesOne DEF Covered
<1>3. SlowIsLast(PendingOf(f))
  <2>1. /\ PendingOf(lane) \in Seq(Ids)
        /\ retires(u) => PendingOf(lane) # <<>> /\ PendingOf(f) = Tail(PendingOf(lane))
        /\ ~retires(u) => PendingOf(f) = PendingOf(lane)
    BY RunPending
  <2> HIDE DEF f, u
  <2> QED BY <2>1, SlowIsLastTail DEF Covered
<1>4. Behind(f) => FetchAhead(f)
  <2> SUFFICES ASSUME Behind(f) PROVE FetchAhead(f)
    OBVIOUS
  <2>1. Behind(lane)
    <3> SUFFICES ASSUME lane.fetch_stack = <<>>, lane.instruction_queue = <<>>
                 PROVE  FALSE
      BY DEF Behind
    <3>1. u.fetch_stack = <<>> /\ u.instruction_queue = <<>>
      BY CounterFields, Zenon
    <3>2. ~issues(u)
      BY <3>1 DEF issues
    <3>3. x.fetch_stack = <<>> /\ x.instruction_queue = <<>>
      BY <1>1, <3>1, <3>2, ExecuteFields, Zenon
    <3>4. f = x
      BY <3>3 DEF fetch
    <3> QED BY <3>3, <3>4 DEF Behind
  <2>2. ASSUME issues(u) PROVE exeDelay(Head(u.fetch_stack)) \in 1..(FetchCycles - 1)
    <3>1. u.exe_stack = <<>> /\ u.fetch_stack # <<>> /\ ~retires(u)
      BY <2>2 DEF issues, retires
    <3>2. lane.exe_stack = <<>> /\ lane.fetch_stack = u.fetch_stack
      BY <3>1, CounterFields, Zenon
    <3>3. PendingOf(lane)[1] = Head(u.fetch_stack)
      BY <3>1, <3>2, PendingShape, Zenon
    <3>4. PendingOf(f) = PendingOf(lane)
      BY <3>1, RunPending
    <3>5. f.exe_stack = x.exe_stack /\ x.exe_stack = Append(u.exe_stack, Head(u.fetch_stack))
      BY <1>1, <2>2, <3>1, FetchFields, ExecuteFields, Zenon
    <3>6. Len(f.exe_stack) = 1
      BY <3>1, <3>5
    <3>7. f.fetch_stack \in Seq(Ids) /\ f.instruction_queue \in Seq(Ids)
      BY <1>1 DEF LaneState
    <3> HIDE DEF f, x, u
    <3>8. /\ Len(f.fetch_stack) \in Nat /\ Len(f.instruction_queue) \in Nat
          /\ Len(f.fetch_stack) >= 1 \/ Len(f.instruction_queue) >= 1
      BY <3>7, NonEmptyLen, Zenon DEF Behind
    <3>9. Len(PendingOf(f)) = Len(f.exe_stack) + Len(f.fetch_stack) + Len(f.instruction_queue)
      BY <1>1, PendingShape
    <3>10. Len(PendingOf(f)) >= 2
      <4> DEFINE m == Len(f.fetch_stack)
                 k == Len(f.instruction_queue)
      <4>1. m \in Nat /\ k \in Nat /\ (m >= 1 \/ k >= 1) /\ Len(PendingOf(f)) = 1 + m + k
        BY <3>6, <3>8, <3>9
      <4> HIDE DEF m, k
      <4> QED BY <4>1
    <3>11. Len(PendingOf(lane)) \in Nat
      BY PendingShape, LenProperties
    <3>12. 1 \in 1..(Len(PendingOf(lane)) - 1)
      BY <3>4, <3>10, <3>11
    <3> QED BY <3>3, <3>12 DEF Covered, SlowIsLast
  <2>3. FetchAhead(lane)
    BY <2>1 DEF Covered
  <2> QED BY <2>2, <2>3, RunFetchAhead
<1>5. Covered(f)
  <2> HIDE DEF f
  <2> QED BY <1>2, <1>3, <1>4 DEF Covered
<1> QED BY <1>5

(* Waking a lane touches its execution counter only; the lane was stalled, *)
(* so nothing comes after the instruction it waited for.                   *)
LEMMA WakeCovered ==
    ASSUME NEW lane \in LaneState, Covered(lane), lane.exe_cnt = -1
    PROVE  Covered([lane EXCEPT !.exe_cnt = 0])
<1> DEFINE r == [lane EXCEPT !.exe_cnt = 0]
<1>1. /\ r.exe_stack = lane.exe_stack /\ r.fetch_stack = lane.fetch_stack
      /\ r.instruction_queue = lane.instruction_queue /\ r.exe_cnt = 0
  BY DEF LaneState
<1> HIDE DEF r
<1>2. PendingOf(r) = PendingOf(lane)
  BY <1>1 DEF PendingOf
<1>3. ExecutesOne(r)
  BY <1>1 DEF Covered, ExecutesOne
<1>4. ~Behind(lane)
  BY DEF Covered, FetchAhead, FetchCycles
<1>5. ~Behind(r)
  BY <1>1, <1>4 DEF Behind
<1>6. Covered(r)
  BY <1>2, <1>3, <1>5 DEF Covered
<1> QED BY <1>6 DEF r

(* A lane that has nothing to do. *)
LEMMA EmptyCovered ==
    ASSUME NEW lane, lane.exe_stack = <<>>, lane.fetch_stack = <<>>,
           lane.instruction_queue = <<>>, lane.exe_cnt = 0
    PROVE  Covered(lane)
<1>1. PendingOf(lane) = <<>>
  <2>1. <<>> \o <<>> = <<>>
    OBVIOUS
  <2> QED BY <2>1 DEF PendingOf
<1>2. SlowIsLast(PendingOf(lane))
  BY <1>1 DEF SlowIsLast
<1> QED BY <1>2 DEF Covered, ExecutesOne, Behind

(* is_free() tells the truth about a covered lane. *)
LEMMA FreeCovered ==
    ASSUME NEW lane \in LaneState, Covered(lane), is_free(lane)
    PROVE  PendingOf(lane) = <<>>
<1>1. /\ lane.exe_stack = <<>> /\ lane.instruction_queue = <<>>
      /\ lane.fetch_cnt = 0 /\ lane.exe_cnt = 0
  BY DEF is_free
<1>2. lane.fetch_stack = <<>>
  BY <1>1 DEF Covered, Behind, FetchAhead
<1>3. <<>> \o <<>> = <<>>
  OBVIOUS
<1> QED BY <1>1, <1>2, <1>3 DEF PendingOf

(* Loading a free lane with a chain in which a slow instruction is last.   *)
LEMMA LoadCovered ==
    ASSUME NEW lane \in LaneState, Covered(lane), is_free(lane),
           NEW chain \in Seq(Ids), SlowIsLast(chain)
    PROVE  Covered([lane EXCEPT !.instruction_queue = @ \o chain])
<1> DEFINE r == [lane EXCEPT !.instruction_queue = @ \o chain]
<1>1. /\ r.exe_stack = lane.exe_stack /\ r.exe_cnt = lane.exe_cnt
      /\ r.fetch_stack = lane.fetch_stack /\ r.fetch_cnt = lane.fetch_cnt
      /\ PendingOf(r) = PendingOf(lane) \o chain
  BY LoadPending
<1> HIDE DEF r
<1>2. PendingOf(r) = chain
  BY <1>1, FreeCovered, ConcatEmptySeq
<1>3. /\ lane.exe_stack = <<>> /\ lane.exe_cnt = 0 /\ lane.fetch_cnt = 0
      /\ lane.instruction_queue = <<>>
  BY DEF is_free
<1>4. lane.fetch_stack = <<>>
  BY <1>3 DEF Covered, Behind, FetchAhead
<1>5. ExecutesOne(r) /\ FetchAhead(r)
  BY <1>1, <1>3, <1>4 DEF ExecutesOne, FetchAhead, FetchCycles
<1>6. Covered(r)
  BY <1>2, <1>5 DEF Covered
<1> QED BY <1>6 DEF r

=============================================================================
