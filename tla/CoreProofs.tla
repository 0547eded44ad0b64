----------------------------- MODULE CoreProofs -----------------------------
(***************************************************************************)
(* Proofs about the core, for any number of lanes, any chains, any trace   *)
(* and both schedulers.                                                    *)
(***************************************************************************)
EXTENDS CoreProperties, LaneProofs, MemoryProofs

N == Cardinality(Chains)

(* How many chains are assigned before chain c. *)
Rank(c) == Cardinality({d \in Chains : Before(d, c)})

(* The chains that have been assigned to a lane and not been loaded. *)
Assigned == IF phase = "presched" THEN {c \in Chains : Rank(c) < cursor - 1}
            ELSE input_chain

(* The cursor is a chain's place in the order, a lane, or not in use. *)
CursorInPhase ==
    /\ phase = "presched" => cursor \in 1..N /\ input_chain = Chains
    /\ phase \in {"lanes", "sched"} => cursor \in Lanes
    /\ phase \notin {"presched", "lanes", "sched"} => cursor = 0
    /\ phase = "host" => input_chain = {}
    /\ chunks = 0 => phase = "host"

(* The lanes' buffers hold the assigned chains, each once. *)
BuffersHoldAssigned ==
    /\ \A l \in Lanes : Distinct(lane_pre_schedule[l])
    /\ \A c \in Chains : \A l, m \in Lanes :
          c \in Buffered(l) /\ c \in Buffered(m) => l = m
    /\ \A c \in Chains : c \in Assigned <=> \E l \in Lanes : c \in Buffered(l)

SizesCounted ==
    \A l \in Lanes : lane_pre_schedule_size[l] = Cardinality(Slots(Buffered(l)))

(* Chain c waits for lane l or was last loaded into it. *)
Home(c, l) == chaintoLane[c] = l \/ c \in Buffered(l)

(* The instructions of lane l that were assigned before chain c, and the   *)
(* lane the scheduler gives c.                                             *)
LoadBefore(c, l) == Cardinality(Slots({d \in Chains : Before(d, c) /\ Home(d, l)}))

Pick(c) ==
    IF SCHEDULER = 1 THEN block_lane(c)
    ELSE First({l \in Lanes : \A m \in Lanes : LoadBefore(c, l) <= LoadBefore(c, m)})

(* Every chunk assigns a chain to the lane it went to before. *)
SameHome ==
    /\ \A c \in Chains : \A l \in Lanes : Home(c, l) => l = Pick(c)
    /\ chunks = 0 \/ (chunks = 1 /\ phase = "presched") =>
          \A c \in Chains : chaintoLane[c] = None
    /\ chunks >= 2 => \A c \in Chains : chaintoLane[c] # None
    /\ chunks = 1 /\ phase # "presched" =>
          \A c \in Chains : chaintoLane[c] # None \/ c \in Assigned

ScheduleTypes ==
    /\ phase \in Phases /\ chunks \in 0..MaxChunks
    /\ input_chain \in SUBSET Chains
    /\ lane_pre_schedule \in [Lanes -> Seq(Chains)]
    /\ lane_pre_schedule_size \in [Lanes -> Nat]
    /\ chaintoLane \in [Chains -> Lanes \cup {None}]

SInv ==
    /\ ScheduleTypes
    /\ CursorInPhase
    /\ BuffersHoldAssigned
    /\ SizesCounted
    /\ SameHome

-----------------------------------------------------------------------------
(* The order in which chains are assigned.                                 *)

(* The assumptions on the constants, in the form the proofs use. *)
LEMMA ConstantFacts ==
    /\ num_lanes \in Nat \ {0} /\ Lanes = 0..(num_lanes - 1) /\ Lanes \in SUBSET Nat
    /\ N \in Nat \ {0} /\ IsFiniteSet(Chains) /\ Chains = 0..(N - 1) /\ Chains \in SUBSET Nat
    /\ \A c \in Chains : instruction_list[c] \in Seq(Ids) /\ instruction_list[c] # <<>>
    /\ \A c \in Chains : level[c] \in Nat /\ block[c] \in Nat
    /\ SCHEDULER \in {0, 1} /\ MaxChunks \in Nat
    /\ None \notin Lanes
<1>1. N \in Nat
  BY CoreAssumption, FS_CardinalityType DEF N
<1>2. N # 0
  BY CoreAssumption, FS_EmptySet DEF N
<1> QED BY <1>1, <1>2, CoreAssumption DEF N, None

(* The order of the chains is a strict total order. *)
LEMMA BeforeOrder ==
    /\ \A c \in Chains : ~Before(c, c)
    /\ \A c, d \in Chains : Before(c, d) \/ Before(d, c) \/ c = d
    /\ \A c, d \in Chains : ~(Before(c, d) /\ Before(d, c))
    /\ \A c, d, e \in Chains : Before(c, d) /\ Before(d, e) => Before(c, e)
<1> DEFINE key == IF SCHEDULER = 1 THEN block ELSE level
<1>1. \A c \in Chains : c \in Nat /\ key[c] \in Nat
  BY ConstantFacts
<1>2. \A c, d \in Chains : Before(c, d) <=> key[c] < key[d] \/ (key[c] = key[d] /\ c < d)
  BY DEF Before
<1> HIDE DEF key
<1> QED BY <1>1, <1>2

(* The ranks follow that order, and no two chains have the same. *)
LEMMA RankOrder ==
    /\ \A c \in Chains : Rank(c) \in 0..(N - 1)
    /\ \A c, d \in Chains : Before(c, d) <=> Rank(c) < Rank(d)
    /\ \A c, d \in Chains : Rank(c) = Rank(d) => c = d
<1> DEFINE Pre(c) == {d \in Chains : Before(d, c)}
<1>1. \A c \in Chains : IsFiniteSet(Pre(c)) /\ Rank(c) \in Nat /\ Rank(c) <= N
  <2>1. \A c \in Chains : Pre(c) \in SUBSET Chains
    OBVIOUS
  <2>2. \A c \in Chains : IsFiniteSet(Pre(c)) /\ Cardinality(Pre(c)) <= N
    BY <2>1, ConstantFacts, FS_Subset DEF N
  <2>3. \A c \in Chains : Cardinality(Pre(c)) \in Nat
    BY <2>2, FS_CardinalityType
  <2> QED BY <2>2, <2>3 DEF Rank
<1>2. ASSUME NEW c \in Chains, NEW d \in Chains, Before(c, d) PROVE Rank(c) < Rank(d)
  <2>1. Pre(c) \in SUBSET Pre(d) /\ c \in Pre(d) /\ c \notin Pre(c)
    BY <1>2, BeforeOrder
  <2>2. Cardinality(Pre(c)) <= Cardinality(Pre(d))
        /\ (Cardinality(Pre(d)) = Cardinality(Pre(c)) => Pre(d) = Pre(c))
    BY <1>1, <2>1, FS_Subset
  <2>3. Cardinality(Pre(c)) # Cardinality(Pre(d))
    BY <2>1, <2>2
  <2>4. Rank(c) = Cardinality(Pre(c)) /\ Rank(d) = Cardinality(Pre(d))
    BY DEF Rank
  <2> QED BY <1>1, <2>2, <2>3, <2>4
<1>3. \A c, d \in Chains : Rank(c) = Rank(d) => c = d
  <2> HIDE DEF Pre
  <2> QED BY <1>1, <1>2, BeforeOrder
<1>4. \A c, d \in Chains : Rank(c) < Rank(d) => Before(c, d)
  <2> HIDE DEF Pre
  <2> QED BY <1>1, <1>2, BeforeOrder
<1>5. ASSUME NEW c \in Chains PROVE Rank(c) < N
  <2>1. Pre(c) \in SUBSET Chains /\ c \notin Pre(c)
    BY BeforeOrder
  <2>2. N = Cardinality(Pre(c)) => Chains = Pre(c)
    BY <2>1, ConstantFacts, FS_Subset DEF N
  <2>3. Rank(c) = Cardinality(Pre(c))
    BY DEF Rank
  <2>4. Rank(c) # N
    BY <2>1, <2>2, <2>3
  <2>5. Rank(c) \in Nat /\ Rank(c) <= N /\ N \in Nat
    BY <1>1, ConstantFacts
  <2> QED BY <2>4, <2>5
<1> HIDE DEF Pre
<1>6. \A c \in Chains : Rank(c) \in 0..(N - 1)
  BY <1>1, <1>5, ConstantFacts
<1> QED BY <1>2, <1>3, <1>4, <1>6

(* stack_sche_chain lists every chain, in that order. *)
LEMMA StackOrder ==
    \A k \in 1..N : stack_sche_chain[k] \in Chains /\ Rank(stack_sche_chain[k]) = k - 1
<1> DEFINE f == [c \in Chains |-> Rank(c)]
<1>1. f \in Injection(Chains, 0..(N - 1))
  BY RankOrder DEF Injection, IsInjective
<1>2. IsFiniteSet(0..(N - 1)) /\ Cardinality(0..(N - 1)) = N
  BY ConstantFacts, FS_Interval
<1>3. f \in Surjection(Chains, 0..(N - 1))
  BY <1>1, <1>2, FS_Injection DEF N
<1>4. \A k \in 0..(N - 1) : \E c \in Chains : f[c] = k
  BY <1>3 DEF Surjection
<1>5. \A k \in 1..N : \E c \in Chains : Rank(c) = k - 1
  <2>1. \A k \in 1..N : k - 1 \in 0..(N - 1)
    BY ConstantFacts
  <2> QED BY <1>4, <2>1
<1>6. \A k \in 1..N : stack_sche_chain[k] = CHOOSE c \in Chains : Rank(c) = k - 1
  BY DEF stack_sche_chain, Rank, N
<1> QED BY <1>5, <1>6

-----------------------------------------------------------------------------
(* The instructions of a set of chains.                                    *)

(* A chain has as many slots as instructions. *)
LEMMA SlotsOfOne ==
    ASSUME NEW c \in Chains
    PROVE  /\ IsFiniteSet(Slots({c}))
           /\ Cardinality(Slots({c})) = Len(instruction_list[c])
<1> DEFINE n == Len(instruction_list[c])
           f == [i \in 1..n |-> <<c, i>>]
<1>1. n \in Nat /\ DOMAIN instruction_list[c] = 1..n
  BY ConstantFacts, LenProperties
<1>2. Slots({c}) = {c} \X (1..n)
  BY <1>1 DEF Slots
<1>3. f \in Bijection(1..n, {c} \X (1..n))
  <2> HIDE DEF n
  <2>1. f \in [1..n -> {c} \X (1..n)]
    OBVIOUS
  <2>2. \A i, j \in 1..n : f[i] = f[j] => i = j
    OBVIOUS
  <2>3. \A s \in {c} \X (1..n) : \E i \in 1..n : f[i] = s
    OBVIOUS
  <2> QED BY <2>1, <2>2, <2>3 DEF Bijection, Injection, Surjection, IsInjective
<1>4. IsFiniteSet(1..n) /\ Cardinality(1..n) = n
  BY <1>1, FS_Interval
<1> HIDE DEF f
<1>5. IsFiniteSet({c} \X (1..n)) /\ Cardinality({c} \X (1..n)) = n
  BY <1>3, <1>4, FS_Bijection DEF ExistsBijection
<1> QED BY <1>2, <1>5

(* The slots of chains are finitely many. *)
LEMMA SlotsFinite ==
    ASSUME NEW S \in SUBSET Chains
    PROVE  IsFiniteSet(Slots(S)) /\ Cardinality(Slots(S)) \in Nat
<1> DEFINE F == {{c} \X DOMAIN instruction_list[c] : c \in S}
           f == [c \in S |-> {c} \X DOMAIN instruction_list[c]]
<1>1. IsFiniteSet(S)
  BY ConstantFacts, FS_Subset
<1>2. f \in Surjection(S, F)
  BY DEF Surjection
<1>3. IsFiniteSet(F)
  BY <1>1, <1>2, FS_Surjection
<1>4. \A T \in F : IsFiniteSet(T)
  <2>1. SUFFICES ASSUME NEW c \in S PROVE IsFiniteSet({c} \X DOMAIN instruction_list[c])
    OBVIOUS
  <2>2. Slots({c}) = {c} \X DOMAIN instruction_list[c]
    BY DEF Slots
  <2> QED BY <2>2, SlotsOfOne
<1>5. IsFiniteSet(UNION F)
  <2> HIDE DEF F
  <2> QED BY <1>3, <1>4, FS_UNION
<1> QED BY <1>5, FS_CardinalityType DEF Slots

(* A chain that joins a set adds its instructions. *)
LEMMA SlotsAdd ==
    ASSUME NEW S \in SUBSET Chains, NEW c \in Chains, c \notin S
    PROVE  Cardinality(Slots(S \cup {c})) = Cardinality(Slots(S)) + Len(instruction_list[c])
<1>1. Slots(S \cup {c}) = Slots(S) \cup Slots({c})
  BY DEF Slots
<1>2. Slots(S) \cap Slots({c}) = {}
  BY DEF Slots
<1>3. Cardinality(Slots(S) \cap Slots({c})) = 0
  BY <1>2, FS_EmptySet
<1>4. /\ IsFiniteSet(Slots(S)) /\ Cardinality(Slots(S)) \in Nat
      /\ IsFiniteSet(Slots({c})) /\ Cardinality(Slots({c})) = Len(instruction_list[c])
      /\ Len(instruction_list[c]) \in Nat
  BY SlotsFinite, SlotsOfOne, ConstantFacts, LenProperties
<1>5. Cardinality(Slots(S) \cup Slots({c})) =
        Cardinality(Slots(S)) + Cardinality(Slots({c})) - Cardinality(Slots(S) \cap Slots({c}))
  BY <1>4, FS_Union
<1>6. Cardinality(Slots(S) \cup Slots({c})) = Cardinality(Slots(S)) + Len(instruction_list[c])
  BY <1>3, <1>4, <1>5
<1> QED BY <1>1, <1>6

-----------------------------------------------------------------------------
(* A chain's lane does not depend on chains assigned after it. *)
LEMMA PickStable ==
    ASSUME NEW c \in Chains,
           \A d \in Chains : Before(d, c) => \A l \in Lanes : Home(d, l)' <=> Home(d, l)
    PROVE  Pick(c)' = Pick(c)
<1>1. ASSUME NEW l \in Lanes PROVE LoadBefore(c, l)' = LoadBefore(c, l)
  <2>1. {d \in Chains : Before(d, c) /\ Home(d, l)'} = {d \in Chains : Before(d, c) /\ Home(d, l)}
    OBVIOUS
  <2> QED BY <2>1 DEF LoadBefore
<1>2. {l \in Lanes : \A m \in Lanes : LoadBefore(c, l)' <= LoadBefore(c, m)'}
        = {l \in Lanes : \A m \in Lanes : LoadBefore(c, l) <= LoadBefore(c, m)}
  BY <1>1
<1> QED BY <1>2 DEF Pick

(* There is always a lane with the fewest instructions. *)
LEMMA MinimumLane ==
    ASSUME NEW f \in [Lanes -> Nat]
    PROVE  {l \in Lanes : \A m \in Lanes : f[l] <= f[m]} # {}
<1> DEFINE S == {f[l] : l \in Lanes}
<1>1. S \in SUBSET Nat /\ S # {}
  <2>1. 0 \in Lanes
    BY ConstantFacts
  <2> QED BY <2>1
<1>2. PICK x \in S : \A y \in S : x <= y
  BY <1>1, LeastNat
<1>3. PICK l \in Lanes : f[l] = x
  OBVIOUS
<1>4. \A m \in Lanes : f[l] <= f[m]
  BY <1>2, <1>3
<1> QED BY <1>4

(* Core's constructor leaves the buffers empty and no chain assigned. *)
LEMMA InitSchedule == Init => SInv
<1> SUFFICES ASSUME Init PROVE SInv
  OBVIOUS
<1> USE DEF Init
<1>1. \A l \in Lanes : lane_pre_schedule[l] = <<>> /\ Buffered(l) = {}
  BY DEF Buffered
<1>2. ScheduleTypes
  BY ConstantFacts, EmptySeq DEF ScheduleTypes, Phases
<1>3. CursorInPhase
  BY DEF CursorInPhase
<1>4. BuffersHoldAssigned
  BY <1>1 DEF BuffersHoldAssigned, Assigned, Distinct
<1>5. Slots({}) = {}
  BY DEF Slots
<1>6. SizesCounted
  BY <1>1, <1>5, FS_EmptySet DEF SizesCounted
<1>7. SameHome
  BY <1>1, ConstantFacts DEF SameHome, Home
<1> QED BY <1>2, <1>3, <1>4, <1>6, <1>7 DEF SInv

(* Core::preschedule and Core::block_preschedule give every chain the lane *)
(* it had in the chunk before.                                             *)
LEMMA PrescheduleStep ==
    ASSUME SInv, Preschedule
    PROVE  SInv'
<1>1. PICK k \in 1..N : k = cursor /\ phase = "presched"
  BY DEF SInv, CursorInPhase, Preschedule
<1>2. PICK c \in Chains : c = stack_sche_chain[k] /\ Rank(c) = k - 1
  BY StackOrder
<1>3. \A d \in Chains : d \in Assigned <=> Before(d, c)
  BY <1>1, <1>2, RankOrder DEF Assigned
<1>4. \A m \in Lanes : Buffered(m) \in SUBSET Chains
                       /\ lane_pre_schedule[m] \in Seq(Chains)
                       /\ Buffered(m) = Elements(lane_pre_schedule[m])
  <2>1. \A m \in Lanes : lane_pre_schedule[m] \in Seq(Chains)
    BY DEF SInv, ScheduleTypes
  <2> QED BY <2>1, ElementOfSeq, LenProperties DEF Buffered, Elements
<1>5. \A m \in Lanes : Buffered(m) = {d \in Chains : Before(d, c) /\ Home(d, m)}
  <2>1. ASSUME NEW m \in Lanes, NEW d \in Chains PROVE d \in Buffered(m) <=> Before(d, c) /\ Home(d, m)
    <3>1. ASSUME d \in Buffered(m) PROVE Before(d, c) /\ Home(d, m)
      BY <1>3, <3>1 DEF SInv, BuffersHoldAssigned, Home
    <3>2. ASSUME Before(d, c), Home(d, m) PROVE d \in Buffered(m)
      <4>1. PICK q \in Lanes : d \in Buffered(q)
        BY <1>3, <3>2 DEF SInv, BuffersHoldAssigned
      <4>2. q = m
        BY <3>2, <4>1 DEF SInv, SameHome, Home
      <4> QED BY <4>1, <4>2
    <3> QED BY <3>1, <3>2
  <2> QED BY <1>4, <2>1
<1>6. PICK l \in Lanes : /\ l = IF SCHEDULER = 1 THEN block_lane(c) ELSE findMinimum
                         /\ l = Pick(c)
  <2>1. CASE SCHEDULER = 1
    <3>1. block_lane(c) \in Lanes
      BY ConstantFacts DEF block_lane
    <3> QED BY <2>1, <3>1 DEF Pick
  <2>2. CASE SCHEDULER # 1
    <3>1. \A m \in Lanes : lane_pre_schedule_size[m] = LoadBefore(c, m)
      BY <1>5 DEF LoadBefore, SInv, SizesCounted
    <3>2. {m \in Lanes : \A q \in Lanes : lane_pre_schedule_size[m] <= lane_pre_schedule_size[q]}
            = {m \in Lanes : \A q \in Lanes : LoadBefore(c, m) <= LoadBefore(c, q)}
      BY <3>1
    <3>3. findMinimum = Pick(c)
      BY <2>2, <3>2 DEF Pick, findMinimum
    <3>4. findMinimum \in Lanes
      <4> DEFINE S == {m \in Lanes : \A q \in Lanes :
                         lane_pre_schedule_size[m] <= lane_pre_schedule_size[q]}
      <4>1. S # {}
        BY MinimumLane DEF SInv, ScheduleTypes
      <4>2. S \in SUBSET Nat
        BY ConstantFacts
      <4>3. First(S) \in S
        BY <4>1, <4>2, FirstIsLeast
      <4> QED BY <4>3 DEF findMinimum
    <3> QED BY <2>2, <3>3, <3>4
  <2> QED BY <2>1, <2>2
<1>7. /\ lane_pre_schedule' = [lane_pre_schedule EXCEPT ![l] = Append(@, c)]
      /\ lane_pre_schedule_size' =
            [lane_pre_schedule_size EXCEPT ![l] = @ + Len(instruction_list[c])]
      /\ UNCHANGED <<input_chain, chaintoLane, chunks>>
      /\ Loop(N, "lanes")
  BY <1>1, <1>2, <1>6 DEF Preschedule, N
<1>8. c \notin Buffered(l)
  BY <1>4, <1>5, BeforeOrder
<1>9. /\ lane_pre_schedule'[l] \in Seq(Chains)
      /\ Buffered(l)' = Buffered(l) \cup {c}
      /\ Distinct(lane_pre_schedule'[l])
  <2>1. lane_pre_schedule'[l] = Append(lane_pre_schedule[l], c)
    BY <1>7 DEF SInv, ScheduleTypes
  <2>2. lane_pre_schedule[l] \in Seq(Chains) /\ Distinct(lane_pre_schedule[l])
    BY <1>4 DEF SInv, BuffersHoldAssigned
  <2>3. /\ Append(lane_pre_schedule[l], c) \in Seq(Chains)
        /\ Elements(Append(lane_pre_schedule[l], c)) = Elements(lane_pre_schedule[l]) \cup {c}
        /\ Distinct(Append(lane_pre_schedule[l], c))
    BY <1>4, <1>8, <2>2, PushDistinct
  <2> QED BY <1>4, <2>1, <2>3 DEF Buffered, Elements
<1>10. \A m \in Lanes \ {l} : /\ lane_pre_schedule'[m] = lane_pre_schedule[m]
                              /\ Buffered(m)' = Buffered(m)
  BY <1>7 DEF SInv, ScheduleTypes, Buffered
<1>11. /\ Assigned' = Assigned \cup {c}
       /\ phase' \in {"presched", "lanes"}
       /\ phase' = "presched" => cursor' = k + 1 /\ cursor' \in 1..N
       /\ phase' = "lanes" => cursor' = 0
  <2>1. input_chain = Chains
    BY <1>1 DEF SInv, CursorInPhase
  <2>2. CASE k < N
    <3>1. phase' = "presched" /\ cursor' = k + 1
      BY <1>1, <1>7, <2>2 DEF Loop
    <3>2. Assigned' = {d \in Chains : Rank(d) < k}
      BY <3>1, ConstantFacts DEF Assigned
    <3>3. \A d \in Chains : Rank(d) < k <=> Rank(d) < k - 1 \/ d = c
      BY <1>2, RankOrder
    <3> QED BY <1>1, <2>2, <3>1, <3>2, <3>3, ConstantFacts DEF Assigned
  <2>3. CASE ~(k < N)
    <3>1. phase' = "lanes" /\ cursor' = 0
      BY <1>1, <1>7, <2>3 DEF Loop
    <3>2. Assigned' = Chains
      BY <1>7, <2>1, <3>1 DEF Assigned
    <3>3. \A d \in Chains : Rank(d) < k - 1 \/ d = c
      BY <1>2, <2>3, RankOrder, ConstantFacts
    <3> QED BY <1>1, <3>1, <3>2, <3>3 DEF Assigned
  <2> QED BY <2>2, <2>3
<1>12. ScheduleTypes'
  <2>1. Len(instruction_list[c]) \in Nat
    BY ConstantFacts, LenProperties
  <2> QED BY <1>7, <1>9, <1>11, <2>1 DEF SInv, ScheduleTypes, Phases
<1>13. CursorInPhase'
  BY <1>1, <1>7, <1>11, ConstantFacts DEF SInv, CursorInPhase
<1>14. BuffersHoldAssigned'
  <2>1. \A m \in Lanes : Distinct(lane_pre_schedule[m])'
    BY <1>9, <1>10 DEF SInv, BuffersHoldAssigned
  <2>2. \A m \in Lanes : c \notin Buffered(m)
    BY <1>5, BeforeOrder
  <2>3. \A d \in Chains : \A m, q \in Lanes :
          d \in Buffered(m)' /\ d \in Buffered(q)' => m = q
    BY <1>9, <1>10, <2>2 DEF SInv, BuffersHoldAssigned
  <2>4. \A d \in Chains : d \in Assigned' <=> \E m \in Lanes : d \in Buffered(m)'
    BY <1>9, <1>10, <1>11 DEF SInv, BuffersHoldAssigned
  <2> QED BY <2>1, <2>3, <2>4 DEF BuffersHoldAssigned
<1>15. SizesCounted'
  <2>1. Cardinality(Slots(Buffered(l) \cup {c})) =
          Cardinality(Slots(Buffered(l))) + Len(instruction_list[c])
    BY <1>4, <1>8, SlotsAdd
  <2>2. lane_pre_schedule_size'[l] = Cardinality(Slots(Buffered(l)'))
    BY <1>7, <1>9, <2>1 DEF SInv, ScheduleTypes, SizesCounted
  <2>3. \A m \in Lanes \ {l} : lane_pre_schedule_size'[m] = Cardinality(Slots(Buffered(m)'))
    BY <1>7, <1>10 DEF SInv, ScheduleTypes, SizesCounted
  <2>4. \A m \in Lanes : lane_pre_schedule_size'[m] = Cardinality(Slots(Buffered(m)'))
    BY <2>2, <2>3
  <2> QED BY <2>4 DEF SizesCounted, Slots
<1>16. SameHome'
  <2>1. \A d \in Chains : \A m \in Lanes : Home(d, m)' <=> Home(d, m) \/ (d = c /\ m = l)
    BY <1>7, <1>9, <1>10 DEF Home
  <2>2. ASSUME NEW d \in Chains, NEW m \in Lanes, Home(d, m)'
        PROVE  m = Pick(d)'
    <3>1. \A e \in Chains : Before(e, d) => \A q \in Lanes : Home(e, q)' <=> Home(e, q)
      <4>1. CASE chunks >= 2
        <5>1. PICK q \in Lanes : chaintoLane[c] = q
          BY <4>1 DEF SInv, SameHome, ScheduleTypes
        <5>2. q = l
          BY <1>6, <5>1 DEF SInv, SameHome, Home
        <5>3. Home(c, l)
          BY <5>1, <5>2 DEF Home
        <5> QED BY <2>1, <5>3
      <4>2. CASE ~(chunks >= 2)
        <5>1. chunks = 1
          BY <1>1, <4>2 DEF SInv, ScheduleTypes, CursorInPhase
        <5>2. chaintoLane[d] = None
          BY <1>1, <5>1 DEF SInv, SameHome
        <5>3. d = c \/ d \in Buffered(m)
          BY <2>1, <2>2, <5>2, ConstantFacts DEF Home
        <5>4. d = c \/ Before(d, c)
          BY <1>5, <5>3
        <5>5. ~Before(c, d)
          BY <5>4, BeforeOrder
        <5> QED BY <2>1, <5>5
      <4> QED BY <4>1, <4>2
    <3>2. Pick(d)' = Pick(d)
      BY <3>1, PickStable
    <3> QED BY <1>6, <2>1, <2>2, <3>2 DEF SInv, SameHome
  <2>3. phase' = "presched" \/ \A d \in Chains : d \in Assigned'
    BY <1>7, <1>11 DEF SInv, CursorInPhase, Assigned, Preschedule
  <2> QED BY <1>1, <1>7, <1>11, <2>2, <2>3 DEF SInv, SameHome
<1> QED BY <1>12, <1>13, <1>14, <1>15, <1>16 DEF SInv

(* A chunk begins with no chain assigned. *)
LEMMA BeginChunkStep ==
    ASSUME SInv, BeginChunk
    PROVE  SInv'
<1>1. /\ phase = "host" /\ phase' = "presched" /\ cursor' = 1
      /\ chunks < MaxChunks /\ chunks' = chunks + 1
      /\ input_chain' = input_chain \cup Chains
      /\ UNCHANGED <<lane_pre_schedule, lane_pre_schedule_size, chaintoLane>>
  BY DEF BeginChunk
<1>2. input_chain = {} /\ Assigned = {}
  BY <1>1 DEF SInv, CursorInPhase, Assigned
<1>3. Assigned' = {}
  <2>1. \A c \in Chains : ~(Rank(c) < 0)
    BY RankOrder, ConstantFacts
  <2> QED BY <1>1, <2>1 DEF Assigned
<1>4. /\ \A l \in Lanes : Buffered(l)' = Buffered(l)
      /\ \A c \in Chains : \A l \in Lanes : Home(c, l)' <=> Home(c, l)
  BY <1>1 DEF Buffered, Home
<1>5. \A c \in Chains : Pick(c)' = Pick(c)
  BY <1>4, PickStable
<1>6. ScheduleTypes'
  BY <1>1, ConstantFacts DEF SInv, ScheduleTypes, Phases
<1>7. CursorInPhase'
  BY <1>1, <1>2, ConstantFacts DEF SInv, ScheduleTypes, CursorInPhase
<1>8. BuffersHoldAssigned'
  BY <1>1, <1>2, <1>3, <1>4 DEF SInv, BuffersHoldAssigned
<1>9. SizesCounted'
  BY <1>1, <1>4 DEF SInv, SizesCounted, Slots
<1>10. SameHome'
  <2>1. chunks # 0 => \A c \in Chains : chaintoLane[c] # None
    BY <1>1, <1>2 DEF SInv, SameHome, ScheduleTypes
  <2> QED BY <1>1, <1>4, <1>5, <2>1 DEF SInv, SameHome, ScheduleTypes
<1> QED BY <1>6, <1>7, <1>8, <1>9, <1>10 DEF SInv

(* Core::ooo_scheduler loads a chain into its lane: it leaves the buffer   *)
(* of that lane and keeps its home.                                        *)
LEMMA ScheduleStep ==
    ASSUME SInv, Schedule
    PROVE  SInv'
<1>1. PICK l \in Lanes : l = cursor /\ phase = "sched"
  BY DEF SInv, CursorInPhase, Schedule
<1>2. /\ chunks' = chunks /\ Loop(num_lanes - 1, "finish")
      /\ phase' \in {"sched", "finish"}
      /\ phase' = "sched" => cursor' \in Lanes
      /\ phase' = "finish" => cursor' = 0
  BY <1>1, ConstantFacts DEF Schedule, Loop
<1>3. chunks # 0
  BY <1>1 DEF SInv, CursorInPhase
<1>4. CursorInPhase'
  BY <1>2, <1>3 DEF CursorInPhase
<1>5. CASE ~(is_free(m_lanes[l]) /\ ReadyChains(l) # {})
  <2>1. UNCHANGED <<input_chain, lane_pre_schedule, lane_pre_schedule_size, chaintoLane>>
    BY <1>1, <1>5 DEF Schedule
  <2>2. Assigned' = Assigned
    BY <1>1, <1>2, <2>1 DEF Assigned
  <2>3. /\ \A m \in Lanes : Buffered(m)' = Buffered(m)
        /\ \A c \in Chains : \A m \in Lanes : Home(c, m)' <=> Home(c, m)
    BY <2>1 DEF Buffered, Home
  <2>4. \A c \in Chains : Pick(c)' = Pick(c)
    BY <2>3, PickStable
  <2>5. ScheduleTypes'
    BY <1>2, <2>1 DEF SInv, ScheduleTypes, Phases
  <2>6. BuffersHoldAssigned'
    BY <2>1, <2>2, <2>3 DEF SInv, BuffersHoldAssigned
  <2>7. SizesCounted'
    BY <2>1, <2>3 DEF SInv, SizesCounted, Slots
  <2>8. SameHome'
    BY <1>1, <1>2, <2>1, <2>2, <2>3, <2>4 DEF SInv, SameHome
  <2> QED BY <1>4, <2>5, <2>6, <2>7, <2>8 DEF SInv
<1>6. CASE is_free(m_lanes[l]) /\ ReadyChains(l) # {}
  <2> DEFINE b == lane_pre_schedule[l]
  <2>1. b \in Seq(Chains) /\ DOMAIN b = 1..Len(b) /\ Len(b) \in Nat
    BY LenProperties DEF SInv, ScheduleTypes
  <2>2. PICK i \in DOMAIN b : i = First(ReadyChains(l))
    <3>1. ReadyChains(l) \in SUBSET DOMAIN b /\ ReadyChains(l) \in SUBSET Nat
      BY <2>1 DEF ReadyChains
    <3> QED BY <1>6, <3>1, FirstIsLeast
  <2>3. PICK c \in Chains : c = b[i]
    BY <2>1, ElementOfSeq
  <2>4. /\ lane_pre_schedule' = [lane_pre_schedule EXCEPT ![l] = KeepAt(@, DOMAIN @ \ {i})]
        /\ lane_pre_schedule_size' = [lane_pre_schedule_size EXCEPT
              ![l] = @ - Len(instruction_list[c])]
        /\ chaintoLane' = [chaintoLane EXCEPT ![c] = l]
        /\ input_chain' = input_chain \ {c}
    BY <1>1, <1>6, <2>2, <2>3 DEF Schedule, EraseFromBuffer
  <2>5. /\ lane_pre_schedule'[l] \in Seq(Chains)
        /\ Distinct(lane_pre_schedule'[l])
        /\ Buffered(l)' = Buffered(l) \ {c}
    <3> DEFINE t == KeepAt(b, DOMAIN b \ {i})
    <3>1. /\ t \in Seq(Chains)
          /\ DOMAIN t = 1..(Len(b) - 1)
          /\ \A k \in DOMAIN t : t[k] = b[Shift(i, k)]
      BY <2>1, KeepAllBut
    <3>2. lane_pre_schedule'[l] = t
      BY <2>4 DEF SInv, ScheduleTypes
    <3>3. \A j, k \in DOMAIN b : b[j] = b[k] => j = k
      BY DEF SInv, BuffersHoldAssigned, Distinct
    <3> HIDE DEF t, b
    <3>4. \A k \in DOMAIN t : Shift(i, k) \in DOMAIN b \ {i}
      BY <2>1, <3>1 DEF Shift
    <3>5. \A j, k \in DOMAIN t : Shift(i, j) = Shift(i, k) => j = k
      BY <2>1, <3>1 DEF Shift
    <3>6. Distinct(t)
      BY <3>1, <3>3, <3>4, <3>5 DEF Distinct
    <3>7. Elements(t) = Elements(b) \ {c}
      <4>1. ASSUME NEW x \in Elements(t) PROVE x \in Elements(b) \ {c}
        <5>1. PICK k \in DOMAIN t : x = t[k]
          BY DEF Elements
        <5> QED BY <2>3, <3>1, <3>3, <3>4, <5>1 DEF Elements
      <4>2. ASSUME NEW x \in Elements(b) \ {c} PROVE x \in Elements(t)
        <5>1. PICK j \in DOMAIN b : x = b[j]
          BY DEF Elements
        <5>2. j # i
          BY <2>3, <5>1
        <5> DEFINE k == IF j < i THEN j ELSE j - 1
        <5>3. k \in DOMAIN t /\ Shift(i, k) = j
          BY <2>1, <3>1, <5>2 DEF Shift
        <5> QED BY <3>1, <5>1, <5>3 DEF Elements
      <4> QED BY <4>1, <4>2
    <3>8. Buffered(l) = Elements(b) /\ Buffered(l)' = Elements(t)
      BY <3>2 DEF Buffered, Elements, b
    <3> QED BY <3>1, <3>2, <3>6, <3>7, <3>8
  <2>6. \A m \in Lanes \ {l} : /\ lane_pre_schedule'[m] = lane_pre_schedule[m]
                               /\ Buffered(m)' = Buffered(m)
    BY <2>4 DEF SInv, ScheduleTypes, Buffered
  <2>7. c \in Buffered(l) /\ Buffered(l) \in SUBSET Chains
    <3>1. \A j \in DOMAIN b : b[j] \in Chains
      BY <2>1, ElementOfSeq
    <3> QED BY <2>3, <3>1 DEF Buffered
  <2> HIDE DEF b
  <2>8. \A m \in Lanes \ {l} : c \notin Buffered(m)
    BY <2>7 DEF SInv, BuffersHoldAssigned
  <2>9. Assigned = input_chain /\ Assigned' = input_chain'
    BY <1>1, <1>2 DEF Assigned
  <2>10. BuffersHoldAssigned'
    <3>1. \A m \in Lanes : Distinct(lane_pre_schedule[m])'
      BY <2>5, <2>6 DEF SInv, BuffersHoldAssigned
    <3>2. \A d \in Chains : \A m, q \in Lanes :
            d \in Buffered(m)' /\ d \in Buffered(q)' => m = q
      BY <2>5, <2>6 DEF SInv, BuffersHoldAssigned
    <3>3. \A d \in Chains : d \in Assigned' <=> \E m \in Lanes : d \in Buffered(m)'
      BY <2>4, <2>5, <2>6, <2>8, <2>9 DEF SInv, BuffersHoldAssigned
    <3> QED BY <3>1, <3>2, <3>3 DEF BuffersHoldAssigned
  <2>11. /\ lane_pre_schedule_size'[l] = Cardinality(Slots(Buffered(l)'))
         /\ lane_pre_schedule_size'[l] \in Nat
    <3>1. (Buffered(l) \ {c}) \cup {c} = Buffered(l)
      BY <2>7
    <3>2. Cardinality(Slots(Buffered(l))) =
            Cardinality(Slots(Buffered(l) \ {c})) + Len(instruction_list[c])
      <4>1. Cardinality(Slots((Buffered(l) \ {c}) \cup {c})) =
              Cardinality(Slots(Buffered(l) \ {c})) + Len(instruction_list[c])
        BY <2>7, SlotsAdd
      <4> QED BY <3>1, <4>1
    <3>3. Cardinality(Slots(Buffered(l) \ {c})) \in Nat /\ Len(instruction_list[c]) \in Nat
      BY <2>7, SlotsFinite, ConstantFacts, LenProperties
    <3>4. lane_pre_schedule_size'[l] = lane_pre_schedule_size[l] - Len(instruction_list[c])
      BY <2>4 DEF SInv, ScheduleTypes
    <3>5. lane_pre_schedule_size[l] = Cardinality(Slots(Buffered(l)))
      BY DEF SInv, SizesCounted
    <3> QED BY <2>5, <3>2, <3>3, <3>4, <3>5
  <2>12. SizesCounted'
    <3>1. \A m \in Lanes \ {l} : lane_pre_schedule_size'[m] = Cardinality(Slots(Buffered(m)'))
      BY <2>4, <2>6 DEF SInv, ScheduleTypes, SizesCounted
    <3>2. \A m \in Lanes : lane_pre_schedule_size'[m] = Cardinality(Slots(Buffered(m)'))
      BY <2>11, <3>1
    <3> QED BY <3>2 DEF SizesCounted, Slots
  <2>13. ScheduleTypes'
    BY <1>2, <2>4, <2>5, <2>6, <2>11 DEF SInv, ScheduleTypes, Phases
  <2>14. \A d \in Chains : \A m \in Lanes : Home(d, m)' <=> Home(d, m)
    <3>1. ASSUME NEW m \in Lanes PROVE Home(c, m)' <=> Home(c, m)
      <4>1. chaintoLane'[c] = l
        BY <2>4 DEF SInv, ScheduleTypes
      <4>2. l = Pick(c)
        BY <2>7 DEF SInv, SameHome, Home
      <4>3. Home(c, m) <=> m = l
        BY <2>7, <4>2 DEF SInv, SameHome, Home
      <4>4. c \notin Buffered(m)'
        BY <2>5, <2>6, <2>8
      <4> QED BY <4>1, <4>3, <4>4 DEF Home
    <3>2. ASSUME NEW d \in Chains, d # c, NEW m \in Lanes PROVE Home(d, m)' <=> Home(d, m)
      <4>1. chaintoLane'[d] = chaintoLane[d]
        BY <2>4, <3>2 DEF SInv, ScheduleTypes
      <4>2. d \in Buffered(m)' <=> d \in Buffered(m)
        BY <2>5, <2>6, <3>2
      <4> QED BY <4>1, <4>2 DEF Home
    <3> QED BY <3>1, <3>2
  <2>15. \A d \in Chains : Pick(d)' = Pick(d)
    BY <2>14, PickStable
  <2>16. SameHome'
    <3>1. \A d \in Chains : chaintoLane'[d] # None <=> d = c \/ chaintoLane[d] # None
      BY <2>4, ConstantFacts DEF SInv, ScheduleTypes
    <3> QED BY <1>1, <1>2, <1>3, <2>4, <2>9, <2>14, <2>15, <3>1 DEF SInv, SameHome
  <2> QED BY <1>4, <2>10, <2>12, <2>13, <2>16 DEF SInv
<1> QED BY <1>5, <1>6

(* The other steps only move the cycle on. *)
LEMMA OtherStep ==
    ASSUME SInv, CursorInPhase', phase' \in Phases,
           UNCHANGED <<input_chain, lane_pre_schedule, lane_pre_schedule_size,
                       chaintoLane, chunks>>,
           (phase = "presched" \/ phase' = "presched") => UNCHANGED <<phase, cursor>>
    PROVE  SInv'
<1>1. Assigned' = Assigned
  BY DEF Assigned
<1>2. /\ \A m \in Lanes : Buffered(m)' = Buffered(m)
      /\ \A c \in Chains : \A m \in Lanes : Home(c, m)' <=> Home(c, m)
  BY DEF Buffered, Home
<1>3. \A c \in Chains : Pick(c)' = Pick(c)
  BY <1>2, PickStable
<1>4. ScheduleTypes'
  BY DEF SInv, ScheduleTypes
<1>5. BuffersHoldAssigned'
  BY <1>1, <1>2 DEF SInv, BuffersHoldAssigned
<1>6. SizesCounted'
  BY <1>2 DEF SInv, SizesCounted, Slots
<1>7. SameHome'
  BY <1>1, <1>2, <1>3 DEF SInv, SameHome
<1> QED BY <1>4, <1>5, <1>6, <1>7 DEF SInv

(* Every step of the core keeps the scheduler's invariant. *)
LEMMA NextSchedule == SInv /\ [Next]_vars => SInv'
<1> SUFFICES ASSUME SInv, [Next]_vars PROVE SInv'
  OBVIOUS
<1> USE DEF coreVars, Return, CursorInPhase
<1>0. phase \in Phases /\ CursorInPhase
  BY DEF SInv, ScheduleTypes
<1>1. CASE BeginChunk
  BY <1>1, BeginChunkStep
<1>2. CASE Preschedule
  BY <1>2, PrescheduleStep
<1>3. CASE RunLane
  <2>1. /\ phase' \in {"lanes", "ruby"} /\ phase = "lanes"
        /\ phase' = "lanes" => cursor' \in Lanes
        /\ phase' = "ruby" => cursor' = 0
    BY <1>0, <1>3, ConstantFacts DEF RunLane, Loop
  <2> QED BY <1>0, <1>3, <2>1, OtherStep DEF RunLane, Phases
<1>4. CASE AdvanceTimeReturns
  BY <1>0, <1>4, OtherStep DEF AdvanceTimeReturns, Phases
<1>5. CASE SendMemoryReq
  BY <1>0, <1>5, OtherStep DEF SendMemoryReq, Phases
<1>6. CASE SendMemoryReqReturns
  BY <1>0, <1>6, OtherStep DEF SendMemoryReqReturns, Phases
<1>7. CASE Access
  BY <1>0, <1>7, OtherStep DEF Access, Phases
<1>8. CASE ProcessMshr
  BY <1>0, <1>8, OtherStep DEF ProcessMshr, Phases
<1>9. CASE RecvRespReturns
  BY <1>0, <1>9, OtherStep DEF RecvRespReturns, Phases
<1>10. CASE WakeLane
  BY <1>0, <1>10, OtherStep DEF WakeLane, Phases
<1>11. CASE UpdateMemExeReturns
  BY <1>0, <1>11, OtherStep DEF UpdateMemExeReturns, Phases
<1>12. CASE UpdateChains
  BY <1>0, <1>12, OtherStep DEF UpdateChains, Phases
<1>13. CASE UpdateChainsReturns
  <2>1. 0 \in Lanes
    BY ConstantFacts
  <2> QED BY <1>0, <1>13, <2>1, OtherStep DEF UpdateChainsReturns, Phases
<1>14. CASE Schedule
  BY <1>14, ScheduleStep
<1>15. CASE EndCycle
  <2>1. 0 \in Lanes
    BY ConstantFacts
  <2>2. phase' \in {"host", "lanes"} /\ (phase' = "host" => input_chain = {})
    BY <1>15 DEF EndCycle, is_finish
  <2> QED BY <1>0, <1>15, <2>1, <2>2, OtherStep DEF EndCycle, Phases
<1>16. CASE \E line \in Lines : Callback(line)
  BY <1>0, <1>16, OtherStep DEF Callback, Phases
<1>17. CASE UNCHANGED vars
  BY <1>0, <1>17, OtherStep DEF vars
<1> QED BY <1>1, <1>2, <1>3, <1>4, <1>5, <1>6, <1>7, <1>8, <1>9, <1>10, <1>11, <1>12,
           <1>13, <1>14, <1>15, <1>16, <1>17 DEF Next, Step, EndOfTrace

(* Core::preschedule, Core::ooo_scheduler and the lanes' buffers agree     *)
(* through every chunk: the inductive invariant of the scheduler, with     *)
(* both ways of assigning the chains.                                      *)
THEOREM ScheduleInvariant == Spec => []SInv
BY InitSchedule, NextSchedule, PTL DEF Spec

(* A chain that is buffered is at one place, any other at none. *)
LEMMA PlacesCount ==
    ASSUME SInv, phase # "presched", NEW c \in Chains
    PROVE  Cardinality(PlacesOf(c)) = IF c \in input_chain THEN 1 ELSE 0
<1>1. c \in input_chain <=> \E l \in Lanes : c \in Buffered(l)
  BY DEF SInv, BuffersHoldAssigned, Assigned
<1>2. \A x : x \in PlacesOf(c) <=> \E l \in Lanes : \E i \in DOMAIN lane_pre_schedule[l] :
                                      x = <<l, i>> /\ lane_pre_schedule[l][i] = c
  BY DEF PlacesOf
<1>3. CASE c \in input_chain
  <2>1. PICK l \in Lanes : c \in Buffered(l)
    BY <1>1, <1>3
  <2>2. PICK i \in DOMAIN lane_pre_schedule[l] : lane_pre_schedule[l][i] = c
    BY <2>1 DEF Buffered
  <2>3. ASSUME NEW m \in Lanes, NEW j \in DOMAIN lane_pre_schedule[m],
               lane_pre_schedule[m][j] = c
        PROVE  m = l /\ j = i
    <3>1. c \in Buffered(m)
      BY <2>3 DEF Buffered
    <3>2. m = l
      BY <2>1, <3>1 DEF SInv, BuffersHoldAssigned
    <3> QED BY <2>2, <2>3, <3>2 DEF SInv, BuffersHoldAssigned, Distinct
  <2>4. PlacesOf(c) = {<<l, i>>}
    BY <1>2, <2>2, <2>3
  <2> QED BY <1>3, <2>4, FS_Singleton
<1>4. CASE c \notin input_chain
  <2>1. PlacesOf(c) = {}
    BY <1>1, <1>2, <1>4 DEF Buffered
  <2> QED BY <1>4, <2>1, FS_EmptySet
<1> QED BY <1>3, <1>4

(* Between preschedule and the scheduler, no chain is lost or assigned     *)
(* twice, and the sizes findMinimum compares are those of the buffers.     *)
THEOREM AssignedOnceAlways == Spec => []AssignedOnce
<1>1. SInv => AssignedOnce
  BY PlacesCount DEF AssignedOnce, SInv, SizesCounted
<1> QED BY <1>1, ScheduleInvariant, PTL

-----------------------------------------------------------------------------
(***************************************************************************)
(* The core's cycle: what the lanes, the request queue and mem_req_map     *)
(* have to do with each other, that the core drives the memory unit and    *)
(* the lanes as their own modules assume, and that a chunk leaves nothing  *)
(* in the memory unit.                                                     *)
(***************************************************************************)

MP == INSTANCE MemoryCycleProofs WITH phase <- memPhase, waiting <- sentNodes

IsStalled(l) == m_lanes[l].exe_cnt = -1

Executing(l) == m_lanes[l].exe_stack[1]

(* A request in the lanes' queue is that of a stalled lane, and is there   *)
(* once.                                                                   *)
QueueHoldsStalled ==
    /\ Distinct(mem_req_queue)
    /\ \A l \in Lanes, n \in Ids :
          <<l, n>> \in Elements(mem_req_queue) => IsStalled(l) /\ Executing(l) = n

(* All the copies of an instruction are in the lane its chain went to. *)
PendingHome ==
    \A l \in Lanes : \A n \in Elements(Pending(l)) : chaintoLane[node[n].c_id] = l

(* What mem_req_map says of a lane is an instruction of that lane. *)
MapHome ==
    /\ mem_req_map \in [Lanes -> Ids \cup {None}]
    /\ \A l \in Lanes : mem_req_map[l] # None => chaintoLane[node[mem_req_map[l]].c_id] = l

(* A stalled lane has its request in the queue or is the one update_mem_exe *)
(* will find.                                                              *)
SentMapped ==
    \A l \in Lanes : IsStalled(l) =>
        <<l, Executing(l)>> \in Elements(mem_req_queue) \/ mem_req_map[l] = Executing(l)

(* The queues are empty outside the phases that use them, and no chunk     *)
(* ends before all lanes are free.                                         *)
LanesInPhase ==
    /\ phase \notin {"lanes", "ruby", "send"} => mem_req_queue = <<>>
    /\ phase \notin {"lanes", "ruby", "send", "access", "mshr", "wake", "chains"} =>
          finished_chains = <<>>
    /\ phase = "host" => \A l \in Lanes : is_free(m_lanes[l])
    /\ chunks # 0 => num_iter \in Iters

LanesOK == LaneTypeOK /\ \A l \in Lanes : ExecutesOne(m_lanes[l])

LInv ==
    /\ LanesOK
    /\ QueueHoldsStalled
    /\ PendingHome
    /\ MapHome
    /\ SentMapped
    /\ LanesInPhase

CInv == SInv /\ LInv /\ MP!IInv

-----------------------------------------------------------------------------
(* What a lane executes is one of the instructions it holds. *)
LEMMA ExecutingPending ==
    ASSUME NEW lane \in LaneState
    PROVE  /\ PendingOf(lane) \in Seq(Ids)
           /\ Elements(PendingOf(lane)) \in SUBSET Ids
           /\ lane.exe_stack # <<>> => lane.exe_stack[1] \in Elements(PendingOf(lane))
<1>1. /\ lane.exe_stack \in Seq(Ids) /\ lane.fetch_stack \in Seq(Ids)
      /\ lane.instruction_queue \in Seq(Ids)
  BY DEF LaneState
<1>2. /\ lane.exe_stack \o lane.fetch_stack \in Seq(Ids)
      /\ PendingOf(lane) \in Seq(Ids)
  BY <1>1, ConcatProperties DEF PendingOf
<1>3. Elements(PendingOf(lane)) \in SUBSET Ids
  BY <1>2, ElementOfSeq, LenProperties DEF Elements
<1>4. Elements(lane.exe_stack) \in SUBSET Elements(PendingOf(lane))
  <2>1. Elements(lane.exe_stack) \in SUBSET Elements(lane.exe_stack \o lane.fetch_stack)
    BY <1>1, ConcatElements
  <2> DEFINE two == lane.exe_stack \o lane.fetch_stack
  <2>2. Elements(two) \in SUBSET Elements(two \o lane.instruction_queue)
    <3>1. two \in Seq(Ids)
      BY <1>2
    <3> HIDE DEF two
    <3> QED BY <1>1, <3>1, ConcatElements
  <2> QED BY <2>1, <2>2 DEF PendingOf
<1>5. lane.exe_stack # <<>> => lane.exe_stack[1] \in Elements(lane.exe_stack)
  BY <1>1, EmptySeq, LenProperties DEF Elements
<1> QED BY <1>2, <1>3, <1>4, <1>5

(* The lane a stalled instruction is in is the one its chain went to, so   *)
(* no two lanes are stalled on the same instruction.                       *)
LEMMA StalledHome ==
    LInv => \A l \in Lanes : IsStalled(l) =>
        /\ Executing(l) \in Nodes /\ Executing(l) \in Ids
        /\ chaintoLane[node[Executing(l)].c_id] = l
<1> SUFFICES ASSUME LInv, NEW l \in Lanes, IsStalled(l)
             PROVE  /\ Executing(l) \in Nodes /\ Executing(l) \in Ids
                    /\ chaintoLane[node[Executing(l)].c_id] = l
  OBVIOUS
<1>1. m_lanes[l] \in LaneState /\ ExecutesOne(m_lanes[l])
  BY DEF LInv, LanesOK, LaneTypeOK
<1>2. m_lanes[l].exe_stack # <<>> /\ isMemory(Executing(l))
  BY <1>1 DEF ExecutesOne, IsStalled, Executing
<1>3. Executing(l) \in Elements(Pending(l)) /\ Executing(l) \in Ids
  BY <1>1, <1>2, ExecutingPending DEF Executing, Pending
<1> QED BY <1>2, <1>3, CoreAssumption DEF LInv, PendingHome

(* A node has been sent when a lane is stalled on it and its request has   *)
(* left the queue.                                                         *)
SentAreStalled ==
    \A n : n \in sentNodes <=>
        \E l \in Lanes : IsStalled(l) /\ Executing(l) = n
                         /\ <<l, n>> \notin Elements(mem_req_queue)

(* sentNodes, the nodes MemoryCycle calls waiting, are the stalled lanes'  *)
(* nodes that SendMemoryReq has sent.                                      *)
LEMMA SentAre == LInv => SentAreStalled
<1> SUFFICES ASSUME LInv, NEW n
             PROVE  n \in sentNodes <=>
                      \E l \in Lanes : IsStalled(l) /\ Executing(l) = n
                                       /\ <<l, n>> \notin Elements(mem_req_queue)
  BY DEF SentAreStalled
<1>1. n \in sentNodes <=>
        /\ \E l \in Lanes : IsStalled(l) /\ Executing(l) = n
        /\ \A i \in DOMAIN mem_req_queue : mem_req_queue[i][2] # n
  BY DEF sentNodes, IsStalled, Executing
<1>2. \A i \in DOMAIN mem_req_queue : mem_req_queue[i] \in Lanes \X Ids
  BY ElementOfSeq, LenProperties DEF LInv, LanesOK, LaneTypeOK
<1>3. ASSUME NEW l \in Lanes, IsStalled(l), Executing(l) = n,
             NEW i \in DOMAIN mem_req_queue, mem_req_queue[i][2] = n
      PROVE  <<l, n>> \in Elements(mem_req_queue)
  <2>1. PICK m \in Lanes : mem_req_queue[i] = <<m, n>> /\ n \in Ids
    BY <1>2, <1>3
  <2>2. <<m, n>> \in Elements(mem_req_queue)
    BY <2>1 DEF Elements
  <2>3. IsStalled(m) /\ Executing(m) = n
    BY <2>1, <2>2 DEF LInv, QueueHoldsStalled
  <2>4. m = l
    BY <1>3, <2>3, StalledHome
  <2> QED BY <2>2, <2>4
<1>4. ASSUME NEW l \in Lanes, <<l, n>> \in Elements(mem_req_queue)
      PROVE  \E i \in DOMAIN mem_req_queue : mem_req_queue[i][2] = n
  BY <1>4 DEF Elements
<1> QED BY <1>1, <1>3, <1>4

-----------------------------------------------------------------------------
(* Steps that leave the lanes, the request queue and the maps alone.       *)
LEMMA LanesUnchanged ==
    ASSUME LInv, LanesInPhase', finished_chains' \in Seq({node[n].c_id : n \in Ids}),
           UNCHANGED <<m_lanes, mem_req_queue, chaintoLane, mem_req_map>>
    PROVE  LInv' /\ sentNodes' = sentNodes
<1>1. LanesOK'
  BY DEF LInv, LanesOK, LaneTypeOK
<1>2. QueueHoldsStalled'
  BY DEF LInv, QueueHoldsStalled, IsStalled, Executing
<1>3. PendingHome'
  BY DEF LInv, PendingHome, Pending
<1>4. MapHome'
  BY DEF LInv, MapHome
<1>5. SentMapped'
  BY DEF LInv, SentMapped, IsStalled, Executing
<1>6. sentNodes' = sentNodes
  BY DEF sentNodes
<1> QED BY <1>1, <1>2, <1>3, <1>4, <1>5, <1>6 DEF LInv

(* The core begins with empty lanes and queues, and the memory unit in its *)
(* own initial state.                                                      *)
LEMMA InitLanes == Init => LInv /\ MP!Init
<1> SUFFICES ASSUME Init PROVE LInv /\ MP!Init
  OBVIOUS
<1>1. \A l \in Lanes : /\ m_lanes[l].instruction_queue = <<>>
                       /\ m_lanes[l].fetch_stack = <<>>
                       /\ m_lanes[l].exe_stack = <<>>
                       /\ m_lanes[l].fetch_cnt = 0 /\ m_lanes[l].exe_cnt = 0
  BY DEF Init, LaneInit
<1>2. LaneTypeOK
  <2>1. <<>> \in Seq(Ids) /\ <<>> \in Seq({node[n].c_id : n \in Ids}) /\ <<>> \in Seq(Lanes \X Ids)
    BY EmptySeq
  <2> QED BY <2>1 DEF Init, LaneInit, LaneTypeOK, LaneState
<1>3. LanesOK
  <2>1. \A l \in Lanes : ExecutesOne(m_lanes[l])
    BY <1>1, EmptySeq DEF ExecutesOne
  <2> QED BY <1>2, <2>1 DEF LanesOK
<1>4. Elements(mem_req_queue) = {} /\ Distinct(mem_req_queue)
  BY DEF Init, LaneInit, Elements, Distinct
<1>5. QueueHoldsStalled
  BY <1>4 DEF QueueHoldsStalled
<1>6. PendingHome
  <2>1. <<>> \o <<>> = <<>>
    OBVIOUS
  <2>2. \A l \in Lanes : Pending(l) = <<>>
    BY <1>1, <2>1 DEF Pending, PendingOf
  <2>3. \A l \in Lanes : Elements(Pending(l)) = {}
    BY <2>2 DEF Elements
  <2> QED BY <2>3 DEF PendingHome
<1>7. MapHome
  BY DEF Init, MapHome
<1>8. \A l \in Lanes : ~IsStalled(l)
  BY <1>1 DEF IsStalled
<1>9. SentMapped
  BY <1>8 DEF SentMapped
<1>10. LanesInPhase
  BY <1>1 DEF LanesInPhase, Init, LaneInit, is_free
<1>11. sentNodes = {} /\ memPhase = "ruby"
  BY <1>8 DEF sentNodes, IsStalled, memPhase, Init
<1>12. MP!Init
  BY <1>11 DEF Init, MP!Init, MP!RubyInit, MP!MemoryInit, RubyInit, MemoryInit
<1> QED BY <1>3, <1>5, <1>6, <1>7, <1>9, <1>10, <1>12 DEF LInv

(* Lane::run: a lane that stalls posts its request in the same step.       *)
LEMMA RunLaneStep ==
    ASSUME SInv, LInv, RunLane
    PROVE  LInv' /\ sentNodes' = sentNodes
<1>1. PICK l \in Lanes : l = cursor /\ phase = "lanes"
  BY DEF SInv, CursorInPhase, RunLane
<1>2. PICK lane \in LaneState : lane = m_lanes[l] /\ ExecutesOne(lane)
  BY DEF LInv, LanesOK, LaneTypeOK
<1> DEFINE u == updateCounter(lane)
           f == fetch(execute(u))
           n == Head(u.fetch_stack)
           posts == ~retires(u) /\ issues(u) /\ isMemory(n) /\ MEMORY_MODE = 3
<1>3. /\ m_lanes' = [m_lanes EXCEPT ![l] = f]
      /\ finished_chains' = IF retires(u)
                            THEN Append(finished_chains, node[Head(u.exe_stack)].c_id)
                            ELSE finished_chains
      /\ mem_req_queue' = IF posts THEN Append(mem_req_queue, <<l, n>>) ELSE mem_req_queue
      /\ UNCHANGED <<chaintoLane, mem_req_map, num_iter, chunks>>
      /\ phase' \in {"lanes", "ruby"}
  BY <1>1, <1>2 DEF RunLane, run, coreVars, Loop
<1>4. /\ lane.exe_cnt = -1 =>
            /\ f.exe_cnt = -1 /\ f.exe_stack = lane.exe_stack
            /\ ~retires(u) /\ ~issues(u)
      /\ lane.exe_cnt # -1 => (f.exe_cnt = -1 <=> posts)
      /\ posts => n \in Ids /\ f.exe_stack = <<n>>
  BY <1>2, RunStalls
<1>5. f \in LaneState /\ ExecutesOne(f)
  BY <1>2, RunType, RunExecutesOne
<1>6. /\ PendingOf(lane) \in Seq(Ids)
      /\ retires(u) =>
            /\ PendingOf(lane) # <<>>
            /\ Head(PendingOf(lane)) = Head(u.exe_stack)
            /\ PendingOf(f) = Tail(PendingOf(lane))
      /\ ~retires(u) => PendingOf(f) = PendingOf(lane)
  BY <1>2, RunPending
<1> HIDE DEF u, f, n, posts
<1>7. m_lanes'[l] = f /\ \A m \in Lanes \ {l} : m_lanes'[m] = m_lanes[m]
  BY <1>3 DEF LInv, LanesOK, LaneTypeOK
<1>8. LanesOK'
  <2>1. m_lanes' \in [Lanes -> LaneState]
    BY <1>3, <1>5 DEF LInv, LanesOK, LaneTypeOK
  <2>2. finished_chains' \in Seq({node[i].c_id : i \in Ids})
    <3>1. retires(u) => Head(u.exe_stack) \in Ids
      BY <1>6, HeadTailProperties
    <3> QED BY <1>3, <3>1, AppendProperties DEF LInv, LanesOK, LaneTypeOK
  <2>3. mem_req_queue' \in Seq(Lanes \X Ids)
    BY <1>3, <1>4, AppendProperties DEF LInv, LanesOK, LaneTypeOK
  <2>4. \A m \in Lanes : ExecutesOne(m_lanes'[m])
    BY <1>5, <1>7 DEF LInv, LanesOK
  <2> QED BY <2>1, <2>2, <2>3, <2>4 DEF LanesOK, LaneTypeOK
<1>9. posts => /\ ~IsStalled(l) /\ IsStalled(l)' /\ Executing(l)' = n
  BY <1>2, <1>4, <1>7 DEF IsStalled, Executing, posts
<1>10. \A m \in Lanes : IsStalled(m) => IsStalled(m)' /\ Executing(m)' = Executing(m)
  BY <1>2, <1>4, <1>7 DEF IsStalled, Executing
<1>11. \A m \in Lanes : IsStalled(m)' => IsStalled(m) \/ (posts /\ m = l)
  BY <1>2, <1>4, <1>7 DEF IsStalled, Executing
<1>12. /\ Elements(mem_req_queue') =
             Elements(mem_req_queue) \cup (IF posts THEN {<<l, n>>} ELSE {})
       /\ Distinct(mem_req_queue')
  <2>1. mem_req_queue \in Seq(Lanes \X Ids) /\ Distinct(mem_req_queue)
    BY DEF LInv, LanesOK, LaneTypeOK, QueueHoldsStalled
  <2>2. CASE posts
    <3>1. <<l, n>> \in Lanes \X Ids
      BY <1>4, <2>2
    <3>2. <<l, n>> \notin Elements(mem_req_queue)
      BY <1>4, <1>9, <2>2 DEF LInv, QueueHoldsStalled
    <3>3. /\ Elements(Append(mem_req_queue, <<l, n>>)) = Elements(mem_req_queue) \cup {<<l, n>>}
          /\ Distinct(Append(mem_req_queue, <<l, n>>))
      BY <2>1, <3>1, <3>2, PushDistinct
    <3>4. mem_req_queue' = Append(mem_req_queue, <<l, n>>)
      BY <1>3, <2>2
    <3> QED BY <2>2, <3>3, <3>4
  <2>3. CASE ~posts
    BY <1>3, <2>1, <2>3
  <2> QED BY <2>2, <2>3
<1>13. QueueHoldsStalled'
  <2>1. ASSUME NEW m \in Lanes, NEW x \in Ids, <<m, x>> \in Elements(mem_req_queue')
        PROVE  IsStalled(m)' /\ Executing(m)' = x
    <3>1. CASE <<m, x>> \in Elements(mem_req_queue)
      BY <1>10, <3>1 DEF LInv, QueueHoldsStalled
    <3>2. CASE posts /\ m = l /\ x = n
      BY <1>9, <3>2
    <3> QED BY <1>12, <2>1, <3>1, <3>2
  <2> QED BY <1>12, <2>1 DEF QueueHoldsStalled, Elements, Distinct
<1>14. PendingHome'
  <2>1. Elements(PendingOf(f)) \in SUBSET Elements(PendingOf(lane))
    BY <1>6, TailElements
  <2>2. \A m \in Lanes : Elements(PendingOf(m_lanes'[m])) \in SUBSET Elements(PendingOf(m_lanes[m]))
    BY <1>2, <1>7, <2>1
  <2>3. \A m \in Lanes : \A x \in Elements(PendingOf(m_lanes'[m])) :
           chaintoLane'[node[x].c_id] = m
    BY <1>3, <2>2 DEF LInv, PendingHome, Pending
  <2> QED BY <2>3 DEF PendingHome, Pending, Elements, PendingOf
<1>15. MapHome'
  BY <1>3 DEF LInv, MapHome
<1>16. SentMapped'
  <2>1. ASSUME NEW m \in Lanes, IsStalled(m)'
        PROVE  <<m, Executing(m)'>> \in Elements(mem_req_queue') \/ mem_req_map'[m] = Executing(m)'
    <3>1. CASE IsStalled(m)
      BY <1>3, <1>10, <1>12, <3>1 DEF LInv, SentMapped
    <3>2. CASE posts /\ m = l
      BY <1>9, <1>12, <3>2
    <3> QED BY <1>11, <2>1, <3>1, <3>2
  <2> QED BY <2>1 DEF SentMapped, Elements
<1>17. LanesInPhase'
  BY <1>1, <1>3 DEF LInv, LanesInPhase
<1>18. LInv'
  BY <1>8, <1>13, <1>14, <1>15, <1>16, <1>17 DEF LInv
<1>19. sentNodes' = sentNodes
  <2>1. SentAreStalled /\ SentAreStalled'
    BY <1>18, SentAre, PTL
  <2>2. \A x : x \in sentNodes' <=>
          \E m \in Lanes : IsStalled(m)' /\ Executing(m)' = x
                           /\ <<m, x>> \notin Elements(mem_req_queue')
    BY <2>1 DEF SentAreStalled, Elements
  <2>3. ASSUME NEW x, NEW m \in Lanes
        PROVE  IsStalled(m)' /\ Executing(m)' = x /\ <<m, x>> \notin Elements(mem_req_queue')
                 <=> IsStalled(m) /\ Executing(m) = x /\ <<m, x>> \notin Elements(mem_req_queue)
    BY <1>9, <1>10, <1>11, <1>12
  <2> QED BY <2>1, <2>2, <2>3 DEF SentAreStalled
<1> QED BY <1>18, <1>19

(* Core::send_memory_req: the request leaves the queue, and mem_req_map    *)
(* names the lane that is stalled on it.                                   *)
LEMMA SendStep ==
    ASSUME SInv, LInv, SendMemoryReq
    PROVE  /\ LInv'
           /\ \E iter \in Iters, nodeid \in Nodes : MP!SendReq(iter, nodeid)
<1>1. /\ mem_req_queue \in Seq(Lanes \X Ids) /\ mem_req_queue # <<>>
      /\ Distinct(mem_req_queue) /\ phase = "send"
  BY DEF LInv, LanesOK, LaneTypeOK, QueueHoldsStalled, SendMemoryReq
<1>2. /\ Head(mem_req_queue) \in Lanes \X Ids
      /\ Head(mem_req_queue) \in Elements(mem_req_queue)
      /\ Tail(mem_req_queue) \in Seq(Lanes \X Ids) /\ Distinct(Tail(mem_req_queue))
      /\ Elements(Tail(mem_req_queue)) = Elements(mem_req_queue) \ {Head(mem_req_queue)}
  BY <1>1, PopDistinct
<1>3. PICK l \in Lanes, n \in Ids : Head(mem_req_queue) = <<l, n>>
  BY <1>2
<1>4. /\ mem_req_map' = [mem_req_map EXCEPT ![l] = n]
      /\ send_req(num_iter, n)
      /\ mem_req_queue' = Tail(mem_req_queue)
      /\ UNCHANGED <<rubyVars, m_lanes, finished_chains, num_iter, chaintoLane, phase, chunks>>
  <2>1. Head(mem_req_queue)[1] = l /\ Head(mem_req_queue)[2] = n
    BY <1>3
  <2>2. send_req(num_iter, n)
    BY <2>1, Zenon DEF SendMemoryReq
  <2> QED BY <2>1, <2>2 DEF SendMemoryReq
<1>5. IsStalled(l) /\ Executing(l) = n
  BY <1>2, <1>3 DEF LInv, QueueHoldsStalled
<1>6. n \in Nodes /\ chaintoLane[node[n].c_id] = l
  BY <1>5, StalledHome
<1>7. \A m \in Lanes : (IsStalled(m)' <=> IsStalled(m)) /\ Executing(m)' = Executing(m)
  BY <1>4 DEF IsStalled, Executing
<1>8. Elements(mem_req_queue') = Elements(mem_req_queue) \ {<<l, n>>}
  BY <1>2, <1>3, <1>4
<1>9. LanesOK'
  BY <1>2, <1>4 DEF LInv, LanesOK, LaneTypeOK
<1>10. QueueHoldsStalled'
  <2>1. \A m \in Lanes, x \in Ids :
          <<m, x>> \in Elements(mem_req_queue') => IsStalled(m)' /\ Executing(m)' = x
    BY <1>7, <1>8 DEF LInv, QueueHoldsStalled
  <2> QED BY <1>2, <1>4, <2>1 DEF QueueHoldsStalled, Elements, Distinct
<1>11. PendingHome'
  BY <1>4 DEF LInv, PendingHome, Pending
<1>12. MapHome'
  BY <1>4, <1>6 DEF LInv, MapHome
<1>13. SentMapped'
  <2>1. ASSUME NEW m \in Lanes, IsStalled(m)
        PROVE  <<m, Executing(m)>> \in Elements(mem_req_queue') \/ mem_req_map'[m] = Executing(m)
    <3>1. CASE m = l
      BY <1>4, <1>5, <3>1 DEF LInv, MapHome
    <3>2. CASE m # l
      <4>1. mem_req_map'[m] = mem_req_map[m]
        BY <1>4, <3>2 DEF LInv, MapHome
      <4> QED BY <1>8, <2>1, <3>2, <4>1 DEF LInv, SentMapped
    <3> QED BY <3>1, <3>2
  <2> QED BY <1>7, <2>1 DEF SentMapped, Elements
<1>14. LanesInPhase'
  BY <1>1, <1>4 DEF LInv, LanesInPhase
<1>15. LInv'
  BY <1>9, <1>10, <1>11, <1>12, <1>13, <1>14 DEF LInv
<1>16. n \notin sentNodes /\ sentNodes' = sentNodes \cup {n}
  <2>1. SentAreStalled /\ SentAreStalled'
    BY <1>15, SentAre, PTL
  <2>2. \A x : x \in sentNodes' <=>
          \E m \in Lanes : IsStalled(m) /\ Executing(m) = x
                           /\ <<m, x>> \notin Elements(mem_req_queue')
    BY <1>7, <2>1 DEF SentAreStalled, Elements
  <2>3. \A m \in Lanes : IsStalled(m) /\ Executing(m) = n => m = l
    BY <1>6, StalledHome
  <2>4. n \notin sentNodes
    BY <1>2, <1>3, <2>1, <2>3 DEF SentAreStalled
  <2>5. n \in sentNodes'
    BY <1>5, <1>8, <2>2
  <2>6. \A x : x # n => (x \in sentNodes' <=> x \in sentNodes)
    BY <1>8, <2>1, <2>2 DEF SentAreStalled
  <2> QED BY <2>4, <2>5, <2>6
<1>17. num_iter \in Iters
  BY <1>1 DEF SInv, CursorInPhase, LInv, LanesInPhase
<1>18. MP!SendReq(num_iter, n)
  BY <1>1, <1>4, <1>16 DEF MP!SendReq, MP!send_req, send_req, memPhase, MP!rubyVars, rubyVars
<1> QED BY <1>6, <1>15, <1>17, <1>18

(* Core::update_mem_exe: the lane that mem_req_map names for an answered   *)
(* node is the one that is stalled on it.                                  *)
LEMMA WakeStep ==
    ASSUME SInv, LInv, MP!IInv, WakeLane
    PROVE  LInv' /\ MP!Wake /\ \E l \in Lanes : IsStalled(l) /\ wakeLane(l)
<1>1. /\ phase = "wake" /\ m_mem_resp_list # <<>>
      /\ m_mem_resp_list' = Tail(m_mem_resp_list)
      /\ UNCHANGED <<rubyVars, ldst_addr_buffer, mem_req_stack, num_iter, chaintoLane,
                     mem_req_map, phase, chunks>>
  BY DEF WakeLane, coreVars
<1>2. Head(m_mem_resp_list) \in sentNodes
  <2>1. m_mem_resp_list \in Seq(Nodes)
    BY DEF MP!IInv, MP!TypeOK, MP!MemoryTypeOK
  <2>2. Head(m_mem_resp_list) \in Elements(m_mem_resp_list)
    BY <1>1, <2>1, TailElements
  <2>3. Elements(m_mem_resp_list) \subseteq sentNodes
    BY DEF MP!IInv, MP!NodesOnce, MP!Elements, Elements
  <2> QED BY <2>2, <2>3
<1>3. PICK n : n = Head(m_mem_resp_list)
  OBVIOUS
<1>4. PICK l \in Lanes : IsStalled(l) /\ Executing(l) = n
                         /\ <<l, n>> \notin Elements(mem_req_queue)
  BY <1>2, <1>3, SentAre DEF SentAreStalled
<1>5. n \in Ids /\ chaintoLane[node[n].c_id] = l
  BY <1>4, StalledHome
<1>6. LanesOf(n) = {l}
  <2>1. mem_req_map[l] = n
    BY <1>4 DEF LInv, SentMapped
  <2>2. n # None
    BY <1>5, ChainAssumption DEF None
  <2>3. \A m \in Lanes : mem_req_map[m] = n => m = l
    BY <1>5, <2>2 DEF LInv, MapHome
  <2> QED BY <2>1, <2>3 DEF LanesOf
<1>7. First({l}) = l
  <2>1. l \in Nat
    BY ConstantFacts
  <2>2. First({l}) \in {l}
    BY <2>1, FirstIsLeast
  <2> QED BY <2>2
<1>8. wakeLane(l)
  BY <1>3, <1>6, <1>7 DEF WakeLane
<1>9. /\ m_lanes' = [m_lanes EXCEPT ![l].exe_cnt = 0]
      /\ UNCHANGED <<finished_chains, mem_req_queue>>
  BY <1>8 DEF wakeLane
<1>10. /\ m_lanes' \in [Lanes -> LaneState]
       /\ m_lanes'[l].exe_stack = m_lanes[l].exe_stack
       /\ m_lanes'[l].exe_cnt = 0
       /\ \A m \in Lanes \ {l} : m_lanes'[m] = m_lanes[m]
       /\ PendingOf(m_lanes'[l]) = PendingOf(m_lanes[l])
  BY <1>9 DEF LInv, LanesOK, LaneTypeOK, LaneState, PendingOf
<1>11. /\ ~IsStalled(l)'
       /\ \A m \in Lanes \ {l} : (IsStalled(m)' <=> IsStalled(m)) /\ Executing(m)' = Executing(m)
  BY <1>10 DEF IsStalled, Executing
<1>12. mem_req_queue = <<>> /\ Elements(mem_req_queue) = {} /\ Distinct(mem_req_queue)
  BY <1>1 DEF LInv, LanesInPhase, Elements, Distinct
<1>13. LanesOK'
  <2>1. \A m \in Lanes : ExecutesOne(m_lanes'[m])
    BY <1>10 DEF LInv, LanesOK, ExecutesOne
  <2> QED BY <1>9, <1>10, <2>1 DEF LInv, LanesOK, LaneTypeOK
<1>14. QueueHoldsStalled'
  BY <1>9, <1>12 DEF QueueHoldsStalled, Elements, Distinct
<1>15. PendingHome'
  BY <1>1, <1>10 DEF LInv, PendingHome, Pending
<1>16. MapHome'
  BY <1>1 DEF LInv, MapHome
<1>17. SentMapped'
  <2>1. ASSUME NEW m \in Lanes, IsStalled(m)' PROVE mem_req_map'[m] = Executing(m)'
    <3>1. m # l /\ IsStalled(m) /\ Executing(m)' = Executing(m)
      BY <1>11, <2>1
    <3> QED BY <1>1, <1>12, <3>1 DEF LInv, SentMapped
  <2> QED BY <2>1 DEF SentMapped
<1>18. LanesInPhase'
  BY <1>1, <1>9 DEF LInv, LanesInPhase
<1>19. LInv'
  BY <1>13, <1>14, <1>15, <1>16, <1>17, <1>18 DEF LInv
<1>20. sentNodes' = sentNodes \ {n}
  <2>1. SentAreStalled /\ SentAreStalled'
    BY <1>19, SentAre, PTL
  <2>2. \A x : x \in sentNodes' <=> \E m \in Lanes : IsStalled(m)' /\ Executing(m)' = x
    BY <1>9, <1>12, <2>1 DEF SentAreStalled, Elements
  <2>3. \A x : x \in sentNodes <=> \E m \in Lanes : IsStalled(m) /\ Executing(m) = x
    BY <1>12, <2>1 DEF SentAreStalled
  <2>4. \A m \in Lanes : IsStalled(m) /\ Executing(m) = n => m = l
    BY <1>5, StalledHome
  <2>5. n \notin sentNodes'
    BY <1>11, <2>2, <2>4
  <2>6. \A x : x # n => (x \in sentNodes' <=> x \in sentNodes)
    BY <1>4, <1>11, <2>2, <2>3
  <2> QED BY <2>5, <2>6
<1>21. MP!Wake
  BY <1>1, <1>3, <1>20 DEF MP!Wake, memPhase, MP!rubyVars, rubyVars
<1> QED BY <1>4, <1>8, <1>19, <1>21

(* Core::ooo_scheduler: a free lane is given a chain it is the home of.    *)
LEMMA LoadStep ==
    ASSUME SInv, LInv, Schedule, NEW l \in Lanes, l = cursor,
           is_free(m_lanes[l]), ReadyChains(l) # {}
    PROVE  /\ LInv' /\ sentNodes' = sentNodes
           /\ \E c \in Chains :
                 /\ c \in input_chain /\ input_chain' = input_chain \ {c}
                 /\ \A p \in Chains : <<c, p>> \notin depen_table
                 /\ LoadInstructionQueue(l, instruction_list[c])
                 /\ Pending(l)' = Pending(l) \o instruction_list[c]
                 /\ \A m \in Lanes \ {l} : Pending(m)' = Pending(m)
<1> DEFINE b == lane_pre_schedule[l]
<1>1. /\ b \in Seq(Chains) /\ DOMAIN b = 1..Len(b) /\ Len(b) \in Nat /\ phase = "sched"
  BY LenProperties DEF SInv, ScheduleTypes, Schedule
<1>2. PICK i \in ReadyChains(l) : i = First(ReadyChains(l)) /\ i \in DOMAIN b
  <2>1. ReadyChains(l) \in SUBSET DOMAIN b /\ ReadyChains(l) \in SUBSET Nat
    BY <1>1 DEF ReadyChains
  <2> QED BY <2>1, FirstIsLeast
<1>3. PICK c \in Chains : c = b[i]
  BY <1>1, <1>2, ElementOfSeq
<1>4. /\ chaintoLane' = [chaintoLane EXCEPT ![c] = l]
      /\ input_chain' = input_chain \ {c}
      /\ LoadInstructionQueue(l, instruction_list[c])
      /\ phase' \in {"sched", "finish"}
      /\ UNCHANGED <<num_iter, mem_req_map, chunks>>
  BY <1>1, <1>2, <1>3 DEF Schedule, Loop
<1>5. c \in Buffered(l)
  BY <1>2, <1>3 DEF Buffered
<1>6. c \in input_chain
  BY <1>1, <1>5 DEF SInv, BuffersHoldAssigned, Assigned
<1>7. \A p \in Chains : <<c, p>> \notin depen_table
  BY <1>2, <1>3 DEF ReadyChains
<1> HIDE DEF b
<1>8. \A d \in Chains : \A m \in Lanes : chaintoLane[d] = m => chaintoLane'[d] = m
  <2>1. SUFFICES ASSUME NEW m \in Lanes, chaintoLane[c] = m PROVE m = l
    BY <1>4 DEF SInv, ScheduleTypes
  <2>2. Home(c, m) /\ Home(c, l)
    BY <1>5, <2>1 DEF Home
  <2> QED BY <2>2 DEF SInv, SameHome
<1>9. \A m \in Lanes : m_lanes[m] \in LaneState
  BY DEF LInv, LanesOK, LaneTypeOK
<1> DEFINE r == [m_lanes[l] EXCEPT !.instruction_queue = @ \o instruction_list[c]]
<1>10. /\ r \in LaneState
       /\ r.exe_stack = m_lanes[l].exe_stack /\ r.exe_cnt = m_lanes[l].exe_cnt
       /\ PendingOf(r) = PendingOf(m_lanes[l]) \o instruction_list[c]
  BY <1>9, LoadPending, ConstantFacts
<1>11. /\ m_lanes' = [m_lanes EXCEPT ![l] = r]
       /\ UNCHANGED <<finished_chains, mem_req_queue>>
  BY <1>4 DEF LoadInstructionQueue
<1> HIDE DEF r
<1>12. m_lanes'[l] = r /\ \A m \in Lanes \ {l} : m_lanes'[m] = m_lanes[m]
  BY <1>11 DEF LInv, LanesOK, LaneTypeOK
<1>13. LanesOK'
  <2>1. m_lanes' \in [Lanes -> LaneState]
    BY <1>10, <1>11 DEF LInv, LanesOK, LaneTypeOK
  <2>2. \A m \in Lanes : ExecutesOne(m_lanes'[m])
    BY <1>10, <1>12 DEF LInv, LanesOK, ExecutesOne
  <2> QED BY <1>11, <2>1, <2>2 DEF LInv, LanesOK, LaneTypeOK
<1>14. \A m \in Lanes : (IsStalled(m)' <=> IsStalled(m)) /\ Executing(m)' = Executing(m)
  BY <1>10, <1>12 DEF IsStalled, Executing
<1>15. QueueHoldsStalled'
  BY <1>11, <1>14 DEF LInv, QueueHoldsStalled
<1>16. /\ Pending(l)' = Pending(l) \o instruction_list[c]
       /\ \A m \in Lanes \ {l} : Pending(m)' = Pending(m)
  BY <1>10, <1>12 DEF Pending
<1>17. PendingHome'
  <2>1. Pending(l) \in Seq(Ids) /\ \A m \in Lanes : Elements(Pending(m)) \in SUBSET Ids
    BY <1>9, ExecutingPending DEF Pending
  <2>2. Elements(Pending(l)') = Elements(Pending(l)) \cup Elements(instruction_list[c])
    BY <1>16, <2>1, ConstantFacts, ConcatElements
  <2>3. \A n \in Elements(instruction_list[c]) : node[n].c_id = c
    BY ChainAssumption DEF Elements
  <2>4. ASSUME NEW m \in Lanes, NEW n \in Elements(Pending(m))
        PROVE  chaintoLane'[node[n].c_id] = m
    <3>1. node[n].c_id \in Chains
      BY <2>1, ChainAssumption
    <3>2. chaintoLane[node[n].c_id] = m
      BY DEF LInv, PendingHome
    <3> QED BY <1>8, <3>1, <3>2
  <2>5. chaintoLane'[c] = l
    BY <1>4 DEF SInv, ScheduleTypes
  <2>6. \A m \in Lanes : \A n \in Elements(Pending(m)') : chaintoLane'[node[n].c_id] = m
    BY <1>16, <2>2, <2>3, <2>4, <2>5
  <2> QED BY <2>6 DEF PendingHome, Elements
<1>18. MapHome'
  BY <1>4, <1>8, ChainAssumption DEF LInv, MapHome
<1>19. SentMapped'
  BY <1>4, <1>11, <1>14 DEF LInv, SentMapped
<1>20. LanesInPhase'
  BY <1>1, <1>4, <1>11 DEF LInv, LanesInPhase
<1>21. LInv'
  BY <1>13, <1>15, <1>17, <1>18, <1>19, <1>20 DEF LInv
<1>22. sentNodes' = sentNodes
  <2>1. SentAreStalled /\ SentAreStalled'
    BY <1>21, SentAre, PTL
  <2>2. \A x : x \in sentNodes' <=>
          \E m \in Lanes : IsStalled(m) /\ Executing(m) = x
                           /\ <<m, x>> \notin Elements(mem_req_queue)
    BY <1>11, <1>14, <2>1 DEF SentAreStalled, Elements
  <2> QED BY <2>1, <2>2 DEF SentAreStalled
<1> QED BY <1>4, <1>6, <1>7, <1>16, <1>21, <1>22

-----------------------------------------------------------------------------
(* The whole cycle.                                                        *)

(* The instanced module counts as this one does. *)
LEMMA SameCardinality == \A S : MP!Cardinality(S) = Cardinality(S)
BY DEF MP!Cardinality, Cardinality

(* The memory side of a step that leaves the memory unit, Ruby and the     *)
(* lanes' requests alone.                                                  *)
LEMMA MemoryUnchanged ==
    ASSUME UNCHANGED <<rubyVars, memoryVars>>, memPhase' = memPhase, sentNodes' = sentNodes
    PROVE  [MP!Next]_(MP!vars)
BY DEF MP!vars, MP!rubyVars, MP!memoryVars, rubyVars, memoryVars

(* Every step of the core keeps the lanes' invariant and is a step of      *)
(* MemoryCycle or leaves it alone.                                         *)
LEMMA MemoryStep ==
    ASSUME CInv, [Next]_vars
    PROVE  LInv' /\ [MP!Next]_(MP!vars)
<1> USE DEF coreVars, laneVars, Return
<1>0. /\ SInv /\ LInv /\ MP!IInv /\ LanesInPhase /\ CursorInPhase
      /\ finished_chains \in Seq({node[n].c_id : n \in Ids})
  BY DEF CInv, LInv, LanesOK, LaneTypeOK, SInv
<1>1. CASE BeginChunk
  <2>1. LanesInPhase' /\ memPhase' = memPhase
    BY <1>0, <1>1 DEF BeginChunk, LanesInPhase, memPhase
  <2>2. /\ UNCHANGED <<m_lanes, mem_req_queue, chaintoLane, mem_req_map, finished_chains>>
        /\ UNCHANGED <<rubyVars, memoryVars>>
    BY <1>1 DEF BeginChunk
  <2> QED BY <1>0, <2>1, <2>2, LanesUnchanged, MemoryUnchanged
<1>2. CASE Preschedule
  <2>1. phase = "presched" /\ phase' \in {"presched", "lanes"}
    BY <1>2 DEF Preschedule, Loop
  <2>2. /\ UNCHANGED <<m_lanes, mem_req_queue, chaintoLane, mem_req_map, finished_chains>>
        /\ UNCHANGED <<rubyVars, memoryVars, num_iter, chunks>>
    BY <1>2 DEF Preschedule
  <2>3. LanesInPhase' /\ memPhase' = memPhase
    BY <1>0, <2>1, <2>2 DEF LanesInPhase, memPhase
  <2> QED BY <1>0, <2>2, <2>3, LanesUnchanged, MemoryUnchanged
<1>3. CASE RunLane
  <2>1. memPhase' = memPhase /\ UNCHANGED <<rubyVars, memoryVars>>
    BY <1>3 DEF RunLane, memPhase, Loop
  <2> QED BY <1>0, <1>3, <2>1, RunLaneStep, MemoryUnchanged
<1>4. CASE AdvanceTimeReturns
  <2>1. LInv' /\ sentNodes' = sentNodes
    BY <1>0, <1>4, LanesUnchanged DEF AdvanceTimeReturns, LanesInPhase
  <2>2. MP!AdvanceTimeReturns
    BY <1>4, <2>1 DEF AdvanceTimeReturns, MP!AdvanceTimeReturns, memPhase,
                      MP!rubyVars, MP!memoryVars, rubyVars, memoryVars
  <2> QED BY <2>1, <2>2 DEF MP!Next
<1>5. CASE SendMemoryReq
  BY <1>0, <1>5, SendStep DEF MP!Next
<1>6. CASE SendMemoryReqReturns
  <2>1. LInv' /\ sentNodes' = sentNodes
    BY <1>0, <1>6, LanesUnchanged DEF SendMemoryReqReturns, LanesInPhase
  <2>2. MP!SendReturns
    BY <1>6, <2>1 DEF SendMemoryReqReturns, MP!SendReturns, memPhase,
                      MP!rubyVars, MP!memoryVars, rubyVars, memoryVars
  <2> QED BY <2>1, <2>2 DEF MP!Next
<1>7. CASE Access
  <2>1. LInv' /\ sentNodes' = sentNodes
    BY <1>0, <1>7, LanesUnchanged DEF Access, LanesInPhase
  <2>2. MP!access
    BY <1>7 DEF Access, access, MP!access, MP!Issuable, Issuable, MP!First, First,
                MP!makeRequest, makeRequest, MP!base_addr, base_addr, MP!isReady, isReady,
                MP!rubyVars, MP!memoryVars, rubyVars, memoryVars
  <2>3. MP!Access
    BY <1>7, <2>1, <2>2 DEF Access, MP!Access, memPhase
  <2> QED BY <2>1, <2>3 DEF MP!Next
<1>8. CASE ProcessMshr
  <2>1. LInv' /\ sentNodes' = sentNodes
    BY <1>0, <1>8, LanesUnchanged DEF ProcessMshr, LanesInPhase
  <2>2. MP!process_mshr
    <3>1. /\ MP!RubyQueueTop = RubyQueueTop /\ (MP!RubyQueueEmpty <=> RubyQueueEmpty)
          /\ RubyQueuePop => MP!RubyQueuePop
      BY DEF MP!RubyQueueTop, RubyQueueTop, MP!RubyQueueEmpty, RubyQueueEmpty,
             MP!RubyQueuePop, RubyQueuePop
    <3>2. \A line : MP!search_req(line) = search_req(line)
      BY DEF MP!search_req, search_req, MP!Matches, Matches, MP!InLine, InLine,
             MP!line_size, line_size, MP!First, First
    <3>3. \A q, e : MP!ListRemove(q, e) = ListRemove(q, e)
      <4>1. \A q, K : MP!KeepAt(q, K) = KeepAt(q, K)
        BY DEF MP!KeepAt, KeepAt, MP!Cardinality, Cardinality
      <4>2. \A q, e : {i \in DOMAIN q : ~MP!SameRequest(q[i], e)}
                        = {i \in DOMAIN q : ~SameRequest(q[i], e)}
        BY DEF MP!SameRequest, SameRequest
      <4> QED BY <4>1, <4>2, Zenon DEF MP!ListRemove, ListRemove
    <3> QED BY <1>8, <3>1, <3>2, <3>3 DEF ProcessMshr, process_mshr, MP!process_mshr
  <2>3. MP!ProcessMshr
    BY <1>8, <2>1, <2>2 DEF ProcessMshr, MP!ProcessMshr, memPhase
  <2> QED BY <2>1, <2>3 DEF MP!Next
<1>9. CASE RecvRespReturns
  <2>1. LInv' /\ sentNodes' = sentNodes
    BY <1>0, <1>9, LanesUnchanged DEF RecvRespReturns, LanesInPhase
  <2>2. MP!RecvRespReturns
    BY <1>9, <2>1 DEF RecvRespReturns, MP!RecvRespReturns, memPhase,
                      MP!RubyQueueEmpty, RubyQueueEmpty,
                      MP!rubyVars, MP!memoryVars, rubyVars, memoryVars
  <2> QED BY <2>1, <2>2 DEF MP!Next
<1>10. CASE WakeLane
  BY <1>0, <1>10, WakeStep DEF MP!Next
<1>11. CASE UpdateMemExeReturns
  <2>1. LInv' /\ sentNodes' = sentNodes
    BY <1>0, <1>11, LanesUnchanged DEF UpdateMemExeReturns, LanesInPhase
  <2>2. MP!UpdateMemExeReturns
    BY <1>11, <2>1 DEF UpdateMemExeReturns, MP!UpdateMemExeReturns, memPhase,
                       MP!rubyVars, MP!memoryVars, rubyVars, memoryVars
  <2> QED BY <2>1, <2>2 DEF MP!Next
<1>12. CASE UpdateChains
  <2>1. /\ UNCHANGED <<m_lanes, mem_req_queue, chaintoLane, mem_req_map, phase, num_iter, chunks>>
        /\ UNCHANGED <<rubyVars, memoryVars>> /\ phase = "chains"
        /\ finished_chains # <<>> /\ finished_chains' = Tail(finished_chains)
    BY <1>12 DEF UpdateChains
  <2>2. finished_chains' \in Seq({node[n].c_id : n \in Ids})
    BY <1>0, <2>1, TailElements
  <2>3. LanesInPhase' /\ memPhase' = memPhase
    BY <1>0, <2>1 DEF LanesInPhase, memPhase
  <2> QED BY <1>0, <2>1, <2>2, <2>3, LanesUnchanged, MemoryUnchanged
<1>13. CASE UpdateChainsReturns
  <2>1. LanesInPhase' /\ memPhase' = memPhase
    BY <1>0, <1>13 DEF UpdateChainsReturns, LanesInPhase, memPhase
  <2>2. /\ UNCHANGED <<m_lanes, mem_req_queue, chaintoLane, mem_req_map, finished_chains>>
        /\ UNCHANGED <<rubyVars, memoryVars>>
    BY <1>13 DEF UpdateChainsReturns
  <2> QED BY <1>0, <2>1, <2>2, LanesUnchanged, MemoryUnchanged
<1>14. CASE Schedule
  <2>1. PICK l \in Lanes : l = cursor /\ phase = "sched"
    BY <1>0, <1>14 DEF CursorInPhase, Schedule
  <2>2. memPhase' = memPhase /\ UNCHANGED <<rubyVars, memoryVars>>
        /\ phase' \in {"sched", "finish"}
    BY <1>14, <2>1 DEF Schedule, memPhase, Loop
  <2>3. CASE is_free(m_lanes[l]) /\ ReadyChains(l) # {}
    BY <1>0, <1>14, <2>1, <2>2, <2>3, LoadStep, MemoryUnchanged
  <2>4. CASE ~(is_free(m_lanes[l]) /\ ReadyChains(l) # {})
    <3>1. UNCHANGED <<m_lanes, mem_req_queue, chaintoLane, mem_req_map, finished_chains,
                      num_iter, chunks>>
      BY <1>14, <2>1, <2>4 DEF Schedule
    <3>2. LanesInPhase'
      BY <1>0, <2>1, <2>2, <3>1 DEF LanesInPhase
    <3> QED BY <1>0, <2>2, <3>1, <3>2, LanesUnchanged, MemoryUnchanged
  <2> QED BY <2>3, <2>4
<1>15. CASE EndCycle
  <2>1. /\ UNCHANGED <<m_lanes, mem_req_queue, chaintoLane, mem_req_map, finished_chains>>
        /\ UNCHANGED <<rubyVars, memoryVars>>
    BY <1>15 DEF EndCycle
  <2>2. LanesInPhase' /\ memPhase' = memPhase
    BY <1>0, <1>15 DEF EndCycle, LanesInPhase, memPhase, is_finish
  <2> QED BY <1>0, <2>1, <2>2, LanesUnchanged, MemoryUnchanged
<1>16. ASSUME NEW line \in Lines, Callback(line) PROVE LInv' /\ [MP!Next]_(MP!vars)
  <2>1. LInv' /\ sentNodes' = sentNodes
    BY <1>0, <1>16, LanesUnchanged DEF Callback, LanesInPhase
  <2>2. MP!hitCallback(line)
    BY <1>16 DEF Callback, hitCallback, MP!hitCallback, readCallback, MP!readCallback,
                 writeCallback, MP!writeCallback
  <2>3. MP!Callback(line)
    BY <1>16, <2>1, <2>2 DEF Callback, MP!Callback, memPhase, MP!memoryVars, memoryVars
  <2> QED BY <2>1, <2>3 DEF MP!Next
<1>17. CASE UNCHANGED vars
  <2>1. LanesInPhase' /\ memPhase' = memPhase
    BY <1>0, <1>17 DEF vars, LanesInPhase, memPhase
  <2>2. /\ UNCHANGED <<m_lanes, mem_req_queue, chaintoLane, mem_req_map, finished_chains>>
        /\ UNCHANGED <<rubyVars, memoryVars>>
    BY <1>17 DEF vars
  <2> QED BY <1>0, <2>1, <2>2, LanesUnchanged, MemoryUnchanged
<1> QED BY <1>1, <1>2, <1>3, <1>4, <1>5, <1>6, <1>7, <1>8, <1>9, <1>10, <1>11, <1>12,
           <1>13, <1>14, <1>15, <1>16, <1>17 DEF Next, Step, EndOfTrace

(* The core begins in the invariant of its cycle. *)
LEMMA InitCycle == Init => CInv
<1>1. MP!Init => MP!IInv
  BY MP!InitIInv, RubyAssumption, MemoryAssumption DEF MP!base_addr, base_addr
<1> QED BY <1>1, InitSchedule, InitLanes DEF CInv

(* Every step of the core keeps it. *)
LEMMA NextCycle == CInv /\ [Next]_vars => CInv'
<1> SUFFICES ASSUME CInv, [Next]_vars PROVE CInv'
  OBVIOUS
<1>1. MP!IInv /\ [MP!Next]_(MP!vars) => MP!IInv'
  BY MP!NextIInv, RubyAssumption, MemoryAssumption DEF MP!base_addr, base_addr
<1>2. LInv' /\ MP!IInv'
  BY <1>1, MemoryStep DEF CInv
<1>3. SInv'
  BY NextSchedule DEF CInv
<1> QED BY <1>2, <1>3 DEF CInv

(* The invariant of the core's cycle: of the scheduler, of the lanes and   *)
(* their requests, and of the memory unit under them.                      *)
THEOREM CycleInvariant == Spec => []CInv
BY InitCycle, NextCycle, PTL DEF Spec

(* The invariant, when no lane is stalled, leaves nothing in the memory    *)
(* unit or in Ruby.                                                        *)
LEMMA CycleQuiescent == CInv => QuiescentBetweenChunks
<1> SUFFICES ASSUME CInv, phase = "host"
             PROVE  /\ Outstanding = {} /\ RubyQueueEmpty
                    /\ ldst_addr_buffer = <<>> /\ mem_req_stack = MEM_MSHR_SIZE
                    /\ mem_req_queue = <<>> /\ m_mem_resp_list = <<>>
  BY DEF QuiescentBetweenChunks
<1>1. mem_req_queue = <<>> /\ \A l \in Lanes : ~IsStalled(l)
  BY DEF CInv, LInv, LanesInPhase, is_free, IsStalled
<1>2. sentNodes = {}
  BY <1>1, SentAre DEF CInv, SentAreStalled
<1>3. /\ ldst_addr_buffer \in Seq(MP!MemValue_t) /\ m_mem_resp_list \in Seq(Nodes)
      /\ m_readRequestTable \in SUBSET Lines /\ m_writeRequestTable \in SUBSET Lines
      /\ m_callback_queue \in Seq(Lines) /\ mem_req_stack \in 0..MEM_MSHR_SIZE
  BY DEF CInv, MP!IInv, MP!TypeOK, MP!RubyTypeOK, MP!MemoryTypeOK
<1>4. DOMAIN ldst_addr_buffer = {} /\ Elements(m_mem_resp_list) = {}
  BY <1>2 DEF CInv, MP!IInv, MP!NodesOnce, MP!Positions, MP!Elements, Elements
<1>5. ldst_addr_buffer = <<>> /\ m_mem_resp_list = <<>>
  <2>1. Elements(ldst_addr_buffer) = {}
    BY <1>4 DEF Elements
  <2> QED BY <1>3, <1>4, <2>1, NoElements
<1>6. MP!Cardinality({}) = 0
  BY SameCardinality, FS_EmptySet
<1>7. \A line \in Lines : line \notin Outstanding
                          /\ \A i \in DOMAIN m_callback_queue : m_callback_queue[i] # line
  <2> SUFFICES ASSUME NEW line \in Lines
               PROVE  line \notin MP!Outstanding /\ line \notin MP!Queued
    BY DEF MP!Outstanding, Outstanding, MP!Queued
  <2>1. {i \in MP!Positions : MP!LineOf(i) = line /\ MP!Entry(i).is_issue} = {}
    BY <1>4 DEF MP!Positions
  <2>2. 0 = (IF line \in MP!Outstanding THEN 1 ELSE 0) + (IF line \in MP!Queued THEN 1 ELSE 0)
    BY <1>6, <2>1 DEF CInv, MP!IInv, MP!IssuedMatchesRuby
  <2> QED BY <2>2
<1>8. Outstanding = {}
  BY <1>3, <1>7 DEF Outstanding
<1>9. RubyQueueEmpty
  <2>1. Elements(m_callback_queue) = {}
    BY <1>3, <1>7, ElementOfSeq, LenProperties DEF Elements
  <2> QED BY <1>3, <2>1, NoElements DEF RubyQueueEmpty
<1>10. mem_req_stack = MEM_MSHR_SIZE
  <2>1. MP!IssuedNodes = {}
    BY <1>4 DEF MP!IssuedNodes, MP!Positions
  <2>2. mem_req_stack + 0 = MEM_MSHR_SIZE
    BY <1>6, <2>1 DEF CInv, MP!IInv, MP!SlotsCounted, MP!MshrConserved
  <2> QED BY <1>3, <2>2, MemoryAssumption
<1> QED BY <1>1, <1>5, <1>8, <1>9, <1>10

(* Between chunks the sequencer is as it was at the start. *)
LEMMA HostPhaseRuby == CInv => (phase = "host" => RubyInit)
<1> SUFFICES ASSUME CInv, phase = "host" PROVE RubyInit
  OBVIOUS
<1>1. m_readRequestTable = {} /\ m_writeRequestTable = {} /\ m_callback_queue = <<>>
  BY CycleQuiescent DEF QuiescentBetweenChunks, Outstanding, RubyQueueEmpty
<1>2. MP!Cardinality({}) = 0
  BY SameCardinality, FS_EmptySet
<1>3. m_outstanding_count = 0 + 0
  BY <1>1, <1>2 DEF CInv, MP!IInv, MP!TablesCounted, MP!CountMatchesTables
<1> QED BY <1>1, <1>3 DEF RubyInit

(* is_finish() looks at the chains and the lanes only; yet when it ends a  *)
(* chunk nothing is left in the memory unit, in Ruby's tables or in its    *)
(* queue, and every MSHR slot is free.                                     *)
THEOREM QuiescentAlways == Spec => []QuiescentBetweenChunks
BY CycleQuiescent, CycleInvariant, PTL

(* The core, with its lanes, its queue and its map of requests, drives the *)
(* memory unit as MemoryCycle assumes: never two requests of a node in     *)
(* flight, and an answer wakes the lane that is stalled on it.             *)
THEOREM CoreImplementsMemoryCycle == Spec => ImplementsMemoryCycle
<1>1. Init => MemCycle!Init
  <2>1. MP!Init => MemCycle!Init
    BY DEF MP!Init, MemCycle!Init, MP!RubyInit, MemCycle!RubyInit, MP!MemoryInit,
           MemCycle!MemoryInit
  <2> QED BY <2>1, InitLanes
<1>2. CInv /\ [Next]_vars => [MemCycle!Next]_(MemCycle!vars)
  <2>1. [MP!Next]_(MP!vars) => [MemCycle!Next]_(MemCycle!vars)
    BY DEF MP!Next, MemCycle!Next, MP!vars, MemCycle!vars, MP!rubyVars, MemCycle!rubyVars,
           MP!memoryVars, MemCycle!memoryVars,
           MP!Callback, MemCycle!Callback, MP!hitCallback, MemCycle!hitCallback,
           MP!readCallback, MemCycle!readCallback, MP!writeCallback, MemCycle!writeCallback,
           MP!AdvanceTimeReturns, MemCycle!AdvanceTimeReturns,
           MP!SendReq, MemCycle!SendReq, MP!send_req, MemCycle!send_req,
           MP!SendReturns, MemCycle!SendReturns,
           MP!Access, MemCycle!Access, MP!access, MemCycle!access,
           MP!Issuable, MemCycle!Issuable, MP!isReady, MemCycle!isReady,
           MP!base_addr, MemCycle!base_addr, MP!First, MemCycle!First,
           MP!makeRequest, MemCycle!makeRequest,
           MP!ProcessMshr, MemCycle!ProcessMshr, MP!process_mshr, MemCycle!process_mshr,
           MP!search_req, MemCycle!search_req, MP!Matches, MemCycle!Matches,
           MP!InLine, MemCycle!InLine, MP!line_size, MemCycle!line_size,
           MP!ListRemove, MemCycle!ListRemove, MP!KeepAt, MemCycle!KeepAt,
           MP!Cardinality, MemCycle!Cardinality, MP!SameRequest, MemCycle!SameRequest,
           MP!RubyQueueEmpty, MemCycle!RubyQueueEmpty, MP!RubyQueueTop, MemCycle!RubyQueueTop,
           MP!RubyQueuePop, MemCycle!RubyQueuePop,
           MP!RecvRespReturns, MemCycle!RecvRespReturns, MP!Wake, MemCycle!Wake,
           MP!UpdateMemExeReturns, MemCycle!UpdateMemExeReturns
  <2> QED BY <2>1, MemoryStep
<1> QED BY <1>1, <1>2, CycleInvariant, PTL DEF Spec, ImplementsMemoryCycle, MemCycle!Spec

-----------------------------------------------------------------------------
(* The lanes under the core.                                               *)

(* A chain's instructions, chain by chain, are the instructions. *)
LEMMA SlotsAreIds ==
    /\ IsFiniteSet(Ids)
    /\ Cardinality(Ids) \in Nat
    /\ Cardinality(Slots(Chains)) = Cardinality(Ids)
<1> DEFINE f == [s \in Slots(Chains) |-> instruction_list[s[1]][s[2]]]
<1>1. \A s : s \in Slots(Chains) <=>
        \E c \in Chains : \E i \in DOMAIN instruction_list[c] : s = <<c, i>>
  BY DEF Slots
<1>2. \A c \in Chains : \A i \in DOMAIN instruction_list[c] :
        /\ instruction_list[c][i] \in Ids
        /\ node[instruction_list[c][i]].c_id = c
  BY ConstantFacts, ChainAssumption, ElementOfSeq, LenProperties
<1>3. f \in [Slots(Chains) -> Ids]
  BY <1>1, <1>2
<1>4. \A s, t \in Slots(Chains) : f[s] = f[t] => s = t
  <2> SUFFICES ASSUME NEW c \in Chains, NEW i \in DOMAIN instruction_list[c],
                      NEW d \in Chains, NEW j \in DOMAIN instruction_list[d],
                      instruction_list[c][i] = instruction_list[d][j]
               PROVE  <<c, i>> = <<d, j>>
    BY <1>1
  <2>1. c = d
    BY <1>2
  <2> QED BY <2>1, ChainAssumption
<1>5. \A n \in Ids : \E s \in Slots(Chains) : f[s] = n
  <2> SUFFICES ASSUME NEW n \in Ids PROVE \E s \in Slots(Chains) : f[s] = n
    OBVIOUS
  <2>1. PICK c \in Chains : \E i \in DOMAIN instruction_list[c] : instruction_list[c][i] = n
    BY ChainAssumption
  <2>2. PICK i \in DOMAIN instruction_list[c] : instruction_list[c][i] = n
    BY <2>1
  <2>3. <<c, i>> \in Slots(Chains)
    BY <1>1
  <2> QED BY <2>2, <2>3
<1>6. f \in Bijection(Slots(Chains), Ids)
  <2> HIDE DEF f
  <2> QED BY <1>3, <1>4, <1>5 DEF Bijection, Injection, Surjection, IsInjective
<1>7. ExistsBijection(Slots(Chains), Ids)
  BY <1>6 DEF ExistsBijection
<1>8. IsFiniteSet(Slots(Chains))
  BY SlotsFinite
<1>9. IsFiniteSet(Ids) /\ Cardinality(Ids) = Cardinality(Slots(Chains))
  BY <1>7, <1>8, FS_Bijection
<1> QED BY <1>9, FS_CardinalityType

(* A lane holds no more than the chunks have brought. *)
BacklogBounded ==
    \A l \in Lanes : Len(Pending(l)) + Cardinality(Slots(input_chain)) <= chunks * Cardinality(Ids)

(* Lanes that gain no instruction keep the bound. *)
LEMMA BacklogKept ==
    ASSUME CInv, BacklogBounded, UNCHANGED <<input_chain, chunks>>,
           \A l \in Lanes : Pending(l)' \in Seq(Ids) /\ Len(Pending(l)') <= Len(Pending(l))
    PROVE  BacklogBounded'
<1>1. Cardinality(Slots(input_chain)) \in Nat
  BY SlotsFinite DEF CInv, SInv, ScheduleTypes
<1>2. chunks * Cardinality(Ids) \in Nat
  BY SlotsAreIds DEF CInv, SInv, ScheduleTypes
<1>3. \A l \in Lanes : Len(Pending(l)) \in Nat /\ Len(Pending(l)') \in Nat
  <2>1. \A l \in Lanes : Pending(l) \in Seq(Ids)
    BY ExecutingPending DEF CInv, LInv, LanesOK, LaneTypeOK, Pending
  <2> QED BY <2>1, LenProperties
<1>4. \A l \in Lanes : Len(Pending(l)') + Cardinality(Slots(input_chain)) <= chunks * Cardinality(Ids)
  <2> SUFFICES ASSUME NEW l \in Lanes
               PROVE  Len(Pending(l)') + Cardinality(Slots(input_chain)) <= chunks * Cardinality(Ids)
    OBVIOUS
  <2>1. PICK a \in Nat, b \in Nat, x \in Nat, y \in Nat :
          /\ a = Len(Pending(l)) /\ b = Len(Pending(l)')
          /\ x = Cardinality(Slots(input_chain)) /\ y = chunks * Cardinality(Ids)
    BY <1>1, <1>2, <1>3
  <2>2. a + x <= y /\ b <= a
    BY <2>1 DEF BacklogBounded
  <2>3. b + x <= y
    BY <2>2
  <2> QED BY <2>1, <2>3
<1> QED BY <1>4 DEF BacklogBounded, Slots

(* Lane::run gives a lane no instruction. *)
LEMMA RunShortens ==
    ASSUME SInv, LInv, RunLane
    PROVE  \A m \in Lanes : Pending(m)' \in Seq(Ids) /\ Len(Pending(m)') <= Len(Pending(m))
<1>1. PICK l \in Lanes : l = cursor
  BY DEF SInv, CursorInPhase, RunLane
<1>2. PICK lane \in LaneState : lane = m_lanes[l]
  BY DEF LInv, LanesOK, LaneTypeOK
<1> DEFINE u == updateCounter(lane)
           f == fetch(execute(u))
<1>3. m_lanes' = [m_lanes EXCEPT ![l] = f]
  BY <1>1, <1>2 DEF RunLane, run
<1>4. /\ PendingOf(lane) \in Seq(Ids)
      /\ retires(u) => PendingOf(lane) # <<>> /\ PendingOf(f) = Tail(PendingOf(lane))
      /\ ~retires(u) => PendingOf(f) = PendingOf(lane)
  BY <1>2, RunPending
<1> HIDE DEF u, f
<1>5. PendingOf(f) \in Seq(Ids) /\ Len(PendingOf(f)) <= Len(PendingOf(lane))
  <2>1. Len(PendingOf(lane)) \in Nat
    BY <1>4, LenProperties
  <2>2. CASE retires(u)
    <3>1. Tail(PendingOf(lane)) \in Seq(Ids) /\ Len(Tail(PendingOf(lane))) = Len(PendingOf(lane)) - 1
      BY <1>4, <2>2, HeadTailProperties
    <3> QED BY <1>4, <2>1, <2>2, <3>1
  <2>3. CASE ~retires(u)
    BY <1>4, <2>1, <2>3
  <2> QED BY <2>2, <2>3
<1>6. \A m \in Lanes \ {l} : m_lanes'[m] = m_lanes[m] /\ PendingOf(m_lanes[m]) \in Seq(Ids)
  BY <1>3, ExecutingPending DEF LInv, LanesOK, LaneTypeOK
<1>7. \A m \in Lanes \ {l} : Len(PendingOf(m_lanes[m])) \in Nat
  BY <1>6, LenProperties
<1>8. m_lanes'[l] = f
  BY <1>3 DEF LInv, LanesOK, LaneTypeOK
<1> QED BY <1>2, <1>5, <1>6, <1>7, <1>8 DEF Pending

(* The bound when a chunk brings its chains, and when one of them is       *)
(* loaded; the load fits below the bound of the last chunk.                *)
LEMMA BacklogBegins ==
    ASSUME CInv, BacklogBounded, BeginChunk
    PROVE  BacklogBounded'
<1> DEFINE K == Cardinality(Ids)
<1>1. /\ chunks' = chunks + 1 /\ chunks \in Nat
      /\ input_chain = {} /\ input_chain' = Chains /\ m_lanes' = m_lanes
  <2>1. /\ phase = "host" /\ chunks' = chunks + 1 /\ m_lanes' = m_lanes
        /\ input_chain' = input_chain \cup Chains
    BY DEF BeginChunk, laneVars
  <2>2. chunks \in 0..MaxChunks /\ MaxChunks \in Nat
    BY ConstantFacts DEF CInv, SInv, ScheduleTypes
  <2>3. input_chain = {}
    BY <2>1 DEF CInv, SInv, CursorInPhase
  <2> QED BY <2>1, <2>2, <2>3
<1>2. K \in Nat /\ Cardinality(Slots(Chains)) = K
  BY SlotsAreIds
<1>3. Cardinality(Slots({})) = 0
  <2>1. Slots({}) = {}
    BY DEF Slots
  <2> QED BY <2>1, FS_EmptySet
<1>4. \A l \in Lanes : Len(Pending(l)) \in Nat
  <2>1. \A l \in Lanes : Pending(l) \in Seq(Ids)
    BY ExecutingPending DEF CInv, LInv, LanesOK, LaneTypeOK, Pending
  <2> QED BY <2>1, LenProperties
<1>5. \A l \in Lanes : Len(Pending(l)) + 0 <= chunks * K
  BY <1>1, <1>3 DEF BacklogBounded
<1> HIDE DEF K
<1>6. (chunks + 1) * K = chunks * K + K /\ chunks * K \in Nat
  BY <1>1, <1>2
<1>7. \A l \in Lanes : Len(Pending(l)) + K <= (chunks + 1) * K
  <2> SUFFICES ASSUME NEW l \in Lanes PROVE Len(Pending(l)) + K <= (chunks + 1) * K
    OBVIOUS
  <2>1. PICK a \in Nat, y \in Nat : a = Len(Pending(l)) /\ y = chunks * K
    BY <1>4, <1>6
  <2>2. a + K <= y + K
    BY <1>2, <1>5, <2>1
  <2> QED BY <1>6, <2>1, <2>2
<1> QED BY <1>1, <1>2, <1>7 DEF BacklogBounded, Pending, Slots, K

(* The arithmetic of a load. *)
LEMMA Sums ==
    \A a, x, s, y, z \in Nat :
        a + (s + x) <= y /\ y <= z => (a + x) + s <= y /\ a + s <= y /\ a + x <= z
OBVIOUS

(* More chunks bring no fewer instructions. *)
LEMMA ProductMonotone ==
    ASSUME NEW a \in Nat, NEW b \in Nat, NEW k \in Nat, a <= b
    PROVE  a * k \in Nat /\ b * k \in Nat /\ a * k <= b * k
<1>1. PICK d \in Nat : d = b - a
  OBVIOUS
<1>2. a * k \in Nat /\ d * k \in Nat
  OBVIOUS
<1>3. b = a + d
  BY <1>1
<1>4. (a + d) * k = a * k + d * k
  OBVIOUS
<1>5. PICK p \in Nat, q \in Nat : p = a * k /\ q = d * k
  BY <1>2
<1>6. p <= p + q /\ p + q \in Nat
  OBVIOUS
<1>7. b * k = p + q
  BY <1>3, <1>4, <1>5, Zenon
<1> QED BY <1>5, <1>6, <1>7, Zenon

(* The bound when a chain is loaded, which moves its instructions from     *)
(* input_chain to a lane.                                                  *)
LEMMA BacklogLoads ==
    ASSUME CInv, BacklogBounded, NEW l \in Lanes, NEW c \in Chains,
           c \in input_chain, input_chain' = input_chain \ {c}, chunks' = chunks,
           Pending(l)' = Pending(l) \o instruction_list[c],
           \A m \in Lanes \ {l} : Pending(m)' = Pending(m)
    PROVE  /\ BacklogBounded'
           /\ Len(Pending(l)) + Len(instruction_list[c]) <= MaxChunks * Cardinality(Ids)
<1>1. \A m \in Lanes : Pending(m) \in Seq(Ids) /\ Len(Pending(m)) \in Nat
  <2>1. \A m \in Lanes : Pending(m) \in Seq(Ids)
    BY ExecutingPending DEF CInv, LInv, LanesOK, LaneTypeOK, Pending
  <2> QED BY <2>1, LenProperties
<1>2. /\ Len(instruction_list[c]) \in Nat
      /\ Len(Pending(l)') = Len(Pending(l)) + Len(instruction_list[c])
  BY <1>1, ConstantFacts, ConcatProperties, LenProperties
<1>3. /\ input_chain \in SUBSET Chains
      /\ Cardinality(Slots(input_chain \ {c})) \in Nat
      /\ Cardinality(Slots(input_chain)) =
            Cardinality(Slots(input_chain \ {c})) + Len(instruction_list[c])
  <2>1. input_chain \in SUBSET Chains
    BY DEF CInv, SInv, ScheduleTypes
  <2>2. (input_chain \ {c}) \cup {c} = input_chain
    OBVIOUS
  <2>3. Cardinality(Slots((input_chain \ {c}) \cup {c})) =
          Cardinality(Slots(input_chain \ {c})) + Len(instruction_list[c])
    BY <2>1, SlotsAdd
  <2> QED BY <2>1, <2>2, <2>3, SlotsFinite
<1>4. /\ chunks \in Nat /\ chunks <= MaxChunks /\ MaxChunks \in Nat /\ Cardinality(Ids) \in Nat
      /\ chunks * Cardinality(Ids) \in Nat /\ MaxChunks * Cardinality(Ids) \in Nat
      /\ chunks * Cardinality(Ids) <= MaxChunks * Cardinality(Ids)
  <2>1. chunks \in Nat /\ chunks <= MaxChunks /\ MaxChunks \in Nat
    BY ConstantFacts DEF CInv, SInv, ScheduleTypes
  <2>2. Cardinality(Ids) \in Nat
    BY SlotsAreIds
  <2> QED BY <2>1, <2>2, ProductMonotone
<1>5. PICK x \in Nat, y \in Nat, z \in Nat, s \in Nat :
        /\ x = Len(instruction_list[c]) /\ y = chunks * Cardinality(Ids)
        /\ z = MaxChunks * Cardinality(Ids) /\ s = Cardinality(Slots(input_chain \ {c}))
  BY <1>2, <1>3, <1>4
<1>6. \A m \in Lanes : Len(Pending(m)) + (s + x) <= y
  BY <1>3, <1>5 DEF BacklogBounded
<1>7. \A m \in Lanes : Len(Pending(m)') + s <= y
  <2> SUFFICES ASSUME NEW m \in Lanes PROVE Len(Pending(m)') + s <= y
    OBVIOUS
  <2>1. Len(Pending(m)) \in Nat /\ Len(Pending(m)) + (s + x) <= y
    BY <1>1, <1>6
  <2>2. Len(Pending(m)') = Len(Pending(m)) + x \/ Len(Pending(m)') = Len(Pending(m))
    BY <1>2, <1>5, Zenon
  <2>3. y <= y
    OBVIOUS
  <2>4. (Len(Pending(m)) + x) + s <= y /\ Len(Pending(m)) + s <= y
    BY <2>1, <2>3, Sums, Zenon
  <2> QED BY <2>2, <2>4, Zenon
<1>8. BacklogBounded'
  BY <1>5, <1>7 DEF BacklogBounded, Slots
<1>9. Len(Pending(l)) + x <= z
  <2>1. y <= z
    BY <1>4, <1>5, Zenon
  <2>2. Len(Pending(l)) \in Nat /\ Len(Pending(l)) + (s + x) <= y
    BY <1>1, <1>6, Zenon
  <2> QED BY <2>1, <2>2, Sums, Zenon
<1> QED BY <1>5, <1>8, <1>9

(* The lanes' view of a step: ooo_scheduler loads a free lane,             *)
(* update_mem_exe wakes a stalled one, and a cycle begins with the lanes'  *)
(* queues drained.                                                         *)
LEMMA PipelineStep ==
    ASSUME CInv, BacklogBounded, [Next]_vars
    PROVE  BacklogBounded' /\ [Pipeline!Next]_(Pipeline!vars)
<1> USE DEF coreVars, laneVars, Return
<1>0. /\ SInv /\ LInv /\ MP!IInv /\ LanesInPhase /\ CursorInPhase
      /\ \A l \in Lanes : Pending(l) \in Seq(Ids) /\ Len(Pending(l)) \in Nat
  <2>1. \A l \in Lanes : Pending(l) \in Seq(Ids)
    BY ExecutingPending DEF CInv, LInv, LanesOK, LaneTypeOK, Pending
  <2> QED BY <2>1, LenProperties DEF CInv, LInv, SInv
<1>1. ASSUME UNCHANGED <<m_lanes, input_chain, chunks>> PROVE BacklogBounded'
  <2>1. \A l \in Lanes : Pending(l)' = Pending(l)
    BY <1>1 DEF Pending
  <2> QED BY <1>0, <1>1, <2>1, BacklogKept
<1>2. ASSUME UNCHANGED laneVars, phase # "lanes", phase' # "lanes"
      PROVE  [Pipeline!Next]_(Pipeline!vars)
  BY <1>2 DEF Pipeline!vars, Pipeline!laneVars, ranLanes
<1>3. ASSUME UNCHANGED laneVars, phase \in {"presched", "finish"}, phase' = "lanes", cursor' = 0
      PROVE  [Pipeline!Next]_(Pipeline!vars)
  <2>1. ranLanes = Lanes /\ ranLanes' = {}
    BY <1>3 DEF ranLanes
  <2>2. mem_req_queue = <<>> /\ finished_chains = <<>>
    BY <1>0, <1>3 DEF LanesInPhase
  <2> QED BY <1>3, <2>1, <2>2 DEF Pipeline!Next, Pipeline!NewCycle, Pipeline!laneVars
<1>4. CASE BeginChunk
  BY <1>0, <1>2, <1>4, BacklogBegins DEF BeginChunk
<1>5. CASE Preschedule
  <2>1. /\ UNCHANGED <<m_lanes, finished_chains, mem_req_queue, input_chain, chunks>>
        /\ phase = "presched"
        /\ phase' = "presched" \/ (phase' = "lanes" /\ cursor' = 0)
    BY <1>5 DEF Preschedule, Loop
  <2> QED BY <1>1, <1>2, <1>3, <2>1
<1>6. CASE RunLane
  <2>1. PICK l \in Lanes : l = cursor
    BY <1>0, <1>6 DEF CursorInPhase, RunLane
  <2>2. ranLanes = 0..(l - 1) /\ ranLanes' = ranLanes \cup {l}
    <3>1. phase = "lanes"
          /\ (l < num_lanes - 1 => phase' = "lanes" /\ cursor' = l + 1)
          /\ (~(l < num_lanes - 1) => phase' = "ruby")
      BY <1>6, <2>1 DEF RunLane, Loop
    <3>2. l \in 0..(num_lanes - 1) /\ Lanes = 0..(num_lanes - 1) /\ num_lanes \in Nat
      BY ConstantFacts
    <3>3. ranLanes = 0..(l - 1)
      BY <2>1, <3>1 DEF ranLanes
    <3>6. 0..l = 0..(l - 1) \cup {l}
      BY <3>2
    <3>4. CASE l < num_lanes - 1
      <4>1. ranLanes' = 0..((l + 1) - 1)
        BY <3>1, <3>4 DEF ranLanes
      <4>2. (l + 1) - 1 = l
        BY <3>2
      <4> QED BY <3>3, <3>6, <4>1, <4>2
    <3>5. CASE ~(l < num_lanes - 1)
      <4>1. ranLanes' = Lanes
        BY <3>1, <3>5 DEF ranLanes
      <4>2. num_lanes - 1 = l
        BY <3>2, <3>5
      <4> QED BY <3>2, <3>3, <3>6, <4>1, <4>2
    <3> QED BY <3>3, <3>4, <3>5
  <2>3. l \notin ranLanes
    BY <2>2, ConstantFacts
  <2>4. Pipeline!run(l)
    BY <1>6, <2>1, SMTT(40) DEF RunLane, run, Pipeline!run, updateCounter, Pipeline!updateCounter,
         retires, Pipeline!retires, issues, Pipeline!issues, isMemory, Pipeline!isMemory,
         fetch, Pipeline!fetch, FetchCycles, Pipeline!FetchCycles,
         execute, Pipeline!execute, exeDelay, Pipeline!exeDelay
  <2>5. Pipeline!Run(l)
    BY <2>2, <2>3, <2>4 DEF Pipeline!Run
  <2>6. BacklogBounded'
    BY <1>0, <1>6, RunShortens, BacklogKept DEF RunLane
  <2> QED BY <2>5, <2>6 DEF Pipeline!Next
<1>7. CASE SendMemoryReq
  <2>1. Pipeline!PopMemReq
    BY <1>7 DEF SendMemoryReq, Pipeline!PopMemReq, ranLanes
  <2>2. UNCHANGED <<m_lanes, input_chain, chunks>>
    BY <1>7 DEF SendMemoryReq
  <2> QED BY <1>1, <2>1, <2>2 DEF Pipeline!Next
<1>8. CASE WakeLane
  <2>1. PICK l \in Lanes : IsStalled(l) /\ wakeLane(l)
    BY <1>0, <1>8, WakeStep
  <2>2. /\ phase = "wake" /\ phase' = "wake" /\ UNCHANGED <<input_chain, chunks>>
    BY <1>8 DEF WakeLane
  <2>3. Pipeline!Wake(l)
    BY <2>1, <2>2 DEF Pipeline!Wake, IsStalled, wakeLane, Pipeline!wakeLane, ranLanes
  <2>4. \A m \in Lanes : PendingOf(m_lanes'[m]) = PendingOf(m_lanes[m])
    BY <1>0, <2>1 DEF LInv, LanesOK, LaneTypeOK, LaneState, wakeLane, PendingOf
  <2>5. BacklogBounded'
    BY <1>0, <2>2, <2>4, BacklogKept DEF Pending
  <2> QED BY <2>3, <2>5 DEF Pipeline!Next
<1>9. CASE UpdateChains
  <2>1. Pipeline!PopFinished
    BY <1>9 DEF UpdateChains, Pipeline!PopFinished, ranLanes
  <2>2. UNCHANGED <<m_lanes, input_chain, chunks>>
    BY <1>9 DEF UpdateChains
  <2> QED BY <1>1, <2>1, <2>2 DEF Pipeline!Next
<1>10. CASE Schedule
  <2>1. PICK l \in Lanes : l = cursor /\ phase = "sched"
    BY <1>0, <1>10 DEF CursorInPhase, Schedule
  <2>2. phase' \in {"sched", "finish"} /\ chunks' = chunks
    BY <1>10, <2>1 DEF Schedule, Loop
  <2>3. CASE is_free(m_lanes[l]) /\ ReadyChains(l) # {}
    <3>1. PICK c \in Chains :
            /\ c \in input_chain /\ input_chain' = input_chain \ {c}
            /\ LoadInstructionQueue(l, instruction_list[c])
            /\ Pending(l)' = Pending(l) \o instruction_list[c]
            /\ \A m \in Lanes \ {l} : Pending(m)' = Pending(m)
      BY <1>0, <1>10, <2>1, <2>3, LoadStep
    <3>2. /\ BacklogBounded'
          /\ Len(Pending(l)) + Len(instruction_list[c]) <= MaxChunks * Cardinality(Ids)
      BY <2>2, <3>1, BacklogLoads
    <3>3. Pipeline!Load(l, instruction_list[c])
      <4>1. ranLanes = Lanes /\ ranLanes' = Lanes
        BY <2>1, <2>2 DEF ranLanes
      <4>2. Pipeline!Pending(l) = Pending(l) /\ Pipeline!is_free(m_lanes[l])
        BY <2>3 DEF Pipeline!Pending, Pending, Pipeline!PendingOf, PendingOf, is_free,
                    Pipeline!is_free
      <4>3. Pipeline!LoadInstructionQueue(l, instruction_list[c])
        BY <3>1 DEF LoadInstructionQueue, Pipeline!LoadInstructionQueue
      <4> QED BY <3>2, <4>1, <4>2, <4>3 DEF Pipeline!Load
    <3> QED BY <3>2, <3>3 DEF Pipeline!Next
  <2>4. CASE ~(is_free(m_lanes[l]) /\ ReadyChains(l) # {})
    <3>1. UNCHANGED <<m_lanes, finished_chains, mem_req_queue, input_chain>>
      BY <1>10, <2>1, <2>4 DEF Schedule
    <3> QED BY <1>1, <1>2, <2>1, <2>2, <3>1
  <2> QED BY <2>3, <2>4
<1>11. CASE EndCycle
  <2>1. /\ UNCHANGED <<m_lanes, finished_chains, mem_req_queue, input_chain, chunks, cursor>>
        /\ phase = "finish" /\ phase' \in {"host", "lanes"}
    BY <1>11 DEF EndCycle
  <2>2. cursor' = 0
    BY <1>0, <2>1 DEF CursorInPhase
  <2> QED BY <1>1, <1>2, <1>3, <2>1, <2>2
<1>12. CASE \/ AdvanceTimeReturns \/ SendMemoryReqReturns \/ Access \/ ProcessMshr
           \/ RecvRespReturns \/ UpdateMemExeReturns \/ UpdateChainsReturns
           \/ \E line \in Lines : Callback(line)
  <2>1. /\ UNCHANGED <<m_lanes, finished_chains, mem_req_queue, input_chain, chunks>>
        /\ phase # "lanes" /\ phase' # "lanes"
    BY <1>12 DEF AdvanceTimeReturns, SendMemoryReqReturns, Access, ProcessMshr,
                 RecvRespReturns, UpdateMemExeReturns, UpdateChainsReturns, Callback
  <2> QED BY <1>1, <1>2, <2>1
<1>13. CASE UNCHANGED vars
  <2>1. UNCHANGED <<m_lanes, finished_chains, mem_req_queue, input_chain, chunks, phase, cursor>>
    BY <1>13 DEF vars
  <2>2. UNCHANGED Pipeline!vars
    BY <2>1 DEF Pipeline!vars, Pipeline!laneVars, ranLanes
  <2> QED BY <1>1, <2>1, <2>2
<1> QED BY <1>4, <1>5, <1>6, <1>7, <1>8, <1>9, <1>10, <1>11, <1>12, <1>13
        DEF Next, Step, EndOfTrace

(* The core touches its lanes only as LanePipeline allows: a lane is       *)
(* loaded only when is_free() says so, woken only when it is stalled, and  *)
(* a cycle starts only after the lanes' queues have been drained.          *)
THEOREM CoreImplementsLanePipeline == Spec => ImplementsLanePipeline
<1>1. Init => Pipeline!Init /\ BacklogBounded
  <2> SUFFICES ASSUME Init PROVE Pipeline!Init /\ BacklogBounded
    OBVIOUS
  <2>1. Pipeline!Init
    BY DEF Init, LaneInit, Pipeline!Init, Pipeline!LaneInit, ranLanes
  <2>2. \A l \in Lanes : Pending(l) = <<>>
    <3>1. \A l \in Lanes : /\ m_lanes[l].instruction_queue = <<>>
                           /\ m_lanes[l].fetch_stack = <<>>
                           /\ m_lanes[l].exe_stack = <<>>
      BY DEF Init, LaneInit
    <3> QED BY <3>1 DEF Pending, PendingOf
  <2>3. Cardinality(Slots(input_chain)) = 0
    <3>1. Slots(input_chain) = {}
      BY DEF Init, Slots
    <3> QED BY <3>1, FS_EmptySet
  <2>4. chunks * Cardinality(Ids) = 0
    BY SlotsAreIds DEF Init
  <2>5. \A l \in Lanes : Len(Pending(l)) = 0
    BY <2>2
  <2> QED BY <2>1, <2>3, <2>4, <2>5 DEF BacklogBounded
<1>2. CInv /\ BacklogBounded /\ [Next]_vars => BacklogBounded'
  BY PipelineStep
<1>3. CInv /\ BacklogBounded /\ [Next]_vars => [Pipeline!Next]_(Pipeline!vars)
  BY PipelineStep
<1> QED BY <1>1, <1>2, <1>3, CycleInvariant, PTL DEF Spec, ImplementsLanePipeline, Pipeline!Spec

-----------------------------------------------------------------------------
(***************************************************************************)
(* is_finish() means what it is documented to mean, for every program in   *)
(* which an instruction that is slow, or stalls until Ruby answers, is the *)
(* last of its chain: each chunk runs every instruction once, and a chain  *)
(* is loaded only after each chain it depends on has begun to retire.      *)
(***************************************************************************)

LanesCovered == \A l \in Lanes : Covered(m_lanes[l])

IsPending(n) == \E l \in Lanes : n \in Elements(Pending(l))

(* The instruction has still to run in this chunk: its chain has not been  *)
(* loaded, or a lane holds it.                                             *)
Waits(n) == node[n].c_id \in input_chain \/ IsPending(n)

(* A lane holds an instruction once, no lane holds one of a chain that has *)
(* not been loaded, and retired counts the chunks an instruction ran in.   *)
Counted ==
    /\ retired \in [Ids -> Nat]
    /\ \A l \in Lanes : Distinct(Pending(l))
    /\ \A n \in Ids : node[n].c_id \in input_chain => ~IsPending(n)
    /\ \A n \in Ids : retired[n] = IF Waits(n) THEN chunks - 1 ELSE chunks

(* Chain p has retired an instruction in this chunk. *)
Started(p) == \E n \in IdsOf(p) : retired[n] >= chunks

(* What depen_table stands for: only a chain that has started is reported  *)
(* and cleared from it, and only a chain that waits for none is loaded.    *)
ClearedStarted ==
    /\ \A p \in Elements(finished_chains) : Started(p)
    /\ chunks # 0 =>
          \A p, c \in Chains : c \in un_dependencies[p] =>
              /\ Started(p) \/ <<c, p>> \in depen_table
              /\ c \in input_chain \/ Started(p)

FInv == LanesCovered /\ Counted /\ ClearedStarted

-----------------------------------------------------------------------------
(* What a lane holds is a list of instructions. *)
LEMMA PendingTypes ==
    ASSUME LInv
    PROVE  \A l \in Lanes : /\ m_lanes[l] \in LaneState
                            /\ Pending(l) \in Seq(Ids)
                            /\ Elements(Pending(l)) \in SUBSET Ids
BY ExecutingPending DEF LInv, LanesOK, LaneTypeOK, Pending

(* An instruction is on the list of its chain, and on no other, once. *)
LEMMA ChainMembers ==
    /\ \A n \in Ids : node[n].c_id \in Chains /\ n \in IdsOf(node[n].c_id)
    /\ \A c \in Chains : \A n \in Elements(instruction_list[c]) : n \in Ids /\ node[n].c_id = c
    /\ \A c \in Chains : Distinct(instruction_list[c])
    /\ \A c \in Chains : IdsOf(c) \in SUBSET Ids
<1>1. \A c \in Chains : \A i \in DOMAIN instruction_list[c] : instruction_list[c][i] \in Ids
  BY ConstantFacts, ElementOfSeq, LenProperties
<1>2. \A n \in Ids : node[n].c_id \in Chains /\ n \in IdsOf(node[n].c_id)
  BY ChainAssumption DEF IdsOf
<1>3. \A c \in Chains : \A n \in Elements(instruction_list[c]) : n \in Ids /\ node[n].c_id = c
  BY <1>1, ChainAssumption DEF Elements
<1>4. \A c \in Chains : Distinct(instruction_list[c])
  BY ChainAssumption DEF Distinct
<1> QED BY <1>1, <1>2, <1>3, <1>4 DEF IdsOf

(* Steps that neither retire nor load, and begin no chunk. *)
LEMMA FinishUnchanged ==
    ASSUME FInv, UNCHANGED <<m_lanes, input_chain, chunks, retired>>,
           ClearedStarted'
    PROVE  FInv'
<1>1. LanesCovered'
  BY DEF FInv, LanesCovered
<1>2. Counted'
  BY DEF FInv, Counted, Waits, IsPending, Pending
<1> QED BY <1>1, <1>2 DEF FInv

(* Steps that leave the table, the reports and the counts alone. *)
LEMMA ClearedUnchanged ==
    ASSUME FInv, UNCHANGED <<input_chain, chunks, retired, finished_chains, depen_table>>
    PROVE  ClearedStarted'
BY DEF FInv, ClearedStarted, Started

(* At the start nothing waits and nothing has retired. *)
LEMMA InitFinish == Init => FInv
<1> SUFFICES ASSUME Init PROVE FInv
  OBVIOUS
<1>1. \A l \in Lanes : /\ m_lanes[l].instruction_queue = <<>>
                       /\ m_lanes[l].fetch_stack = <<>>
                       /\ m_lanes[l].exe_stack = <<>>
                       /\ m_lanes[l].fetch_cnt = 0 /\ m_lanes[l].exe_cnt = 0
  BY DEF Init, LaneInit
<1>2. LanesCovered
  BY <1>1, EmptyCovered DEF LanesCovered
<1>3. \A l \in Lanes : Pending(l) = <<>>
  <2>1. <<>> \o <<>> = <<>>
    OBVIOUS
  <2> QED BY <1>1, <2>1 DEF Pending, PendingOf
<1>4. \A l \in Lanes : Elements(Pending(l)) = {} /\ Distinct(Pending(l))
  BY <1>3 DEF Elements, Distinct
<1>5. \A n \in Ids : ~Waits(n) /\ ~IsPending(n)
  BY <1>4 DEF Waits, IsPending, Init
<1>6. Counted
  BY <1>4, <1>5 DEF Counted, Init
<1>7. ClearedStarted
  BY DEF ClearedStarted, Init, LaneInit, Elements
<1> QED BY <1>2, <1>6, <1>7 DEF FInv

(* The lane retires the instruction at the head of what it holds, which no *)
(* lane holds any more.                                                    *)
LEMMA RunFinish ==
    ASSUME SInv, LInv, FInv, RunLane
    PROVE  FInv'
<1>1. PICK l \in Lanes : l = cursor
  BY DEF SInv, CursorInPhase, RunLane
<1>2. PICK lane \in LaneState : lane = m_lanes[l] /\ Covered(lane)
  BY DEF LInv, LanesOK, LaneTypeOK, FInv, LanesCovered
<1> DEFINE u == updateCounter(lane)
           f == fetch(execute(u))
           h == Head(u.exe_stack)
<1>3. /\ m_lanes' = [m_lanes EXCEPT ![l] = f]
      /\ finished_chains' = IF retires(u) THEN Append(finished_chains, node[h].c_id)
                            ELSE finished_chains
      /\ retired' = IF retires(u) THEN [retired EXCEPT ![h] = @ + 1] ELSE retired
      /\ UNCHANGED <<input_chain, chunks, depen_table>>
  BY <1>1, <1>2 DEF RunLane, run, coreVars
<1>4. /\ PendingOf(lane) \in Seq(Ids)
      /\ retires(u) => /\ PendingOf(lane) # <<>>
                       /\ Head(PendingOf(lane)) = h
                       /\ PendingOf(f) = Tail(PendingOf(lane))
      /\ ~retires(u) => PendingOf(f) = PendingOf(lane)
  BY <1>2, RunPending
<1>5. Covered(f)
  BY <1>2, RunCovered
<1> HIDE DEF u, f, h
<1>6. m_lanes'[l] = f /\ \A m \in Lanes \ {l} : m_lanes'[m] = m_lanes[m]
  BY <1>3 DEF LInv, LanesOK, LaneTypeOK
<1>7. LanesCovered'
  BY <1>5, <1>6 DEF FInv, LanesCovered
<1>8. /\ Pending(l)' = PendingOf(f) /\ Pending(l) = PendingOf(lane)
      /\ \A m \in Lanes \ {l} : Pending(m)' = Pending(m)
  BY <1>2, <1>6 DEF Pending
<1>9. CASE ~retires(u)
  <2>1. \A m \in Lanes : Pending(m)' = Pending(m)
    BY <1>4, <1>8, <1>9
  <2>2. \A n : IsPending(n)' <=> IsPending(n)
    BY <2>1 DEF IsPending, Elements
  <2>3. \A n : Waits(n)' <=> Waits(n)
    BY <1>3, <2>2 DEF Waits
  <2>4. retired' = retired
    BY <1>3, <1>9
  <2>5. Counted'
    <3>1. \A m \in Lanes : Distinct(Pending(m)')
      BY <2>1 DEF FInv, Counted
    <3>2. \A n \in Ids : node[n].c_id \in input_chain' => ~IsPending(n)'
      BY <1>3, <2>2 DEF FInv, Counted
    <3>3. \A n \in Ids : retired'[n] = IF Waits(n)' THEN chunks' - 1 ELSE chunks'
      BY <1>3, <2>3, <2>4 DEF FInv, Counted
    <3>4. retired' \in [Ids -> Nat]
      BY <2>4 DEF FInv, Counted
    <3> QED BY <3>1, <3>2, <3>3, <3>4 DEF Counted, Distinct
  <2>6. ClearedStarted'
    BY <1>3, <1>9, <2>4, ClearedUnchanged
  <2> QED BY <1>7, <2>5, <2>6 DEF FInv
<1>10. CASE retires(u)
  <2>1. /\ h \in Ids /\ h \in Elements(Pending(l))
        /\ Pending(l)' \in Seq(Ids)
        /\ Elements(Pending(l)') = Elements(Pending(l)) \ {h}
        /\ Distinct(Pending(l)')
    <3>1. Distinct(PendingOf(lane))
      BY <1>8 DEF FInv, Counted
    <3>2. /\ Tail(PendingOf(lane)) \in Seq(Ids) /\ h \in Ids
          /\ h \in Elements(PendingOf(lane))
          /\ Elements(Tail(PendingOf(lane))) = Elements(PendingOf(lane)) \ {h}
          /\ Distinct(Tail(PendingOf(lane)))
      BY <1>4, <1>10, <3>1, PopDistinct
    <3> QED BY <1>4, <1>8, <1>10, <3>2
  <2>2. \A m \in Lanes \ {l} : h \notin Elements(Pending(m))
    BY <2>1 DEF LInv, PendingHome
  <2>3. IsPending(h) /\ node[h].c_id \notin input_chain
    BY <2>1 DEF IsPending, FInv, Counted
  <2>4. ~IsPending(h)'
    <3>1. \A m \in Lanes : h \notin Elements(Pending(m)')
      BY <1>8, <2>1, <2>2
    <3> QED BY <3>1 DEF IsPending, Elements
  <2>5. \A n \in Ids \ {h} : IsPending(n)' <=> IsPending(n)
    <3>1. \A n \in Ids \ {h} : \A m \in Lanes :
            n \in Elements(Pending(m)') <=> n \in Elements(Pending(m))
      BY <1>8, <2>1
    <3> QED BY <3>1 DEF IsPending, Elements
  <2>6. chunks \in Nat
    BY ConstantFacts DEF SInv, ScheduleTypes
  <2>7. /\ retired[h] \in Nat /\ retired[h] = chunks - 1
        /\ retired' = [retired EXCEPT ![h] = retired[h] + 1]
    BY <1>3, <1>10, <2>1, <2>3 DEF FInv, Counted, Waits
  <2>8. retired' \in [Ids -> Nat] /\ retired'[h] = chunks
        /\ \A n \in Ids \ {h} : retired'[n] = retired[n]
    BY <2>1, <2>6, <2>7 DEF FInv, Counted
  <2>9. ~Waits(h)' /\ \A n \in Ids \ {h} : Waits(n)' <=> Waits(n)
    BY <1>3, <2>3, <2>4, <2>5 DEF Waits
  <2>10. Counted'
    <3>1. \A m \in Lanes : Distinct(Pending(m)')
      BY <1>8, <2>1 DEF FInv, Counted
    <3>2. \A n \in Ids : node[n].c_id \in input_chain' => ~IsPending(n)'
      BY <1>3, <2>3, <2>5 DEF FInv, Counted
    <3>3. \A n \in Ids : retired'[n] = IF Waits(n)' THEN chunks' - 1 ELSE chunks'
      BY <1>3, <2>8, <2>9 DEF FInv, Counted
    <3> QED BY <2>8, <3>1, <3>2, <3>3 DEF Counted, Distinct
  <2>11. \A p \in Chains : Started(p) => Started(p)'
    <3> SUFFICES ASSUME NEW p \in Chains, NEW n \in IdsOf(p), retired[n] >= chunks
                 PROVE  Started(p)'
      BY DEF Started
    <3>1. n \in Ids
      BY ChainMembers
    <3>2. retired'[n] >= chunks'
      BY <1>3, <2>6, <2>8, <3>1
    <3> QED BY <3>2 DEF Started
  <2>12. node[h].c_id \in Chains /\ Started(node[h].c_id)'
    <3>1. node[h].c_id \in Chains /\ h \in IdsOf(node[h].c_id)
      BY <2>1, ChainMembers
    <3>2. retired'[h] >= chunks'
      BY <1>3, <2>6, <2>8
    <3> QED BY <3>1, <3>2 DEF Started
  <2>13. \A p \in Elements(finished_chains') : Started(p)'
    <3> DEFINE C == {node[n].c_id : n \in Ids}
    <3>1. finished_chains \in Seq(C) /\ C \in SUBSET Chains /\ node[h].c_id \in C
      BY <2>1, ChainMembers DEF LInv, LanesOK, LaneTypeOK
    <3> HIDE DEF C
    <3>2. finished_chains' = Append(finished_chains, node[h].c_id)
      BY <1>3, <1>10
    <3>3. Elements(finished_chains') = Elements(finished_chains) \cup {node[h].c_id}
      BY <3>1, <3>2, PushDistinct
    <3>4. Elements(finished_chains) \in SUBSET Chains
      BY <3>1, ElementOfSeq, LenProperties DEF Elements
    <3> QED BY <2>11, <2>12, <3>3, <3>4 DEF FInv, ClearedStarted
  <2>14. ClearedStarted'
    BY <1>3, <2>11, <2>13 DEF FInv, ClearedStarted
  <2> QED BY <1>7, <2>10, <2>14 DEF FInv
<1> QED BY <1>9, <1>10


(* ooo_scheduler loads a chain of this chunk into a lane that is empty.    *)
LEMMA LoadFinish ==
    ASSUME SlowEndsChains, FInv, LInv, SInv, NEW l \in Lanes, NEW c \in Chains, is_free(m_lanes[l]),
           c \in input_chain, input_chain' = input_chain \ {c},
           \A p \in Chains : <<c, p>> \notin depen_table,
           LoadInstructionQueue(l, instruction_list[c]),
           Pending(l)' = Pending(l) \o instruction_list[c],
           \A m \in Lanes \ {l} : Pending(m)' = Pending(m),
           UNCHANGED <<chunks, retired, depen_table>>
    PROVE  FInv'
<1>1. /\ m_lanes' = [m_lanes EXCEPT ![l].instruction_queue = @ \o instruction_list[c]]
      /\ finished_chains' = finished_chains
  BY DEF LoadInstructionQueue
<1>2. LanesCovered'
  <2>1. /\ m_lanes'[l] = [m_lanes[l] EXCEPT !.instruction_queue = @ \o instruction_list[c]]
        /\ \A m \in Lanes \ {l} : m_lanes'[m] = m_lanes[m]
        /\ m_lanes[l] \in LaneState
    BY <1>1 DEF LInv, LanesOK, LaneTypeOK
  <2>2. instruction_list[c] \in Seq(Ids) /\ SlowIsLast(instruction_list[c])
    BY ConstantFacts DEF SlowEndsChains
  <2>3. Covered(m_lanes'[l])
    BY <2>1, <2>2, LoadCovered DEF FInv, LanesCovered
  <2> QED BY <2>1, <2>3 DEF FInv, LanesCovered
<1>3. Pending(l)' = instruction_list[c] /\ Pending(l) = <<>>
  <2>1. Pending(l) = <<>>
    BY PendingTypes, FreeCovered DEF Pending, FInv, LanesCovered
  <2>2. instruction_list[c] \in Seq(Ids)
    BY ConstantFacts
  <2>3. <<>> \o instruction_list[c] = instruction_list[c]
    BY <2>2, ConcatEmptySeq
  <2> QED BY <2>1, <2>3
<1>4. /\ Elements(Pending(l)) = {}
      /\ \A n \in Ids : n \in Elements(Pending(l)') <=> node[n].c_id = c
  <2>1. Elements(Pending(l)) = {}
    BY <1>3 DEF Elements
  <2>2. \A n \in Ids : node[n].c_id = c => n \in Elements(instruction_list[c])
    BY ChainMembers DEF IdsOf, Elements
  <2> QED BY <1>3, <2>1, <2>2, ChainMembers
<1>5. \A n \in Ids : IsPending(n)' <=> IsPending(n) \/ node[n].c_id = c
  <2>1. \A n \in Ids : (\E m \in Lanes : n \in Elements(Pending(m)')) <=>
                          (\E m \in Lanes : n \in Elements(Pending(m))) \/ node[n].c_id = c
    BY <1>4
  <2> QED BY <2>1 DEF IsPending, Elements
<1>6. \A n \in Ids : Waits(n)' <=> Waits(n)
  BY <1>5 DEF Waits
<1>7. Counted'
  <2>1. \A m \in Lanes : Distinct(Pending(m)')
    BY <1>3, ChainMembers DEF FInv, Counted
  <2>2. \A n \in Ids : node[n].c_id \in input_chain' => ~IsPending(n)'
    BY <1>5 DEF FInv, Counted
  <2>3. \A n \in Ids : retired'[n] = IF Waits(n)' THEN chunks' - 1 ELSE chunks'
    BY <1>6 DEF FInv, Counted
  <2>4. retired' \in [Ids -> Nat]
    BY DEF FInv, Counted
  <2> QED BY <2>1, <2>2, <2>3, <2>4 DEF Counted, Distinct
<1>8. \A p : Started(p)' <=> Started(p)
  BY DEF Started
<1>9. ClearedStarted'
  BY <1>1, <1>8 DEF FInv, ClearedStarted
<1> QED BY <1>2, <1>7, <1>9 DEF FInv

(* A chunk begins when nothing waits, and then everything does. *)
LEMMA BeginFinish ==
    ASSUME FInv, LInv, SInv, BeginChunk
    PROVE  FInv'
<1>1. /\ phase = "host" /\ chunks' = chunks + 1 /\ m_lanes' = m_lanes
      /\ input_chain' = input_chain \cup Chains
      /\ depen_table' = depen_table \cup initialize_depen_table
      /\ finished_chains' = finished_chains /\ retired' = retired
  BY DEF BeginChunk, laneVars
<1>2. /\ input_chain = {} /\ input_chain' = Chains /\ finished_chains = <<>>
      /\ \A l \in Lanes : is_free(m_lanes[l])
      /\ chunks \in Nat
  <2>1. input_chain = {} /\ input_chain' = Chains
    BY <1>1 DEF SInv, CursorInPhase
  <2>2. finished_chains = <<>> /\ \A l \in Lanes : is_free(m_lanes[l])
    BY <1>1 DEF LInv, LanesInPhase
  <2>3. chunks \in Nat
    BY ConstantFacts DEF SInv, ScheduleTypes
  <2> QED BY <2>1, <2>2, <2>3
<1>3. \A l \in Lanes : Pending(l) = <<>> /\ Pending(l)' = <<>>
  <2>1. \A l \in Lanes : PendingOf(m_lanes[l]) = <<>>
    BY <1>2, PendingTypes, FreeCovered DEF FInv, LanesCovered
  <2> QED BY <1>1, <2>1 DEF Pending
<1>4. \A n : ~IsPending(n) /\ ~IsPending(n)'
  <2>1. \A l \in Lanes : Elements(Pending(l)) = {} /\ Elements(Pending(l)') = {}
    BY <1>3 DEF Elements
  <2> QED BY <2>1 DEF IsPending, Elements
<1>5. \A n \in Ids : ~Waits(n) /\ Waits(n)'
  BY <1>2, <1>4, ChainMembers DEF Waits
<1>6. LanesCovered'
  BY <1>1 DEF FInv, LanesCovered
<1>7. Counted'
  <2>1. \A l \in Lanes : Distinct(Pending(l)')
    BY <1>3 DEF Distinct
  <2>2. \A n \in Ids : retired'[n] = chunks' - 1
    BY <1>1, <1>2, <1>5 DEF FInv, Counted
  <2>3. \A n \in Ids : retired'[n] = IF Waits(n)' THEN chunks' - 1 ELSE chunks'
    BY <1>5, <2>2
  <2>4. \A n \in Ids : node[n].c_id \in input_chain' => ~IsPending(n)'
    BY <1>4
  <2>5. retired' \in [Ids -> Nat]
    BY <1>1 DEF FInv, Counted
  <2> QED BY <2>1, <2>3, <2>4, <2>5 DEF Counted, Distinct
<1>8. \A p, c \in Chains : c \in un_dependencies[p] => <<c, p>> \in depen_table'
  BY <1>1 DEF initialize_depen_table
<1>9. Elements(finished_chains') = {}
  BY <1>1, <1>2 DEF Elements
<1>10. ClearedStarted'
  BY <1>2, <1>8, <1>9 DEF ClearedStarted
<1> QED BY <1>6, <1>7, <1>10 DEF FInv

(* updateChains clears the row entries of a chain that has started. *)
LEMMA UpdateChainsFinish ==
    ASSUME FInv, LInv, UpdateChains
    PROVE  FInv'
<1>1. /\ finished_chains # <<>> /\ finished_chains' = Tail(finished_chains)
      /\ depen_table' = depen_table \ Released(Head(finished_chains))
      /\ UNCHANGED <<m_lanes, input_chain, chunks, retired>>
  BY DEF UpdateChains
<1> DEFINE C == {node[n].c_id : n \in Ids}
<1>2. finished_chains \in Seq(C)
  BY DEF LInv, LanesOK, LaneTypeOK
<1> HIDE DEF C
<1>3. Elements(finished_chains') \in SUBSET Elements(finished_chains)
      /\ Head(finished_chains) \in Elements(finished_chains)
  BY <1>1, <1>2, TailElements
<1>4. Started(Head(finished_chains))
  BY <1>3 DEF FInv, ClearedStarted
<1>5. \A p : Started(p)' <=> Started(p)
  BY <1>1 DEF Started
<1>6. \A p, c \in Chains : <<c, p>> \in depen_table => <<c, p>> \in depen_table' \/ Started(p)
  BY <1>1, <1>4 DEF Released
<1>7. ClearedStarted'
  BY <1>1, <1>3, <1>5, <1>6 DEF FInv, ClearedStarted
<1> QED BY <1>1, <1>7, FinishUnchanged

(* update_mem_exe wakes a lane that is stalled on the last instruction of  *)
(* its chain, and changes nothing the lanes hold.                          *)
LEMMA WakeFinish ==
    ASSUME FInv, LInv, SInv, MP!IInv, WakeLane
    PROVE  FInv'
<1>1. PICK l \in Lanes : IsStalled(l) /\ wakeLane(l)
  BY WakeStep
<1>2. /\ m_lanes'[l] = [m_lanes[l] EXCEPT !.exe_cnt = 0]
      /\ \A m \in Lanes \ {l} : m_lanes'[m] = m_lanes[m]
      /\ \A m \in Lanes : m_lanes[m] \in LaneState
      /\ finished_chains' = finished_chains
  BY <1>1 DEF wakeLane, LInv, LanesOK, LaneTypeOK
<1>3. UNCHANGED <<input_chain, chunks, retired, depen_table>>
  BY DEF WakeLane, coreVars
<1>4. LanesCovered'
  <2>1. Covered(m_lanes'[l])
    BY <1>1, <1>2, WakeCovered DEF IsStalled, FInv, LanesCovered
  <2> QED BY <1>2, <2>1 DEF FInv, LanesCovered
<1>5. \A m \in Lanes : Pending(m)' = Pending(m)
  <2>1. Pending(l)' = Pending(l)
    BY <1>2 DEF Pending, PendingOf, LaneState
  <2> QED BY <1>2, <2>1 DEF Pending
<1>6. \A n : (IsPending(n)' <=> IsPending(n)) /\ (Waits(n)' <=> Waits(n))
  BY <1>3, <1>5 DEF Waits, IsPending, Elements
<1>7. Counted'
  <2>1. \A m \in Lanes : Distinct(Pending(m)')
    BY <1>5 DEF FInv, Counted
  <2>2. \A n \in Ids : /\ node[n].c_id \in input_chain' => ~IsPending(n)'
                       /\ retired'[n] = IF Waits(n)' THEN chunks' - 1 ELSE chunks'
    BY <1>3, <1>6 DEF FInv, Counted
  <2>3. retired' \in [Ids -> Nat]
    BY <1>3 DEF FInv, Counted
  <2> QED BY <2>1, <2>2, <2>3 DEF Counted, Distinct
<1>8. ClearedStarted'
  BY <1>2, <1>3, ClearedUnchanged
<1> QED BY <1>4, <1>7, <1>8 DEF FInv

(* Every step of the core keeps the invariant of a chunk's progress. *)
LEMMA NextFinish ==
    ASSUME SlowEndsChains, CInv, FInv, [Next]_vars
    PROVE  FInv'
<1> USE DEF coreVars, laneVars, Return
<1>0. SInv /\ LInv /\ MP!IInv
  BY DEF CInv
<1>1. ASSUME UNCHANGED <<m_lanes, input_chain, chunks, retired, finished_chains, depen_table>>
      PROVE  FInv'
  BY <1>1, FinishUnchanged, ClearedUnchanged
<1>2. CASE RunLane
  BY <1>0, <1>2, RunFinish
<1>3. CASE BeginChunk
  BY <1>0, <1>3, BeginFinish
<1>4. CASE UpdateChains
  BY <1>0, <1>4, UpdateChainsFinish
<1>5. CASE Schedule
  <2>1. PICK l \in Lanes : l = cursor
    BY <1>0, <1>5 DEF SInv, CursorInPhase, Schedule
  <2>2. CASE is_free(m_lanes[l]) /\ ReadyChains(l) # {}
    <3>1. PICK c \in Chains :
            /\ c \in input_chain /\ input_chain' = input_chain \ {c}
            /\ \A p \in Chains : <<c, p>> \notin depen_table
            /\ LoadInstructionQueue(l, instruction_list[c])
            /\ Pending(l)' = Pending(l) \o instruction_list[c]
            /\ \A m \in Lanes \ {l} : Pending(m)' = Pending(m)
      BY <1>0, <1>5, <2>1, <2>2, LoadStep
    <3>2. UNCHANGED <<chunks, retired, depen_table>>
      BY <1>5 DEF Schedule
    <3> QED BY <1>0, <2>2, <3>1, <3>2, LoadFinish
  <2>3. CASE ~(is_free(m_lanes[l]) /\ ReadyChains(l) # {})
    BY <1>1, <1>5, <2>1, <2>3 DEF Schedule
  <2> QED BY <2>2, <2>3
<1>6. CASE WakeLane
  BY <1>0, <1>6, WakeFinish
<1>7. CASE Preschedule
  BY <1>1, <1>7 DEF Preschedule
<1>8. CASE SendMemoryReq
  BY <1>1, <1>8 DEF SendMemoryReq
<1>9. CASE AdvanceTimeReturns \/ SendMemoryReqReturns \/ Access \/ ProcessMshr
           \/ RecvRespReturns \/ UpdateMemExeReturns \/ UpdateChainsReturns \/ EndCycle
  BY <1>1, <1>9 DEF AdvanceTimeReturns, SendMemoryReqReturns, Access, ProcessMshr,
     RecvRespReturns, UpdateMemExeReturns, UpdateChainsReturns, EndCycle
<1>10. CASE \E line \in Lines : Callback(line)
  BY <1>1, <1>10 DEF Callback
<1>11. CASE UNCHANGED vars
  BY <1>1, <1>11 DEF vars
<1> QED BY <1>2, <1>3, <1>4, <1>5, <1>6, <1>7, <1>8, <1>9, <1>10, <1>11
        DEF Next, Step, EndOfTrace

-----------------------------------------------------------------------------
(* The invariant of a chunk's progress, when slow and stalling             *)
(* instructions end their chains: what a lane holds, what waits and what   *)
(* has retired add up, and depen_table is cleared only by chains that have *)
(* started.                                                                *)
THEOREM FinishInvariant == SlowEndsChains => (Spec => []FInv)
<1> SUFFICES ASSUME SlowEndsChains PROVE Spec => []FInv
  OBVIOUS
<1>1. CInv /\ FInv /\ [Next]_vars => FInv'
  BY NextFinish
<1> QED BY <1>1, InitFinish, CycleInvariant, PTL DEF Spec

(* Core::is_finish, which tests input_chain and the lanes' is_free(): when *)
(* slow and stalling instructions end their chains, every instruction of   *)
(* every chain has retired, exactly once per chunk, when it ends a chunk.  *)
THEOREM FinishAlwaysMeansAllRun == SlowEndsChains => (Spec => []FinishMeansAllRun)
<1> SUFFICES ASSUME SlowEndsChains PROVE Spec => []FinishMeansAllRun
  OBVIOUS
<1>1. CInv /\ FInv => FinishMeansAllRun
  <2> SUFFICES ASSUME CInv, FInv, phase = "host", NEW n \in Ids PROVE retired[n] = chunks
    BY DEF FinishMeansAllRun
  <2>1. input_chain = {} /\ LInv /\ \A l \in Lanes : is_free(m_lanes[l])
    BY DEF CInv, SInv, CursorInPhase, LInv, LanesInPhase
  <2>2. \A l \in Lanes : Pending(l) = <<>>
    BY <2>1, PendingTypes, FreeCovered DEF FInv, LanesCovered, Pending
  <2>3. ~IsPending(n)
    BY <2>2 DEF IsPending, Elements
  <2> QED BY <2>1, <2>3 DEF FInv, Counted, Waits
<1> QED BY <1>1, FinishInvariant, CycleInvariant, PTL

(* Core::updateChains and Core::ooo_scheduler: when slow and stalling      *)
(* instructions end their chains, a chain is loaded only after every chain *)
(* it depends on has retired an instruction in this chunk.                 *)
THEOREM AlwaysLoadedAfterPredecessorsStart ==
    SlowEndsChains => (Spec => []LoadedAfterPredecessorsStart)
<1> SUFFICES ASSUME SlowEndsChains PROVE Spec => []LoadedAfterPredecessorsStart
  OBVIOUS
<1>1. FInv => LoadedAfterPredecessorsStart
  <2> SUFFICES ASSUME FInv, NEW c \in Loaded, NEW p \in Predecessors(c) PROVE Started(p)
    BY DEF LoadedAfterPredecessorsStart, Started
  <2>1. chunks # 0 /\ c \in Chains /\ c \notin input_chain
    BY DEF Loaded
  <2>2. p \in Chains /\ c \in un_dependencies[p]
    BY DEF Predecessors
  <2> QED BY <2>1, <2>2 DEF FInv, ClearedStarted
<1> QED BY <1>1, FinishInvariant, PTL

(* Under the whole core, where memory stalls a lane and answers wake it at *)
(* any time, a lane that Lane::is_free() reports free holds no instruction *)
(* when slow and stalling instructions end their chains.                   *)
THEOREM CoreFreeMeansDrained == SlowEndsChains => (Spec => []FreeMeansDrained)
<1> SUFFICES ASSUME SlowEndsChains PROVE Spec => []FreeMeansDrained
  OBVIOUS
<1>1. CInv /\ FInv => FreeMeansDrained
  <2> SUFFICES ASSUME CInv, FInv, NEW l \in Lanes, is_free(m_lanes[l])
               PROVE  Pending(l) = <<>>
    BY DEF FreeMeansDrained
  <2> QED BY PendingTypes, FreeCovered DEF FInv, LanesCovered, Pending, CInv
<1> QED BY <1>1, FinishInvariant, CycleInvariant, PTL

=============================================================================
