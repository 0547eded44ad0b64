---------------------------- MODULE MemoryProofs ----------------------------
(***************************************************************************)
(* What the operators of the memory unit compute, for lists of any length  *)
(* and any set of lines: the search of the list, the deletion of one       *)
(* request from it, and the queues it is connected to.                     *)
(***************************************************************************)
EXTENDS Memory, SequenceTheorems, FiniteSetTheorems, TLAPS

(* The members of a sequence, and that it has no member twice.             *)
Elements(s) == {s[i] : i \in DOMAIN s}

Distinct(s) == \A i, j \in DOMAIN s : s[i] = s[j] => i = j

-----------------------------------------------------------------------------
(* Every nonempty set of numbers has a least one, which First returns.     *)
LEMMA LeastNat ==
    ASSUME NEW S \in SUBSET Nat, S # {}
    PROVE  \E i \in S : \A j \in S : i <= j
<1>1. IsWellFoundedOn(OpToRel(<, Nat), Nat)
  BY NatLessThanWellFounded
<1>2. PICK x \in S : \A y \in S : ~(<<y, x>> \in OpToRel(<, Nat))
  BY <1>1, WFMin
<1>3. \A y \in S : ~(y < x)
  BY <1>2 DEF OpToRel
<1> QED BY <1>3

(* First returns the least member of a nonempty set of numbers. *)
LEMMA FirstIsLeast ==
    ASSUME NEW S \in SUBSET Nat, S # {}
    PROVE  First(S) \in S /\ \A j \in S : First(S) <= j
BY LeastNat DEF First

(* The range test of search_req holds exactly for the addresses of that    *)
(* line: the test on byte addresses and base_addr agree.                   *)
LEMMA LineOfAddress ==
    ASSUME NEW e, e.vaddr \in Nat, NEW line \in Lines
    PROVE  InLine(e, line) <=> base_addr(e.vaddr) = line
<1>1. line \in Nat /\ line % 64 = 0
  BY RubyAssumption, MemoryAssumption DEF base_addr
<1> QED BY <1>1 DEF InLine, base_addr, line_size

-----------------------------------------------------------------------------
(* The queues: what popping and pushing does to the members.               *)
LEMMA PopDistinct ==
    ASSUME NEW T, NEW s \in Seq(T), s # <<>>, Distinct(s)
    PROVE  /\ Tail(s) \in Seq(T) /\ Head(s) \in T
           /\ Head(s) \in Elements(s)
           /\ Elements(Tail(s)) = Elements(s) \ {Head(s)}
           /\ Distinct(Tail(s))
<1>1. /\ Tail(s) \in Seq(T) /\ Head(s) = s[1] /\ Len(s) \in Nat \ {0}
      /\ Len(Tail(s)) = Len(s) - 1
      /\ \A i \in 1..Len(Tail(s)) : Tail(s)[i] = s[i + 1]
      /\ DOMAIN s = 1..Len(s)
      /\ DOMAIN Tail(s) = 1..(Len(s) - 1)
  BY HeadTailProperties, LenProperties, EmptySeq
<1>2. Head(s) \in T /\ Head(s) \in Elements(s)
  BY <1>1, ElementOfSeq DEF Elements
<1>3. Distinct(Tail(s))
  BY <1>1 DEF Distinct
<1>4. ASSUME NEW x \in Elements(Tail(s)) PROVE x \in Elements(s) \ {Head(s)}
  <2>1. PICK i \in DOMAIN Tail(s) : x = Tail(s)[i]
    BY DEF Elements
  <2>2. x = s[i + 1] /\ i + 1 \in DOMAIN s /\ i + 1 # 1
    BY <1>1, <2>1
  <2> QED BY <1>1, <2>2 DEF Distinct, Elements
<1>5. ASSUME NEW x \in Elements(s) \ {Head(s)} PROVE x \in Elements(Tail(s))
  <2>1. PICK i \in DOMAIN s : x = s[i]
    BY DEF Elements
  <2>2. i # 1 /\ i - 1 \in 1..Len(Tail(s))
    BY <1>1, <2>1
  <2>3. x = Tail(s)[i - 1] /\ i - 1 \in DOMAIN Tail(s)
    BY <1>1, <2>1, <2>2
  <2> QED BY <2>3 DEF Elements
<1> QED BY <1>1, <1>2, <1>3, <1>4, <1>5

(* Pushing a new member. *)
LEMMA PushDistinct ==
    ASSUME NEW T, NEW s \in Seq(T), NEW x \in T
    PROVE  /\ Append(s, x) \in Seq(T)
           /\ Elements(Append(s, x)) = Elements(s) \cup {x}
           /\ x \notin Elements(s) /\ Distinct(s) => Distinct(Append(s, x))
<1>1. /\ Append(s, x) \in Seq(T) /\ Len(s) \in Nat
      /\ DOMAIN Append(s, x) = 1..(Len(s) + 1)
      /\ \A i \in 1..Len(s) : Append(s, x)[i] = s[i]
      /\ Append(s, x)[Len(s) + 1] = x
      /\ DOMAIN s = 1..Len(s)
  BY AppendProperties, LenProperties
<1>2. Elements(Append(s, x)) = Elements(s) \cup {x}
  <2>1. ASSUME NEW y \in Elements(Append(s, x)) PROVE y \in Elements(s) \cup {x}
    <3>1. PICK i \in 1..(Len(s) + 1) : y = Append(s, x)[i]
      BY <1>1 DEF Elements
    <3>2. i \in 1..Len(s) \/ i = Len(s) + 1
      BY <1>1
    <3> QED BY <1>1, <3>1, <3>2 DEF Elements
  <2>2. ASSUME NEW y \in Elements(s) PROVE y \in Elements(Append(s, x))
    <3>1. PICK i \in 1..Len(s) : y = s[i]
      BY <1>1 DEF Elements
    <3>2. i \in 1..(Len(s) + 1) /\ y = Append(s, x)[i]
      BY <1>1, <3>1
    <3> QED BY <1>1, <3>2 DEF Elements
  <2>3. x \in Elements(Append(s, x))
    <3>1. Len(s) + 1 \in 1..(Len(s) + 1)
      BY <1>1
    <3> QED BY <1>1, <3>1 DEF Elements
  <2> QED BY <2>1, <2>2, <2>3
<1>3. ASSUME x \notin Elements(s), Distinct(s) PROVE Distinct(Append(s, x))
  <2>1. \A i \in 1..Len(s) : s[i] # x
    BY <1>1, <1>3 DEF Elements
  <2>2. \A i, j \in 1..Len(s) : s[i] = s[j] => i = j
    BY <1>1, <1>3 DEF Distinct
  <2>3. \A i \in 1..(Len(s) + 1) : i \in 1..Len(s) \/ i = Len(s) + 1
    BY <1>1
  <2>4. SUFFICES ASSUME NEW i \in 1..(Len(s) + 1), NEW j \in 1..(Len(s) + 1),
                        Append(s, x)[i] = Append(s, x)[j]
                 PROVE  i = j
    BY <1>1 DEF Distinct
  <2> QED BY <1>1, <2>1, <2>2, <2>3, <2>4
<1> QED BY <1>1, <1>2, <1>3

(* The members of two lists in a row. *)
LEMMA ConcatElements ==
    ASSUME NEW S, NEW s \in Seq(S), NEW t \in Seq(S)
    PROVE  Elements(s \o t) = Elements(s) \cup Elements(t)
<1>1. /\ s \o t \in Seq(S) /\ Len(s \o t) = Len(s) + Len(t)
      /\ \A i \in 1..(Len(s) + Len(t)) :
            (s \o t)[i] = IF i <= Len(s) THEN s[i] ELSE t[i - Len(s)]
  BY ConcatProperties
<1>2. /\ Len(s) \in Nat /\ Len(t) \in Nat /\ DOMAIN s = 1..Len(s) /\ DOMAIN t = 1..Len(t)
      /\ DOMAIN (s \o t) = 1..(Len(s) + Len(t))
  BY <1>1, LenProperties
<1>3. ASSUME NEW x \in Elements(s \o t) PROVE x \in Elements(s) \cup Elements(t)
  <2>1. PICK i \in 1..(Len(s) + Len(t)) : x = (s \o t)[i]
    BY <1>2 DEF Elements
  <2>2. CASE i <= Len(s)
    BY <1>1, <1>2, <2>1, <2>2 DEF Elements
  <2>3. CASE ~(i <= Len(s))
    <3>1. i - Len(s) \in DOMAIN t /\ x = t[i - Len(s)]
      BY <1>1, <1>2, <2>1, <2>3
    <3> QED BY <3>1 DEF Elements
  <2> QED BY <2>2, <2>3
<1>4. ASSUME NEW x \in Elements(s) PROVE x \in Elements(s \o t)
  <2>1. PICK i \in DOMAIN s : x = s[i]
    BY DEF Elements
  <2>2. i \in 1..(Len(s) + Len(t)) /\ (s \o t)[i] = x
    BY <1>1, <1>2, <2>1
  <2> QED BY <1>2, <2>2 DEF Elements
<1>5. ASSUME NEW x \in Elements(t) PROVE x \in Elements(s \o t)
  <2>1. PICK i \in DOMAIN t : x = t[i]
    BY DEF Elements
  <2>2. i + Len(s) \in 1..(Len(s) + Len(t)) /\ ~(i + Len(s) <= Len(s))
        /\ i + Len(s) - Len(s) = i
    BY <1>2, <2>1
  <2>3. (s \o t)[i + Len(s)] = x
    BY <1>1, <2>1, <2>2
  <2> QED BY <1>2, <2>2, <2>3 DEF Elements
<1> QED BY <1>3, <1>4, <1>5

(* The members that are left when the head is popped. *)
LEMMA TailElements ==
    ASSUME NEW S, NEW s \in Seq(S), s # <<>>
    PROVE  /\ Elements(Tail(s)) \in SUBSET Elements(s)
           /\ Elements(s) = Elements(Tail(s)) \cup {Head(s)}
           /\ Head(s) \in S
           /\ Tail(s) \in Seq(S)
<1>1. /\ Tail(s) \in Seq(S) /\ Len(Tail(s)) = Len(s) - 1
      /\ \A i \in 1..Len(Tail(s)) : Tail(s)[i] = s[i + 1]
      /\ Head(s) = s[1] /\ Head(s) \in S
  BY HeadTailProperties
<1>2. /\ Len(s) \in Nat \ {0} /\ DOMAIN s = 1..Len(s)
      /\ DOMAIN Tail(s) = 1..(Len(s) - 1)
  BY <1>1, LenProperties, EmptySeq
<1>3. ASSUME NEW x \in Elements(Tail(s)) PROVE x \in Elements(s)
  <2>1. PICK i \in 1..(Len(s) - 1) : x = Tail(s)[i]
    BY <1>2 DEF Elements
  <2>2. i + 1 \in DOMAIN s /\ x = s[i + 1]
    BY <1>1, <1>2, <2>1
  <2> QED BY <2>2 DEF Elements
<1>4. ASSUME NEW x \in Elements(s) PROVE x = Head(s) \/ x \in Elements(Tail(s))
  <2>1. PICK i \in DOMAIN s : x = s[i]
    BY DEF Elements
  <2>2. CASE i # 1
    <3>1. i - 1 \in 1..(Len(s) - 1) /\ Tail(s)[i - 1] = x
      BY <1>1, <1>2, <2>1, <2>2
    <3> QED BY <1>2, <3>1 DEF Elements
  <2> QED BY <1>1, <2>1, <2>2
<1>5. Head(s) \in Elements(s)
  BY <1>1, <1>2 DEF Elements
<1> QED BY <1>1, <1>3, <1>4, <1>5

(* A list without members is empty. *)
LEMMA NoElements ==
    ASSUME NEW S, NEW s \in Seq(S), Elements(s) = {}
    PROVE  s = <<>>
<1>1. Len(s) \in Nat /\ DOMAIN s = 1..Len(s) /\ (Len(s) = 0 <=> s = <<>>)
  BY LenProperties, EmptySeq
<1>2. 1 \notin DOMAIN s
  BY DEF Elements
<1> QED BY <1>1, <1>2

-----------------------------------------------------------------------------
(* How many of the numbers up to i remain when p is left out.              *)
LEMMA RankWithout ==
    ASSUME NEW n \in Nat, NEW p \in 1..n, NEW i \in (1..n) \ {p}
    PROVE  Cardinality({j \in (1..n) \ {p} : j <= i}) = IF i < p THEN i ELSE i - 1
<1> DEFINE S == {j \in (1..n) \ {p} : j <= i}
<1>1. IsFiniteSet(1..i) /\ Cardinality(1..i) = i
  BY FS_Interval
<1>2. CASE i < p
  <2>1. S = 1..i
    BY <1>2
  <2> QED BY <1>1, <1>2, <2>1
<1>3. CASE ~(i < p)
  <2>1. S = (1..i) \ {p} /\ p \in 1..i
    BY <1>3
  <2>2. Cardinality((1..i) \ {p}) = i - 1
    BY <1>1, <2>1, FS_RemoveElement
  <2> QED BY <1>3, <2>1, <2>2
<1> QED BY <1>2, <1>3

(* Deleting position p of a list: the later requests move up by one.       *)
Shift(p, k) == IF k < p THEN k ELSE k + 1

(* KeepAt when one position is left out. *)
LEMMA KeepAllBut ==
    ASSUME NEW T, NEW s \in Seq(T), NEW p \in DOMAIN s
    PROVE  LET t == KeepAt(s, DOMAIN s \ {p}) IN
           /\ t \in Seq(T)
           /\ DOMAIN t = 1..(Len(s) - 1)
           /\ \A k \in DOMAIN t : t[k] = s[Shift(p, k)]
<1> DEFINE n == Len(s)
           keep == DOMAIN s \ {p}
           Rank(i) == Cardinality({j \in keep : j <= i})
           t == KeepAt(s, keep)
<1>1. n \in Nat \ {0} /\ DOMAIN s = 1..n /\ p \in 1..n
  BY LenProperties
<1>2. Cardinality(keep) = n - 1
  <2>1. IsFiniteSet(1..n) /\ Cardinality(1..n) = n
    BY <1>1, FS_Interval
  <2>2. Cardinality((1..n) \ {p}) = IF p \in 1..n THEN Cardinality(1..n) - 1
                                                  ELSE Cardinality(1..n)
    BY <2>1, FS_RemoveElement
  <2> QED BY <1>1, <2>1, <2>2
<1>3. \A i \in keep : Rank(i) = IF i < p THEN i ELSE i - 1
  BY <1>1, RankWithout
<1>4. ASSUME NEW k \in 1..(n - 1)
      PROVE  /\ Shift(p, k) \in keep
             /\ (CHOOSE i \in keep : Rank(i) = k) = Shift(p, k)
  <2> HIDE DEF Rank
  <2>1. Shift(p, k) \in keep /\ Rank(Shift(p, k)) = k
    BY <1>1, <1>3 DEF Shift
  <2>2. \A i \in keep : Rank(i) = k => i = Shift(p, k)
    BY <1>1, <1>3 DEF Shift
  <2> QED BY <2>1, <2>2
<1>5. t = [k \in 1..(n - 1) |-> s[CHOOSE i \in keep : Rank(i) = k]]
  BY <1>2 DEF KeepAt
<1>6. \A k \in 1..(n - 1) : t[k] = s[Shift(p, k)] /\ t[k] \in T
  <2> HIDE DEF Rank, t
  <2>1. \A k \in 1..(n - 1) : t[k] = s[Shift(p, k)]
    BY <1>4, <1>5
  <2>2. \A k \in 1..(n - 1) : s[Shift(p, k)] \in T
    BY <1>4, ElementOfSeq, <1>1
  <2> QED BY <2>1, <2>2
<1>7. DOMAIN t = 1..(n - 1)
  <2> HIDE DEF Rank, t
  <2> QED BY <1>5
<1>8. t \in Seq(T)
  <2>1. t \in [1..(n - 1) -> T]
    <3> HIDE DEF Rank, t
    <3>1. t = [k \in DOMAIN t |-> t[k]]
      BY <1>5
    <3> QED BY <1>6, <1>7, <3>1
  <2>2. n - 1 \in Nat
    BY <1>1
  <2> HIDE DEF t
  <2> QED BY <2>1, <2>2, <1>7
<1> QED BY <1>6, <1>7, <1>8

(* The deletion moves the other positions one to one, so that a set of     *)
(* positions loses exactly the deleted one.                                *)
LEMMA ShiftCount ==
    ASSUME NEW n \in Nat, NEW p \in 1..n, NEW S \in SUBSET (1..n),
           NEW T, T = {k \in 1..(n - 1) : Shift(p, k) \in S}
    PROVE  /\ IsFiniteSet(S)
           /\ IsFiniteSet(T)
           /\ Cardinality(T) = IF p \in S THEN Cardinality(S) - 1 ELSE Cardinality(S)
<1> DEFINE f == [k \in T |-> Shift(p, k)]
<1>1. IsFiniteSet(S)
  <2>1. IsFiniteSet(1..n)
    BY FS_Interval
  <2> QED BY <2>1, FS_Subset
<1>2. IsFiniteSet(T)
  <2>1. IsFiniteSet(1..(n - 1))
    BY FS_Interval
  <2> QED BY <2>1, FS_Subset
<1>3. f \in Bijection(T, S \ {p})
  <2>1. f \in [T -> S \ {p}]
    BY DEF Shift
  <2>2. \A a, b \in T : f[a] = f[b] => a = b
    BY DEF Shift
  <2>3. ASSUME NEW x \in S \ {p} PROVE \E k \in T : f[k] = x
    <3> DEFINE k == IF x < p THEN x ELSE x - 1
    <3>1. k \in 1..(n - 1) /\ Shift(p, k) = x
      BY DEF Shift
    <3> QED BY <3>1
  <2> QED BY <2>1, <2>2, <2>3 DEF Bijection, Injection, Surjection, IsInjective
<1>4. Cardinality(S \ {p}) = Cardinality(T)
  BY <1>2, <1>3, FS_Bijection DEF ExistsBijection
<1>5. Cardinality(S \ {p}) = IF p \in S THEN Cardinality(S) - 1 ELSE Cardinality(S)
  BY <1>1, FS_RemoveElement
<1> QED BY <1>1, <1>2, <1>4, <1>5

(* When no other request of the list has its node, std::list::remove       *)
(* deletes just the request it is given.                                   *)
LEMMA RemoveIsKeepAllBut ==
    ASSUME NEW s \in Seq(MemValue_t), NEW p \in DOMAIN s,
           \A i, j \in DOMAIN s : s[i].nodeid = s[j].nodeid => i = j
    PROVE  ListRemove(s, s[p]) = KeepAt(s, DOMAIN s \ {p})
<1>1. {i \in DOMAIN s : ~SameRequest(s[i], s[p])} = DOMAIN s \ {p}
  BY DEF SameRequest
<1> QED BY <1>1 DEF ListRemove

=============================================================================
