------------------------ MODULE WebhookDeliveryProofs ------------------------
(***************************************************************************)
(* Proofs about WebhookDelivery for any deliveries, endpoints, overlapping  *)
(* runs, replays, edits and faults.                                        *)
(***************************************************************************)
EXTENDS WebhookDelivery, FiniteSetTheorems, SequenceTheorems, TLAPS

(***************************************************************************)
(* Lists whose entries are distinct: what the model's list operators do.   *)
(***************************************************************************)
Lists(S) == {s \in Seq(S) : IsInjective(s)}

LEMMA ListFacts ==
    ASSUME NEW S, NEW s \in Lists(S)
    PROVE  /\ s \in Seq(S) /\ Len(s) \in Nat /\ DOMAIN s = 1..Len(s)
           /\ \A i \in 1..Len(s) : s[i] \in S
           /\ \A i, j \in 1..Len(s) : s[i] = s[j] => i = j
           /\ ToSet(s) = {s[i] : i \in 1..Len(s)} /\ ToSet(s) \subseteq S
BY DEF Lists, IsInjective, ToSet

\* A list of distinct entries is as long as their set.
LEMMA ListLength ==
    ASSUME NEW S, NEW s \in Lists(S)
    PROVE  IsFiniteSet(ToSet(s)) /\ Cardinality(ToSet(s)) = Len(s)
<1>1. s \in Bijection(1..Len(s), ToSet(s))
  BY ListFacts DEF Bijection, Injection, Surjection, IsInjective
<1>2. ExistsBijection(1..Len(s), ToSet(s)) /\ Len(s) \in Nat
  BY <1>1, ListFacts DEF ExistsBijection
<1> QED BY <1>2, FS_CountingElements, FS_Interval, FS_Bijection

LEMMA ListJoin ==
    ASSUME NEW S, NEW s \in Lists(S), NEW t \in Lists(S), ToSet(s) \cap ToSet(t) = {}
    PROVE  s \o t \in Lists(S) /\ ToSet(s \o t) = ToSet(s) \cup ToSet(t)
<1> DEFINE u == s \o t
<1>1. /\ u \in Seq(S) /\ Len(u) = Len(s) + Len(t)
      /\ \A i \in 1..Len(u) : u[i] = IF i <= Len(s) THEN s[i] ELSE t[i - Len(s)]
  BY ListFacts, ConcatProperties
<1> HIDE DEF u
<1>2. Len(s) \in Nat /\ Len(t) \in Nat /\ DOMAIN u = 1..Len(u)
  BY <1>1, ListFacts
<1>3. ASSUME NEW i \in 1..Len(u)
      PROVE  \/ i \in 1..Len(s) /\ u[i] = s[i] /\ u[i] \in ToSet(s)
             \/ i - Len(s) \in 1..Len(t) /\ i > Len(s) /\ u[i] = t[i - Len(s)] /\ u[i] \in ToSet(t)
  <2>1. CASE i <= Len(s)
    BY <1>1, <1>2, <2>1, ListFacts
  <2>2. CASE i > Len(s)
    <3>1. i - Len(s) \in 1..Len(t)
      BY <1>1, <1>2, <2>2
    <3> QED BY <1>1, <1>2, <2>2, <3>1, ListFacts
  <2> QED BY <1>2, <2>1, <2>2
<1>4. ASSUME NEW i \in 1..Len(u), NEW j \in 1..Len(u), u[i] = u[j] PROVE i = j
  <2>1. CASE i \in 1..Len(s) /\ j \in 1..Len(s) /\ u[i] = s[i] /\ u[j] = s[j]
    BY <1>4, <2>1, ListFacts
  <2>2. CASE /\ i - Len(s) \in 1..Len(t) /\ j - Len(s) \in 1..Len(t)
             /\ u[i] = t[i - Len(s)] /\ u[j] = t[j - Len(s)]
    <3>1. i - Len(s) = j - Len(s)
      BY <1>4, <2>2, ListFacts
    <3> QED BY <1>2, <3>1
  <2> QED BY <1>3, <1>4, <2>1, <2>2
<1>5. u \in Lists(S)
  BY <1>1, <1>2, <1>4 DEF Lists, IsInjective
<1>6. ASSUME NEW x \in ToSet(s) \cup ToSet(t) PROVE \E i \in 1..Len(u) : u[i] = x
  <2>1. CASE x \in ToSet(s)
    <3>1. PICK i \in 1..Len(s) : x = s[i]
      BY <2>1, ListFacts
    <3>2. i \in 1..Len(u) /\ u[i] = s[i]
      BY <1>1, <1>2
    <3> QED BY <3>1, <3>2
  <2>2. CASE x \in ToSet(t)
    <3>1. PICK i \in 1..Len(t) : x = t[i]
      BY <2>2, ListFacts
    <3>2. Len(s) + i \in 1..Len(u) /\ ~(Len(s) + i <= Len(s)) /\ (Len(s) + i) - Len(s) = i
      BY <1>1, <1>2
    <3>3. u[Len(s) + i] = t[i]
      BY <1>1, <3>2
    <3> QED BY <3>1, <3>2, <3>3
  <2> QED BY <2>1, <2>2
<1>7. ToSet(u) = {u[i] : i \in 1..Len(u)}
  BY <1>2 DEF ToSet
<1> QED BY <1>3, <1>5, <1>6, <1>7 DEF u

LEMMA ListOne ==
    ASSUME NEW S, NEW x \in S
    PROVE  <<x>> \in Lists(S) /\ ToSet(<<x>>) = {x}
<1>1. <<x>> \in Seq(S) /\ DOMAIN <<x>> = {1} /\ <<x>>[1] = x
  OBVIOUS
<1> QED BY <1>1 DEF Lists, IsInjective, ToSet

LEMMA ListAppend ==
    ASSUME NEW S, NEW s \in Lists(S), NEW x \in S \ ToSet(s)
    PROVE  Append(s, x) \in Lists(S) /\ ToSet(Append(s, x)) = ToSet(s) \cup {x}
<1>1. Append(s, x) = s \o <<x>>
  BY AppendIsConcat, ListFacts
<1> QED BY <1>1, ListOne, ListJoin

\* A stretch of a list.
LEMMA ListPart ==
    ASSUME NEW S, NEW s \in Lists(S), NEW m \in Nat, NEW n \in Nat, 1 <= m, n <= Len(s)
    PROVE  /\ SubSeq(s, m, n) \in Lists(S)
           /\ ToSet(SubSeq(s, m, n)) = {s[i] : i \in m..n}
<1> DEFINE u == SubSeq(s, m, n)
           k == IF m <= n THEN n - m + 1 ELSE 0
<1>1. /\ u \in Seq(S) /\ Len(u) = k /\ k \in Nat
      /\ \A i \in 1..k : u[i] = s[m + i - 1] /\ m + i - 1 \in 1..Len(s)
  BY ListFacts
<1> HIDE DEF u
<1>2. \A i, j \in 1..k : u[i] = u[j] => i = j
  <2> SUFFICES ASSUME NEW i \in 1..k, NEW j \in 1..k, u[i] = u[j] PROVE i = j
    OBVIOUS
  <2>1. /\ m + i - 1 \in 1..Len(s) /\ m + j - 1 \in 1..Len(s)
        /\ s[m + i - 1] = s[m + j - 1]
    BY <1>1
  <2>2. m + i - 1 = m + j - 1
    BY <2>1, ListFacts
  <2> QED BY <1>1, <2>2
<1>3. DOMAIN u = 1..k
  BY <1>1
<1>4. ASSUME NEW i \in m..n PROVE \E j \in 1..k : u[j] = s[i]
  <2>1. i - m + 1 \in 1..k /\ m + (i - m + 1) - 1 = i
    OBVIOUS
  <2> QED BY <1>1, <2>1
<1>5. ASSUME NEW j \in 1..k PROVE m + j - 1 \in m..n
  BY <1>1
<1>6. u \in Lists(S)
  BY <1>1, <1>2, <1>3 DEF Lists, IsInjective
<1>7. ToSet(u) = {u[j] : j \in 1..k}
  BY <1>3 DEF ToSet
<1>8. {u[j] : j \in 1..k} \subseteq {s[i] : i \in m..n}
  BY <1>1, <1>5
<1>9. {s[i] : i \in m..n} \subseteq {u[j] : j \in 1..k}
  BY <1>4
<1> QED BY <1>6, <1>7, <1>8, <1>9 DEF u

LEMMA ListTail ==
    ASSUME NEW S, NEW s \in Lists(S), s # <<>>
    PROVE  /\ Tail(s) \in Lists(S) /\ Head(s) \in ToSet(s)
           /\ ToSet(Tail(s)) = ToSet(s) \ {Head(s)}
<1>1. Tail(s) = SubSeq(s, 2, Len(s)) /\ Head(s) = s[1] /\ Len(s) \in Nat \ {0}
  BY ListFacts, TailIsSubSeq, EmptySeq, LenProperties
<1>2. Tail(s) \in Lists(S) /\ ToSet(Tail(s)) = {s[i] : i \in 2..Len(s)}
  <2>1. 2 \in Nat /\ 1 <= 2 /\ Len(s) \in Nat /\ Len(s) <= Len(s)
    BY <1>1
  <2>2. SubSeq(s, 2, Len(s)) \in Lists(S) /\ ToSet(SubSeq(s, 2, Len(s))) = {s[i] : i \in 2..Len(s)}
    BY <2>1, ListPart
  <2> QED BY <1>1, <2>2
<1>3. \A i \in 1..Len(s) : s[i] # s[1] <=> i \in 2..Len(s)
  BY <1>1, ListFacts
<1>4. 1 \in 1..Len(s)
  BY <1>1
<1> QED BY <1>1, <1>2, <1>3, <1>4, ListFacts

LEMMA ListRemove ==
    ASSUME NEW S, NEW s \in Lists(S), NEW x
    PROVE  RemoveFirst(s, x) \in Lists(S) /\ ToSet(RemoveFirst(s, x)) = ToSet(s) \ {x}
<1>1. CASE x \notin ToSet(s)
  <2>1. ~ \E i \in 1..Len(s) : s[i] = x
    BY <1>1, ListFacts
  <2>2. RemoveFirst(s, x) = s
    BY <2>1, Zenon DEF RemoveFirst
  <2> QED BY <1>1, <2>2
<1>2. CASE x \in ToSet(s)
  <2>1. PICK i \in 1..Len(s) : s[i] = x
    BY <1>2, ListFacts
  <2>2. {k \in 1..Len(s) : s[k] = x} = {i}
    BY <2>1, ListFacts
  <2>3. Min({i}) = i
    BY DEF Min
  <2>4. RemoveFirst(s, x) = SubSeq(s, 1, i - 1) \o SubSeq(s, i + 1, Len(s))
    BY <2>1, <2>2, <2>3 DEF RemoveFirst, SelectInSeq, RemoveAt
  <2>5. i - 1 \in Nat /\ i + 1 \in Nat /\ i - 1 <= Len(s) /\ 1 <= i + 1 /\ Len(s) \in Nat
    BY ListFacts
  <2>6. /\ SubSeq(s, 1, i - 1) \in Lists(S) /\ ToSet(SubSeq(s, 1, i - 1)) = {s[k] : k \in 1..(i - 1)}
        /\ SubSeq(s, i + 1, Len(s)) \in Lists(S)
        /\ ToSet(SubSeq(s, i + 1, Len(s))) = {s[k] : k \in (i + 1)..Len(s)}
    BY <2>5, ListPart
  <2>7. \A k \in 1..Len(s) : /\ s[k] = x <=> k = i
                             /\ k # i <=> k \in 1..(i - 1) \/ k \in (i + 1)..Len(s)
    BY <2>1, <2>5, ListFacts
  <2>8. {s[k] : k \in 1..(i - 1)} \cap {s[k] : k \in (i + 1)..Len(s)} = {}
    <3> SUFFICES ASSUME NEW k \in 1..(i - 1), NEW j \in (i + 1)..Len(s), s[k] = s[j] PROVE FALSE
      OBVIOUS
    <3>1. k \in 1..Len(s) /\ j \in 1..Len(s) /\ k # j
      BY <2>5
    <3> QED BY <3>1, ListFacts
  <2>9. {s[k] : k \in 1..(i - 1)} \cup {s[k] : k \in (i + 1)..Len(s)} = ToSet(s) \ {x}
    <3>1. \A k \in (1..(i - 1)) \cup ((i + 1)..Len(s)) : k \in 1..Len(s)
      BY <2>5
    <3> QED BY <2>7, <3>1, ListFacts
  <2> QED BY <2>4, <2>6, <2>8, <2>9, ListJoin
<1> QED BY <1>1, <1>2

LEMMA ListInsert ==
    ASSUME NEW S, NEW s \in Lists(S), NEW x \in S \ ToSet(s), NEW n \in 0..Len(s)
    PROVE  InsertAt(s, n + 1, x) \in Lists(S) /\ ToSet(InsertAt(s, n + 1, x)) = ToSet(s) \cup {x}
<1> DEFINE a == SubSeq(s, 1, n)
           b == SubSeq(s, n + 1, Len(s))
<1>1. Len(s) \in Nat /\ n \in Nat /\ (n + 1) - 1 = n /\ n + 1 \in Nat /\ 1 <= n + 1
  BY ListFacts
<1>2. /\ a \in Lists(S) /\ ToSet(a) = {s[k] : k \in 1..n}
      /\ b \in Lists(S) /\ ToSet(b) = {s[k] : k \in (n + 1)..Len(s)}
  BY <1>1, ListPart
<1>3. \A k \in Nat : k \in 1..Len(s) <=> k \in 1..n \/ k \in (n + 1)..Len(s)
  BY <1>1
<1>4. ToSet(a) \cup ToSet(b) = ToSet(s)
  <2>1. \A k \in (1..n) \cup ((n + 1)..Len(s)) : k \in Nat
    BY <1>1
  <2> QED BY <1>2, <1>3, <2>1, ListFacts
<1>5. ToSet(a) \cap ToSet(b) = {}
  <2> SUFFICES ASSUME NEW k \in 1..n, NEW j \in (n + 1)..Len(s), s[k] = s[j] PROVE FALSE
    BY <1>2
  <2>1. k \in 1..Len(s) /\ j \in 1..Len(s) /\ k # j
    BY <1>1
  <2> QED BY <2>1, ListFacts
<1> HIDE DEF a, b
<1>6. a \o <<x>> \in Lists(S) /\ ToSet(a \o <<x>>) = ToSet(a) \cup {x}
  BY <1>2, <1>4, ListOne, ListJoin
<1>7. (a \o <<x>>) \o b \in Lists(S) /\ ToSet((a \o <<x>>) \o b) = ToSet(a) \cup {x} \cup ToSet(b)
  <2> DEFINE c == a \o <<x>>
  <2>1. c \in Lists(S) /\ ToSet(c) = ToSet(a) \cup {x}
    BY <1>6
  <2> HIDE DEF c
  <2>2. ToSet(c) \cap ToSet(b) = {}
    BY <1>4, <1>5, <2>1
  <2>3. c \o b \in Lists(S) /\ ToSet(c \o b) = ToSet(c) \cup ToSet(b)
    <3>1. b \in Lists(S)
      BY <1>2
    <3> QED BY <2>1, <2>2, <3>1, ListJoin
  <2> QED BY <2>1, <2>3 DEF c
<1>8. InsertAt(s, n + 1, x) = (a \o <<x>>) \o b
  BY <1>1 DEF InsertAt, a, b
<1> QED BY <1>4, <1>7, <1>8

LEMMA ListOfSet ==
    ASSUME NEW S, IsFiniteSet(S)
    PROVE  SetToSeq(S) \in Lists(S) /\ ToSet(SetToSeq(S)) = S
<1> DEFINE n == Cardinality(S)
           u == SetToSeq(S)
<1>1. n \in Nat /\ ExistsBijection(1..n, S)
  BY FS_CardinalityType
<1>2. \E f \in [1..n -> S] : IsInjective(f)
  BY <1>1 DEF ExistsBijection, Bijection, Injection
<1>3. u \in [1..n -> S] /\ IsInjective(u)
  BY <1>2 DEF SetToSeq
<1> HIDE DEF u
<1>4. u \in Seq(S) /\ DOMAIN u = 1..n
  BY <1>1, <1>3
<1>5. u \in Surjection(1..n, S)
  <2>1. u \in Injection(1..n, S)
    BY <1>3 DEF Injection
  <2>2. Cardinality(1..n) = n
    BY <1>1, FS_Interval
  <2> QED BY <2>1, <2>2, FS_Injection
<1>6. ToSet(u) = S
  BY <1>4, <1>5 DEF ToSet, Surjection
<1> QED BY <1>3, <1>4, <1>6 DEF Lists, u

\* The two due lists together, without an entry in common.
LEMMA ListPair ==
    ASSUME NEW S, NEW s \in Lists(S), NEW t \in Lists(S), ToSet(s) \cap ToSet(t) = {}
    PROVE  /\ ToSet(s \o t) = ToSet(s) \cup ToSet(t)
           /\ Len(s \o t) = Cardinality(ToSet(s \o t))
<1>1. s \o t \in Lists(S) /\ ToSet(s \o t) = ToSet(s) \cup ToSet(t)
  BY ListJoin
<1> DEFINE u == s \o t
<1>2. u \in Lists(S)
  BY <1>1
<1> HIDE DEF u
<1>3. Len(u) = Cardinality(ToSet(u))
  BY <1>2, ListLength
<1> QED BY <1>1, <1>3 DEF u

-----------------------------------------------------------------------------
(***************************************************************************)
(* Types: the state keeps its shape, the due lists hold the pending rows,  *)
(* and only a host that may be unsafe is refused.                          *)
(***************************************************************************)
Jobs == [step : Steps, seen : Nat, ok : BOOLEAN]

ListsSound ==
    /\ due \in Lists(Deliveries) /\ later \in Lists(Deliveries)
    /\ ToSet(due) \cap ToSet(later) = {}
    /\ ToSet(due) \cup ToSet(later) = {d \in Deliveries : status[d] = "pending"}

OnlyUnsafeRefused == \A r \in Runs, d \in Deliveries :
    job[r][d].step = "reject" => EndpointOf[d] \in Unsafe

Shape == TypeOK /\ ListsSound /\ OnlyUnsafeRefused

LEMMA JobType ==
    /\ Idle \in Jobs /\ Idle.step = "none"
    /\ \A step \in Steps : AtStep(step) \in Jobs /\ AtStep(step).step = step
    /\ \A j \in Jobs : /\ j.step \in Steps /\ j.seen \in Nat /\ j.ok \in BOOLEAN
                       /\ \A step \in Steps : /\ [j EXCEPT !.step = step] \in Jobs
                                              /\ [j EXCEPT !.step = step].step = step
                                              /\ [j EXCEPT !.step = step].seen = j.seen
                       /\ \A n \in Nat : /\ [j EXCEPT !.seen = n] \in Jobs
                                         /\ [j EXCEPT !.seen = n].step = j.step
                                         /\ [j EXCEPT !.seen = n].seen = n
                       /\ \A step \in Steps, b \in BOOLEAN :
                              /\ [j EXCEPT !.step = step, !.ok = b] \in Jobs
                              /\ [j EXCEPT !.step = step, !.ok = b].step = step
<1>1. /\ Idle \in Jobs /\ Idle.step = "none"
      /\ \A step \in Steps : AtStep(step) \in Jobs /\ AtStep(step).step = step
  BY DEF Jobs, Idle, AtStep, Steps
<1>2. ASSUME NEW j \in Jobs
      PROVE  /\ j.step \in Steps /\ j.seen \in Nat /\ j.ok \in BOOLEAN
             /\ \A step \in Steps : /\ [j EXCEPT !.step = step] \in Jobs
                                    /\ [j EXCEPT !.step = step].step = step
                                    /\ [j EXCEPT !.step = step].seen = j.seen
  BY DEF Jobs
<1>3. ASSUME NEW j \in Jobs, NEW n \in Nat
      PROVE  /\ [j EXCEPT !.seen = n] \in Jobs
             /\ [j EXCEPT !.seen = n].step = j.step
             /\ [j EXCEPT !.seen = n].seen = n
  BY DEF Jobs
<1>4. ASSUME NEW j \in Jobs, NEW step \in Steps, NEW b \in BOOLEAN
      PROVE  /\ [j EXCEPT !.step = step, !.ok = b] \in Jobs
             /\ [j EXCEPT !.step = step, !.ok = b].step = step
  BY DEF Jobs
<1> QED BY <1>1, <1>2, <1>3, <1>4

\* A step of one call leaves the other calls where they are.
LEMMA ContinueType ==
    ASSUME job \in [Runs -> [Deliveries -> Jobs]], NEW r \in Runs, NEW d \in Deliveries,
           NEW next \in Jobs, Continue(r, d, next)
    PROVE  /\ job' \in [Runs -> [Deliveries -> Jobs]]
           /\ job'[r][d] = next
           /\ \A q \in Runs, x \in Deliveries : q # r \/ x # d => job'[q][x] = job[q][x]
BY DEF Continue

\* Each call goes on as one of the records of its type.
LEMMA CallType ==
    ASSUME TypeOK, NEW r \in Runs, NEW d \in Deliveries, Call(r, d)
    PROVE  /\ \E next \in Jobs : Continue(r, d, next)
           /\ job' \in [Runs -> [Deliveries -> Jobs]]
           /\ \A q \in Runs, x \in Deliveries : q # r \/ x # d => job'[q][x] = job[q][x]
<1>1. job \in [Runs -> [Deliveries -> Jobs]] /\ job[r][d] \in Jobs /\ attempts[d] \in Nat
  BY DEF TypeOK, Jobs
<1>2. \E next \in Jobs : Continue(r, d, next)
  <2>1. {"vet", "claim", "reject", "post", "finalize", "health", "disable"} \subseteq Steps
    BY DEF Steps
  <2>2. CASE Read(r, d)
    <3>1. [AtStep("vet") EXCEPT !.seen = attempts[d]] \in Jobs
      BY <1>1, <2>1, JobType
    <3> QED BY <2>2, <3>1, JobType DEF Read
  <2>3. CASE Vet(r, d)
    <3>1. [job[r][d] EXCEPT !.step = "claim"] \in Jobs /\ [job[r][d] EXCEPT !.step = "reject"] \in Jobs
      BY <1>1, <2>1, JobType
    <3> QED BY <2>3, <3>1 DEF Vet
  <2>4. CASE Reject(r, d)
    BY <2>4, JobType DEF Reject
  <2>5. CASE Claim(r, d)
    <3>1. [job[r][d] EXCEPT !.step = "post"] \in Jobs
      BY <1>1, <2>1, JobType
    <3> QED BY <2>5, <3>1, JobType DEF Claim
  <2>6. CASE Post(r, d)
    <3>1. \A ok \in BOOLEAN : [job[r][d] EXCEPT !.step = "finalize", !.ok = ok] \in Jobs
      BY <1>1, <2>1, JobType
    <3> QED BY <2>6, <3>1 DEF Post
  <2>7. CASE Finalize(r, d)
    <3>1. AtStep("health") \in Jobs
      BY <2>1, JobType
    <3> QED BY <2>7, <3>1, JobType DEF Finalize
  <2>8. CASE ReadHealth(r, d) \/ Disable(r, d)
    <3>1. AtStep("disable") \in Jobs
      BY <2>1, JobType
    <3> QED BY <2>8, <3>1, JobType DEF ReadHealth, Disable
  <2> QED BY <2>2, <2>3, <2>4, <2>5, <2>6, <2>7, <2>8 DEF Call
<1> QED BY <1>1, <1>2, ContinueType

\* Where each call leaves its job.
LEMMA CallMoves ==
    ASSUME TypeOK, NEW r \in Runs, NEW d \in Deliveries
    PROVE  /\ Read(r, d) => job'[r][d].step \in {"none", "vet"}
           /\ Vet(r, d) => \/ job'[r][d].step = "claim"
                           \/ job'[r][d].step = "reject" /\ EndpointOf[d] \in Unsafe
           /\ Reject(r, d) => job'[r][d].step = "none"
           /\ Claim(r, d) => job'[r][d].step = IF Claimable(r, d) THEN "post" ELSE "none"
           /\ Post(r, d) => job'[r][d].step = "finalize"
           /\ Finalize(r, d) => job'[r][d].step \in {"none", "health"}
           /\ ReadHealth(r, d) => job'[r][d].step \in {"none", "disable"}
           /\ Disable(r, d) => job'[r][d].step = "none"
<1>0. job \in [Runs -> [Deliveries -> Jobs]] /\ job[r][d] \in Jobs /\ attempts[d] \in Nat
  BY DEF TypeOK, Jobs
<1>1. \A next : Continue(r, d, next) => job'[r][d] = next
  BY <1>0 DEF Continue
<1>2. {"vet", "claim", "reject", "post", "finalize", "health", "disable"} \subseteq Steps
  BY DEF Steps
<1>3. Read(r, d) => job'[r][d].step \in {"none", "vet"}
  <2>1. [AtStep("vet") EXCEPT !.seen = attempts[d]].step = "vet"
    BY <1>0 DEF AtStep, Idle
  <2> QED BY <1>1, <2>1, JobType DEF Read
<1>4. Vet(r, d) => \/ job'[r][d].step = "claim"
                   \/ job'[r][d].step = "reject" /\ EndpointOf[d] \in Unsafe
  <2> SUFFICES ASSUME NEW safe \in {TRUE} \cup {EndpointOf[d] \notin Unsafe},
                      Continue(r, d, [job[r][d] EXCEPT !.step = IF safe THEN "claim" ELSE "reject"])
               PROVE  \/ job'[r][d].step = "claim"
                      \/ job'[r][d].step = "reject" /\ EndpointOf[d] \in Unsafe
    BY DEF Vet
  <2>1. /\ [job[r][d] EXCEPT !.step = "claim"].step = "claim"
        /\ [job[r][d] EXCEPT !.step = "reject"].step = "reject"
    BY <1>0 DEF Jobs
  <2>2. CASE safe
    BY <1>1, <2>1, <2>2
  <2>3. CASE ~safe
    BY <1>1, <2>1, <2>3
  <2> QED BY <2>2, <2>3
<1>5. Reject(r, d) \/ Disable(r, d) => job'[r][d].step = "none"
  BY <1>1, JobType DEF Reject, Disable
<1>6. Claim(r, d) => job'[r][d].step = IF Claimable(r, d) THEN "post" ELSE "none"
  <2>1. [job[r][d] EXCEPT !.step = "post"].step = "post"
    BY <1>0 DEF Jobs
  <2> QED BY <1>1, <2>1, JobType DEF Claim
<1>7. Post(r, d) => job'[r][d].step = "finalize"
  <2>1. \A ok \in BOOLEAN : [job[r][d] EXCEPT !.step = "finalize", !.ok = ok].step = "finalize"
    BY <1>0 DEF Jobs
  <2> QED BY <1>1, <2>1 DEF Post
<1>8. Finalize(r, d) => job'[r][d].step \in {"none", "health"}
  <2>1. AtStep("health").step = "health" /\ Idle.step = "none"
    BY DEF AtStep, Idle
  <2> QED BY <1>1, <2>1, Zenon DEF Finalize
<1>9. ReadHealth(r, d) => job'[r][d].step \in {"none", "disable"}
  BY <1>1, <1>2, JobType DEF ReadHealth
<1> QED BY <1>3, <1>4, <1>5, <1>6, <1>7, <1>8, <1>9

\* A new delivery, and the copies of one press of the button, join the due list.
LEMMA CreatedListed ==
    ASSUME Shape, NEW d \in Deliveries, NEW original, Create(d, original)
    PROVE  ListsSound'
<1>1. d \notin ToSet(due) /\ d \notin ToSet(later) /\ due' = Append(due, d) /\ later' = later
  BY DEF Shape, ListsSound, Create
<1>2. due' \in Lists(Deliveries) /\ ToSet(due') = ToSet(due) \cup {d}
  BY <1>1, ListAppend DEF Shape, ListsSound
<1>3. {x \in Deliveries : status'[x] = "pending"} = {x \in Deliveries : status[x] = "pending"} \cup {d}
  BY DEF Shape, TypeOK, Create
<1> QED BY <1>1, <1>2, <1>3 DEF Shape, ListsSound

LEMMA CopiesListed ==
    ASSUME Shape, NEW b \in Buttons, ReplayWanted(b)
    PROVE  /\ ListsSound' /\ created' \in Seq(Deliveries) /\ aged \in 0..Len(created')
           /\ status' \in [Deliveries -> Statuses]
           /\ replayOf' \in [Deliveries -> Deliveries \cup {None}]
           /\ bulk' \in [Deliveries -> BOOLEAN]
<1> USE DEF TypeOK
<1>0. PICK copies \in SUBSET {d \in Deliveries : status[d] = "absent"} :
           \E of \in Bijection(copies, wanted[b]) :
             /\ status' = [d \in Deliveries |-> IF d \in copies THEN "pending" ELSE status[d]]
             /\ due' = due \o SetToSeq(copies)
             /\ created' = created \o SetToSeq(copies)
             /\ replayOf' = [d \in Deliveries |-> IF d \in copies THEN of[d] ELSE replayOf[d]]
             /\ bulk' = [d \in Deliveries |-> bulk[d] \/ d \in copies]
  BY DEF ReplayWanted
<1>1. PICK of \in Bijection(copies, wanted[b]) :
             /\ status' = [d \in Deliveries |-> IF d \in copies THEN "pending" ELSE status[d]]
             /\ due' = due \o SetToSeq(copies)
             /\ created' = created \o SetToSeq(copies)
             /\ replayOf' = [d \in Deliveries |-> IF d \in copies THEN of[d] ELSE replayOf[d]]
             /\ bulk' = [d \in Deliveries |-> bulk[d] \/ d \in copies]
  BY <1>0
<1>2. IsFiniteSet(copies) /\ copies \subseteq Deliveries
  BY DeliveryAssumption, FS_Subset
<1> DEFINE u == SetToSeq(copies)
<1>3. u \in Lists(copies) /\ ToSet(u) = copies
  BY <1>2, ListOfSet
<1>4. u \in Lists(Deliveries)
  BY <1>2, <1>3, ListFacts DEF Lists
<1> HIDE DEF u
<1>5. ListsSound'
  <2>1. copies \cap (ToSet(due) \cup ToSet(later)) = {}
    BY DEF Shape, ListsSound
  <2>2. due' \in Lists(Deliveries) /\ ToSet(due') = ToSet(due) \cup copies
    BY <1>1, <1>3, <1>4, <2>1, ListJoin DEF Shape, ListsSound, u
  <2>3. later' = later
    BY DEF ReplayWanted
  <2>4. {d \in Deliveries : status'[d] = "pending"} = {d \in Deliveries : status[d] = "pending"} \cup copies
    BY <1>1, <1>2 DEF Shape
  <2> QED BY <2>1, <2>2, <2>3, <2>4 DEF Shape, ListsSound
<1>6. created' \in Seq(Deliveries) /\ aged \in 0..Len(created')
  <2>1. created \in Seq(Deliveries) /\ u \in Seq(Deliveries) /\ aged \in 0..Len(created)
    BY <1>4, ListFacts DEF Shape
  <2> QED BY <1>1, <2>1 DEF u
<1>7. replayOf' \in [Deliveries -> Deliveries \cup {None}]
  <2>1. of \in [copies -> wanted[b]] /\ wanted[b] \subseteq Deliveries
    BY DEF Shape, Bijection, Injection
  <2> QED BY <1>1, <2>1 DEF Shape
<1>8. status' \in [Deliveries -> Statuses] /\ bulk' \in [Deliveries -> BOOLEAN]
  BY <1>1 DEF Shape, Statuses
<1> QED BY <1>5, <1>6, <1>7, <1>8

LEMMA RefusedUnlisted ==
    ASSUME Shape, NEW r \in Runs, NEW d \in Deliveries, Reject(r, d)
    PROVE  ListsSound'
<1>1. due' = RemoveFirst(due, d) /\ later' = RemoveFirst(later, d)
  BY DEF Reject
<1>2. /\ due' \in Lists(Deliveries) /\ ToSet(due') = ToSet(due) \ {d}
      /\ later' \in Lists(Deliveries) /\ ToSet(later') = ToSet(later) \ {d}
  BY <1>1, ListRemove DEF Shape, ListsSound
<1>3. {x \in Deliveries : status'[x] = "pending"} = {x \in Deliveries : status[x] = "pending"} \ {d}
  BY DEF Shape, TypeOK, Reject
<1> QED BY <1>2, <1>3 DEF Shape, ListsSound

\* A settled delivery leaves the lists, one to be tried again moves to the later.
LEMMA FinalizedListed ==
    ASSUME Shape, NEW r \in Runs, NEW d \in Deliveries, Finalize(r, d)
    PROVE  ListsSound'
<1> DEFINE outcome == Outcome(job[r][d])
<1>1. CASE UNCHANGED <<status, due, later>>
  BY <1>1 DEF Shape, ListsSound
<1>2. CASE /\ status' = [status EXCEPT ![d] = outcome]
           /\ due' = RemoveFirst(due, d)
           /\ \/ outcome # "pending" /\ later' = RemoveFirst(later, d)
              \/ /\ outcome = "pending"
                 /\ \E n \in 0..Len(RemoveFirst(later, d)) :
                        later' = InsertAt(RemoveFirst(later, d), n + 1, d)
  <2>1. /\ due' \in Lists(Deliveries) /\ ToSet(due') = ToSet(due) \ {d}
        /\ RemoveFirst(later, d) \in Lists(Deliveries)
        /\ ToSet(RemoveFirst(later, d)) = ToSet(later) \ {d}
    BY <1>2, ListRemove DEF Shape, ListsSound
  <2>2. {x \in Deliveries : status'[x] = "pending"} =
            IF outcome = "pending" THEN {x \in Deliveries : status[x] = "pending"} \cup {d}
                                   ELSE {x \in Deliveries : status[x] = "pending"} \ {d}
    BY <1>2 DEF Shape, TypeOK
  <2>3. CASE outcome # "pending"
    <3>1. later' = RemoveFirst(later, d)
      BY <1>2, <2>3
    <3> QED BY <2>1, <2>2, <2>3, <3>1 DEF Shape, ListsSound
  <2>4. CASE outcome = "pending"
    <3>1. PICK n \in 0..Len(RemoveFirst(later, d)) :
                   later' = InsertAt(RemoveFirst(later, d), n + 1, d)
      BY <1>2, <2>4
    <3>2. later' \in Lists(Deliveries) /\ ToSet(later') = (ToSet(later) \ {d}) \cup {d}
      BY <2>1, <3>1, ListInsert
    <3> QED BY <2>1, <2>2, <2>4, <3>2 DEF Shape, ListsSound
  <2> QED BY <2>3, <2>4
<1> QED BY <1>1, <1>2 DEF Finalize

LEMMA DueListed == ASSUME Shape, BecomesDue PROVE ListsSound'
<1>1. /\ Tail(later) \in Lists(Deliveries) /\ Head(later) \in ToSet(later)
      /\ ToSet(Tail(later)) = ToSet(later) \ {Head(later)}
  BY ListTail DEF Shape, ListsSound, BecomesDue
<1>2. Head(later) \in Deliveries \ ToSet(due)
  BY <1>1, ListFacts DEF Shape, ListsSound
<1>3. Append(due, Head(later)) \in Lists(Deliveries)
         /\ ToSet(Append(due, Head(later))) = ToSet(due) \cup {Head(later)}
  BY <1>2, ListAppend DEF Shape, ListsSound
<1>4. due' = Append(due, Head(later)) /\ later' = Tail(later) /\ status' = status
  BY DEF BecomesDue
<1> QED BY <1>1, <1>2, <1>3, <1>4 DEF Shape, ListsSound

LEMMA ListsStep == Shape /\ [Next]_vars => ListsSound'
<1> SUFFICES ASSUME Shape, [Next]_vars PROVE ListsSound'
  OBVIOUS
<1>1. CASE UNCHANGED <<due, later, status>>
  BY <1>1 DEF Shape, ListsSound
<1>2. ASSUME NEW r \in Runs, NEW d \in Deliveries, Call(r, d) PROVE ListsSound'
  BY <1>1, <1>2, RefusedUnlisted, FinalizedListed
     DEF Call, Read, Vet, Claim, Post, ReadHealth, Disable, rowVars
<1>3. CASE (\E d \in Deliveries : Enqueue(d))
           \/ (\E r \in Runs, original, d \in Deliveries : ReplayOne(r, original, d))
  BY <1>3, CreatedListed DEF Enqueue, ReplayOne
<1>4. CASE (\E d \in Deliveries : LeaseRunsOut(d)) \/ Ages \/ UNCHANGED vars
           \/ (\E r \in Runs : ProcessDeadLetterQueue(r) \/ Dies(r))
           \/ (\E e \in Endpoints : Toggle(e))
  BY <1>1, <1>4 DEF LeaseRunsOut, Ages, vars, ProcessDeadLetterQueue, Dies, Toggle, rowVars
<1>5. CASE \E b \in Buttons : ReplayWanted(b) \/ ReplayRefused(b) \/ \E e \in Endpoints : ReadFailed(b, e)
  BY <1>1, <1>5, CopiesListed DEF ReplayRefused, ReadFailed, rowVars
<1> QED BY <1>2, <1>3, <1>4, <1>5, DueListed DEF Next

\* The types of a call's step, besides those of its job.
LEMMA CallShape ==
    ASSUME Shape, NEW r \in Runs, NEW d \in Deliveries, Call(r, d)
    PROVE  Shape'
<1>0. TypeOK
  BY DEF Shape
<1>1. /\ job' \in [Runs -> [Deliveries -> Jobs]]
      /\ \A q \in Runs, x \in Deliveries : q # r \/ x # d => job'[q][x] = job[q][x]
  BY <1>0, CallType
<1>2. /\ job[r][d] \in Jobs /\ job[r][d].seen + 1 \in Nat
      /\ EndpointOf[d] \in Endpoints
  <2>1. job[r][d] \in Jobs /\ EndpointOf[d] \in Endpoints
    BY <1>0, DeliveryAssumption DEF TypeOK, Jobs
  <2> QED BY <2>1 DEF Jobs
<1>3. ListsSound' /\ ToSet(due' \o later') = {x \in Deliveries : status'[x] = "pending"}
      /\ Len(due' \o later') = Cardinality(ToSet(due' \o later'))
  <2>1. ListsSound'
    BY ListsStep DEF Next
  <2> QED BY <2>1, ListPair DEF ListsSound
<1>4. OnlyUnsafeRefused'
  <2>1. job'[r][d].step = "reject" => EndpointOf[d] \in Unsafe
    BY <1>0, CallMoves DEF Call
  <2> QED BY <1>1, <2>1 DEF Shape, OnlyUnsafeRefused
\* What the step has to do to the columns, besides.
<1>5. ASSUME status' \in [Deliveries -> Statuses],
             attempts' \in [Deliveries -> Nat], token' \in [Deliveries -> Nat],
             leased' \in [Deliveries -> BOOLEAN],
             active' \in [Endpoints -> BOOLEAN],
             posts' \in [Deliveries -> Nat], notices' \in [Endpoints -> Nat],
             rejected' \subseteq {x \in Deliveries : EndpointOf[x] \in Unsafe},
             UNCHANGED <<originVars, aged, wanted, edits, faults>>
      PROVE  Shape'
  BY <1>0, <1>1, <1>3, <1>4, <1>5 DEF Shape, TypeOK, Jobs, originVars
<1> USE DEF TypeOK
<1>6. CASE Read(r, d) \/ Vet(r, d) \/ ReadHealth(r, d)
  BY <1>0, <1>5, <1>6 DEF Read, Vet, ReadHealth, rowVars, historyVars
<1>7. CASE Reject(r, d)
  <2>1. EndpointOf[d] \in Unsafe
    BY <1>7 DEF Reject, Shape, OnlyUnsafeRefused
  <2> QED BY <1>0, <1>5, <1>7, <2>1 DEF Reject, Statuses
<1>8. CASE Claim(r, d)
  BY <1>0, <1>2, <1>5, <1>8 DEF Claim, historyVars
<1>9. CASE Post(r, d)
  <2>1. posts' \in [Deliveries -> Nat]
    BY <1>0, <1>9 DEF Post
  <2> QED BY <1>0, <1>5, <1>9, <2>1 DEF Post, rowVars
<1>10. CASE Finalize(r, d)
  <2>1. Outcome(job[r][d]) \in Statuses
    BY DEF Outcome, Statuses
  <2>2. status' \in [Deliveries -> Statuses] /\ token' \in [Deliveries -> Nat]
           /\ leased' \in [Deliveries -> BOOLEAN]
    <3>1. /\ \/ status' = [status EXCEPT ![d] = Outcome(job[r][d])]
             \/ status' = status
          /\ token' = [token EXCEPT ![d] = 0] \/ token' = token
          /\ leased' = [leased EXCEPT ![d] = FALSE] \/ leased' = leased
      BY <1>10 DEF Finalize
    <3>2. /\ status \in [Deliveries -> Statuses] /\ token \in [Deliveries -> Nat]
          /\ leased \in [Deliveries -> BOOLEAN]
      BY <1>0
    <3>3. status' \in [Deliveries -> Statuses]
      BY <2>1, <3>1, <3>2
    <3>4. token' \in [Deliveries -> Nat]
      BY <3>1, <3>2
    <3>5. leased' \in [Deliveries -> BOOLEAN]
      BY <3>1, <3>2
    <3> QED BY <3>3, <3>4, <3>5
  <2>3. UNCHANGED <<attempts, originVars, aged, active, wanted, edits, faults, historyVars>>
    BY <1>10 DEF Finalize
  <2> QED BY <1>0, <1>5, <2>2, <2>3 DEF historyVars
<1>11. CASE Disable(r, d)
  <2>1. active' \in [Endpoints -> BOOLEAN] /\ notices' \in [Endpoints -> Nat]
    BY <1>0, <1>2, <1>11 DEF Disable
  <2>2. UNCHANGED <<rowVars, originVars, aged, wanted, edits, faults, posts, rejected>>
    BY <1>11 DEF Disable
  <2> QED BY <1>0, <1>5, <2>1, <2>2 DEF rowVars
<1> QED BY <1>6, <1>7, <1>8, <1>9, <1>10, <1>11 DEF Call

\* The types of every other step.
LEMMA OtherShape ==
    ASSUME Shape, [Next]_vars, ~ \E r \in Runs, d \in Deliveries : Call(r, d)
    PROVE  Shape'
<1> USE DEF TypeOK, rowVars, originVars, historyVars
<1>1. ListsSound' /\ ToSet(due' \o later') = {x \in Deliveries : status'[x] = "pending"}
      /\ Len(due' \o later') = Cardinality(ToSet(due' \o later'))
  <2>1. ListsSound'
    BY ListsStep
  <2> QED BY <2>1, ListPair DEF ListsSound
<1>2. job \in [Runs -> [Deliveries -> Jobs]] /\ Idle \in Jobs /\ AtStep("listed") \in Jobs
      /\ Idle.step # "reject" /\ AtStep("listed").step # "reject"
  BY JobType DEF Shape, Jobs, Steps
\* A step that leaves the jobs, or lists deliveries, or ends a run.
<1>3. ASSUME job' \in [Runs -> [Deliveries -> Jobs]],
             \A q \in Runs, x \in Deliveries :
                 job'[q][x] \in {job[q][x], Idle, AtStep("listed")}
      PROVE  /\ OnlyUnsafeRefused'
             /\ job' \in [Runs -> [Deliveries -> [step : Steps, seen : Nat, ok : BOOLEAN]]]
  BY <1>2, <1>3 DEF Shape, OnlyUnsafeRefused, Jobs
<1>0. UNCHANGED job => OnlyUnsafeRefused' /\ job' \in [Runs -> [Deliveries -> [step : Steps, seen : Nat, ok : BOOLEAN]]]
  BY DEF Shape, OnlyUnsafeRefused
<1>4. ASSUME NEW d \in Deliveries, Enqueue(d) PROVE Shape'
  BY <1>1, <1>0, <1>4 DEF Shape, Enqueue, Create, Statuses
<1>5. ASSUME NEW d \in Deliveries, LeaseRunsOut(d) PROVE Shape'
  <2>1. faults' \in 0..MaxFaults
    BY <1>5, BoundsAssumption DEF LeaseRunsOut, Shape
  <2> QED BY <1>1, <1>0, <1>5, <2>1 DEF Shape, LeaseRunsOut
<1>6. ASSUME NEW b \in Buttons, ReplayWanted(b) PROVE Shape'
  <2>1. wanted' \in [Buttons -> SUBSET Deliveries]
    BY <1>6 DEF ReplayWanted, Shape
  <2>2. /\ created' \in Seq(Deliveries) /\ aged' \in 0..Len(created')
        /\ status' \in [Deliveries -> Statuses]
        /\ replayOf' \in [Deliveries -> Deliveries \cup {None}]
        /\ bulk' \in [Deliveries -> BOOLEAN]
    BY <1>6, CopiesListed DEF ReplayWanted
  <2>3. UNCHANGED <<attempts, token, leased, later, aged, active, job, edits, faults, historyVars>>
    BY <1>6 DEF ReplayWanted
  <2> QED BY <1>1, <1>0, <2>1, <2>2, <2>3 DEF Shape
<1>7. ASSUME NEW b \in Buttons, ReplayRefused(b) \/ \E e \in Endpoints : ReadFailed(b, e)
      PROVE  Shape'
  <2>0. \A e : Unreplayed(e) \subseteq Deliveries
    BY DEF Unreplayed
  <2>1. wanted' \in [Buttons -> SUBSET Deliveries]
    <3>1. \/ wanted' = [wanted EXCEPT ![b] = {}]
          \/ \E e \in Endpoints : wanted' = [wanted EXCEPT ![b] = Unreplayed(e)]
      BY <1>7 DEF ReplayRefused, ReadFailed
    <3>2. wanted \in [Buttons -> SUBSET Deliveries]
      BY DEF Shape
    <3> QED BY <2>0, <3>1, <3>2
  <2>2. UNCHANGED <<rowVars, originVars, aged, active, job, edits, faults, historyVars>>
    BY <1>7 DEF ReplayRefused, ReadFailed
  <2> QED BY <1>1, <1>0, <2>1, <2>2 DEF Shape
<1>8. ASSUME NEW e \in Endpoints, Toggle(e) PROVE Shape'
  <2>1. edits' \in 0..MaxEdits
    BY <1>8, BoundsAssumption DEF Toggle, Shape
  <2> QED BY <1>1, <1>0, <1>8, <2>1 DEF Shape, Toggle
<1>9. CASE BecomesDue
  BY <1>1, <1>0, <1>9 DEF Shape, BecomesDue
<1>10. CASE Ages
  <2>1. aged' \in 0..Len(created)
    BY <1>10, LenProperties DEF Ages, Shape
  <2> QED BY <1>1, <1>0, <1>10, <2>1 DEF Shape, Ages
<1>11. CASE UNCHANGED vars
  BY <1>1, <1>0, <1>11 DEF Shape, vars
<1>12. ASSUME NEW r \in Runs, ProcessDeadLetterQueue(r) PROVE Shape'
  <2>1. /\ job' \in [Runs -> [Deliveries -> Jobs]]
        /\ \A q \in Runs, x \in Deliveries : job'[q][x] \in {job[q][x], Idle, AtStep("listed")}
    BY <1>2, <1>12 DEF ProcessDeadLetterQueue
  <2> QED BY <1>1, <1>3, <1>12, <2>1 DEF Shape, ProcessDeadLetterQueue
<1>13. ASSUME NEW r \in Runs, Dies(r) PROVE Shape'
  <2>1. /\ job' \in [Runs -> [Deliveries -> Jobs]]
        /\ \A q \in Runs, x \in Deliveries : job'[q][x] \in {job[q][x], Idle, AtStep("listed")}
    BY <1>2, <1>13 DEF Dies
  <2>2. faults' \in 0..MaxFaults
    BY <1>13, BoundsAssumption DEF Dies, Shape
  <2> QED BY <1>1, <1>3, <1>13, <2>1, <2>2 DEF Shape, Dies
<1>14. ASSUME NEW r \in Runs, NEW original \in Deliveries, NEW d \in Deliveries,
              ReplayOne(r, original, d)
       PROVE  Shape'
  <2>1. /\ job' \in [Runs -> [Deliveries -> Jobs]]
        /\ \A q \in Runs, x \in Deliveries : job'[q][x] \in {job[q][x], Idle, AtStep("listed")}
    BY <1>2, <1>14 DEF ReplayOne
  <2>2. /\ status' \in [Deliveries -> Statuses] /\ created' \in Seq(Deliveries)
        /\ aged \in 0..Len(created') /\ replayOf' \in [Deliveries -> Deliveries \cup {None}]
    BY <1>14 DEF Shape, ReplayOne, Create, Statuses
  <2>3. UNCHANGED <<attempts, token, leased, bulk, aged, active, wanted, edits, faults, historyVars>>
    BY <1>14 DEF ReplayOne, Create
  <2> QED BY <1>1, <1>3, <2>1, <2>2, <2>3 DEF Shape
<1> QED BY <1>4, <1>5, <1>6, <1>7, <1>8, <1>9, <1>10, <1>11, <1>12, <1>13, <1>14 DEF Next

LEMMA ShapeInit == Init => Shape
<1> SUFFICES ASSUME Init PROVE Shape
  OBVIOUS
<1>1. /\ \A S : <<>> \in Lists(S) /\ ToSet(<<>>) = {} 
      /\ 0 \in 0..MaxEdits /\ 0 \in 0..MaxFaults /\ 0 \in 0..Len(<<>>)
  BY BoundsAssumption DEF Lists, IsInjective, ToSet
<1>2. ListsSound
  BY <1>1 DEF Init, ListsSound
<1>3. /\ ToSet(due \o later) = {d \in Deliveries : status[d] = "pending"}
      /\ Len(due \o later) = Cardinality(ToSet(due \o later))
  BY <1>2, ListPair DEF ListsSound
<1>4. created \in Seq(Deliveries) /\ aged \in 0..Len(created)
  BY <1>1 DEF Init
<1>5. Idle \in Jobs /\ Idle.step # "reject"
  BY JobType
<1>6. job \in [Runs -> [Deliveries -> Jobs]] /\ OnlyUnsafeRefused
  BY <1>5 DEF Init, OnlyUnsafeRefused
<1> QED BY <1>1, <1>2, <1>3, <1>4, <1>6 DEF Init, Shape, TypeOK, Statuses, Jobs

LEMMA ShapeStep == Shape /\ [Next]_vars => Shape'
BY CallShape, OtherShape

-----------------------------------------------------------------------------
(***************************************************************************)
(* The attempts: a lease carries the number of the latest claim, each      *)
(* number is posted by the one call that claimed it, and a delivery is     *)
(* given up only by the call that made the last one.                       *)
(***************************************************************************)
TokenIsLatest == \A d \in Deliveries : token[d] # 0 => token[d] = attempts[d]

Posting(d) == {r \in Runs : job[r][d].step = "post"}

AttemptInv == Shape /\ TokenIsLatest /\ OnePostPerAttempt /\ AllRetriesUsed

LEMMA PostingFinite == \A d : IsFiniteSet(Posting(d)) /\ Cardinality(Posting(d)) \in Nat
BY DeliveryAssumption, FS_Subset, FS_CardinalityType DEF Posting

\* Fewer calls about to post, and no more posts or attempts.
LEMMA PostsRest ==
    ASSUME Shape, OnePostPerAttempt, [Next]_vars,
           posts' = posts, attempts' = attempts,
           \A d \in Deliveries : Posting(d)' \subseteq Posting(d)
    PROVE  OnePostPerAttempt'
<1> SUFFICES ASSUME NEW d \in Deliveries
             PROVE  posts[d] + Cardinality(Posting(d)') <= attempts[d]
  BY DEF OnePostPerAttempt, Posting
<1>1. Cardinality(Posting(d)') <= Cardinality(Posting(d)) /\ Cardinality(Posting(d)') \in Nat
  BY PostingFinite, FS_Subset, FS_CardinalityType
<1>2. posts[d] + Cardinality(Posting(d)) <= attempts[d]
  BY DEF OnePostPerAttempt, Posting
<1> QED BY <1>1, <1>2, PostingFinite DEF Shape, TypeOK

\* A claim takes the next number for one call, a POST uses it up.
LEMMA PostsCall ==
    ASSUME Shape, OnePostPerAttempt, NEW r \in Runs, NEW d \in Deliveries, Call(r, d)
    PROVE  OnePostPerAttempt'
<1>0. TypeOK /\ [Next]_vars
  BY DEF Shape, Next
<1>1. \A x \in Deliveries \ {d} : Posting(x)' = Posting(x)
  BY <1>0, CallType DEF Posting
<1>2. \A q \in Runs \ {r} : q \in Posting(d)' <=> q \in Posting(d)
  BY <1>0, CallType DEF Posting
<1>3. /\ posts[d] \in Nat /\ attempts[d] \in Nat
      /\ posts[d] + Cardinality(Posting(d)) <= attempts[d]
  BY <1>0 DEF TypeOK, OnePostPerAttempt, Posting
<1>4. CASE Claim(r, d) /\ Claimable(r, d)
  <2>1. Posting(d)' = Posting(d) \cup {r} /\ r \notin Posting(d)
    <3>1. job'[r][d].step = "post" /\ job[r][d].step = "claim"
      BY <1>0, <1>4, CallMoves DEF Claim
    <3> QED BY <1>2, <3>1 DEF Posting
  <2>2. Cardinality(Posting(d)') = Cardinality(Posting(d)) + 1
    BY <2>1, PostingFinite, FS_AddElement
  <2>3. posts' = posts /\ attempts' = [attempts EXCEPT ![d] = attempts[d] + 1]
    BY <1>4 DEF Claim, Claimable, historyVars
  <2>4. posts'[d] + Cardinality(Posting(d)') <= attempts'[d]
    BY <1>0, <1>3, <2>2, <2>3, PostingFinite DEF TypeOK
  <2>5. \A x \in Deliveries \ {d} : posts'[x] + Cardinality(Posting(x)') <= attempts'[x]
    BY <1>0, <1>1, <2>3 DEF TypeOK, OnePostPerAttempt, Posting
  <2> QED BY <2>4, <2>5 DEF OnePostPerAttempt, Posting
<1>5. CASE Post(r, d)
  <2>1. Posting(d)' = Posting(d) \ {r} /\ r \in Posting(d)
    <3>1. job'[r][d].step = "finalize" /\ job[r][d].step = "post"
      BY <1>0, <1>5, CallMoves DEF Post
    <3> QED BY <1>2, <3>1 DEF Posting
  <2>2. Cardinality(Posting(d)') = Cardinality(Posting(d)) - 1
    BY <2>1, PostingFinite, FS_RemoveElement
  <2>3. attempts' = attempts /\ posts' = [posts EXCEPT ![d] = posts[d] + 1]
    BY <1>5 DEF Post, rowVars
  <2>4. posts'[d] + Cardinality(Posting(d)') <= attempts'[d]
    BY <1>0, <1>3, <2>2, <2>3, PostingFinite DEF TypeOK
  <2>5. \A x \in Deliveries \ {d} : posts'[x] + Cardinality(Posting(x)') <= attempts'[x]
    BY <1>0, <1>1, <2>3 DEF TypeOK, OnePostPerAttempt, Posting
  <2> QED BY <2>4, <2>5 DEF OnePostPerAttempt, Posting
<1>6. CASE ~Post(r, d) /\ ~(Claim(r, d) /\ Claimable(r, d))
  <2>1. posts' = posts /\ attempts' = attempts
    BY <1>6 DEF Call, Read, Vet, Reject, Claim, Finalize, ReadHealth, Disable, rowVars, historyVars
  <2>2. job'[r][d].step # "post"
    BY <1>0, <1>6, CallMoves DEF Call
  <2>3. \A x \in Deliveries : Posting(x)' \subseteq Posting(x)
    BY <1>1, <1>2, <2>2 DEF Posting
  <2> QED BY <1>0, <2>1, <2>3, PostsRest
<1> QED BY <1>4, <1>5, <1>6

\* The steps that are not of a call: none posts, claims or clears a lease.
LEMMA OthersWait ==
    ASSUME TypeOK, [Next]_vars, ~ \E r \in Runs, d \in Deliveries : Call(r, d)
    PROVE  /\ UNCHANGED <<posts, attempts, token, rejected, notices>>
           /\ \A d \in Deliveries : Posting(d)' \subseteq Posting(d)
           /\ \A d \in Deliveries : status'[d] = "failed" => status[d] = "failed"
<1> USE DEF TypeOK, rowVars, originVars, historyVars
<1>1. UNCHANGED <<posts, attempts, token, rejected, notices>>
  BY DEF Next, Enqueue, LeaseRunsOut, ReplayOne, Create, ReplayWanted, ReplayRefused, ReadFailed,
         ProcessDeadLetterQueue, Dies, Toggle, BecomesDue, Ages, vars
<1>2. \A d \in Deliveries : Posting(d)' \subseteq Posting(d)
  <2>1. \/ job' = job
        \/ \E r \in Runs : job' = [job EXCEPT ![r] = [d \in Deliveries |-> Idle]]
        \/ \E r \in Runs, d \in Deliveries : job' = [job EXCEPT ![r][d] = AtStep("listed")]
        \/ \E r \in Runs : \E listed : job' = [job EXCEPT ![r] = [d \in Deliveries |->
               IF d \in listed THEN AtStep("listed") ELSE Idle]]
    <3>1. CASE \E r \in Runs : ProcessDeadLetterQueue(r)
      <4>1. PICK r \in Runs : job' = [job EXCEPT ![r] = [d \in Deliveries |->
              IF d \in ToSet(Prefix(Candidates, Take)) THEN AtStep("listed") ELSE Idle]]
        BY <3>1, Zenon DEF ProcessDeadLetterQueue
      <4>2. \E listed : job' = [job EXCEPT ![r] = [d \in Deliveries |->
              IF d \in listed THEN AtStep("listed") ELSE Idle]]
        BY <4>1, Zenon
      <4> QED BY <4>2, Zenon
    <3>2. CASE \E r \in Runs : Dies(r)
      BY <3>2, Zenon DEF Dies
    <3>3. CASE \E r \in Runs, original, d \in Deliveries : ReplayOne(r, original, d)
      BY <3>3, Zenon DEF ReplayOne
    <3>4. CASE \/ \E d \in Deliveries : Enqueue(d) \/ LeaseRunsOut(d)
               \/ \E b \in Buttons : ReplayWanted(b) \/ ReplayRefused(b) \/ \E e \in Endpoints : ReadFailed(b, e)
               \/ \E e \in Endpoints : Toggle(e)
               \/ BecomesDue \/ Ages \/ UNCHANGED vars
      <4>1. job' = job
        BY <3>4 DEF Enqueue, LeaseRunsOut, ReplayWanted, ReplayRefused, ReadFailed,
           Toggle, BecomesDue, Ages, vars
      <4> QED BY <4>1
    <3> QED BY <3>1, <3>2, <3>3, <3>4, Zenon DEF Next
  <2>2. Idle.step # "post" /\ AtStep("listed").step # "post"
    BY DEF Idle, AtStep
  <2>3. \A q \in Runs, x \in Deliveries : job'[q][x] \in {job[q][x], Idle, AtStep("listed")}
    <3>1. job \in [Runs -> [Deliveries -> Jobs]]
      BY DEF Jobs
    <3>2. ASSUME NEW r \in Runs, NEW d \in Deliveries, job' = [job EXCEPT ![r][d] = AtStep("listed")]
          PROVE  \A q \in Runs, x \in Deliveries : job'[q][x] \in {job[q][x], AtStep("listed")}
      BY <3>1, <3>2
    <3>3. ASSUME NEW r \in Runs, NEW listed, job' = [job EXCEPT ![r] = [d \in Deliveries |->
                     IF d \in listed THEN AtStep("listed") ELSE Idle]]
          PROVE  \A q \in Runs, x \in Deliveries : job'[q][x] \in {job[q][x], Idle, AtStep("listed")}
      BY <3>1, <3>3
    <3>4. ASSUME NEW r \in Runs, job' = [job EXCEPT ![r] = [d \in Deliveries |-> Idle]]
          PROVE  \A q \in Runs, x \in Deliveries : job'[q][x] \in {job[q][x], Idle}
      BY <3>1, <3>4
    <3> QED BY <2>1, <3>2, <3>3, <3>4, Zenon
  <2> QED BY <2>2, <2>3 DEF Posting
<1>3. \A d \in Deliveries : status'[d] = "failed" => status[d] = "failed"
  <2>1. CASE \E b \in Buttons : ReplayWanted(b)
    BY <2>1 DEF ReplayWanted
  <2>2. CASE status' = status
    BY <2>2
  <2>3. CASE \E d \in Deliveries : \E o : Create(d, o)
    BY <2>3 DEF Create
  <2>4. CASE \E d \in Deliveries : Enqueue(d) \/ LeaseRunsOut(d)
    BY <2>2, <2>3, <2>4 DEF Enqueue, LeaseRunsOut
  <2>5. CASE \E r \in Runs, original, d \in Deliveries : ReplayOne(r, original, d)
    BY <2>2, <2>3, <2>5 DEF ReplayOne
  <2>6. CASE \/ \E b \in Buttons : ReplayRefused(b) \/ \E e \in Endpoints : ReadFailed(b, e)
             \/ \E r \in Runs : ProcessDeadLetterQueue(r) \/ Dies(r)
             \/ \E e \in Endpoints : Toggle(e)
             \/ BecomesDue \/ Ages \/ UNCHANGED vars
    BY <2>2, <2>6 DEF ReplayRefused, ReadFailed, ProcessDeadLetterQueue, Dies, Toggle,
       BecomesDue, Ages, vars
  <2> QED BY <2>1, <2>4, <2>5, <2>6 DEF Next
<1> QED BY <1>1, <1>2, <1>3

LEMMA TokenCall ==
    ASSUME TypeOK, TokenIsLatest, NEW r \in Runs, NEW d \in Deliveries, Call(r, d)
    PROVE  TokenIsLatest'
<1> USE DEF TypeOK
<1>1. CASE Claim(r, d)
  <2>1. CASE UNCHANGED <<attempts, token>>
    BY <2>1 DEF TokenIsLatest
  <2>2. CASE /\ attempts' = [attempts EXCEPT ![d] = job[r][d].seen + 1]
             /\ token' = [token EXCEPT ![d] = job[r][d].seen + 1]
    BY <2>2 DEF TokenIsLatest
  <2> QED BY <1>1, <2>1, <2>2 DEF Claim
<1>2. CASE Finalize(r, d)
  <2>1. attempts' = attempts /\ (token' = [token EXCEPT ![d] = 0] \/ token' = token)
    BY <1>2 DEF Finalize
  <2> QED BY <2>1 DEF TokenIsLatest
<1>3. CASE Read(r, d) \/ Vet(r, d) \/ Reject(r, d) \/ Post(r, d) \/ ReadHealth(r, d) \/ Disable(r, d)
  BY <1>3 DEF Read, Vet, Reject, Post, ReadHealth, Disable, TokenIsLatest, rowVars
<1> QED BY <1>1, <1>2, <1>3 DEF Call

\* A delivery fails for good at its last attempt, or when its host is refused.
LEMMA RetriesCall ==
    ASSUME TypeOK, TokenIsLatest, AllRetriesUsed, NEW r \in Runs, NEW d \in Deliveries, Call(r, d)
    PROVE  AllRetriesUsed'
<1>0. /\ attempts \in [Deliveries -> Nat] /\ status \in [Deliveries -> Statuses]
      /\ token \in [Deliveries -> Nat] /\ job[r][d].seen \in Nat /\ MaxRetries \in Nat
  BY BoundsAssumption DEF TypeOK
<1>1. CASE Reject(r, d)
  BY <1>0, <1>1 DEF Reject, AllRetriesUsed
<1>2. CASE Claim(r, d)
  <2>1. /\ status' = status /\ rejected' = rejected
        /\ attempts' = attempts \/ attempts' = [attempts EXCEPT ![d] = attempts[d] + 1]
    BY <1>2 DEF Claim, Claimable, historyVars
  <2> QED BY <1>0, <2>1 DEF AllRetriesUsed
<1>3. CASE Finalize(r, d)
  <2>1. attempts' = attempts /\ rejected' = rejected
    BY <1>3 DEF Finalize, historyVars
  <2>2. \/ status' = status
        \/ status' = [status EXCEPT ![d] = Outcome(job[r][d])] /\ token[d] = job[r][d].seen + 1
    BY <1>3 DEF Finalize, OwnToken
  <2>3. Outcome(job[r][d]) = "failed" => job[r][d].seen + 1 >= MaxRetries
    BY DEF Outcome
  <2>4. status'[d] = "failed" /\ status' # status => attempts[d] >= MaxRetries
    BY <1>0, <2>2, <2>3 DEF TokenIsLatest
  <2>5. \A x \in Deliveries \ {d} : status'[x] = status[x]
    BY <1>0, <2>2
  <2> QED BY <1>0, <2>1, <2>4, <2>5 DEF AllRetriesUsed
<1>4. CASE Read(r, d) \/ Vet(r, d) \/ Post(r, d) \/ ReadHealth(r, d) \/ Disable(r, d)
  BY <1>4 DEF Read, Vet, Post, ReadHealth, Disable, AllRetriesUsed, rowVars, historyVars
<1> QED BY <1>1, <1>2, <1>3, <1>4 DEF Call

LEMMA AttemptInit == Init => AttemptInv
<1> SUFFICES ASSUME Init PROVE AttemptInv
  OBVIOUS
<1>1. \A d \in Deliveries : Posting(d) = {} /\ posts[d] = 0 /\ attempts[d] = 0 /\ status[d] = "absent"
  BY DEF Init, Posting, Idle
<1>2. OnePostPerAttempt
  <2>1. \A d \in Deliveries : posts[d] + Cardinality(Posting(d)) <= attempts[d]
    BY <1>1, FS_EmptySet
  <2> QED BY <2>1 DEF OnePostPerAttempt, Posting
<1> QED BY <1>1, <1>2, ShapeInit DEF Init, AttemptInv, TokenIsLatest, AllRetriesUsed

LEMMA AttemptStep == AttemptInv /\ [Next]_vars => AttemptInv'
<1> SUFFICES ASSUME AttemptInv, [Next]_vars PROVE AttemptInv'
  OBVIOUS
<1>1. Shape' /\ TypeOK
  BY ShapeStep DEF AttemptInv, Shape
<1>2. CASE \E r \in Runs, d \in Deliveries : Call(r, d)
  BY <1>1, <1>2, PostsCall, TokenCall, RetriesCall DEF AttemptInv
<1>3. CASE ~ \E r \in Runs, d \in Deliveries : Call(r, d)
  <2>1. /\ UNCHANGED <<posts, attempts, token, rejected>>
        /\ \A d \in Deliveries : Posting(d)' \subseteq Posting(d)
        /\ \A d \in Deliveries : status'[d] = "failed" => status[d] = "failed"
    BY <1>1, <1>3, OthersWait
  <2>2. OnePostPerAttempt'
    BY <2>1, PostsRest DEF AttemptInv
  <2> QED BY <1>1, <2>1, <2>2 DEF AttemptInv, TokenIsLatest, AllRetriesUsed
<1> QED BY <1>2, <1>3

\* Every attempt number of a delivery is posted at most once, however runs and
\* replays overlap, stall and die, and none is left out before it is given up
\* (webhooks.ts processWebhookDelivery): for any number of them.
THEOREM AttemptsAreOnce == Spec => []EachAttemptOnce
<1>1. AttemptInv => EachAttemptOnce
  BY DEF AttemptInv, Shape, EachAttemptOnce
<1> QED BY <1>1, AttemptInit, AttemptStep, PTL DEF Spec

\* Only the call that made the latest claim clears a lease (webhooks.ts 195-219).
THEOREM StaleWorkersHarmless == Spec => StaleNeverFinalizes
<1>1. ASSUME TypeOK, TokenIsLatest, [Next]_vars
      PROVE  [\A d \in Deliveries : token[d] # 0 /\ token'[d] = 0 =>
                 \E r \in Runs : /\ job[r][d].step = "finalize" /\ job'[r][d].step # "finalize"
                                 /\ job[r][d].seen + 1 = attempts[d]]_vars
  <2> SUFFICES ASSUME NEW d \in Deliveries, token[d] # 0, token'[d] = 0
               PROVE  \E r \in Runs : /\ job[r][d].step = "finalize" /\ job'[r][d].step # "finalize"
                                      /\ job[r][d].seen + 1 = attempts[d]
    OBVIOUS
  <2>1. PICK r \in Runs, x \in Deliveries : Call(r, x)
    BY <1>1, OthersWait
  <2>2. Finalize(r, d) /\ OwnToken(r, d)
    <3>1. CASE Claim(r, x)
      <4>1. job[r][x].seen \in Nat
        BY <1>1 DEF TypeOK
      <4> QED BY <1>1, <3>1, <4>1 DEF Claim, TypeOK
    <3>2. CASE Finalize(r, x)
      <4>1. token' = token \/ (token' = [token EXCEPT ![x] = 0] /\ OwnToken(r, x))
        BY <3>2 DEF Finalize
      <4> QED BY <1>1, <3>2, <4>1 DEF TypeOK
    <3>3. CASE Read(r, x) \/ Vet(r, x) \/ Reject(r, x) \/ Post(r, x) \/ ReadHealth(r, x) \/ Disable(r, x)
      BY <3>3 DEF Read, Vet, Reject, Post, ReadHealth, Disable, rowVars
    <3> QED BY <2>1, <3>1, <3>2, <3>3 DEF Call
  <2>3. job[r][d].step = "finalize" /\ job'[r][d].step # "finalize"
    BY <1>1, <2>2, CallMoves DEF Finalize
  <2> QED BY <1>1, <2>2, <2>3 DEF OwnToken, TokenIsLatest
<1>2. AttemptInv => TypeOK /\ TokenIsLatest
  BY DEF AttemptInv, Shape
<1> QED BY <1>1, <1>2, AttemptInit, AttemptStep, PTL DEF Spec, StaleNeverFinalizes

\* The e-mail goes out with the switching off of the endpoint, once for each,
\* however many calls find it failing (webhook-health.ts 55-75).
THEOREM NoticeOncePerDisable == Spec => OneNoticePerDisable
<1>1. ASSUME TypeOK, [Next]_vars
      PROVE  [\A e \in Endpoints : notices'[e] # notices[e] =>
                 notices'[e] = notices[e] + 1 /\ active[e] /\ ~active'[e]]_vars
  <2> SUFFICES ASSUME NEW e \in Endpoints, notices'[e] # notices[e]
               PROVE  notices'[e] = notices[e] + 1 /\ active[e] /\ ~active'[e]
    OBVIOUS
  <2>1. PICK r \in Runs, d \in Deliveries : Call(r, d)
    BY <1>1, OthersWait
  <2>2. Disable(r, d)
    BY <2>1 DEF Call, Read, Vet, Reject, Claim, Post, Finalize, ReadHealth, historyVars
  <2>3. /\ notices' = [notices EXCEPT ![EndpointOf[d]] = notices[EndpointOf[d]] + 1]
        /\ active[EndpointOf[d]] /\ active' = [active EXCEPT ![EndpointOf[d]] = FALSE]
    BY <2>2 DEF Disable, Notice
  <2>4. e = EndpointOf[d]
    BY <1>1, <2>3 DEF TypeOK
  <2> QED BY <1>1, <2>3, <2>4 DEF TypeOK
<1>2. Shape => TypeOK
  BY DEF Shape
<1> QED BY <1>1, <1>2, ShapeInit, ShapeStep, PTL DEF Spec, OneNoticePerDisable
==============================================================================
