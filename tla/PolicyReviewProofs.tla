-------------------------- MODULE PolicyReviewProofs --------------------------
(***************************************************************************)
(* Theorems about PolicyReview, for any requests, reviews and threads.     *)
(*                                                                         *)
(* Whatever the interleaving and the faults: what is stored is well typed. *)
(* Applied one at a time, however often they fail: no two policies have    *)
(* one name, and what is written was reviewed against that very device.    *)
(* And a block that is applied is in force, and stays so, unless the       *)
(* requests nest in one of two ways that the code does not look at.        *)
(***************************************************************************)
EXTENDS PolicyReview, FiniteSetTheorems, FunctionTheorems, SequenceTheorems,
        WellFoundedInduction, TLAPS

-----------------------------------------------------------------------------
(* Positions. *)

LEMMA Least ==
    ASSUME NEW I, I \subseteq Nat, I # {}
    PROVE  LET k == CHOOSE i \in I : \A j \in I : i <= j
           IN  k \in I /\ \A j \in I : k <= j
<1> DEFINE R == OpToRel(<, Nat)
<1>1. PICK k \in I : \A j \in I : ~ (<<j, k>> \in R)
  BY NatLessThanWellFounded, WFMin
<1>2. \A j \in Nat : j < k => <<j, k>> \in R
  <2>1. R = {ss \in Nat \X Nat : ss[1] < ss[2]}
    BY DEF OpToRel
  <2> HIDE DEF R
  <2> QED
    BY <2>1
<1> HIDE DEF R
<1>3. ASSUME NEW j \in I PROVE k <= j
  <2>1. j \in Nat /\ k \in Nat /\ ~ (j < k)
    BY <1>1, <1>2
  <2> QED
    BY <2>1
<1> QED
  BY <1>3

DistinctIds(s) == \A i, j \in DOMAIN s : s[i].id = s[j].id => i = j

\* The policy of an id is where it is.
LEMMA IdPos ==
    ASSUME NEW s \in Seq(Policy), DistinctIds(s), NEW k \in DOMAIN s
    PROVE  FirstPos(s, LAMBDA x : x.id = s[k].id) = k
<1> DEFINE I == {i \in DOMAIN s : s[i].id = s[k].id}
<1>1. I = {k}
  BY DEF DistinctIds
<1> QED
  BY <1>1 DEF FirstPos

\* Where position n of a list is taken from when position j moves before l, and
\* where position i goes.
From(j, l, n) ==
    IF j < l THEN IF n < j \/ n >= l THEN n ELSE IF n = l - 1 THEN j ELSE n + 1
             ELSE IF n < l \/ n > j THEN n ELSE IF n = l THEN j ELSE n - 1

To(j, l, i) ==
    IF j < l THEN IF i < j \/ i >= l THEN i ELSE IF i = j THEN l - 1 ELSE i - 1
             ELSE IF i < l \/ i > j THEN i ELSE IF i = j THEN l ELSE i + 1

LEMMA MoveShape ==
    ASSUME NEW s \in Seq(Policy), DistinctIds(s),
           NEW j \in DOMAIN s, NEW l \in DOMAIN s, j # l
    PROVE  LET t == MoveBefore(s, s[j].id, s[l].id) IN
           /\ t \in Seq(Policy) /\ Len(t) = Len(s)
           /\ \A n \in 1..Len(s) : t[n] = s[From(j, l, n)]
<1> DEFINE N == Len(s)
           a == SubSeq(s, 1, j - 1)
           b == SubSeq(s, j + 1, N)
           rest == a \o b
           k == IF j < l THEN l - 1 ELSE l
<1>1. N \in Nat /\ DOMAIN s = 1..N /\ j \in 1..N /\ l \in 1..N /\ \A i \in 1..N : s[i] \in Policy
  BY LenProperties, ElementOfSeq
<1>2. /\ a \in Seq(Policy) /\ Len(a) = j - 1
      /\ \A i \in 1..(j - 1) : a[i] = s[i]
  <2>1. \A i \in 1..(j - 1) : s[i] \in Policy
    BY <1>1
  <2>2. /\ SubSeq(s, 1, j - 1) \in Seq(Policy)
        /\ Len(SubSeq(s, 1, j - 1)) = IF 1 <= j - 1 THEN (j - 1) - 1 + 1 ELSE 0
        /\ \A i \in 1..((j - 1) - 1 + 1) : SubSeq(s, 1, j - 1)[i] = s[1 + i - 1]
    BY <1>1, <2>1, SubSeqProperties
  <2> QED
    BY <1>1, <2>2
<1>3. /\ b \in Seq(Policy) /\ Len(b) = N - j
      /\ \A i \in 1..(N - j) : b[i] = s[j + i]
  <2>1. \A i \in (j + 1)..N : s[i] \in Policy
    BY <1>1
  <2>2. /\ SubSeq(s, j + 1, N) \in Seq(Policy)
        /\ Len(SubSeq(s, j + 1, N)) = IF j + 1 <= N THEN N - (j + 1) + 1 ELSE 0
        /\ \A i \in 1..(N - (j + 1) + 1) : SubSeq(s, j + 1, N)[i] = s[(j + 1) + i - 1]
    BY <1>1, <2>1, SubSeqProperties
  <2> QED
    BY <1>1, <2>2
<1> HIDE DEF a, b
<1>4. /\ rest \in Seq(Policy) /\ Len(rest) = N - 1
      /\ \A i \in 1..(N - 1) : rest[i] = IF i < j THEN s[i] ELSE s[i + 1]
  <2>1. /\ rest \in Seq(Policy) /\ Len(rest) = Len(a) + Len(b)
        /\ \A i \in 1..(Len(a) + Len(b)) : rest[i] = IF i <= Len(a) THEN a[i] ELSE b[i - Len(a)]
    BY <1>2, <1>3, ConcatProperties
  <2> HIDE DEF rest, N
  <2>2. Len(rest) = N - 1
    BY <1>1, <1>2, <1>3, <2>1
  <2>3. ASSUME NEW i \in 1..(N - 1) PROVE rest[i] = IF i < j THEN s[i] ELSE s[i + 1]
    <3>1. rest[i] = IF i <= Len(a) THEN a[i] ELSE b[i - Len(a)]
      BY <1>1, <1>2, <1>3, <2>1
    <3>2. CASE i < j
      <4>1. i \in 1..(j - 1) /\ i <= j - 1
        BY <1>1, <3>2
      <4> QED
        BY <1>2, <3>1, <3>2, <4>1
    <3>3. CASE ~(i < j)
      <4>1. ~(i <= j - 1) /\ i - (j - 1) \in 1..(N - j) /\ j + (i - (j - 1)) = i + 1
        BY <1>1, <3>3
      <4>2. rest[i] = b[i - (j - 1)]
        BY <1>2, <3>1, <4>1
      <4> QED
        BY <1>3, <3>3, <4>1, <4>2
    <3> QED
      BY <3>2, <3>3
  <2> QED
    BY <2>1, <2>2, <2>3
<1> HIDE DEF rest, N
<1>5. k \in 1..(N - 1) /\ rest[k] = s[l] /\ DOMAIN rest = 1..(N - 1)
  BY <1>1, <1>4, LenProperties
<1> HIDE DEF k
<1>6. DistinctIds(rest)
  <2> SUFFICES ASSUME NEW m \in 1..(N - 1), NEW n \in 1..(N - 1), rest[m].id = rest[n].id
               PROVE  m = n
    BY <1>5 DEF DistinctIds
  <2> DEFINE x == IF m < j THEN m ELSE m + 1
             y == IF n < j THEN n ELSE n + 1
  <2>1. x \in 1..N /\ y \in 1..N /\ rest[m] = s[x] /\ rest[n] = s[y]
    BY <1>1, <1>4
  <2>2. x = y
    BY <1>1, <2>1 DEF DistinctIds
  <2> QED
    BY <1>1, <2>2
<1>7. FirstPos(rest, LAMBDA x : x.id = s[l].id) = k
  <2>1. k \in DOMAIN rest /\ rest[k].id = s[l].id
    BY <1>5
  <2>2. FirstPos(rest, LAMBDA x : x.id = rest[k].id) = k
    BY <1>4, <1>6, <2>1, IdPos
  <2> QED
    BY <2>1, <2>2
<1>8. FirstPos(s, LAMBDA x : x.id = s[j].id) = j
  BY IdPos
<1> DEFINE c == SubSeq(rest, 1, k - 1)
           d == SubSeq(rest, k, Len(rest))
           t == (c \o <<s[j]>>) \o d
<1>9. MoveBefore(s, s[j].id, s[l].id) = t
  <2>1. rest = SubSeq(s, 1, j - 1) \o SubSeq(s, j + 1, Len(s))
    BY DEF rest, a, b, N
  <2> HIDE DEF c, d
  <2> QED
    BY <1>7, <1>8, <2>1 DEF MoveBefore, c, d
<1>10. \A i \in 1..(N - 1) : rest[i] \in Policy
  BY <1>4, <1>5, ElementOfSeq
<1>11. /\ c \in Seq(Policy) /\ Len(c) = k - 1
       /\ \A i \in 1..(k - 1) : c[i] = rest[i]
  <2>1. \A i \in 1..(k - 1) : rest[i] \in Policy
    BY <1>1, <1>5, <1>10
  <2>2. /\ SubSeq(rest, 1, k - 1) \in Seq(Policy)
        /\ Len(SubSeq(rest, 1, k - 1)) = IF 1 <= k - 1 THEN (k - 1) - 1 + 1 ELSE 0
        /\ \A i \in 1..((k - 1) - 1 + 1) : SubSeq(rest, 1, k - 1)[i] = rest[1 + i - 1]
    BY <1>1, <1>5, <2>1, SubSeqProperties
  <2> QED
    BY <1>1, <1>5, <2>2
<1>12. /\ d \in Seq(Policy) /\ Len(d) = N - k
       /\ \A i \in 1..(N - k) : d[i] = rest[k + i - 1]
  <2>1. \A i \in k..(N - 1) : rest[i] \in Policy
    BY <1>1, <1>5, <1>10
  <2>2. /\ SubSeq(rest, k, N - 1) \in Seq(Policy)
        /\ Len(SubSeq(rest, k, N - 1)) = IF k <= N - 1 THEN (N - 1) - k + 1 ELSE 0
        /\ \A i \in 1..((N - 1) - k + 1) : SubSeq(rest, k, N - 1)[i] = rest[k + i - 1]
    BY <1>1, <1>5, <2>1, SubSeqProperties
  <2> QED
    BY <1>1, <1>4, <1>5, <2>2
<1>13. <<s[j]>> \in Seq(Policy) /\ Len(<<s[j]>>) = 1 /\ <<s[j]>>[1] = s[j]
  BY <1>1
<1> HIDE DEF c, d
<1>14. /\ c \o <<s[j]>> \in Seq(Policy) /\ Len(c \o <<s[j]>>) = k
       /\ \A i \in 1..k : (c \o <<s[j]>>)[i] = IF i < k THEN rest[i] ELSE s[j]
  <2>1. /\ c \o <<s[j]>> \in Seq(Policy) /\ Len(c \o <<s[j]>>) = Len(c) + 1
        /\ \A i \in 1..(Len(c) + 1) : (c \o <<s[j]>>)[i] =
             IF i <= Len(c) THEN c[i] ELSE <<s[j]>>[i - Len(c)]
    BY <1>11, <1>13, ConcatProperties
  <2> QED
    BY <1>5, <1>11, <1>13, <2>1
<1>15. /\ t \in Seq(Policy) /\ Len(t) = N
       /\ \A i \in 1..N : t[i] = IF i < k THEN rest[i] ELSE IF i = k THEN s[j] ELSE rest[i - 1]
  <2> DEFINE e == c \o <<s[j]>>
  <2>3. /\ e \in Seq(Policy) /\ Len(e) = k
        /\ \A i \in 1..k : e[i] = IF i < k THEN rest[i] ELSE s[j]
    BY <1>14
  <2> HIDE DEF e
  <2>1. /\ e \o d \in Seq(Policy) /\ Len(e \o d) = Len(e) + Len(d)
        /\ \A i \in 1..(Len(e) + Len(d)) : (e \o d)[i] =
             IF i <= Len(e) THEN e[i] ELSE d[i - Len(e)]
    BY <1>12, <2>3, ConcatProperties
  <2>2. t = e \o d
    BY DEF e
  <2> HIDE DEF t
  <2>4. Len(t) = N
    BY <1>1, <1>5, <1>12, <2>1, <2>2, <2>3
  <2>5. ASSUME NEW i \in 1..N
        PROVE  t[i] = IF i < k THEN rest[i] ELSE IF i = k THEN s[j] ELSE rest[i - 1]
    <3>1. t[i] = IF i <= k THEN e[i] ELSE d[i - k]
      BY <1>1, <1>5, <1>12, <2>1, <2>2, <2>3
    <3>2. CASE i <= k
      <4>1. i \in 1..k /\ (i < k \/ i = k)
        BY <1>1, <1>5, <3>2
      <4> QED
        BY <1>1, <1>5, <2>3, <3>1, <3>2, <4>1
    <3>3. CASE ~(i <= k)
      <4>1. i - k \in 1..(N - k) /\ k + (i - k) - 1 = i - 1 /\ ~(i < k) /\ i # k
        BY <1>1, <1>5, <3>3
      <4> QED
        BY <1>12, <3>1, <3>3, <4>1
    <3> QED
      BY <3>2, <3>3
  <2> QED
    BY <2>1, <2>2, <2>4, <2>5
<1> HIDE DEF t
<1>16. \A n \in 1..N : t[n] = s[From(j, l, n)]
  BY <1>1, <1>4, <1>5, <1>15 DEF k, From
<1> HIDE DEF N
<1>17. t \in Seq(Policy) /\ Len(t) = Len(s) /\ \A n \in 1..Len(s) : t[n] = s[From(j, l, n)]
  BY <1>15, <1>16 DEF N
<1> QED
  BY <1>9, <1>17

-----------------------------------------------------------------------------
(* Lists of policies. *)

\* Policy p does what its name says, or, when it is a lab policy, what a block
\* of its source has made of it.
PolicyOK(p) ==
    /\ p.name.block => p.deny /\ p.dst = p.name.dst /\ p.svc = p.name.svc
    /\ p.dst \in {p.name.dst, Everything}
    /\ ~p.deny => p.dst = p.name.dst
    /\ p.deny => \E q \in Request : q.block /\ q.src = p.name.src /\ p.svc = ServiceOf(q)

\* No lab policy of the same source is ahead of position k.
FirstOfSource(s, k) ==
    \A j \in DOMAIN s : j < k /\ Lab(s[j]) => s[j].name.src # s[k].name.src

\* A policy that takes all the traffic of its source away was chosen as the
\* first one of that source.
ListOK(s) ==
    /\ s \in Seq(Policy) /\ DistinctIds(s)
    /\ \A k \in DOMAIN s : s[k].id <= Len(s) /\ PolicyOK(s[k])
    /\ \A k \in DOMAIN s :
         Lab(s[k]) /\ s[k].deny /\ s[k].dst = Everything => FirstOfSource(s, k)

\* The policy with id x may be turned into the block q.
TargetOK(s, q, x) ==
    \E k \in DOMAIN s :
        /\ s[k].id = x /\ Lab(s[k]) /\ s[k].name.src = q.src
        /\ q.scope # "source_only" => s[k].dst \in {q.dst, Everything}
        /\ \/ FirstOfSource(s, k)
           \/ /\ q.scope # "source_only" /\ s[k].name.dst = q.dst
              /\ \A j \in DOMAIN s :
                   j < k /\ Lab(s[j]) /\ s[j].name.src = q.src /\ ~s[j].deny => s[j].dst # q.dst

Named(s, q) == \E k \in DOMAIN s : s[k].name = Name(q)

LEMMA FirstLabIs ==
    ASSUME NEW s \in Seq(Policy)
    PROVE  \/ FirstLab(s) = 0 /\ \A k \in DOMAIN s : ~Lab(s[k])
           \/ /\ FirstLab(s) \in DOMAIN s /\ FirstLab(s) # 0 /\ Lab(s[FirstLab(s)])
              /\ \A k \in DOMAIN s : k < FirstLab(s) => ~Lab(s[k])
<1> DEFINE I == {i \in DOMAIN s : Lab(s[i])}
           c == CHOOSE i \in I : \A j \in I : i <= j
<1>1. FirstLab(s) = IF I = {} THEN 0 ELSE c
  BY DEF FirstLab, FirstPos
<1>2. DOMAIN s = 1..Len(s) /\ Len(s) \in Nat
  BY LenProperties
<1>3. CASE I = {}
  BY <1>1, <1>3
<1>4. CASE I # {}
  <2>1. I \subseteq Nat
    BY <1>2
  <2> HIDE DEF I
  <2>2. c \in I /\ \A j \in I : c <= j
    BY <1>4, <2>1, Least
  <2> USE DEF I
  <2> HIDE DEF c
  <2>3. \A k \in DOMAIN s : k < c => k \notin I
    BY <1>2, <2>1, <2>2
  <2> QED
    BY <1>1, <1>2, <1>4, <2>2, <2>3
<1> QED
  BY <1>3, <1>4

LEMMA MatchIs ==
    ASSUME NEW s \in Seq(Policy), NEW q
    PROVE  LET m == Match(q, s) IN
           m # 0 => /\ q.block /\ m \in DOMAIN s /\ Matches(q, s[m])
                    /\ \A k \in DOMAIN s : k < m => ~Matches(q, s[k])
<1> DEFINE I == {i \in DOMAIN s : Matches(q, s[i])}
           c == CHOOSE i \in I : \A j \in I : i <= j
<1>1. Match(q, s) = IF q.block THEN IF I = {} THEN 0 ELSE c ELSE 0
  BY DEF Match, FirstPos
<1>2. DOMAIN s = 1..Len(s) /\ Len(s) \in Nat
  BY LenProperties
<1>3. CASE I = {}
  BY <1>1, <1>3
<1>4. CASE I # {}
  <2>1. I \subseteq Nat
    BY <1>2
  <2> HIDE DEF I
  <2>2. c \in I /\ \A j \in I : c <= j
    BY <1>4, <2>1, Least
  <2> USE DEF I
  <2> HIDE DEF c
  <2>3. \A k \in DOMAIN s : k < c => k \notin I
    BY <1>2, <2>1, <2>2
  <2> QED
    BY <1>1, <1>4, <2>2, <2>3
<1> QED
  BY <1>3, <1>4

LEMMA NamePosIs ==
    ASSUME NEW s \in Seq(Policy), NEW n
    PROVE  LET k == FirstPos(s, LAMBDA p : p.name = n) IN
           (\E j \in DOMAIN s : s[j].name = n) => k \in DOMAIN s /\ k # 0 /\ s[k].name = n
<1> DEFINE I == {i \in DOMAIN s : s[i].name = n}
           c == CHOOSE i \in I : \A j \in I : i <= j
<1>1. FirstPos(s, LAMBDA p : p.name = n) = IF I = {} THEN 0 ELSE c
  BY DEF FirstPos
<1>2. DOMAIN s = 1..Len(s) /\ Len(s) \in Nat
  BY LenProperties
<1>3. ASSUME I # {} PROVE c \in I
  <2>1. I \subseteq Nat
    BY <1>2
  <2> HIDE DEF I
  <2> QED
    BY <1>3, <2>1, Least
<1> HIDE DEF c
<1> QED
  BY <1>1, <1>2, <1>3

\* What an admitted request is, and the policy that is created for it.
LEMMA RequestTypes ==
    ASSUME NEW q \in Request
    PROVE  /\ q \in Intent /\ (q.scope # "source_only" => q.dst # Everything)
           /\ Hosts(q) \subseteq Host /\ ServiceOf(q) \in Service \cup {Everything}
           /\ Name(q).block = q.block /\ Name(q).src = q.src /\ Name(q).dst = q.dst
           /\ Name(q).svc = ServiceOf(q)
           /\ \A i \in Nat \ {0} : NewPolicy(q, i) \in Policy /\ PolicyOK(NewPolicy(q, i))
<1>1. q \in Intent /\ (q.scope # "source_only" => q.dst # Everything)
  BY PolicyAssumption DEF Admitted
<1>2. Hosts(q) \subseteq Host /\ ServiceOf(q) \in Service \cup {Everything}
  BY <1>1 DEF Hosts, ServiceOf, Intent
<1>3. /\ Name(q).block = q.block /\ Name(q).src = q.src /\ Name(q).dst = q.dst
      /\ Name(q).svc = ServiceOf(q)
  BY <1>1 DEF Name, Intent
<1>4. ASSUME NEW i \in Nat \ {0} PROVE NewPolicy(q, i) \in Policy /\ PolicyOK(NewPolicy(q, i))
  BY <1>1, <1>2, <1>3 DEF NewPolicy, Policy, PolicyOK, Intent
<1> QED
  BY <1>1, <1>2, <1>3, <1>4

\* What the preflight plans can be done: its target is there, and so is the
\* policy it takes for the requested one.
LEMMA PlanIs ==
    ASSUME NEW s, ListOK(s), NEW q \in Request, NEW A
    PROVE  LET p == Plan(q, s, A) IN
           /\ p \in PlanOf /\ p.new \subseteq Hosts(q)
           /\ p.op = "update" => q.block /\ TargetOK(s, q, p.target)
           /\ p.op = "reuse" => Named(s, q)
           /\ p.op = "create" => ~Named(s, q)
<1> DEFINE m == Match(q, s)
<1>1. s \in Seq(Policy) /\ DOMAIN s = 1..Len(s) /\ Len(s) \in Nat
  BY LenProperties DEF ListOK
<1>2. \A k \in DOMAIN s : s[k] \in Policy
  BY <1>1, ElementOfSeq
<1>3. m # 0 => /\ q.block /\ m \in DOMAIN s /\ Matches(q, s[m])
               /\ \A k \in DOMAIN s : k < m => ~Matches(q, s[k])
  BY <1>1, MatchIs
<1> DEFINE p == Plan(q, s, A)
<1> HIDE DEF m
<1>4. /\ p.op = IF m # 0 THEN "update" ELSE IF Named(s, q) THEN "reuse" ELSE "create"
      /\ p.target = IF m # 0 THEN s[m].id ELSE 0
      /\ p.new = IF m # 0 THEN {} ELSE Hosts(q) \ A
      /\ p.before = (q.block /\ FirstLab(s) # 0)
      /\ p = [op |-> p.op, target |-> p.target, new |-> p.new, before |-> p.before]
  BY DEF Plan, Named, m
<1>5. p \in PlanOf /\ p.new \subseteq Hosts(q)
  <2>1. p.target \in Nat
    BY <1>2, <1>3, <1>4 DEF Policy
  <2>2. p.new \subseteq Hosts(q) /\ Hosts(q) \subseteq Host
    BY <1>4, RequestTypes
  <2>3. p.before \in BOOLEAN
    BY <1>4
  <2>4. p.op \in {"update", "reuse", "create"}
    BY <1>4
  <2> HIDE DEF p
  <2> QED
    BY <1>4, <2>1, <2>2, <2>3, <2>4 DEF PlanOf
<1>6. ASSUME m # 0 PROVE TargetOK(s, q, s[m].id)
  <2>1. /\ Lab(s[m]) /\ s[m].name.src = q.src
        /\ \/ q.scope = "source_only"
           \/ s[m].dst = q.dst
           \/ s[m].deny /\ s[m].dst = Everything
    BY <1>3, <1>6 DEF Matches
  <2>2. q.scope = "source_only" => FirstOfSource(s, m)
    BY <1>3, <1>6, <2>1 DEF Matches, FirstOfSource
  <2>3. s[m].deny /\ s[m].dst = Everything => FirstOfSource(s, m)
    BY <1>3, <1>6, <2>1 DEF ListOK
  <2>4. ASSUME q.scope # "source_only", s[m].dst = q.dst
        PROVE  /\ s[m].name.dst = q.dst
               /\ \A j \in DOMAIN s : j < m /\ Lab(s[j]) /\ s[j].name.src = q.src => s[j].dst # q.dst
    <3>1. q.dst # Everything
      BY <2>4, RequestTypes
    <3>2. s[m].dst \in {s[m].name.dst, Everything}
      BY <1>3, <1>6 DEF ListOK, PolicyOK
    <3> QED
      BY <1>3, <1>6, <2>4, <3>1, <3>2 DEF Matches
  <2> QED
    BY <1>3, <1>6, <2>1, <2>2, <2>3, <2>4 DEF TargetOK
<1> HIDE DEF p
<1>7. /\ p.op = "update" => q.block /\ TargetOK(s, q, p.target)
      /\ p.op = "reuse" => Named(s, q)
      /\ p.op = "create" => ~Named(s, q)
  BY <1>3, <1>4, <1>6
<1> QED
  BY <1>5, <1>7 DEF p

-----------------------------------------------------------------------------
(* What a write does to the list: m says where each policy goes.           *)

\* A policy stays as it is, or a block has turned the lab policy p into p2.
Becomes(p, p2) ==
    /\ p2.id = p.id /\ p2.name = p.name
    /\ \/ p2 = p
       \/ Lab(p) /\ p2.deny /\ p2.dst \in {p.dst, Everything}

\* Nothing comes ahead of a lab policy that was not there before, except the
\* block that is moved there; what is new is at the end.
Grows(s, t, m) ==
    /\ m \in [DOMAIN s -> DOMAIN t]
    /\ \A i \in DOMAIN s : Becomes(s[i], t[m[i]])
    /\ \A i, k \in DOMAIN s : Lab(s[i]) /\ k < i => m[k] < m[i]
    /\ \A n \in DOMAIN t : (\E i \in DOMAIN s : n = m[i]) \/ (\A i \in DOMAIN s : m[i] < n)

\* What is a lab policy, or accepts, ahead of where k goes was a lab policy ahead of k.
LEMMA Ahead ==
    ASSUME NEW s \in Seq(Policy), NEW t \in Seq(Policy), NEW m, Grows(s, t, m),
           NEW k \in DOMAIN s, NEW n \in DOMAIN t, n < m[k], Lab(t[n])
    PROVE  \E i \in DOMAIN s : i < k /\ n = m[i] /\ Lab(s[i]) /\ Becomes(s[i], t[n])
<1>1. DOMAIN s = 1..Len(s) /\ DOMAIN t = 1..Len(t) /\ Len(s) \in Nat /\ Len(t) \in Nat
  BY LenProperties
<1>2. m[k] \in DOMAIN t
  BY DEF Grows
<1>3. ~(m[k] < n)
  BY <1>1, <1>2
<1>4. PICK i \in DOMAIN s : n = m[i]
  BY <1>3 DEF Grows
<1>5. Becomes(s[i], t[n]) /\ Lab(s[i])
  BY <1>4 DEF Grows, Becomes, Lab
<1>6. ~(k < i)
  <2>1. k < i => m[k] < m[i]
    BY <1>5 DEF Grows
  <2> QED
    BY <1>1, <1>2, <1>4, <2>1
<1>7. i # k
  BY <1>1, <1>2, <1>4
<1> QED
  BY <1>1, <1>4, <1>5, <1>6, <1>7

\* The block q is to be placed, as policy i or wherever its name is.
PlacingOK(s, q, i) == \E k \in DOMAIN s : s[k].name = Name(q) /\ i \in {0, s[k].id}

\* Policy i is the block q, and l is the first lab policy.
MovingOK(s, q, i, l) ==
    /\ \E k \in DOMAIN s : s[k].name = Name(q) /\ s[k].id = i
    /\ \E k \in DOMAIN s : /\ s[k].id = l /\ Lab(s[k])
                           /\ \A j \in DOMAIN s : j < k => ~Lab(s[j])

LEMMA FirstStays ==
    ASSUME NEW s \in Seq(Policy), NEW t \in Seq(Policy), NEW m, Grows(s, t, m),
           NEW k \in DOMAIN s, FirstOfSource(s, k)
    PROVE  FirstOfSource(t, m[k])
<1>1. Becomes(s[k], t[m[k]])
  BY DEF Grows
<1>2. SUFFICES ASSUME NEW n \in DOMAIN t, n < m[k], Lab(t[n])
               PROVE  t[n].name.src # t[m[k]].name.src
  BY DEF FirstOfSource
<1>3. PICK i \in DOMAIN s : i < k /\ n = m[i] /\ Lab(s[i]) /\ Becomes(s[i], t[n])
  BY <1>2, Ahead
<1>4. s[i].name.src # s[k].name.src
  BY <1>3 DEF FirstOfSource
<1> QED
  BY <1>1, <1>3, <1>4 DEF Becomes

\* What a plan or a thread relies on is not undone by a write.
LEMMA GrowKeeps ==
    ASSUME NEW s \in Seq(Policy), NEW t \in Seq(Policy), NEW m, Grows(s, t, m), NEW q
    PROVE  /\ \A x : TargetOK(s, q, x) => TargetOK(t, q, x)
           /\ Named(s, q) => Named(t, q)
           /\ \A x : PlacingOK(s, q, x) => PlacingOK(t, q, x)
           /\ \A x, l : MovingOK(s, q, x, l) => MovingOK(t, q, x, l)
<1>1. \A i \in DOMAIN s : /\ m[i] \in DOMAIN t /\ Becomes(s[i], t[m[i]])
                          /\ t[m[i]].id = s[i].id /\ t[m[i]].name = s[i].name
  BY DEF Grows, Becomes
<1>2. Named(s, q) => Named(t, q)
  BY <1>1 DEF Named
<1>3. ASSUME NEW x, PlacingOK(s, q, x) PROVE PlacingOK(t, q, x)
  BY <1>1, <1>3 DEF PlacingOK
<1>4. ASSUME NEW x, NEW l, MovingOK(s, q, x, l) PROVE MovingOK(t, q, x, l)
  <2>1. PICK k \in DOMAIN s : /\ s[k].id = l /\ Lab(s[k])
                              /\ \A j \in DOMAIN s : j < k => ~Lab(s[j])
    BY <1>4 DEF MovingOK
  <2>2. ASSUME NEW n \in DOMAIN t, n < m[k], Lab(t[n]) PROVE FALSE
    BY <2>1, <2>2, Ahead
  <2>3. t[m[k]].id = l /\ Lab(t[m[k]])
    BY <1>1, <2>1 DEF Lab
  <2> QED
    BY <1>1, <1>4, <2>2, <2>3 DEF MovingOK
<1>5. ASSUME NEW x, TargetOK(s, q, x) PROVE TargetOK(t, q, x)
  <2>1. PICK k \in DOMAIN s :
        /\ s[k].id = x /\ Lab(s[k]) /\ s[k].name.src = q.src
        /\ q.scope # "source_only" => s[k].dst \in {q.dst, Everything}
        /\ \/ FirstOfSource(s, k)
           \/ /\ q.scope # "source_only" /\ s[k].name.dst = q.dst
              /\ \A j \in DOMAIN s :
                   j < k /\ Lab(s[j]) /\ s[j].name.src = q.src /\ ~s[j].deny => s[j].dst # q.dst
    BY <1>5 DEF TargetOK
  <2>2. /\ t[m[k]].id = x /\ Lab(t[m[k]]) /\ t[m[k]].name.src = q.src
        /\ q.scope # "source_only" => t[m[k]].dst \in {q.dst, Everything}
    BY <1>1, <2>1 DEF Lab, Becomes
  <2>3. CASE FirstOfSource(s, k)
    <3>1. FirstOfSource(t, m[k])
      BY <2>3, FirstStays
    <3> QED
      BY <1>1, <2>2, <3>1 DEF TargetOK
  <2>4. CASE ~FirstOfSource(s, k)
    <3>1. ASSUME NEW n \in DOMAIN t, n < m[k], Lab(t[n]), t[n].name.src = q.src, ~t[n].deny
          PROVE  t[n].dst # q.dst
      <4>1. PICK i \in DOMAIN s : i < k /\ n = m[i] /\ Lab(s[i]) /\ Becomes(s[i], t[n])
        BY <3>1, Ahead
      <4>2. t[n] = s[i]
        BY <3>1, <4>1 DEF Becomes
      <4> QED
        BY <2>1, <2>4, <3>1, <4>1, <4>2
    <3>2. q.scope # "source_only" /\ t[m[k]].name.dst = q.dst
      BY <1>1, <2>1, <2>4
    <3> QED
      BY <1>1, <2>2, <3>1, <3>2 DEF TargetOK
  <2> QED
    BY <2>3, <2>4
<1> QED
  BY <1>2, <1>3, <1>4, <1>5

NamesDiffer(s) == \A i, j \in DOMAIN s : s[i].name = s[j].name => i = j

\* A list stays in order when what takes all of a source was its first lab policy.
LEMMA ListGrows ==
    ASSUME NEW s, ListOK(s), NEW t \in Seq(Policy), NEW m, Grows(s, t, m), DistinctIds(t),
           \A n \in DOMAIN t : t[n].id <= Len(t) /\ PolicyOK(t[n]),
           \A i \in DOMAIN s :
             t[m[i]] # s[i] /\ t[m[i]].dst = Everything => FirstOfSource(s, i),
           \A n \in DOMAIN t : (\A i \in DOMAIN s : n # m[i]) => ~Lab(t[n]) \/ ~t[n].deny
    PROVE  ListOK(t)
<1>1. s \in Seq(Policy)
  BY DEF ListOK
<1>2. ASSUME NEW n \in DOMAIN t, Lab(t[n]), t[n].deny, t[n].dst = Everything
      PROVE  FirstOfSource(t, n)
  <2>1. PICK i \in DOMAIN s : n = m[i]
    BY <1>2
  <2>2. Becomes(s[i], t[n])
    BY <2>1 DEF Grows
  <2>3. Lab(s[i])
    BY <1>2, <2>2 DEF Becomes, Lab
  <2>4. FirstOfSource(s, i)
    BY <1>2, <2>1, <2>3 DEF ListOK
  <2> QED
    BY <1>1, <2>1, <2>4, FirstStays
<1> QED
  BY <1>2 DEF ListOK

\* The device appends a policy.
LEMMA AppendGrows ==
    ASSUME NEW s, ListOK(s), NEW q \in Request
    PROVE  LET t == Append(s, NewPolicy(q, Len(s) + 1)) IN
           /\ ListOK(t) /\ \E m : Grows(s, t, m)
           /\ Len(t) = Len(s) + 1 /\ \A i \in DOMAIN s : t[i] = s[i]
           /\ t[Len(s) + 1] = NewPolicy(q, Len(s) + 1)
<1> DEFINE N == Len(s)
           p == NewPolicy(q, N + 1)
           t == Append(s, p)
           m == [i \in DOMAIN s |-> i]
<1>1. s \in Seq(Policy) /\ DOMAIN s = 1..N /\ N \in Nat
  BY LenProperties DEF ListOK
<1>2. p \in Policy /\ PolicyOK(p) /\ p.id = N + 1 /\ p.deny = q.block /\ Lab(p) = ~q.block
  BY <1>1, RequestTypes DEF NewPolicy, Lab
<1>3. t \in Seq(Policy) /\ Len(t) = N + 1 /\ DOMAIN t = 1..(N + 1)
      /\ (\A i \in 1..N : t[i] = s[i]) /\ t[N + 1] = p
  <2> HIDE DEF p
  <2>1. /\ Append(s, p) \in Seq(Policy) /\ Len(Append(s, p)) = Len(s) + 1
        /\ \A i \in 1..Len(s) : Append(s, p)[i] = s[i]
        /\ Append(s, p)[Len(s) + 1] = p
    BY <1>1, <1>2, AppendProperties
  <2> HIDE DEF t
  <2>2. DOMAIN t = 1..Len(t)
    BY <2>1, LenProperties DEF t
  <2> QED
    BY <2>1, <2>2 DEF t
<1> HIDE DEF t, p, N
<1>4. Grows(s, t, m)
  <2>1. m \in [DOMAIN s -> DOMAIN t] /\ \A i \in DOMAIN s : m[i] = i
    BY <1>1, <1>3
  <2> HIDE DEF m
  <2>2. \A i \in DOMAIN s : Becomes(s[i], t[m[i]])
    BY <1>1, <1>3, <2>1 DEF Becomes
  <2>3. \A n \in DOMAIN t : (\E i \in DOMAIN s : n = m[i]) \/ (\A i \in DOMAIN s : m[i] < n)
    BY <1>1, <1>3, <2>1
  <2> QED
    BY <2>1, <2>2, <2>3 DEF Grows
<1>5. \A i \in 1..N : s[i].id <= N /\ PolicyOK(s[i])
  BY <1>1 DEF ListOK, N
<1>6. ListOK(t)
  <2>0. ASSUME NEW i \in 1..N PROVE s[i].id \in Nat
    <3>1. s[i] \in Policy
      BY <1>1, ElementOfSeq DEF N
    <3> QED
      BY <3>1 DEF Policy
  <2>1. DistinctIds(t)
    <3> SUFFICES ASSUME NEW i \in 1..(N + 1), NEW j \in 1..(N + 1), t[i].id = t[j].id
                 PROVE  i = j
      BY <1>3 DEF DistinctIds
    <3>1. CASE i \in 1..N /\ j \in 1..N
      BY <1>1, <1>3, <3>1 DEF ListOK, DistinctIds
    <3>2. CASE i = N + 1 \/ j = N + 1
      <4>1. \A k \in 1..N : t[k].id # N + 1
        BY <1>1, <1>3, <1>5, <2>0
      <4> QED
        BY <1>1, <1>2, <1>3, <3>2, <4>1
    <3> QED
      BY <1>1, <3>1, <3>2
  <2>2. \A n \in DOMAIN t : t[n].id <= Len(t) /\ PolicyOK(t[n])
    <3> SUFFICES ASSUME NEW n \in 1..(N + 1) PROVE t[n].id <= N + 1 /\ PolicyOK(t[n])
      BY <1>3
    <3>1. CASE n \in 1..N
      BY <1>1, <1>3, <1>5, <2>0, <3>1
    <3>2. CASE n = N + 1
      BY <1>1, <1>2, <1>3, <3>2
    <3> QED
      BY <1>1, <3>1, <3>2
  <2>3. \A i \in DOMAIN s : m[i] = i /\ t[m[i]] = s[i]
    BY <1>1, <1>3
  <2>4. ASSUME NEW n \in DOMAIN t, \A i \in DOMAIN s : n # m[i]
        PROVE  ~Lab(t[n]) \/ ~t[n].deny
    <3>1. n \notin 1..N
      BY <1>1, <2>3, <2>4
    <3>2. n = N + 1
      BY <1>1, <1>3, <3>1
    <3> QED
      BY <1>2, <1>3, <3>2
  <2> HIDE DEF m
  <2> QED
    BY <1>3, <1>4, <2>1, <2>2, <2>3, <2>4, ListGrows
<1>7. /\ ListOK(t) /\ \E x : Grows(s, t, x)
      /\ Len(t) = N + 1 /\ \A i \in DOMAIN s : t[i] = s[i]
      /\ t[N + 1] = p
  BY <1>1, <1>3, <1>4, <1>6
<1> QED
  BY <1>7 DEF t, p, N

\* What a block makes of a policy.
LEMMA BlockedIs ==
    ASSUME NEW p \in Policy, NEW q \in Request
    PROVE  LET b == Blocked(p, q) IN
           /\ b \in Policy /\ b.id = p.id /\ b.name = p.name /\ b.deny
           /\ b.svc = ServiceOf(q)
           /\ b.dst = IF q.scope = "source_only" THEN Everything ELSE p.dst
<1> DEFINE b  == Blocked(p, q)
           d  == IF q.scope = "source_only" THEN Everything ELSE p.dst
           b1 == [p EXCEPT !.deny = TRUE]
           b2 == [b1 EXCEPT !.svc = ServiceOf(q)]
           b3 == [b2 EXCEPT !.dst = d]
<1>1. d \in Host \cup {Everything} /\ ServiceOf(q) \in Service \cup {Everything}
  BY RequestTypes DEF Policy
<1>2. b = b3
  BY DEF Blocked
<1> HIDE DEF b, d
<1>3. b1 \in Policy /\ b1.deny = TRUE /\ b1.id = p.id /\ b1.name = p.name
  BY DEF Policy
<1> HIDE DEF b1
<1>4. /\ b2 \in Policy /\ b2.deny = TRUE /\ b2.id = p.id /\ b2.name = p.name
      /\ b2.svc = ServiceOf(q)
  BY <1>1, <1>3 DEF Policy
<1> HIDE DEF b2
<1>5. /\ b3 \in Policy /\ b3.deny = TRUE /\ b3.id = p.id /\ b3.name = p.name
      /\ b3.svc = ServiceOf(q) /\ b3.dst = d
  BY <1>1, <1>4 DEF Policy
<1> QED
  BY <1>2, <1>5 DEF b, d

\* A lab policy is turned into a block.
LEMMA UpdateGrows ==
    ASSUME NEW s, ListOK(s), NEW q \in Request, q.block, NEW x, TargetOK(s, q, x)
    PROVE  LET t == [i \in DOMAIN s |-> IF s[i].id = x THEN Blocked(s[i], q) ELSE s[i]] IN
           /\ ListOK(t) /\ \E m : Grows(s, t, m)
           /\ DOMAIN t = DOMAIN s
           /\ \A i \in DOMAIN s : Becomes(s[i], t[i])
<1> DEFINE t == [i \in DOMAIN s |-> IF s[i].id = x THEN Blocked(s[i], q) ELSE s[i]]
           m == [i \in DOMAIN s |-> i]
           N == Len(s)
<1>1. s \in Seq(Policy) /\ DOMAIN s = 1..N /\ N \in Nat
  BY LenProperties DEF ListOK
<1> HIDE DEF N
<1>2. \A i \in DOMAIN s : s[i] \in Policy /\ PolicyOK(s[i])
  BY <1>1, ElementOfSeq DEF ListOK
<1>3. PICK k \in DOMAIN s :
        /\ s[k].id = x /\ Lab(s[k]) /\ s[k].name.src = q.src
        /\ q.scope # "source_only" => s[k].dst \in {q.dst, Everything}
        /\ \/ FirstOfSource(s, k)
           \/ q.scope # "source_only" /\ s[k].name.dst = q.dst
  BY DEF TargetOK
<1>4. /\ DOMAIN t = DOMAIN s
      /\ \A i \in DOMAIN s : t[i] = IF i = k THEN Blocked(s[i], q) ELSE s[i]
  BY <1>1, <1>3 DEF ListOK, DistinctIds
<1> DEFINE b == Blocked(s[k], q)
<1>5. /\ b \in Policy /\ b.id = s[k].id /\ b.name = s[k].name /\ b.deny
      /\ b.svc = ServiceOf(q) /\ b.dst = IF q.scope = "source_only" THEN Everything ELSE s[k].dst
  BY <1>2, BlockedIs
<1> HIDE DEF b
<1>6. PolicyOK(b) /\ Becomes(s[k], b)
  BY <1>2, <1>3, <1>5 DEF PolicyOK, Lab, Becomes
<1>7. t \in Seq(Policy) /\ Len(t) = N
  <2>1. \A i \in 1..N : t[i] \in Policy
    BY <1>1, <1>2, <1>4, <1>5 DEF b
  <2>2. t = [i \in 1..N |-> t[i]]
    BY <1>1
  <2> HIDE DEF t
  <2>3. t \in [1..N -> Policy]
    BY <2>1, <2>2
  <2> QED
    BY <1>1, <2>3, SeqDef, LenProperties
<1> HIDE DEF t
<1>8. Grows(s, t, m) /\ \A i \in DOMAIN s : Becomes(s[i], t[i])
  <2>1. m \in [DOMAIN s -> DOMAIN t] /\ \A i \in DOMAIN s : m[i] = i
    BY <1>4
  <2> HIDE DEF m
  <2>2. \A i \in DOMAIN s : Becomes(s[i], t[i])
    <3> TAKE i \in DOMAIN s
    <3>1. CASE i = k
      BY <1>4, <1>6, <3>1 DEF b
    <3>2. CASE i # k
      BY <1>4, <3>2 DEF Becomes
    <3> QED
      BY <3>1, <3>2
  <2> QED
    BY <1>4, <2>1, <2>2 DEF Grows
<1>9. ListOK(t)
  <2>1. \A i \in DOMAIN s : t[i].id = s[i].id
    BY <1>8 DEF Becomes
  <2>2. DistinctIds(t)
    BY <1>4, <2>1 DEF ListOK, DistinctIds
  <2>3. \A n \in DOMAIN t : t[n].id <= Len(t) /\ PolicyOK(t[n])
    <3> TAKE n \in DOMAIN t
    <3>1. t[n].id <= Len(t)
      BY <1>4, <1>7, <2>1 DEF ListOK, N
    <3>2. PolicyOK(t[n])
      BY <1>2, <1>4, <1>6 DEF b
    <3> QED
      BY <3>1, <3>2
  <2>4. \A i \in DOMAIN s : m[i] = i
    OBVIOUS
  <2>5. t[k].dst = Everything => FirstOfSource(s, k)
    <3>1. SUFFICES ASSUME b.dst = Everything, q.scope # "source_only", s[k].name.dst = q.dst
                   PROVE  FirstOfSource(s, k)
      BY <1>3, <1>4 DEF b
    <3>2. s[k].dst = Everything /\ s[k].name.dst # Everything
      BY <1>5, <3>1, RequestTypes
    <3>3. s[k].deny
      BY <1>2, <3>2 DEF PolicyOK
    <3> QED
      BY <1>3, <3>2, <3>3 DEF ListOK
  <2>6. \A i \in DOMAIN s : t[m[i]] # s[i] /\ t[m[i]].dst = Everything => FirstOfSource(s, i)
    BY <1>4, <2>4, <2>5
  <2>7. \A n \in DOMAIN t : (\A i \in DOMAIN s : n # m[i]) => ~Lab(t[n]) \/ ~t[n].deny
    BY <1>4, <2>4
  <2> HIDE DEF m
  <2> QED
    BY <1>7, <1>8, <2>2, <2>3, <2>6, <2>7, ListGrows
<1> QED
  BY <1>4, <1>8, <1>9 DEF t

\* Where positions go and come from are inverse to each other, and what is
\* ahead of a position from l on stays ahead of it, unless it moves itself.
LEMMA FromTo ==
    ASSUME NEW N \in Nat, NEW j \in 1..N, NEW l \in 1..N, j # l
    PROVE  /\ \A n \in 1..N : From(j, l, n) \in 1..N /\ To(j, l, From(j, l, n)) = n
           /\ \A n \in 1..N : To(j, l, n) \in 1..N /\ From(j, l, To(j, l, n)) = n
           /\ \A n, k \in 1..N : n # j /\ n >= l /\ k < n => To(j, l, k) < To(j, l, n)
           /\ \A n \in 1..N : n # j /\ n >= l => To(j, l, j) < To(j, l, n)
<1>1. CASE j < l
  BY <1>1 DEF From, To
<1>2. CASE j > l
  BY <1>2 DEF From, To
<1> QED
  BY <1>1, <1>2

\* A block is moved ahead of the first lab policy.
LEMMA MoveGrows ==
    ASSUME NEW s, ListOK(s), NEW q \in Request, q.block,
           NEW x, NEW y, MovingOK(s, q, x, y)
    PROVE  LET t == MoveBefore(s, x, y) IN
           /\ ListOK(t) /\ \E m : Grows(s, t, m)
           /\ NamesDiffer(s) => NamesDiffer(t)
           /\ \E k \in DOMAIN t : /\ t[k].name = Name(q)
                                  /\ \A n \in DOMAIN t : n < k => ~Lab(t[n])
<1>1. PICK j \in DOMAIN s : s[j].name = Name(q) /\ s[j].id = x
  BY DEF MovingOK
<1>2. PICK l \in DOMAIN s : /\ s[l].id = y /\ Lab(s[l])
                            /\ \A k \in DOMAIN s : k < l => ~Lab(s[k])
  BY DEF MovingOK
<1>3. ~Lab(s[j]) /\ j # l
  BY <1>1, <1>2, RequestTypes DEF Lab
<1> DEFINE t == MoveBefore(s, x, y)
           N == Len(s)
           m == [n \in DOMAIN s |-> To(j, l, n)]
<1>4. s \in Seq(Policy) /\ DistinctIds(s) /\ N \in Nat /\ DOMAIN s = 1..N
  BY LenProperties DEF ListOK
<1>5. t \in Seq(Policy) /\ Len(t) = N /\ \A n \in 1..N : t[n] = s[From(j, l, n)]
  <2>1. LET u == MoveBefore(s, s[j].id, s[l].id) IN
        u \in Seq(Policy) /\ Len(u) = Len(s) /\ \A n \in 1..Len(s) : u[n] = s[From(j, l, n)]
    BY <1>3, <1>4, MoveShape
  <2> QED
    BY <1>1, <1>2, <2>1
<1> HIDE DEF t, N
<1>6. DOMAIN t = 1..N
  BY <1>5, LenProperties
<1>7. /\ \A n \in 1..N : From(j, l, n) \in 1..N /\ To(j, l, From(j, l, n)) = n
      /\ \A n \in 1..N : To(j, l, n) \in 1..N /\ From(j, l, To(j, l, n)) = n
      /\ \A n, k \in 1..N : n # j /\ n >= l /\ k < n => To(j, l, k) < To(j, l, n)
      /\ \A n \in 1..N : n # j /\ n >= l => To(j, l, j) < To(j, l, n)
  BY <1>3, <1>4, FromTo
<1>8. \A n \in 1..N : Lab(s[n]) => n # j /\ n >= l
  <2> TAKE n \in 1..N
  <2> HAVE Lab(s[n])
  <2>1. ~(n < l)
    BY <1>2, <1>4
  <2> QED
    BY <1>3, <1>4, <2>1
<1>9. \A n \in 1..N : t[To(j, l, n)] = s[n]
  BY <1>5, <1>7
<1>10. Grows(s, t, m)
  <2>1. m \in [DOMAIN s -> DOMAIN t] /\ \A n \in DOMAIN s : m[n] = To(j, l, n)
    BY <1>4, <1>6, <1>7
  <2> HIDE DEF m
  <2>2. \A n \in DOMAIN s : Becomes(s[n], t[m[n]])
    BY <1>4, <1>9, <2>1 DEF Becomes
  <2>3. \A n, k \in DOMAIN s : Lab(s[n]) /\ k < n => m[k] < m[n]
    BY <1>4, <1>7, <1>8, <2>1
  <2>4. \A n \in DOMAIN t : \E k \in DOMAIN s : n = m[k]
    BY <1>4, <1>6, <1>7, <2>1
  <2> QED
    BY <2>1, <2>2, <2>3, <2>4 DEF Grows
<1>11. ListOK(t)
  <2>1. DistinctIds(t)
    <3> SUFFICES ASSUME NEW n \in 1..N, NEW k \in 1..N, t[n].id = t[k].id
                 PROVE  n = k
      BY <1>6 DEF DistinctIds
    <3>1. From(j, l, n) = From(j, l, k)
      <4> DEFINE a == From(j, l, n)
                 b == From(j, l, k)
      <4>1. a \in DOMAIN s /\ b \in DOMAIN s /\ t[n] = s[a] /\ t[k] = s[b]
        BY <1>4, <1>5, <1>7
      <4>2. DistinctIds(s)
        BY DEF ListOK
      <4> HIDE DEF a, b
      <4>3. a = b
        BY <4>1, <4>2 DEF DistinctIds
      <4> QED
        BY <4>3 DEF a, b
    <3> QED
      BY <1>7, <3>1
  <2>2. \A n \in DOMAIN t : t[n].id <= Len(t) /\ PolicyOK(t[n])
    BY <1>4, <1>5, <1>6, <1>7 DEF ListOK, N
  <2>3. \A n \in DOMAIN s : m[n] = To(j, l, n) /\ t[m[n]] = s[n]
    BY <1>4, <1>9
  <2>4. \A n \in DOMAIN t : (\A k \in DOMAIN s : n # m[k]) => ~Lab(t[n]) \/ ~t[n].deny
    BY <1>4, <1>6, <1>7
  <2>5. \A n \in DOMAIN s : t[m[n]] # s[n] /\ t[m[n]].dst = Everything => FirstOfSource(s, n)
    BY <2>3
  <2> HIDE DEF m
  <2> QED
    BY <1>5, <1>10, <2>5, <2>1, <2>2, <2>3, <2>4, ListGrows
<1>12. NamesDiffer(s) => NamesDiffer(t)
  <2> SUFFICES ASSUME NamesDiffer(s), NEW n \in 1..N, NEW k \in 1..N, t[n].name = t[k].name
               PROVE  n = k
    BY <1>6 DEF NamesDiffer
  <2>1. From(j, l, n) = From(j, l, k)
    <3> DEFINE a == From(j, l, n)
               b == From(j, l, k)
    <3>1. a \in DOMAIN s /\ b \in DOMAIN s /\ t[n] = s[a] /\ t[k] = s[b]
      BY <1>4, <1>5, <1>7
    <3> HIDE DEF a, b
    <3>2. a = b
      BY <3>1 DEF NamesDiffer
    <3> QED
      BY <3>2 DEF a, b
  <2> QED
    BY <1>7, <2>1
<1>13. \E k \in DOMAIN t : /\ t[k].name = Name(q)
                           /\ \A n \in DOMAIN t : n < k => ~Lab(t[n])
  <2> DEFINE k == To(j, l, j)
  <2>1. k \in DOMAIN t /\ t[k].name = Name(q)
    BY <1>1, <1>4, <1>6, <1>7, <1>9
  <2>2. ASSUME NEW n \in DOMAIN t, n < k PROVE ~Lab(t[n])
    <3> DEFINE c == From(j, l, n)
    <3>1. c \in 1..N /\ t[n] = s[c] /\ n = To(j, l, c)
      BY <1>5, <1>6, <1>7
    <3> HIDE DEF c
    <3>2. SUFFICES ASSUME Lab(s[c]) PROVE FALSE
      BY <3>1
    <3>3. k < n
      BY <1>7, <1>8, <3>1, <3>2
    <3>4. k \in 1..N /\ n \in 1..N
      BY <1>6, <2>1
    <3> HIDE DEF k
    <3> QED
      BY <1>4, <2>2, <3>3, <3>4
  <2> QED
    BY <2>1, <2>2
<1> QED
  BY <1>10, <1>11, <1>12, <1>13 DEF t

-----------------------------------------------------------------------------
(* The inductive invariant of every behaviour. *)

\* Row r of rv is well typed, and what it plans can be done on the list s.
RowOK(s, rv, r) ==
    /\ rv[r] \in Row
    /\ rv[r].status # "none" =>
         /\ rv[r].plan.new \subseteq Hosts(rv[r].request)
         /\ rv[r].plan.op = "update" =>
              rv[r].request.block /\ TargetOK(s, rv[r].request, rv[r].plan.target)
         /\ rv[r].plan.op = "reuse" => Named(s, rv[r].request)

\* Thread t of ap works on a review of rv, and what it does next can be done on s.
ThreadOK(s, rv, ap, t) ==
    LET row == rv[ap[t].review] IN
    /\ ap[t] \in Thread
    /\ ap[t].pc # "idle" => ap[t].review \in Review /\ row.status # "none"
    /\ ap[t].pc = "addresses" => ap[t].left \subseteq row.plan.new
    /\ ap[t].pc = "placing" => row.request.block /\ PlacingOK(s, row.request, ap[t].id)
    /\ ap[t].pc = "moving" => /\ row.request.block
                              /\ MovingOK(s, row.request, ap[t].id, ap[t].lab)

PInv ==
    /\ ListOK(policies)
    /\ addresses \subseteq Host
    /\ setting \in Setting
    /\ review \in [Review -> Row] /\ \A r \in Review : RowOK(policies, review, r)
    /\ applier \in [Applier -> Thread] /\ \A t \in Applier : ThreadOK(policies, review, applier, t)

\* The device's list is as it was, or one write later.
Later(s, t) == t = s \/ (t \in Seq(Policy) /\ \E m : Grows(s, t, m))

\* The reviews are as they were, but for their status and for new ones.
Onward(rv, rv2) ==
    \A r \in Review : rv[r].status # "none" =>
        rv2[r].status # "none" /\ rv2[r].request = rv[r].request /\ rv2[r].plan = rv[r].plan

LEMMA LaterKeeps ==
    ASSUME NEW s \in Seq(Policy), NEW t, Later(s, t), NEW q
    PROVE  /\ \A x : TargetOK(s, q, x) => TargetOK(t, q, x)
           /\ Named(s, q) => Named(t, q)
           /\ \A x : PlacingOK(s, q, x) => PlacingOK(t, q, x)
           /\ \A x, l : MovingOK(s, q, x, l) => MovingOK(t, q, x, l)
<1>1. CASE t = s
  BY <1>1
<1>2. CASE t # s
  <2>1. PICK m : t \in Seq(Policy) /\ Grows(s, t, m)
    BY <1>2 DEF Later
  <2> QED
    BY <2>1, GrowKeeps
<1> QED
  BY <1>1, <1>2

LEMMA RowsKeep ==
    ASSUME NEW s \in Seq(Policy), NEW t, Later(s, t), NEW rv, NEW r, RowOK(s, rv, r)
    PROVE  RowOK(t, rv, r)
<1> DEFINE q == rv[r].request
<1>1. /\ \A x : TargetOK(s, q, x) => TargetOK(t, q, x)
      /\ Named(s, q) => Named(t, q)
  BY LaterKeeps
<1> QED
  BY <1>1 DEF RowOK

LEMMA ThreadsKeep ==
    ASSUME NEW s \in Seq(Policy), NEW t, Later(s, t), NEW rv, NEW rv2, Onward(rv, rv2),
           NEW ap, NEW ap2, NEW u, ap2[u] = ap[u], ThreadOK(s, rv, ap, u)
    PROVE  ThreadOK(t, rv2, ap2, u)
<1> DEFINE q == rv[ap[u].review].request
<1>1. /\ \A x : PlacingOK(s, q, x) => PlacingOK(t, q, x)
      /\ \A x, l : MovingOK(s, q, x, l) => MovingOK(t, q, x, l)
  BY LaterKeeps
<1>2. CASE ap[u].pc = "idle"
  BY <1>2 DEF ThreadOK
<1>3. CASE ap[u].pc # "idle"
  <2>1. /\ rv2[ap[u].review].status # "none"
        /\ rv2[ap[u].review].request = q
        /\ rv2[ap[u].review].plan = rv[ap[u].review].plan
    BY <1>3 DEF ThreadOK, Onward
  <2> QED
    BY <1>1, <2>1 DEF ThreadOK
<1> QED
  BY <1>2, <1>3

\* A step of thread t that keeps the rest leaves the invariant when it leaves
\* the thread and the list in order.
LEMMA StepKeeps ==
    ASSUME PInv, NEW t \in Applier,
           ListOK(policies'), Later(policies, policies'), addresses' \subseteq Host,
           UNCHANGED setting, UNCHANGED review,
           applier' \in [Applier -> Thread],
           \A u \in Applier \ {t} : applier'[u] = applier[u],
           ThreadOK(policies', review', applier', t)
    PROVE  PInv'
<1>1. policies \in Seq(Policy)
  BY DEF PInv, ListOK
<1>2. ASSUME NEW r \in Review PROVE RowOK(policies', review', r)
  <2>1. RowOK(policies, review, r)
    BY DEF PInv
  <2>2. RowOK(policies', review, r)
    BY <1>1, <2>1, RowsKeep
  <2> QED
    BY <2>2
<1>3. Onward(review, review')
  BY DEF Onward
<1>4. ASSUME NEW u \in Applier PROVE ThreadOK(policies', review', applier', u)
  <2>1. CASE u = t
    BY <2>1
  <2>2. CASE u # t
    <3>1. ThreadOK(policies, review, applier, u) /\ applier'[u] = applier[u]
      BY <2>2 DEF PInv
    <3> QED
      BY <1>1, <1>3, <3>1, ThreadsKeep
  <2> QED
    BY <2>1, <2>2
<1> QED
  BY <1>2, <1>4 DEF PInv

\* Thread t stops.
LEMMA StopKeeps ==
    ASSUME PInv, NEW t \in Applier, Stop(t), UNCHANGED <<policies, addresses, review, setting>>
    PROVE  PInv'
<1>1. Idle \in Thread /\ Idle.pc = "idle"
  BY EmptySeq DEF Idle, Thread
<1>2. /\ applier' \in [Applier -> Thread] /\ applier'[t] = Idle
      /\ \A u \in Applier \ {t} : applier'[u] = applier[u]
  BY <1>1 DEF Stop, PInv
<1>3. ThreadOK(policies', review', applier', t)
  BY <1>1, <1>2 DEF ThreadOK
<1> QED
  BY <1>2, <1>3, StepKeeps DEF PInv, Later

LEMMA InitInv == Init => PInv
<1> SUFFICES ASSUME Init PROVE PInv
  OBVIOUS
<1>1. ListOK(policies)
  <2>1. policies \in Seq(Policy) /\ policies = <<>> /\ DOMAIN policies = {}
    BY EmptySeq DEF Init
  <2> QED
    BY <2>1 DEF ListOK, DistinctIds
<1>2. addresses \subseteq Host /\ setting \in Setting
  BY DEF Init
<1>3. NoRow \in Row /\ NoRow.status = "none"
  <2>1. (CHOOSE q \in Request : TRUE) \in Request
    BY PolicyAssumption
  <2> QED
    BY <2>1 DEF NoRow, Row, PlanOf
<1>4. review \in [Review -> Row] /\ \A r \in Review : RowOK(policies, review, r)
  BY <1>3 DEF Init, RowOK
<1>5. Idle \in Thread /\ Idle.pc = "idle"
  BY EmptySeq DEF Idle, Thread
<1>6. applier \in [Applier -> Thread] /\ \A t \in Applier : ThreadOK(policies, review, applier, t)
  BY <1>5 DEF Init, ThreadOK
<1> QED
  BY <1>1, <1>2, <1>4, <1>6 DEF PInv

LEMMA CreateReviewKeeps ==
    ASSUME PInv, NEW r \in Review, NEW q \in Request, CreateReview(r, q)
    PROVE  PInv'
<1> DEFINE row == [status |-> "pending_review", request |-> q,
                   plan |-> Plan(q, policies, addresses)]
<1>1. /\ review[r].status = "none" /\ review' = [review EXCEPT ![r] = row]
      /\ UNCHANGED <<policies, addresses, applier, setting>>
  BY DEF CreateReview
<1>2. LET p == Plan(q, policies, addresses) IN
      /\ p \in PlanOf /\ p.new \subseteq Hosts(q)
      /\ p.op = "update" => q.block /\ TargetOK(policies, q, p.target)
      /\ p.op = "reuse" => Named(policies, q)
  BY PlanIs DEF PInv
<1>3. /\ row \in Row /\ row.request = q /\ row.plan = Plan(q, policies, addresses)
      /\ row.status # "none"
  BY <1>2 DEF Row
<1> HIDE DEF row
<1>4. /\ review' \in [Review -> Row] /\ review'[r] = row
      /\ \A x \in Review \ {r} : review'[x] = review[x]
  BY <1>1, <1>3 DEF PInv
<1>5. ASSUME NEW x \in Review PROVE RowOK(policies', review', x)
  <2>1. CASE x = r
    BY <1>1, <1>2, <1>3, <1>4, <2>1 DEF RowOK
  <2>2. CASE x # r
    BY <1>1, <1>4, <2>2 DEF PInv, RowOK
  <2> QED
    BY <2>1, <2>2
<1>6. policies \in Seq(Policy) /\ Later(policies, policies') /\ Onward(review, review')
  BY <1>1, <1>4 DEF PInv, ListOK, Later, Onward
<1>7. ASSUME NEW u \in Applier PROVE ThreadOK(policies', review', applier', u)
  <2>1. ThreadOK(policies, review, applier, u) /\ applier'[u] = applier[u]
    BY <1>1 DEF PInv
  <2> QED
    BY <1>6, <2>1, ThreadsKeep
<1> QED
  BY <1>1, <1>4, <1>5, <1>7 DEF PInv

LEMMA LoadIs ==
    ASSUME PInv, NEW t \in Applier, NEW r \in Review, Load(t, r)
    PROVE  /\ applier' \in [Applier -> Thread]
           /\ \A u \in Applier \ {t} : applier'[u] = applier[u]
           /\ applier'[t].pc = "loaded" /\ applier'[t].review = r
<1> DEFINE a == [applier EXCEPT ![t].pc = "loaded"]
           b == [a EXCEPT ![t].review = r]
<1>1. applier' = b
  BY DEF Load
<1>2. /\ a \in [Applier -> Thread] /\ a[t].pc = "loaded"
      /\ \A u \in Applier \ {t} : a[u] = applier[u]
  BY DEF PInv, Thread
<1> HIDE DEF a
<1>3. /\ b \in [Applier -> Thread] /\ b[t].pc = "loaded" /\ b[t].review = r
      /\ \A u \in Applier \ {t} : b[u] = applier[u]
  BY <1>2 DEF Thread
<1> HIDE DEF b
<1> QED
  BY <1>1, <1>3

LEMMA LoadKeeps ==
    ASSUME PInv, NEW t \in Applier, NEW r \in Review, Load(t, r)
    PROVE  PInv'
<1>1. review[r].status # "none" /\ UNCHANGED <<policies, addresses, review, setting>>
  BY DEF Load
<1>2. ThreadOK(policies', review', applier', t)
  BY <1>1, LoadIs DEF ThreadOK
<1> QED
  BY <1>1, <1>2, LoadIs, StepKeeps DEF PInv, Later

LEMMA ReadIs ==
    ASSUME PInv, NEW t \in Applier, ReadPolicies(t)
    PROVE  /\ applier' \in [Applier -> Thread]
           /\ \A u \in Applier \ {t} : applier'[u] = applier[u]
           /\ applier'[t].pc = "read" /\ applier'[t].review = applier[t].review
           /\ applier'[t].seen = policies
<1> DEFINE a == [applier EXCEPT ![t].pc = "read"]
           b == [a EXCEPT ![t].seen = policies]
<1>1. applier' = b
  BY DEF ReadPolicies
<1>2. /\ a \in [Applier -> Thread] /\ a[t].pc = "read" /\ a[t].review = applier[t].review
      /\ \A u \in Applier \ {t} : a[u] = applier[u]
  BY DEF PInv, Thread
<1> HIDE DEF a
<1>3. /\ b \in [Applier -> Thread] /\ b[t].pc = "read" /\ b[t].review = applier[t].review
      /\ b[t].seen = policies
      /\ \A u \in Applier \ {t} : b[u] = applier[u]
  BY <1>2 DEF Thread, PInv, ListOK
<1> HIDE DEF b
<1> QED
  BY <1>1, <1>3

LEMMA ReadPoliciesKeeps ==
    ASSUME PInv, NEW t \in Applier, ReadPolicies(t)
    PROVE  PInv'
<1>1. applier[t].pc = "loaded" /\ UNCHANGED <<policies, addresses, review, setting>>
  BY DEF ReadPolicies, At
<1>2. ThreadOK(policies, review, applier, t)
  BY DEF PInv
<1>3. ThreadOK(policies', review', applier', t)
  BY <1>1, <1>2, ReadIs DEF ThreadOK
<1> QED
  BY <1>1, <1>3, ReadIs, StepKeeps DEF PInv, Later

\* Where a thread stands that has compared its review and goes on.
LEMMA Compared ==
    ASSUME PInv, NEW t \in Applier, Compare(t)
    PROVE  \/ Stop(t)
           \/ /\ Plan(Req(t), applier[t].seen, addresses) = Reviewed(t)
              /\ applier' \in [Applier -> Thread]
              /\ \A u \in Applier \ {t} : applier'[u] = applier[u]
              /\ applier'[t].pc = "addresses" /\ applier'[t].left = Reviewed(t).new
              /\ applier'[t].review = applier[t].review
<1>1. CASE Plan(Req(t), applier[t].seen, addresses) = Reviewed(t)
  <2> DEFINE a == [applier EXCEPT ![t].pc = "addresses"]
             b == [a EXCEPT ![t].seen = <<>>]
             c == [b EXCEPT ![t].left = Reviewed(t).new]
  <2>1. applier' = c
    BY <1>1 DEF Compare
  <2>2. Reviewed(t).new \subseteq Host
    <3>1. applier[t].review \in Review
      BY DEF PInv, ThreadOK, Compare, At
    <3> QED
      BY <3>1 DEF PInv, Row, PlanOf, Reviewed
  <2>3. /\ a \in [Applier -> Thread] /\ a[t].pc = "addresses" /\ a[t].review = applier[t].review
        /\ \A u \in Applier \ {t} : a[u] = applier[u]
    BY DEF PInv, Thread
  <2> HIDE DEF a
  <2>4. /\ b \in [Applier -> Thread] /\ b[t].pc = "addresses" /\ b[t].review = applier[t].review
        /\ \A u \in Applier \ {t} : b[u] = applier[u]
    <3>1. <<>> \in Seq(Policy)
      BY EmptySeq
    <3> QED
      BY <2>3, <3>1 DEF Thread
  <2> HIDE DEF b
  <2>5. /\ c \in [Applier -> Thread] /\ c[t].pc = "addresses" /\ c[t].review = applier[t].review
        /\ c[t].left = Reviewed(t).new
        /\ \A u \in Applier \ {t} : c[u] = applier[u]
    BY <2>2, <2>4 DEF Thread
  <2> HIDE DEF c
  <2> QED
    BY <1>1, <2>1, <2>5
<1>2. CASE Plan(Req(t), applier[t].seen, addresses) # Reviewed(t)
  BY <1>2 DEF Compare
<1> QED
  BY <1>1, <1>2

LEMMA CompareKeeps ==
    ASSUME PInv, NEW t \in Applier, Compare(t)
    PROVE  PInv'
<1>1. /\ applier[t].pc = "read" /\ UNCHANGED <<policies, addresses, review, setting>>
  BY DEF Compare, At
<1>2. CASE Stop(t)
  BY <1>1, <1>2, StopKeeps
<1>3. CASE ~Stop(t)
  <2>1. /\ applier' \in [Applier -> Thread]
        /\ \A u \in Applier \ {t} : applier'[u] = applier[u]
        /\ applier'[t].pc = "addresses" /\ applier'[t].left = Reviewed(t).new
        /\ applier'[t].review = applier[t].review
    BY <1>3, Compared
  <2>2. ThreadOK(policies, review, applier, t)
    BY DEF PInv
  <2>3. ThreadOK(policies', review', applier', t)
    BY <1>1, <2>1, <2>2 DEF ThreadOK, Reviewed
  <2> QED
    BY <1>1, <2>1, <2>3, StepKeeps DEF PInv, Later
<1> QED
  BY <1>2, <1>3

\* What is known of the review that a thread works on.
LEMMA AtWork ==
    ASSUME PInv, NEW t \in Applier, applier[t].pc # "idle"
    PROVE  /\ applier[t].review \in Review /\ Req(t) \in Request
           /\ review[applier[t].review].status # "none"
           /\ Reviewed(t) \in PlanOf /\ Reviewed(t).new \subseteq Hosts(Req(t))
           /\ Reviewed(t).op = "update" =>
                Req(t).block /\ TargetOK(policies, Req(t), Reviewed(t).target)
           /\ Reviewed(t).op = "reuse" => Named(policies, Req(t))
<1>1. applier[t].review \in Review /\ review[applier[t].review].status # "none"
  BY DEF PInv, ThreadOK
<1>2. RowOK(policies, review, applier[t].review)
  BY <1>1 DEF PInv
<1> QED
  BY <1>1, <1>2 DEF RowOK, Row, Req, Reviewed

\* The next address to be created is a host that is left.
LEMMA NextAddress ==
    ASSUME PInv, NEW t \in Applier, CreateAddress(t)
    PROVE  LET h == IF Req(t).src \in applier[t].left THEN Req(t).src ELSE Req(t).dst IN
           /\ h \in applier[t].left /\ h \in Host
           /\ applier[t].left \subseteq Reviewed(t).new
           /\ addresses' = addresses \cup {h}
           /\ applier' \in [Applier -> Thread]
           /\ \A u \in Applier \ {t} : applier'[u] = applier[u]
           /\ applier'[t].pc = "addresses" /\ applier'[t].left = applier[t].left \ {h}
           /\ applier'[t].review = applier[t].review
<1> DEFINE h == IF Req(t).src \in applier[t].left THEN Req(t).src ELSE Req(t).dst
<1>1. /\ applier[t].pc = "addresses" /\ applier[t].left # {}
      /\ addresses' = addresses \cup {h}
      /\ applier' = [applier EXCEPT ![t].left = @ \ {h}]
  BY DEF CreateAddress, At
<1>2. applier[t].left \subseteq Reviewed(t).new /\ applier[t].left \subseteq Host
  BY <1>1 DEF PInv, ThreadOK, Reviewed, Thread
<1>3. h \in applier[t].left
  <2>1. Reviewed(t).new \subseteq {Req(t).src, Req(t).dst}
    BY <1>1, AtWork DEF Hosts
  <2> QED
    BY <1>1, <1>2, <2>1
<1> HIDE DEF h
<1>4. /\ applier' \in [Applier -> Thread]
      /\ \A u \in Applier \ {t} : applier'[u] = applier[u]
      /\ applier'[t].pc = "addresses" /\ applier'[t].left = applier[t].left \ {h}
      /\ applier'[t].review = applier[t].review
  BY <1>1 DEF PInv, Thread
<1> QED
  BY <1>1, <1>2, <1>3, <1>4 DEF h

LEMMA CreateAddressKeeps ==
    ASSUME PInv, NEW t \in Applier, CreateAddress(t)
    PROVE  PInv'
<1>1. UNCHANGED <<policies, review, setting>>
  BY DEF CreateAddress
<1>2. /\ addresses' \subseteq Host
      /\ applier' \in [Applier -> Thread]
      /\ \A u \in Applier \ {t} : applier'[u] = applier[u]
      /\ applier'[t].pc = "addresses" /\ applier'[t].left \subseteq Reviewed(t).new
      /\ applier'[t].review = applier[t].review
  BY NextAddress DEF PInv
<1>3. ThreadOK(policies, review, applier, t) /\ applier[t].pc = "addresses"
  BY DEF PInv, CreateAddress, At
<1>4. ThreadOK(policies', review', applier', t)
  BY <1>1, <1>2, <1>3 DEF ThreadOK, Reviewed
<1> QED
  BY <1>1, <1>2, <1>4, StepKeeps DEF PInv, Later

\* Where the thread goes that has written its policy.
LEMMA PlacedIs ==
    ASSUME PInv, NEW t \in Applier, NEW i \in Nat, Placed(t, i)
    PROVE  /\ applier' \in [Applier -> Thread]
           /\ \A u \in Applier \ {t} : applier'[u] = applier[u]
           /\ applier'[t].pc = IF Req(t).block THEN "placing" ELSE "marking"
           /\ applier'[t].id = i /\ applier'[t].review = applier[t].review
<1> DEFINE pc == IF Req(t).block THEN "placing" ELSE "marking"
           a == [applier EXCEPT ![t].pc = pc]
           b == [a EXCEPT ![t].id = i]
<1>1. applier' = b
  BY DEF Placed
<1>2. pc \in {"placing", "marking"}
  OBVIOUS
<1> HIDE DEF pc
<1>3. /\ a \in [Applier -> Thread] /\ a[t].pc = pc /\ a[t].review = applier[t].review
      /\ \A u \in Applier \ {t} : a[u] = applier[u]
  BY <1>2 DEF PInv, Thread
<1> HIDE DEF a
<1>4. /\ b \in [Applier -> Thread] /\ b[t].pc = pc /\ b[t].review = applier[t].review
      /\ b[t].id = i
      /\ \A u \in Applier \ {t} : b[u] = applier[u]
  BY <1>3 DEF Thread
<1> HIDE DEF b
<1> QED
  BY <1>1, <1>4 DEF pc

\* The three ways to write the policy, and what the device has then.
LEMMA Written ==
    ASSUME PInv, NEW t \in Applier, WritePolicy(t)
    PROVE  /\ ListOK(policies') /\ Later(policies, policies')
           /\ applier' \in [Applier -> Thread]
           /\ \A u \in Applier \ {t} : applier'[u] = applier[u]
           /\ applier'[t].review = applier[t].review
           /\ applier'[t].pc \in {"placing", "marking"}
           /\ applier'[t].pc = "placing" =>
                Req(t).block /\ PlacingOK(policies', Req(t), applier'[t].id)
<1> DEFINE q == Req(t)
           p == Reviewed(t)
           N == Len(policies)
<1>1. ListOK(policies) /\ policies \in Seq(Policy) /\ N \in Nat /\ DOMAIN policies = 1..N
  BY LenProperties DEF PInv, ListOK
<1>2. applier[t].pc = "addresses"
  BY DEF WritePolicy, At
<1>3. q \in Request /\ p \in PlanOf
      /\ (p.op = "update" => q.block /\ TargetOK(policies, q, p.target))
      /\ (p.op = "reuse" => Named(policies, q))
  BY <1>2, AtWork
<1> HIDE DEF q, p
<1>4. CASE p.op = "update"
  <2>1. /\ policies' = [i \in DOMAIN policies |->
                          IF policies[i].id = p.target THEN Blocked(policies[i], q) ELSE policies[i]]
        /\ applier' = [applier EXCEPT ![t].pc = "marking"]
    BY <1>4 DEF WritePolicy, q, p
  <2>2. ListOK(policies') /\ \E m : Grows(policies, policies', m)
    <3> DEFINE x == p.target
               u == [i \in DOMAIN policies |->
                       IF policies[i].id = x THEN Blocked(policies[i], q) ELSE policies[i]]
    <3>1. ListOK(policies) /\ q \in Request /\ q.block /\ TargetOK(policies, q, x)
      BY <1>1, <1>3, <1>4
    <3>2. policies' = u
      BY <2>1
    <3> HIDE DEF x
    <3>3. ListOK(u) /\ \E m : Grows(policies, u, m)
      BY <3>1, UpdateGrows
    <3> HIDE DEF u
    <3> QED
      BY <3>2, <3>3
  <2>3. /\ applier' \in [Applier -> Thread] /\ applier'[t].pc = "marking"
        /\ applier'[t].review = applier[t].review
        /\ \A u \in Applier \ {t} : applier'[u] = applier[u]
    BY <2>1 DEF PInv, Thread
  <2> QED
    BY <2>2, <2>3 DEF Later, ListOK
<1>5. CASE p.op = "reuse"
  <2>1. Placed(t, 0) /\ policies' = policies
    BY <1>5 DEF WritePolicy, p
  <2>2. /\ applier' \in [Applier -> Thread]
        /\ \A u \in Applier \ {t} : applier'[u] = applier[u]
        /\ applier'[t].pc = IF Req(t).block THEN "placing" ELSE "marking"
        /\ applier'[t].id = 0 /\ applier'[t].review = applier[t].review
    BY <2>1, PlacedIs
  <2>3. PlacingOK(policies', q, 0)
    BY <1>3, <1>5, <2>1 DEF Named, PlacingOK
  <2> QED
    BY <1>1, <2>1, <2>2, <2>3 DEF Later, q
<1>6. CASE p.op = "create"
  <2>1. Placed(t, N + 1) /\ policies' = Append(policies, NewPolicy(q, N + 1))
    BY <1>6 DEF WritePolicy, q, p
  <2>2. LET l == Append(policies, NewPolicy(q, Len(policies) + 1)) IN
        /\ ListOK(l) /\ \E m : Grows(policies, l, m)
        /\ Len(l) = Len(policies) + 1
        /\ l[Len(policies) + 1] = NewPolicy(q, Len(policies) + 1)
    BY <1>1, <1>3, AppendGrows
  <2>3. /\ applier' \in [Applier -> Thread]
        /\ \A u \in Applier \ {t} : applier'[u] = applier[u]
        /\ applier'[t].pc = IF Req(t).block THEN "placing" ELSE "marking"
        /\ applier'[t].id = N + 1 /\ applier'[t].review = applier[t].review
    BY <1>1, <2>1, PlacedIs
  <2> HIDE DEF N
  <2>4. /\ ListOK(policies') /\ Later(policies, policies')
        /\ policies'[N + 1] = NewPolicy(q, N + 1) /\ Len(policies') = N + 1
    BY <2>1, <2>2 DEF Later, ListOK, N
  <2>5. N + 1 \in DOMAIN policies'
    <3>1. policies' \in Seq(Policy)
      BY <2>4 DEF ListOK
    <3>2. DOMAIN policies' = 1..(N + 1)
      BY <2>4, <3>1, LenProperties
    <3> QED
      BY <1>1, <3>2
  <2>6. PlacingOK(policies', q, N + 1)
    BY <2>4, <2>5 DEF PlacingOK, NewPolicy
  <2> QED
    BY <2>3, <2>4, <2>6 DEF q
<1> QED
  BY <1>3, <1>4, <1>5, <1>6 DEF PlanOf

LEMMA WritePolicyKeeps ==
    ASSUME PInv, NEW t \in Applier, WritePolicy(t)
    PROVE  PInv'
<1>1. UNCHANGED <<addresses, review, setting>>
  BY DEF WritePolicy
<1>2. applier[t].pc = "addresses" /\ ThreadOK(policies, review, applier, t)
  BY DEF WritePolicy, At, PInv
<1>3. ThreadOK(policies', review', applier', t)
  BY <1>1, <1>2, Written DEF ThreadOK, Req
<1> QED
  BY <1>1, <1>3, Written, StepKeeps DEF PInv

\* Where the thread goes that looks for the place of its block.
LEMMA PlaceIs ==
    ASSUME PInv, NEW t \in Applier, FindPlace(t)
    PROVE  \/ Stop(t)
           \/ /\ applier' \in [Applier -> Thread]
              /\ \A u \in Applier \ {t} : applier'[u] = applier[u]
              /\ applier'[t].review = applier[t].review
              /\ \/ /\ applier'[t].pc = "marking"
                    /\ PlacingOK(policies, Req(t), applier[t].id)
                    /\ \A k \in DOMAIN policies : ~Lab(policies[k])
                 \/ /\ applier'[t].pc = "moving"
                    /\ MovingOK(policies, Req(t), applier'[t].id, applier'[t].lab)
<1> DEFINE l == FirstLab(policies)
           q == Req(t)
           n == FirstPos(policies, LAMBDA p : p.name = Name(q))
           i == IF applier[t].id # 0 THEN applier[t].id
                ELSE IF n = 0 THEN 0 ELSE policies[n].id
<1>1. policies \in Seq(Policy) /\ \A k \in DOMAIN policies : policies[k] \in Policy
  BY ElementOfSeq, LenProperties DEF PInv, ListOK
<1>2. /\ \/ l = 0 /\ \A k \in DOMAIN policies : ~Lab(policies[k])
         \/ /\ l \in DOMAIN policies /\ Lab(policies[l])
            /\ \A k \in DOMAIN policies : k < l => ~Lab(policies[k])
  BY <1>1, FirstLabIs
<1>3. applier[t].pc = "placing" /\ PlacingOK(policies, q, applier[t].id)
  BY DEF FindPlace, At, PInv, ThreadOK, Req
<1>4. (\E j \in DOMAIN policies : policies[j].name = Name(q)) =>
        n \in DOMAIN policies /\ n # 0 /\ policies[n].name = Name(q)
  BY <1>1, NamePosIs
<1>5. /\ l = 0 => applier' = [applier EXCEPT ![t].pc = "marking"]
      /\ l # 0 /\ i # 0 =>
           applier' = [applier EXCEPT ![t].pc = "moving", ![t].id = i, ![t].lab = policies[l].id]
      /\ l # 0 /\ i = 0 => Stop(t)
  <2>1. CASE l = 0
    BY <2>1 DEF FindPlace
  <2>2. CASE l # 0 /\ i # 0
    BY <2>2 DEF FindPlace
  <2>3. CASE l # 0 /\ i = 0
    BY <2>3 DEF FindPlace
  <2> QED
    BY <2>1, <2>2, <2>3
<1> HIDE DEF n
<1>6. i # 0 => i \in Nat /\ \E k \in DOMAIN policies : policies[k].name = Name(q) /\ policies[k].id = i
  <2>1. PICK k \in DOMAIN policies : policies[k].name = Name(q) /\ applier[t].id \in {0, policies[k].id}
    BY <1>3 DEF PlacingOK
  <2>2. policies[k].id \in Nat /\ policies[n].id \in Nat
    BY <1>1, <1>4, <2>1 DEF Policy
  <2> QED
    BY <1>4, <2>1, <2>2
<1> HIDE DEF i, l, q
<1>7. CASE l = 0
  <2>1. /\ applier' \in [Applier -> Thread] /\ applier'[t].pc = "marking"
        /\ applier'[t].review = applier[t].review
        /\ \A u \in Applier \ {t} : applier'[u] = applier[u]
    <3>1. applier' = [applier EXCEPT ![t].pc = "marking"]
      BY <1>5, <1>7
    <3> QED
      BY <3>1 DEF PInv, Thread
  <2>2. \A k \in DOMAIN policies : ~Lab(policies[k])
    <3>1. 0 \notin DOMAIN policies
      BY <1>1, LenProperties
    <3> QED
      BY <1>2, <1>7, <3>1
  <2> QED
    BY <1>3, <2>1, <2>2 DEF q
<1>8. CASE l # 0 /\ i # 0
  <2> DEFINE y == policies[l].id
             a == [applier EXCEPT ![t].pc = "moving"]
             b == [a EXCEPT ![t].id = i]
             c == [b EXCEPT ![t].lab = y]
  <2>1. applier' = c
    BY <1>5, <1>8
  <2>2. l \in DOMAIN policies /\ y \in Nat
    BY <1>1, <1>2, <1>8 DEF Policy
  <2>3. MovingOK(policies, q, i, y)
    BY <1>2, <1>6, <1>8 DEF MovingOK
  <2> HIDE DEF y
  <2>4. /\ a \in [Applier -> Thread] /\ a[t].pc = "moving" /\ a[t].review = applier[t].review
        /\ \A u \in Applier \ {t} : a[u] = applier[u]
    BY DEF PInv, Thread
  <2> HIDE DEF a
  <2>5. /\ b \in [Applier -> Thread] /\ b[t].pc = "moving" /\ b[t].review = applier[t].review
        /\ b[t].id = i
        /\ \A u \in Applier \ {t} : b[u] = applier[u]
    BY <1>6, <1>8, <2>4 DEF Thread
  <2> HIDE DEF b
  <2>6. /\ c \in [Applier -> Thread] /\ c[t].pc = "moving" /\ c[t].review = applier[t].review
        /\ c[t].id = i /\ c[t].lab = y
        /\ \A u \in Applier \ {t} : c[u] = applier[u]
    BY <2>2, <2>5 DEF Thread
  <2> HIDE DEF c
  <2> QED
    BY <2>1, <2>3, <2>6 DEF q
<1>9. CASE l # 0 /\ i = 0
  BY <1>5, <1>9
<1> QED
  BY <1>7, <1>8, <1>9

LEMMA FindPlaceKeeps ==
    ASSUME PInv, NEW t \in Applier, FindPlace(t)
    PROVE  PInv'
<1>1. UNCHANGED <<policies, addresses, review, setting>>
  BY DEF FindPlace
<1>2. CASE Stop(t)
  BY <1>1, <1>2, StopKeeps
<1>3. CASE ~Stop(t)
  <2>1. /\ applier' \in [Applier -> Thread]
        /\ \A u \in Applier \ {t} : applier'[u] = applier[u]
        /\ applier'[t].review = applier[t].review
        /\ \/ applier'[t].pc = "marking"
           \/ /\ applier'[t].pc = "moving"
              /\ MovingOK(policies, Req(t), applier'[t].id, applier'[t].lab)
    BY <1>3, PlaceIs
  <2>2. ThreadOK(policies, review, applier, t) /\ applier[t].pc = "placing"
    BY DEF PInv, FindPlace, At
  <2>3. ThreadOK(policies', review', applier', t)
    BY <1>1, <2>1, <2>2 DEF ThreadOK, Req
  <2> QED
    BY <1>1, <2>1, <2>3, StepKeeps DEF PInv, Later
<1> QED
  BY <1>2, <1>3

\* The block is ahead of every lab policy when it has been moved.
LEMMA MovedIs ==
    ASSUME PInv, NEW t \in Applier, Move(t)
    PROVE  /\ ListOK(policies') /\ Later(policies, policies')
           /\ NamesDiffer(policies) => NamesDiffer(policies')
           /\ Req(t) \in Request /\ Req(t).block
           /\ \E k \in DOMAIN policies' : /\ policies'[k].name = Name(Req(t))
                                          /\ \A n \in DOMAIN policies' : n < k => ~Lab(policies'[n])
           /\ applier' \in [Applier -> Thread]
           /\ \A u \in Applier \ {t} : applier'[u] = applier[u]
           /\ applier'[t].pc = "marking" /\ applier'[t].review = applier[t].review
<1> DEFINE q == Req(t)
           x == applier[t].id
           y == applier[t].lab
           u == MoveBefore(policies, x, y)
<1>1. /\ applier[t].pc = "moving" /\ policies' = u
      /\ applier' = [applier EXCEPT ![t].pc = "marking"]
  BY DEF Move, At
<1>2. q \in Request /\ q.block /\ MovingOK(policies, q, x, y)
  BY <1>1, AtWork DEF PInv, ThreadOK, Req
<1>3. ListOK(policies)
  BY DEF PInv
<1>4. /\ applier' \in [Applier -> Thread] /\ applier'[t].pc = "marking"
      /\ applier'[t].review = applier[t].review
      /\ \A v \in Applier \ {t} : applier'[v] = applier[v]
  BY <1>1 DEF PInv, Thread
<1> HIDE DEF q, x, y
<1>5. /\ ListOK(u) /\ \E m : Grows(policies, u, m)
      /\ NamesDiffer(policies) => NamesDiffer(u)
      /\ \E k \in DOMAIN u : /\ u[k].name = Name(q)
                             /\ \A n \in DOMAIN u : n < k => ~Lab(u[n])
  BY <1>2, <1>3, MoveGrows
<1> HIDE DEF u
<1> QED
  BY <1>1, <1>2, <1>4, <1>5 DEF Later, ListOK, q

LEMMA MoveKeeps ==
    ASSUME PInv, NEW t \in Applier, Move(t)
    PROVE  PInv'
<1>1. UNCHANGED <<addresses, review, setting>>
  BY DEF Move
<1>2. applier[t].pc = "moving" /\ ThreadOK(policies, review, applier, t)
  BY DEF Move, At, PInv
<1>3. ThreadOK(policies', review', applier', t)
  BY <1>1, <1>2, MovedIs DEF ThreadOK
<1> QED
  BY <1>1, <1>3, MovedIs, StepKeeps DEF PInv

LEMMA MarkAppliedKeeps ==
    ASSUME PInv, NEW t \in Applier, MarkApplied(t)
    PROVE  PInv'
<1> DEFINE r == applier[t].review
<1>1. /\ applier[t].pc = "marking" /\ review' = [review EXCEPT ![r].status = "applied"]
      /\ Stop(t) /\ UNCHANGED <<policies, addresses, setting>>
  BY DEF MarkApplied, At
<1>2. r \in Review /\ review[r].status # "none"
  BY <1>1, AtWork
<1> HIDE DEF r
<1>3. /\ review' \in [Review -> Row]
      /\ \A x \in Review : review'[x].request = review[x].request /\ review'[x].plan = review[x].plan
      /\ \A x \in Review : x # r => review'[x] = review[x]
      /\ review'[r].status = "applied"
  BY <1>1, <1>2 DEF PInv, Row
<1>4. ASSUME NEW x \in Review PROVE RowOK(policies', review', x)
  BY <1>1, <1>2, <1>3 DEF PInv, RowOK
<1>5. policies \in Seq(Policy) /\ Later(policies, policies') /\ Onward(review, review')
  BY <1>1, <1>3 DEF PInv, ListOK, Later, Onward
<1>6. Idle \in Thread /\ Idle.pc = "idle"
  BY EmptySeq DEF Idle, Thread
<1>7. /\ applier' \in [Applier -> Thread] /\ applier'[t] = Idle
      /\ \A u \in Applier \ {t} : applier'[u] = applier[u]
  BY <1>1, <1>6 DEF Stop, PInv
<1>8. ASSUME NEW u \in Applier PROVE ThreadOK(policies', review', applier', u)
  <2>1. CASE u = t
    BY <1>6, <1>7, <2>1 DEF ThreadOK
  <2>2. CASE u # t
    <3>1. ThreadOK(policies, review, applier, u) /\ applier'[u] = applier[u]
      BY <1>7, <2>2 DEF PInv
    <3> QED
      BY <1>5, <3>1, ThreadsKeep
  <2> QED
    BY <2>1, <2>2
<1> QED
  BY <1>1, <1>3, <1>4, <1>7, <1>8 DEF PInv

LEMMA NextInv == PInv /\ [Next]_vars => PInv'
<1> SUFFICES ASSUME PInv, [Next]_vars PROVE PInv'
  OBVIOUS
<1>1. ASSUME NEW r \in Review, NEW q \in Request, CreateReview(r, q) PROVE PInv'
  BY <1>1, CreateReviewKeeps
<1>2. ASSUME NEW t \in Applier, Apply(t) PROVE PInv'
  <2>1. ASSUME NEW r \in Review, Load(t, r) PROVE PInv'
    BY <2>1, LoadKeeps
  <2>2. CASE ReadPolicies(t)
    BY <2>2, ReadPoliciesKeeps
  <2>3. CASE Compare(t)
    BY <2>3, CompareKeeps
  <2>4. CASE CreateAddress(t)
    BY <2>4, CreateAddressKeeps
  <2>5. CASE WritePolicy(t)
    BY <2>5, WritePolicyKeeps
  <2>6. CASE FindPlace(t)
    BY <2>6, FindPlaceKeeps
  <2>7. CASE Move(t)
    BY <2>7, MoveKeeps
  <2>8. CASE MarkApplied(t)
    BY <2>8, MarkAppliedKeeps
  <2>9. CASE Fail(t)
    BY <2>9, StopKeeps DEF Fail
  <2> QED
    BY <1>2, <2>1, <2>2, <2>3, <2>4, <2>5, <2>6, <2>7, <2>8, <2>9 DEF Apply
<1>3. CASE UNCHANGED vars
  BY <1>3 DEF vars, PInv, ListOK, RowOK, ThreadOK
<1> QED
  BY <1>1, <1>2, <1>3 DEF Next

-----------------------------------------------------------------------------
(* The theorem about types. *)

LEMMA IdsCounted ==
    ASSUME NEW s \in Seq(Policy), DistinctIds(s)
    PROVE  Cardinality(Ids(s)) = Len(s)
<1> DEFINE f == [i \in 1..Len(s) |-> s[i].id]
<1>1. DOMAIN s = 1..Len(s) /\ Len(s) \in Nat
  BY LenProperties
<1>2. f \in [1..Len(s) -> Ids(s)]
  BY <1>1 DEF Ids
<1>3. \A i, j \in 1..Len(s) : f[i] = f[j] => i = j
  BY <1>1 DEF DistinctIds
<1>4. \A x \in Ids(s) : \E i \in 1..Len(s) : f[i] = x
  BY <1>1 DEF Ids
<1> HIDE DEF f
<1>5. f \in Bijection(1..Len(s), Ids(s))
  BY <1>2, <1>3, <1>4, Fun_IsBij
<1>6. ExistsBijection(1..Len(s), Ids(s))
  BY <1>5 DEF ExistsBijection
<1> QED
  BY <1>1, <1>6, FS_CountingElements

\* Applied one at a time, at most one thread is at work.
Alone == setting.serial =>
    \A t, u \in Applier : ~At(t, "idle") /\ ~At(u, "idle") => t = u

LEMMA AloneCounted ==
    ASSUME Alone, setting.serial
    PROVE  Cardinality({t \in Applier : applier[t].pc # "idle"}) <= 1
<1> DEFINE S == {t \in Applier : applier[t].pc # "idle"}
<1>1. \A t, u \in S : t = u
  BY DEF Alone, At
<1> HIDE DEF S
<1>2. S = {} \/ \E x : S = {x}
  BY <1>1
<1>3. Cardinality(S) = 0 \/ Cardinality(S) = 1
  BY <1>2, FS_EmptySet, FS_Singleton
<1> QED
  BY <1>3 DEF S

-----------------------------------------------------------------------------
(* One review applied at a time. *)

\* What thread t of ap has read, and then compared, is still what there is:
\* until it writes, its review is the plan of today, and later still in what it does.
Fresh(s, A, rv, ap, t) ==
    LET row == rv[ap[t].review]
        p   == Plan(row.request, s, A)
    IN  /\ ap[t].pc = "read" => ap[t].seen = s
        /\ ap[t].pc = "addresses" =>
             p.op = row.plan.op /\ (ap[t].left = row.plan.new => p = row.plan)

SInv ==
    setting.serial =>
        /\ Alone
        /\ NamesDiffer(policies)
        /\ \A t \in Applier : Fresh(policies, addresses, review, applier, t)

\* Alone at work, thread t only has to see to itself.
LEMMA SerialStep ==
    ASSUME SInv, NEW t \in Applier, UNCHANGED setting,
           setting.serial => ~At(t, "idle") \/ \A u \in Applier : At(u, "idle"),
           \A u \in Applier \ {t} : applier'[u] = applier[u],
           setting.serial => NamesDiffer(policies'),
           setting.serial => Fresh(policies', addresses', review', applier', t)
    PROVE  SInv'
<1> SUFFICES ASSUME setting.serial PROVE SInv'
  BY DEF SInv
<1>1. \A u \in Applier \ {t} : applier[u].pc = "idle"
  BY DEF SInv, Alone, At
<1>2. \A u \in Applier \ {t} : applier'[u].pc = "idle"
  BY <1>1
<1>3. Alone'
  BY <1>2 DEF Alone, At
<1>4. \A u \in Applier : Fresh(policies', addresses', review', applier', u)
  BY <1>2 DEF Fresh
<1> QED
  BY <1>3, <1>4 DEF SInv

LEMMA OpOfPlan ==
    ASSUME NEW q, NEW s, NEW A, NEW B
    PROVE  Plan(q, s, A).op = Plan(q, s, B).op
BY DEF Plan

\* A policy is created only when there is none of its name.
LEMMA WrittenNames ==
    ASSUME PInv, SInv, setting.serial, NEW t \in Applier, WritePolicy(t)
    PROVE  NamesDiffer(policies')
<1> DEFINE q == Req(t)
           p == Reviewed(t)
           N == Len(policies)
<1>1. ListOK(policies) /\ policies \in Seq(Policy) /\ N \in Nat /\ DOMAIN policies = 1..N
  BY LenProperties DEF PInv, ListOK
<1>2. applier[t].pc = "addresses"
  BY DEF WritePolicy, At
<1>3. q \in Request /\ p \in PlanOf
      /\ (p.op = "update" => q.block /\ TargetOK(policies, q, p.target))
  BY <1>2, AtWork
<1>4. Plan(q, policies, addresses).op = p.op /\ NamesDiffer(policies)
  BY <1>2 DEF SInv, Fresh, Req, Reviewed
<1> HIDE DEF q, p
<1>5. CASE p.op = "update"
  <2> DEFINE x == p.target
             u == [i \in DOMAIN policies |->
                     IF policies[i].id = x THEN Blocked(policies[i], q) ELSE policies[i]]
  <2>1. policies' = u
    BY <1>5 DEF WritePolicy, q, p
  <2>2. ListOK(policies) /\ q \in Request /\ q.block /\ TargetOK(policies, q, x)
    BY <1>1, <1>3, <1>5
  <2> HIDE DEF x
  <2>3. DOMAIN u = DOMAIN policies /\ \A i \in DOMAIN policies : Becomes(policies[i], u[i])
    BY <2>2, UpdateGrows
  <2> HIDE DEF u
  <2> QED
    BY <1>4, <2>1, <2>3 DEF NamesDiffer, Becomes
<1>6. CASE p.op = "reuse"
  <2>1. policies' = policies
    BY <1>6 DEF WritePolicy, p
  <2> QED
    BY <1>4, <2>1
<1>7. CASE p.op = "create"
  <2> DEFINE u == Append(policies, NewPolicy(q, N + 1))
  <2>1. policies' = u
    BY <1>7 DEF WritePolicy, q, p
  <2>2. ~Named(policies, q)
    <3>1. LET o == Plan(q, policies, addresses) IN o.op = "create" => ~Named(policies, q)
      BY <1>1, <1>3, PlanIs
    <3> QED
      BY <1>4, <1>7, <3>1
  <2>3. /\ u \in Seq(Policy) /\ Len(u) = N + 1
        /\ \A i \in DOMAIN policies : u[i] = policies[i]
        /\ u[N + 1] = NewPolicy(q, N + 1)
    BY <1>1, <1>3, AppendGrows DEF ListOK
  <2> HIDE DEF u, N
  <2>4. DOMAIN u = 1..(N + 1) /\ u[N + 1].name = Name(q)
    BY <2>3, LenProperties DEF NewPolicy
  <2>5. ASSUME NEW i \in 1..(N + 1), NEW j \in 1..(N + 1), u[i].name = u[j].name
        PROVE  i = j
    <3>1. \A k \in 1..N : u[k] = policies[k] /\ u[k].name # Name(q)
      BY <1>1, <2>2, <2>3 DEF Named
    <3>2. CASE i \in 1..N /\ j \in 1..N
      BY <1>1, <1>4, <2>5, <3>1, <3>2 DEF NamesDiffer
    <3>3. CASE i = N + 1 \/ j = N + 1
      BY <1>1, <2>4, <2>5, <3>1, <3>3
    <3> QED
      BY <1>1, <3>2, <3>3
  <2> QED
    BY <2>1, <2>4, <2>5 DEF NamesDiffer
<1> QED
  BY <1>3, <1>5, <1>6, <1>7 DEF PlanOf

LEMMA StopSerial ==
    ASSUME PInv, SInv, NEW t \in Applier, ~At(t, "idle"), Stop(t),
           UNCHANGED policies, UNCHANGED setting
    PROVE  SInv'
<1>1. /\ \A u \in Applier \ {t} : applier'[u] = applier[u]
      /\ applier'[t].pc = "idle"
  BY DEF Stop, PInv, Idle
<1>2. Fresh(policies', addresses', review', applier', t)
  BY <1>1 DEF Fresh
<1> QED
  BY <1>1, <1>2, SerialStep DEF SInv

LEMMA SerialNext == PInv /\ SInv /\ [Next]_vars => SInv'
<1> SUFFICES ASSUME PInv, SInv, [Next]_vars PROVE SInv'
  OBVIOUS
<1>1. ASSUME NEW r \in Review, NEW q \in Request, CreateReview(r, q) PROVE SInv'
  <2> SUFFICES ASSUME setting.serial PROVE SInv'
    BY <1>1 DEF CreateReview, SInv
  <2>1. /\ review[r].status = "none" /\ UNCHANGED <<policies, addresses, applier, setting>>
        /\ \A x \in Review \ {r} : review'[x] = review[x]
    BY <1>1 DEF CreateReview, PInv
  <2>2. ASSUME NEW t \in Applier PROVE Fresh(policies', addresses', review', applier', t)
    <3>1. ThreadOK(policies, review, applier, t) /\ Fresh(policies, addresses, review, applier, t)
      BY DEF PInv, SInv
    <3> QED
      BY <2>1, <3>1 DEF ThreadOK, Fresh
  <2> QED
    BY <2>1, <2>2 DEF SInv, Alone, At
<1>2. ASSUME NEW t \in Applier, Apply(t) PROVE SInv'
  <2>1. ASSUME NEW r \in Review, Load(t, r) PROVE SInv'
    <3>1. /\ setting.serial => \A u \in Applier : At(u, "idle")
          /\ UNCHANGED <<policies, setting>>
      BY <2>1 DEF Load
    <3>2. Fresh(policies', addresses', review', applier', t)
      BY <2>1, LoadIs DEF Fresh
    <3> QED
      BY <2>1, <3>1, <3>2, LoadIs, SerialStep DEF SInv
  <2>2. CASE ReadPolicies(t)
    <3>1. ~At(t, "idle") /\ UNCHANGED <<policies, setting>>
      BY <2>2 DEF ReadPolicies, At
    <3>2. Fresh(policies', addresses', review', applier', t)
      BY <2>2, <3>1, ReadIs DEF Fresh
    <3> QED
      BY <2>2, <3>1, <3>2, ReadIs, SerialStep DEF SInv
  <2>3. CASE Compare(t)
    <3>1. applier[t].pc = "read" /\ UNCHANGED <<policies, addresses, review, setting>>
      BY <2>3 DEF Compare, At
    <3>2. CASE Stop(t)
      BY <3>1, <3>2, StopSerial DEF At
    <3>3. CASE ~Stop(t)
      <4>1. /\ Plan(Req(t), applier[t].seen, addresses) = Reviewed(t)
            /\ \A u \in Applier \ {t} : applier'[u] = applier[u]
            /\ applier'[t].pc = "addresses"
            /\ applier'[t].review = applier[t].review
        BY <2>3, <3>3, Compared
      <4>2. setting.serial => applier[t].seen = policies
        BY <3>1 DEF SInv, Fresh
      <4>3. setting.serial => Fresh(policies', addresses', review', applier', t)
        BY <3>1, <4>1, <4>2 DEF Fresh, Req, Reviewed
      <4> QED
        BY <3>1, <4>1, <4>3, SerialStep DEF SInv, At
    <3> QED
      BY <3>2, <3>3
  <2>4. CASE CreateAddress(t)
    <3> DEFINE h == IF Req(t).src \in applier[t].left THEN Req(t).src ELSE Req(t).dst
    <3>1. applier[t].pc = "addresses" /\ UNCHANGED <<policies, review, setting>>
      BY <2>4 DEF CreateAddress, At
    <3>2. /\ h \in applier[t].left /\ applier[t].left \subseteq Reviewed(t).new
          /\ \A u \in Applier \ {t} : applier'[u] = applier[u]
          /\ applier'[t].pc = "addresses" /\ applier'[t].left = applier[t].left \ {h}
          /\ applier'[t].review = applier[t].review
      BY <2>4, NextAddress
    <3> HIDE DEF h
    <3>3. applier'[t].left # Reviewed(t).new
      BY <3>2
    <3>4. Plan(Req(t), policies, addresses').op = Plan(Req(t), policies, addresses).op
      BY OpOfPlan
    <3>5. setting.serial => Fresh(policies', addresses', review', applier', t)
      <4>1. setting.serial => Plan(Req(t), policies, addresses).op = Reviewed(t).op
        BY <3>1 DEF SInv, Fresh, Req, Reviewed
      <4> QED
        BY <3>1, <3>2, <3>3, <3>4, <4>1 DEF Fresh, Req, Reviewed
    <3> QED
      BY <3>1, <3>2, <3>5, SerialStep DEF SInv, At
  <2>5. CASE WritePolicy(t)
    <3>1. ~At(t, "idle") /\ UNCHANGED setting
      BY <2>5 DEF WritePolicy, At
    <3>2. /\ \A u \in Applier \ {t} : applier'[u] = applier[u]
          /\ applier'[t].pc \in {"placing", "marking"}
      BY <2>5, Written
    <3>3. Fresh(policies', addresses', review', applier', t)
      BY <3>2 DEF Fresh
    <3>4. setting.serial => NamesDiffer(policies')
      BY <2>5, WrittenNames
    <3> QED
      BY <3>1, <3>2, <3>3, <3>4, SerialStep
  <2>6. CASE FindPlace(t)
    <3>1. ~At(t, "idle") /\ UNCHANGED <<policies, setting>>
      BY <2>6 DEF FindPlace, At
    <3>2. CASE Stop(t)
      BY <3>1, <3>2, StopSerial
    <3>3. CASE ~Stop(t)
      <4>1. /\ \A u \in Applier \ {t} : applier'[u] = applier[u]
            /\ applier'[t].pc \in {"moving", "marking"}
        BY <2>6, <3>3, PlaceIs
      <4>2. Fresh(policies', addresses', review', applier', t)
        BY <4>1 DEF Fresh
      <4> QED
        BY <3>1, <4>1, <4>2, SerialStep DEF SInv
    <3> QED
      BY <3>2, <3>3
  <2>7. CASE Move(t)
    <3>1. ~At(t, "idle") /\ UNCHANGED setting
      BY <2>7 DEF Move, At
    <3>2. /\ \A u \in Applier \ {t} : applier'[u] = applier[u]
          /\ applier'[t].pc = "marking"
          /\ NamesDiffer(policies) => NamesDiffer(policies')
      BY <2>7, MovedIs
    <3>3. Fresh(policies', addresses', review', applier', t)
      BY <3>2 DEF Fresh
    <3> QED
      BY <3>1, <3>2, <3>3, SerialStep DEF SInv
  <2>8. CASE MarkApplied(t)
    BY <2>8, StopSerial DEF MarkApplied, At
  <2>9. CASE Fail(t)
    BY <2>9, StopSerial DEF Fail
  <2> QED
    BY <1>2, <2>1, <2>2, <2>3, <2>4, <2>5, <2>6, <2>7, <2>8, <2>9 DEF Apply
<1>3. CASE UNCHANGED vars
  BY <1>3 DEF vars, SInv, Alone, At, NamesDiffer, Fresh
<1> QED
  BY <1>1, <1>2, <1>3 DEF Next

LEMMA SerialInit == Init => SInv
<1> SUFFICES ASSUME Init PROVE SInv
  OBVIOUS
<1>1. policies = <<>> /\ DOMAIN policies = {}
  BY DEF Init
<1>2. \A t \in Applier : applier[t].pc = "idle"
  BY DEF Init, Idle
<1> QED
  BY <1>1, <1>2 DEF SInv, Alone, At, NamesDiffer, Fresh

LEMMA Invariant == Spec => [](PInv /\ SInv)
<1>1. Init => PInv /\ SInv
  BY InitInv, SerialInit
<1>2. (PInv /\ SInv) /\ [Next]_vars => (PInv /\ SInv)'
  BY NextInv, SerialNext
<1> QED
  BY <1>1, <1>2, PTL DEF Spec

\* What the device, the rows and the threads hold is what the code can store
\* there, ids differ, and in the serial setting one review is applied at a time:
\* in any interleaving of appends, updates and moves, with every fault.
THEOREM TypeCorrect == Spec => []TypeOK
<1>1. PInv /\ SInv => TypeOK
  <2> SUFFICES ASSUME PInv, SInv PROVE TypeOK
    OBVIOUS
  <2>1. policies \in Seq(Policy) /\ Cardinality(Ids(policies)) = Len(policies)
    BY IdsCounted DEF PInv, ListOK
  <2>2. setting.serial => Cardinality({t \in Applier : applier[t].pc # "idle"}) <= 1
    BY AloneCounted DEF SInv
  <2> QED
    BY <2>1, <2>2 DEF TypeOK, PInv
<1> QED
  BY <1>1, Invariant, PTL

\* Applied one at a time, reviews never leave two policies of a name, however
\* often they fail half-way and are applied again.
THEOREM OneOfAName == Spec => []NamesAreUnique
<1>1. SInv => NamesAreUnique
  BY DEF SInv, NamesDiffer, NamesAreUnique
<1> QED
  BY <1>1, Invariant, PTL

\* Applied one at a time, the first write of a review meets the very plan that
\* was reviewed.
THEOREM WrittenAsReviewed == Spec => WriteIsReviewed
<1>1. PInv /\ SInv =>
        [\A t \in Applier :
           setting.serial /\ At(t, "addresses") /\ applier[t].left = Reviewed(t).new
           /\ <<policies, addresses>>' # <<policies, addresses>>
           /\ applier'[t] # applier[t]
           => Plan(Req(t), policies, addresses) = Reviewed(t)]_vars
  <2> SUFFICES ASSUME PInv, SInv, NEW t \in Applier, setting.serial, At(t, "addresses"),
                      applier[t].left = Reviewed(t).new
               PROVE  Plan(Req(t), policies, addresses) = Reviewed(t)
    OBVIOUS
  <2> QED
    BY DEF SInv, Fresh, At, Req, Reviewed
<1> QED
  BY <1>1, Invariant, PTL DEF WriteIsReviewed

-----------------------------------------------------------------------------
(* Blocks that are in force. *)

Hits(p, f) ==
    /\ p.name.src = f.src
    /\ p.dst \in {Everything, f.dst}
    /\ p.svc \in {Everything, f.svc}

\* The list s denies flow f: whatever hits f up to some policy denies it.
DeniedBy(s, f) ==
    \E k \in DOMAIN s :
        /\ Hits(s[k], f) /\ s[k].deny
        /\ \A j \in DOMAIN s : j < k /\ Hits(s[j], f) => s[j].deny

\* On the list s, block q is in force.
InForce(s, q) == \A f \in About(q) : DeniedBy(s, f)

LEMMA DeniedIs ==
    ASSUME policies \in Seq(Policy), NEW f, DeniedBy(policies, f)
    PROVE  Denied(f)
<1> DEFINE I == {i \in DOMAIN policies : Hits(policies[i], f)}
           c == CHOOSE i \in I : \A j \in I : i <= j
           d == FirstPos(policies, LAMBDA p : /\ p.name.src = f.src
                                              /\ p.dst \in {Everything, f.dst}
                                              /\ p.svc \in {Everything, f.svc})
<1>1. PICK k \in DOMAIN policies :
        /\ Hits(policies[k], f) /\ policies[k].deny
        /\ \A j \in DOMAIN policies : j < k /\ Hits(policies[j], f) => policies[j].deny
  BY DEF DeniedBy
<1>2. DOMAIN policies = 1..Len(policies) /\ Len(policies) \in Nat
  BY LenProperties
<1>3. d = IF I = {} THEN 0 ELSE c
  BY DEF FirstPos, Hits
<1>4. c \in I /\ \A j \in I : c <= j
  <2>1. I \subseteq Nat /\ I # {}
    BY <1>1, <1>2
  <2> HIDE DEF I
  <2> QED
    BY <2>1, Least
<1>5. I # {} /\ k \in I
  BY <1>1
<1> HIDE DEF c
<1>6. c \in DOMAIN policies /\ Hits(policies[c], f) /\ c <= k
  BY <1>4, <1>5
<1>7. c # 0 /\ policies[c].deny
  BY <1>1, <1>2, <1>6
<1>8. d = c
  BY <1>3, <1>5
<1> HIDE DEF d
<1>9. d # 0 /\ policies[d].deny
  BY <1>7, <1>8
<1> QED
  BY <1>9 DEF Denied, d

\* What is denied stays denied.
LEMMA DenialStays ==
    ASSUME OneService, NEW s, NEW t, ListOK(s), ListOK(t), Later(s, t),
           NEW f, DeniedBy(s, f)
    PROVE  DeniedBy(t, f)
<1>1. CASE t = s
  BY <1>1
<1>2. CASE t # s
  <2>1. s \in Seq(Policy) /\ t \in Seq(Policy)
    BY DEF ListOK
  <2>2. PICK m : Grows(s, t, m)
    BY <1>2 DEF Later
  <2>3. PICK k \in DOMAIN s :
          /\ Hits(s[k], f) /\ s[k].deny
          /\ \A j \in DOMAIN s : j < k /\ Hits(s[j], f) => s[j].deny
    BY DEF DeniedBy
  <2>4. m[k] \in DOMAIN t /\ Becomes(s[k], t[m[k]])
    BY <2>2 DEF Grows
  <2>5. Hits(t[m[k]], f) /\ t[m[k]].deny
    <3>1. t[m[k]].name = s[k].name /\ t[m[k]].deny /\ t[m[k]].dst \in {s[k].dst, Everything}
      BY <2>3, <2>4 DEF Becomes
    <3>2. /\ \E q \in Request : q.block /\ q.src = s[k].name.src /\ s[k].svc = ServiceOf(q)
          /\ \E q \in Request : q.block /\ q.src = t[m[k]].name.src /\ t[m[k]].svc = ServiceOf(q)
      BY <2>3, <2>4, <3>1 DEF ListOK, PolicyOK
    <3>3. t[m[k]].svc = s[k].svc
      BY <3>1, <3>2 DEF OneService
    <3> QED
      BY <2>3, <3>1, <3>3 DEF Hits
  <2>6. ASSUME NEW n \in DOMAIN t, n < m[k], Hits(t[n], f), ~t[n].deny PROVE FALSE
    <3>1. Lab(t[n])
      BY <2>6 DEF ListOK, PolicyOK, Lab
    <3>2. PICK i \in DOMAIN s : i < k /\ n = m[i] /\ Lab(s[i]) /\ Becomes(s[i], t[n])
      BY <2>1, <2>2, <2>6, <3>1, Ahead
    <3>3. t[n] = s[i]
      BY <2>6, <3>2 DEF Becomes
    <3> QED
      BY <2>3, <2>6, <3>2, <3>3
  <2> QED
    BY <2>4, <2>5, <2>6 DEF DeniedBy
<1> QED
  BY <1>1, <1>2

\* A block ahead of every lab policy is in force.
LEMMA FirstDenies ==
    ASSUME NEW s, ListOK(s), NEW q \in Request, q.block,
           NEW k \in DOMAIN s, s[k].name = Name(q),
           \A n \in DOMAIN s : n < k => ~Lab(s[n])
    PROVE  InForce(s, q)
<1> SUFFICES ASSUME NEW f \in About(q) PROVE DeniedBy(s, f)
  BY DEF InForce
<1>1. /\ Name(q).block /\ Name(q).src = q.src /\ Name(q).dst = q.dst
      /\ Name(q).svc = ServiceOf(q)
  BY RequestTypes
<1>2. \A n \in DOMAIN s : ~Lab(s[n]) => s[n].deny
  BY DEF ListOK, PolicyOK, Lab
<1>3. s[k].deny /\ s[k].dst = q.dst /\ s[k].svc = ServiceOf(q)
  BY <1>1 DEF ListOK, PolicyOK
<1>4. f.src = q.src /\ q.dst \in {Everything, f.dst} /\ ServiceOf(q) \in {Everything, f.svc}
  BY DEF About
<1>5. Hits(s[k], f)
  BY <1>1, <1>3, <1>4 DEF Hits
<1> QED
  BY <1>2, <1>3, <1>5 DEF DeniedBy

\* A lab policy that is turned into the block q puts q in force.
LEMMA UpdateDenies ==
    ASSUME NoneWider, NEW s, ListOK(s), NEW q \in Request, q.block,
           NEW x, TargetOK(s, q, x)
    PROVE  InForce([i \in DOMAIN s |-> IF s[i].id = x THEN Blocked(s[i], q) ELSE s[i]], q)
<1> DEFINE t == [i \in DOMAIN s |-> IF s[i].id = x THEN Blocked(s[i], q) ELSE s[i]]
<1>1. PICK k \in DOMAIN s :
        /\ s[k].id = x /\ Lab(s[k]) /\ s[k].name.src = q.src
        /\ q.scope # "source_only" => s[k].dst \in {q.dst, Everything}
        /\ \/ FirstOfSource(s, k)
           \/ /\ q.scope # "source_only" /\ s[k].name.dst = q.dst
              /\ \A j \in DOMAIN s :
                   j < k /\ Lab(s[j]) /\ s[j].name.src = q.src /\ ~s[j].deny => s[j].dst # q.dst
  BY DEF TargetOK
<1>2. /\ DOMAIN t = DOMAIN s /\ t[k] = Blocked(s[k], q)
      /\ \A i \in DOMAIN s : i # k => t[i] = s[i]
  BY <1>1 DEF ListOK, DistinctIds
<1>3. \A i \in DOMAIN s : s[i] \in Policy /\ PolicyOK(s[i])
  BY ElementOfSeq, LenProperties DEF ListOK
<1>4. /\ t[k].deny /\ t[k].svc = ServiceOf(q) /\ t[k].name = s[k].name
      /\ t[k].dst = IF q.scope = "source_only" THEN Everything ELSE s[k].dst
  BY <1>2, <1>3, BlockedIs
<1> HIDE DEF t
<1> SUFFICES ASSUME NEW f \in About(q) PROVE DeniedBy(t, f)
  BY DEF InForce, t
<1>5. f.src = q.src /\ q.dst \in {Everything, f.dst} /\ ServiceOf(q) \in {Everything, f.svc}
  BY DEF About
<1>6. q.scope # "source_only" => q.dst = f.dst /\ q.dst # Everything
  BY <1>5, RequestTypes
<1>7. Hits(t[k], f)
  BY <1>1, <1>4, <1>5, <1>6 DEF Hits
<1>8. ASSUME NEW n \in DOMAIN s, n < k, Hits(t[n], f), ~t[n].deny PROVE FALSE
  <2>1. n # k /\ t[n] = s[n]
    BY <1>2, <1>4, <1>8
  <2>2. Lab(s[n]) /\ s[n].name.src = q.src /\ s[n].dst = s[n].name.dst
    BY <1>3, <1>5, <1>8, <2>1 DEF PolicyOK, Lab, Hits
  <2>3. ~FirstOfSource(s, k)
    BY <1>1, <1>8, <2>2 DEF FirstOfSource
  <2>4. q.scope # "source_only" /\ s[k].name.dst = q.dst /\ s[n].dst # q.dst
    BY <1>1, <1>8, <2>1, <2>2, <2>3
  <2>5. s[n].name.dst = Everything
    BY <1>6, <1>8, <2>1, <2>2, <2>4 DEF Hits
  <2>6. PICK l \in Request : s[k].name = Name(l)
    BY <1>3 DEF Policy
  <2>7. PICK w \in Request : s[n].name = Name(w)
    BY <1>3 DEF Policy
  <2>8. ~l.block /\ l.src = q.src /\ l.dst = q.dst
    BY <1>1, <2>4, <2>6, RequestTypes DEF Lab
  <2>9. ~w.block /\ w.src = q.src /\ w.dst = Everything
    BY <2>2, <2>5, <2>7, RequestTypes DEF Lab
  <2> QED
    BY <2>4, <2>8, <2>9 DEF NoneWider
<1> QED
  BY <1>1, <1>2, <1>4, <1>7, <1>8 DEF DeniedBy

\* Every block that is about to be recorded as applied, or is, is in force.
EInv ==
    /\ \A t \in Applier :
         applier[t].pc = "marking" /\ Req(t).block => InForce(policies, Req(t))
    /\ \A r \in Review :
         review[r].status = "applied" /\ review[r].request.block =>
             InForce(policies, review[r].request)

LEMMA StepLater ==
    ASSUME PInv, [Next]_vars
    PROVE  Later(policies, policies')
<1>1. ASSUME UNCHANGED policies PROVE Later(policies, policies')
  BY <1>1 DEF Later
<1>2. ASSUME NEW t \in Applier, WritePolicy(t) PROVE Later(policies, policies')
  BY <1>2, Written
<1>3. ASSUME NEW t \in Applier, Move(t) PROVE Later(policies, policies')
  BY <1>3, MovedIs
<1> QED
  BY <1>1, <1>2, <1>3 DEF Next, Apply, CreateReview, Load, ReadPolicies, Compare,
     CreateAddress, FindPlace, MarkApplied, Fail, vars

\* A step of thread t keeps the rest in force; what is left to show is its own block.
LEMMA ForceStep ==
    ASSUME OneService, PInv, PInv', EInv, [Next]_vars, NEW t \in Applier,
           \A u \in Applier \ {t} : applier'[u] = applier[u],
           UNCHANGED review,
           applier'[t].pc = "marking" /\ review[applier'[t].review].request.block =>
               InForce(policies', review[applier'[t].review].request)
    PROVE  EInv'
<1>1. ListOK(policies) /\ ListOK(policies') /\ Later(policies, policies')
  BY StepLater DEF PInv
<1>2. ASSUME NEW q, InForce(policies, q) PROVE InForce(policies', q)
  BY <1>1, <1>2, DenialStays DEF InForce
<1>3. ASSUME NEW u \in Applier, applier'[u].pc = "marking", review[applier'[u].review].request.block
      PROVE  InForce(policies', review[applier'[u].review].request)
  <2>1. CASE u = t
    BY <1>3, <2>1
  <2>2. CASE u # t
    <3>1. InForce(policies, Req(u)) /\ applier'[u] = applier[u]
      BY <1>3, <2>2 DEF EInv, Req
    <3> QED
      BY <1>2, <3>1 DEF Req
  <2> QED
    BY <2>1, <2>2
<1>4. ASSUME NEW r \in Review, review[r].status = "applied", review[r].request.block
      PROVE  InForce(policies', review[r].request)
  BY <1>2, <1>4 DEF EInv
<1> QED
  BY <1>3, <1>4 DEF EInv, Req

\* A block that is done when the policy is written is in force.
LEMMA WrittenForce ==
    ASSUME NoneWider, PInv, NEW t \in Applier, WritePolicy(t),
           applier'[t].pc = "marking", Req(t).block
    PROVE  InForce(policies', Req(t))
<1> DEFINE q == Req(t)
           p == Reviewed(t)
           x == p.target
           u == [i \in DOMAIN policies |->
                   IF policies[i].id = x THEN Blocked(policies[i], q) ELSE policies[i]]
<1>1. applier[t].pc = "addresses"
  BY DEF WritePolicy, At
<1>2. /\ q \in Request /\ p \in PlanOf
      /\ p.op = "update" => TargetOK(policies, q, x)
  BY <1>1, AtWork
<1>3. CASE p.op = "update"
  <2>1. policies' = u
    BY <1>3 DEF WritePolicy
  <2>2. ListOK(policies) /\ q \in Request /\ q.block /\ TargetOK(policies, q, x)
    BY <1>2, <1>3 DEF PInv
  <2> HIDE DEF q, x
  <2>3. InForce(u, q)
    BY <2>2, UpdateDenies
  <2> HIDE DEF u
  <2>4. InForce(policies', q)
    BY <2>1, <2>3
  <2> QED
    BY <2>4 DEF q
<1>4. CASE p.op # "update"
  <2>1. Placed(t, 0) \/ Placed(t, Len(policies) + 1)
    BY <1>2, <1>4 DEF WritePolicy, PlanOf
  <2>2. Len(policies) \in Nat
    BY LenProperties DEF PInv, ListOK
  <2>3. applier'[t].pc = "placing"
    BY <2>1, <2>2, PlacedIs
  <2> QED
    BY <2>3
<1> QED
  BY <1>3, <1>4

LEMMA ForceNext ==
    ASSUME OneService, NoneWider, PInv, PInv', EInv, [Next]_vars
    PROVE  EInv'
<1>1. ASSUME NEW r \in Review, NEW q \in Request, CreateReview(r, q) PROVE EInv'
  <2>1. /\ review[r].status = "none" /\ UNCHANGED <<policies, applier>>
        /\ review'[r].status = "pending_review"
        /\ \A x \in Review \ {r} : review'[x] = review[x]
    BY <1>1 DEF CreateReview, PInv
  <2>2. ASSUME NEW t \in Applier, applier[t].pc = "marking"
        PROVE  applier[t].review \in Review \ {r}
    BY <2>1, <2>2 DEF PInv, ThreadOK
  <2> QED
    BY <2>1, <2>2 DEF EInv, Req
<1>2. ASSUME NEW t \in Applier, Apply(t) PROVE EInv'
  <2>0. ASSUME Stop(t), UNCHANGED review PROVE EInv'
    <3>1. /\ \A u \in Applier \ {t} : applier'[u] = applier[u]
          /\ applier'[t].pc = "idle"
      BY <2>0 DEF Stop, PInv, Idle
    <3> QED
      BY <2>0, <3>1, ForceStep
  <2>1. ASSUME NEW r \in Review, Load(t, r) PROVE EInv'
    BY <2>1, LoadIs, ForceStep DEF Load
  <2>2. CASE ReadPolicies(t)
    BY <2>2, ReadIs, ForceStep DEF ReadPolicies
  <2>3. CASE Compare(t)
    <3>1. UNCHANGED review
      BY <2>3 DEF Compare
    <3> QED
      BY <2>0, <2>3, <3>1, Compared, ForceStep
  <2>4. CASE CreateAddress(t)
    BY <2>4, NextAddress, ForceStep DEF CreateAddress
  <2>5. CASE WritePolicy(t)
    <3>1. UNCHANGED review
      BY <2>5 DEF WritePolicy
    <3>2. /\ \A u \in Applier \ {t} : applier'[u] = applier[u]
          /\ applier'[t].review = applier[t].review
      BY <2>5, Written
    <3> QED
      BY <2>5, <3>1, <3>2, WrittenForce, ForceStep DEF Req
  <2>6. CASE FindPlace(t)
    <3>1. UNCHANGED <<policies, review>> /\ applier[t].pc = "placing"
      BY <2>6 DEF FindPlace, At
    <3>2. CASE ~Stop(t)
      <4>1. /\ \A u \in Applier \ {t} : applier'[u] = applier[u]
            /\ applier'[t].review = applier[t].review
            /\ applier'[t].pc = "marking" =>
                 /\ PlacingOK(policies, Req(t), applier[t].id)
                 /\ \A k \in DOMAIN policies : ~Lab(policies[k])
        BY <2>6, <3>2, PlaceIs
      <4>2. Req(t) \in Request
        BY <3>1, AtWork
      <4>3. ListOK(policies)
        BY DEF PInv
      <4>4. applier'[t].pc = "marking" /\ Req(t).block => InForce(policies, Req(t))
        BY <4>1, <4>2, <4>3, FirstDenies DEF PlacingOK
      <4> QED
        BY <3>1, <4>1, <4>4, ForceStep DEF Req
    <3> QED
      BY <2>0, <3>1, <3>2
  <2>7. CASE Move(t)
    <3>1. UNCHANGED review
      BY <2>7 DEF Move
    <3>2. /\ ListOK(policies') /\ Req(t) \in Request /\ Req(t).block
          /\ \E k \in DOMAIN policies' : /\ policies'[k].name = Name(Req(t))
                                         /\ \A n \in DOMAIN policies' : n < k => ~Lab(policies'[n])
          /\ \A u \in Applier \ {t} : applier'[u] = applier[u]
          /\ applier'[t].review = applier[t].review
      BY <2>7, MovedIs
    <3>3. InForce(policies', Req(t))
      BY <3>2, FirstDenies
    <3> QED
      BY <3>1, <3>2, <3>3, ForceStep DEF Req
  <2>8. CASE MarkApplied(t)
    <3> DEFINE r == applier[t].review
    <3>1. /\ applier[t].pc = "marking" /\ review' = [review EXCEPT ![r].status = "applied"]
          /\ Stop(t) /\ UNCHANGED policies
      BY <2>8 DEF MarkApplied, At
    <3>2. r \in Review
      BY <3>1, AtWork
    <3>3. /\ \A u \in Applier \ {t} : applier'[u] = applier[u]
          /\ applier'[t].pc = "idle"
      BY <3>1 DEF Stop, PInv, Idle
    <3>4. /\ \A x \in Review : review'[x].request = review[x].request
          /\ \A x \in Review \ {r} : review'[x] = review[x]
      BY <3>1, <3>2 DEF PInv, Row
    <3>5. ASSUME NEW u \in Applier, applier'[u].pc = "marking", review'[applier'[u].review].request.block
          PROVE  InForce(policies', review'[applier'[u].review].request)
      <4>1. u # t /\ applier'[u] = applier[u] /\ applier[u].review \in Review
        BY <3>3, <3>5, AtWork
      <4>2. review'[applier'[u].review].request = Req(u)
        BY <3>4, <4>1 DEF Req
      <4> QED
        BY <3>1, <3>5, <4>1, <4>2 DEF EInv
    <3>6. ASSUME NEW x \in Review, review'[x].status = "applied", review'[x].request.block
          PROVE  InForce(policies', review'[x].request)
      <4>1. CASE x = r
        BY <3>1, <3>4, <3>6, <4>1 DEF EInv, Req
      <4>2. CASE x # r
        BY <3>1, <3>4, <3>6, <4>2 DEF EInv
      <4> QED
        BY <4>1, <4>2
    <3> QED
      BY <3>5, <3>6 DEF EInv, Req
  <2>9. CASE Fail(t)
    BY <2>0, <2>9 DEF Fail
  <2> QED
    BY <1>2, <2>1, <2>2, <2>3, <2>4, <2>5, <2>6, <2>7, <2>8, <2>9 DEF Apply
<1>3. CASE UNCHANGED vars
  BY <1>3 DEF vars, EInv, Req
<1> QED
  BY <1>1, <1>2, <1>3 DEF Next

LEMMA Forced ==
    ASSUME OneService, NoneWider
    PROVE  Spec => [](PInv /\ EInv)
<1>1. Init => PInv /\ EInv
  BY InitInv DEF Init, EInv, Idle, NoRow
<1>2. (PInv /\ EInv) /\ [Next]_vars => (PInv /\ EInv)'
  BY NextInv, ForceNext
<1> QED
  BY <1>1, <1>2, PTL DEF Spec

\* In every interleaving and with every fault: when a block is about to be
\* recorded as applied, the first policy that matches the traffic it is about
\* denies it.
THEOREM BlocksTakeEffect ==
    ASSUME OneService, NoneWider
    PROVE  Spec => []BlockIsEffective
<1>1. PInv /\ EInv => BlockIsEffective
  BY DeniedIs DEF PInv, ListOK, EInv, InForce, BlockIsEffective, At
<1> QED
  BY <1>1, Forced, PTL

\* And no later review, update or move makes the device accept that traffic
\* again, applied at the same time, half-way, or after a fault.
THEOREM BlocksHold ==
    ASSUME OneService, NoneWider
    PROVE  Spec => []AppliedBlocksHold
<1>1. PInv /\ EInv => AppliedBlocksHold
  BY DeniedIs DEF PInv, ListOK, EInv, InForce, AppliedBlocksHold
<1> QED
  BY <1>1, Forced, PTL
=============================================================================
