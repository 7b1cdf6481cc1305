------------------------- MODULE QThreadPoolProofs --------------------------
(***************************************************************************)
(* For any number of workers, clients and jobs: a job is in one place at   *)
(* most, cancel() is final, free is never overstated, and a worker that is *)
(* woken has a job, unless one was lost.                                   *)
(***************************************************************************)
EXTENDS QThreadPool, FiniteSetTheorems, SequenceTheorems, WellFoundedInduction, TLAPS

Waiting == Range(waiting)
HasJob(w) == item[w] # Null
Pending(w) == HasJob(w) /\ fate[item[w]] = "pending"

\* What TypeOK leaves open: that the lists are sequences.
Lists == TypeOK /\ threads \in Seq(Workers) /\ waiting \in Seq(Jobs)

\* Which workers the pool has on its list.
ListAgrees ==
  /\ \A w \in Workers : at[w] \notin {"new", "gone"} => w \in Range(threads)
  /\ \A w \in Workers : at[w] = "gone" => w \notin Range(threads)
  /\ ~stuck => \A w \in Workers : at[w] = "new" => w \notin Range(threads)
  /\ \A w \in Workers : at[w] \in {"new", "gone"} => ~HasJob(w)
  /\ \A w \in Workers : at[w] = "busy" => HasJob(w)

\* No job is in two places.
Apart ==
  /\ \A v, w \in Workers : HasJob(v) /\ item[v] = item[w] => v = w
  /\ \A w \in Workers : HasJob(w) => item[w] \notin Waiting \cup timed /\ item[w] # transit
  /\ Waiting \cap timed = {} /\ transit \notin Waiting \cup timed

\* What became of a job goes with where it is.
FatesAgree ==
  /\ \A j \in Jobs : j \in Waiting \cup timed \/ j = transit => fate[j] = "pending"
  /\ \A w \in Workers : HasJob(w) => fate[item[w]] \in {"pending", "thrown"}

Nowhere(j) == /\ j \notin Waiting \cup timed /\ j # transit
              /\ \A w \in Workers : item[w] # j

\* A call is about a job that was dispatched, and a job that cancel() is done with
\* is nowhere.
CallsAgree == \A c \in Clients : client[c].at # "run" =>
                client[c].job \in Jobs /\ fate[client[c].job] # "new"
FinalAgrees == \A j \in final : Nowhere(j) /\ fate[j] # "new"

\* free and what it stands for.  A worker that was given a job before it counted
\* itself has its event set, and is owed.
Free == {"test", "gap", "asleep", "retire", "uncount"}
Owed == {w \in Workers : at[w] \notin Free /\ signal[w]}
Ready == {w \in Workers : at[w] \in Free /\ ~signal[w] /\ ~Pending(w)}
CountAgrees ==
  /\ freeCount + Cardinality(Owed) <= Cardinality(Ready)
  /\ \A w \in Workers :
       at[w] \in {"starting", "top", "unmarked", "marked", "ended"} /\ Pending(w) => signal[w]

\* As long as no job was lost, an event is set for a job to come.
NoneLost == \A j \in Jobs : fate[j] = "pending" => ~Nowhere(j)
EventsAgree ==
  NoneLost => \A w \in Workers :
    /\ at[w] = "woken" => HasJob(w)
    /\ signal[w] => Pending(w) /\ at[w] \notin {"busy", "gap", "asleep", "woken"}

\* The inductive invariant.
IInv == /\ Lists /\ ListAgrees /\ Apart /\ FatesAgree /\ CallsAgree /\ FinalAgrees
        /\ CountAgrees /\ EventsAgree
-----------------------------------------------------------------------------
\* Lists without repetitions: what is in them after each operation.
LEMMA ListBasics ==
  ASSUME NEW T, NEW s \in Seq(T)
  PROVE  /\ DOMAIN s = 1..Len(s) /\ Len(s) \in Nat /\ Range(s) \subseteq T
         /\ \A x : x \in Range(s) <=> \E i \in 1..Len(s) : s[i] = x
         /\ s = <<>> <=> Len(s) = 0
  <1>1. DOMAIN s = 1..Len(s) /\ Len(s) \in Nat /\ s \in [1..Len(s) -> T]
    BY LenProperties
  <1>2. s = <<>> <=> Len(s) = 0
    BY EmptySeq
  <1>3. QED
    BY <1>1, <1>2 DEF Range

\* A new element goes to the end.
LEMMA Pushed ==
  ASSUME NEW T, NEW s \in Seq(T), IsInjective(s), NEW x \in T, x \notin Range(s)
  PROVE  /\ Append(s, x) \in Seq(T) /\ IsInjective(Append(s, x))
         /\ Range(Append(s, x)) = Range(s) \cup {x}
  <1> DEFINE a == Append(s, x)
  <1>1. /\ a \in Seq(T) /\ Len(a) = Len(s) + 1 /\ a[Len(s) + 1] = x
        /\ \A i \in 1..Len(s) : a[i] = s[i]
    BY AppendProperties
  <1>2. /\ DOMAIN s = 1..Len(s) /\ Len(s) \in Nat
        /\ \A y : y \in Range(s) <=> \E i \in 1..Len(s) : s[i] = y
    BY ListBasics
  <1>3. /\ DOMAIN a = 1..Len(a)
        /\ \A y : y \in Range(a) <=> \E i \in 1..Len(a) : a[i] = y
    BY <1>1, ListBasics
  <1>4. \A i \in 1..Len(a) : i \in 1..Len(s) \/ i = Len(s) + 1
    BY <1>1, <1>2
  <1>5. IsInjective(a)
    BY <1>1, <1>2, <1>3, <1>4 DEF IsInjective
  <1>6. Range(a) = Range(s) \cup {x}
    BY <1>1, <1>2, <1>3, <1>4
  <1>7. QED
    BY <1>1, <1>5, <1>6

\* The first element is taken off.
LEMMA Popped ==
  ASSUME NEW T, NEW s \in Seq(T), IsInjective(s), s # <<>>
  PROVE  /\ Head(s) \in Range(s) /\ Head(s) \in T
         /\ Tail(s) \in Seq(T) /\ IsInjective(Tail(s))
         /\ Range(Tail(s)) = Range(s) \ {Head(s)}
  <1> DEFINE t == Tail(s)
  <1>1. /\ Head(s) \in T /\ t \in Seq(T) /\ Len(t) = Len(s) - 1 /\ Head(s) = s[1]
        /\ \A i \in 1..Len(t) : t[i] = s[i + 1]
    BY HeadTailProperties
  <1>2. /\ DOMAIN s = 1..Len(s) /\ Len(s) \in Nat /\ Len(s) # 0
        /\ \A y : y \in Range(s) <=> \E i \in 1..Len(s) : s[i] = y
    BY ListBasics
  <1>3. /\ DOMAIN t = 1..Len(t)
        /\ \A y : y \in Range(t) <=> \E i \in 1..Len(t) : t[i] = y
    BY <1>1, ListBasics
  <1>4. IsInjective(t)
    BY <1>1, <1>2, <1>3 DEF IsInjective
  <1>5. \A i \in 1..Len(s) : i = 1 \/ (i - 1 \in 1..Len(t) /\ s[i] = t[i - 1])
    BY <1>1, <1>2
  <1>6. \A i \in 1..Len(t) : i + 1 \in 1..Len(s) /\ i + 1 # 1 /\ 1 \in 1..Len(s)
    BY <1>1, <1>2
  <1>7. Range(t) = Range(s) \ {Head(s)}
    <2>1. ASSUME NEW y \in Range(t) PROVE y \in Range(s) /\ y # Head(s)
      BY <1>1, <1>2, <1>3, <1>6, <2>1 DEF IsInjective
    <2>2. ASSUME NEW y \in Range(s), y # Head(s) PROVE y \in Range(t)
      BY <1>1, <1>2, <1>3, <1>5, <2>2
    <2>3. QED
      BY <2>1, <2>2
  <1>8. Head(s) \in Range(s)
    BY <1>1, <1>2
  <1>9. QED
    BY <1>1, <1>4, <1>7, <1>8

\* An element is taken out of the middle.
LEMMA Removed ==
  ASSUME NEW T, NEW s \in Seq(T), IsInjective(s), NEW x
  PROVE  /\ RemoveFirst(s, x) \in Seq(T) /\ IsInjective(RemoveFirst(s, x))
         /\ Range(RemoveFirst(s, x)) = Range(s) \ {x}
  <1>1. /\ DOMAIN s = 1..Len(s) /\ Len(s) \in Nat
        /\ \A y : y \in Range(s) <=> \E i \in 1..Len(s) : s[i] = y
        /\ \A i \in 1..Len(s) : s[i] \in T
    BY ListBasics, ElementOfSeq
  <1>2. CASE x \notin Range(s)
    <2>1. RemoveFirst(s, x) = s
      BY <1>1, <1>2 DEF RemoveFirst
    <2>2. QED
      BY <1>2, <2>1
  <1>3. CASE x \in Range(s)
    <2>1. PICK k \in 1..Len(s) : s[k] = x
      BY <1>1, <1>3
    <2>2. {i \in 1..Len(s) : s[i] = x} = {k}
      BY <1>1, <2>1 DEF IsInjective
    <2>3. SelectInSeq(s, LAMBDA v : v = x) = k
      BY <2>1, <2>2 DEF SelectInSeq, Min
    <2>4. RemoveFirst(s, x) = RemoveAt(s, k)
      BY <2>1, <2>3 DEF RemoveFirst
    <2> DEFINE a == SubSeq(s, 1, k - 1)
               b == SubSeq(s, k + 1, Len(s))
               r == a \o b
    <2>5. /\ a \in Seq(T) /\ Len(a) = k - 1 /\ \A i \in 1..(k - 1) : a[i] = s[i]
      BY <1>1, <2>1, SubSeqProperties
    <2>6. /\ b \in Seq(T) /\ Len(b) = Len(s) - k
          /\ \A i \in 1..(Len(s) - k) : b[i] = s[k + i]
      <3>1. \A i \in (k + 1)..Len(s) : s[i] \in T
        BY <1>1, <2>1
      <3>2. /\ b \in Seq(T) /\ Len(b) = IF k + 1 <= Len(s) THEN Len(s) - (k + 1) + 1 ELSE 0
            /\ \A i \in 1..(Len(s) - (k + 1) + 1) : b[i] = s[(k + 1) + i - 1]
        BY <1>1, <2>1, <3>1, SubSeqProperties
      <3> HIDE DEF b
      <3>3. Len(b) = Len(s) - k
        <4>1. k \in Nat /\ k <= Len(s) /\ Len(s) \in Nat
          BY <1>1, <2>1
        <4>2. Len(b) = IF k + 1 <= Len(s) THEN Len(s) - (k + 1) + 1 ELSE 0
          BY <3>2
        <4>3. QED
          BY <4>1, <4>2
      <3>4. ASSUME NEW i \in 1..(Len(s) - k) PROVE b[i] = s[k + i]
        <4>1. i \in 1..(Len(s) - (k + 1) + 1) /\ (k + 1) + i - 1 = k + i
          BY <1>1, <2>1
        <4>2. b[i] = s[(k + 1) + i - 1]
          BY <3>2, <4>1
        <4>3. QED
          BY <4>1, <4>2
      <3>5. QED
        BY <3>2, <3>3, <3>4
    <2> HIDE DEF a, b
    <2>7. /\ r \in Seq(T) /\ Len(r) = Len(s) - 1
          /\ \A i \in 1..Len(r) : r[i] = IF i < k THEN s[i] ELSE s[i + 1]
      <3>1. /\ r \in Seq(T) /\ Len(r) = Len(a) + Len(b)
            /\ \A i \in 1..(Len(a) + Len(b)) : r[i] = IF i <= Len(a) THEN a[i] ELSE b[i - Len(a)]
        BY <2>5, <2>6, ConcatProperties
      <3> HIDE DEF r
      <3>2. Len(r) = Len(s) - 1
        BY <1>1, <2>1, <2>5, <2>6, <3>1
      <3>3. ASSUME NEW i \in 1..Len(r) PROVE r[i] = IF i < k THEN s[i] ELSE s[i + 1]
        <4>1. i \in Nat /\ k \in Nat /\ i \in 1..(Len(a) + Len(b))
              /\ r[i] = IF i <= Len(a) THEN a[i] ELSE b[i - Len(a)]
          BY <1>1, <2>1, <2>5, <2>6, <3>1, <3>2
        <4>2. CASE i < k
          BY <2>1, <2>5, <4>1, <4>2
        <4>3. CASE i >= k
          <5>1. i - (k - 1) \in 1..(Len(s) - k) /\ k + (i - (k - 1)) = i + 1
                /\ ~(i <= k - 1)
            BY <1>1, <2>1, <3>2, <4>1, <4>3
          <5>2. b[i - (k - 1)] = s[i + 1]
            BY <2>6, <5>1
          <5>3. QED
            BY <2>5, <4>1, <4>3, <5>1, <5>2
        <4>4. QED
          BY <4>1, <4>2, <4>3
      <3>4. QED
        BY <3>1, <3>2, <3>3
    <2> HIDE DEF r
    <2>8. RemoveFirst(s, x) = r
      BY <2>4 DEF RemoveAt, a, b, r
    <2>9. /\ DOMAIN r = 1..Len(r)
          /\ \A y : y \in Range(r) <=> \E i \in 1..Len(r) : r[i] = y
      BY <2>7, ListBasics
    <2>10. IsInjective(r)
      <3> DEFINE o(i) == IF i < k THEN i ELSE i + 1
      <3>1. \A i \in 1..Len(r) : o(i) \in 1..Len(s) /\ r[i] = s[o(i)]
        BY <1>1, <2>1, <2>7
      <3>2. \A i, j \in 1..Len(r) : o(i) = o(j) => i = j
        BY <2>1
      <3> HIDE DEF o
      <3>3. \A i, j \in 1..Len(r) : r[i] = r[j] => o(i) = o(j)
        BY <1>1, <3>1 DEF IsInjective
      <3>4. QED
        BY <2>9, <3>2, <3>3 DEF IsInjective
    <2>11. Range(r) = Range(s) \ {x}
      <3>1. ASSUME NEW i \in 1..Len(r) PROVE r[i] \in Range(s) /\ r[i] # x
        BY <1>1, <2>1, <2>7 DEF IsInjective
      <3>2. ASSUME NEW i \in 1..Len(s), s[i] # x PROVE s[i] \in Range(r)
        <4>1. CASE i < k
          BY <1>1, <2>1, <2>7, <2>9, <4>1
        <4>2. CASE i > k
          <5>1. i - 1 \in 1..Len(r) /\ r[i - 1] = s[i]
            BY <1>1, <2>1, <2>7, <4>2
          <5>2. QED
            BY <2>9, <5>1
        <4>3. QED
          BY <1>1, <2>1, <3>2, <4>1, <4>2
      <3>3. QED
        BY <1>1, <2>9, <3>1, <3>2
    <2>12. QED
      BY <2>7, <2>8, <2>10, <2>11
  <1>4. QED
    BY <1>2, <1>3

\* Two lists with nothing in common.
LEMMA Joined ==
  ASSUME NEW T, NEW s \in Seq(T), NEW u \in Seq(T), IsInjective(s), IsInjective(u),
         Range(s) \cap Range(u) = {}
  PROVE  /\ s \o u \in Seq(T) /\ IsInjective(s \o u)
         /\ Range(s \o u) = Range(s) \cup Range(u)
  <1> DEFINE r == s \o u
  <1>1. /\ r \in Seq(T) /\ Len(r) = Len(s) + Len(u)
        /\ \A i \in 1..(Len(s) + Len(u)) : r[i] = IF i <= Len(s) THEN s[i] ELSE u[i - Len(s)]
    BY ConcatProperties
  <1>2. /\ DOMAIN s = 1..Len(s) /\ Len(s) \in Nat /\ DOMAIN u = 1..Len(u) /\ Len(u) \in Nat
        /\ \A y : y \in Range(s) <=> \E i \in 1..Len(s) : s[i] = y
        /\ \A y : y \in Range(u) <=> \E i \in 1..Len(u) : u[i] = y
    BY ListBasics
  <1>3. DOMAIN r = 1..Len(r)
    BY <1>1, ListBasics
  <1>4. Range(r) = Range(s) \cup Range(u)
    BY RangeConcatenation
  <1> HIDE DEF r
  <1>5. ASSUME NEW i \in 1..Len(r), NEW j \in 1..Len(r), r[i] = r[j] PROVE i = j
    <2>1. CASE i <= Len(s) /\ j <= Len(s)
      BY <1>1, <1>2, <1>5, <2>1 DEF IsInjective
    <2>2. CASE i > Len(s) /\ j > Len(s)
      <3>1. i - Len(s) \in 1..Len(u) /\ j - Len(s) \in 1..Len(u)
        BY <1>1, <1>2, <2>2
      <3>2. u[i - Len(s)] = u[j - Len(s)]
        BY <1>1, <1>2, <1>5, <2>2
      <3>3. i - Len(s) = j - Len(s)
        BY <1>2, <3>1, <3>2 DEF IsInjective
      <3>4. i \in Int /\ j \in Int /\ Len(s) \in Int
        BY <1>1, <1>2
      <3>5. QED
        BY <3>3, <3>4
    <2>3. CASE i <= Len(s) /\ j > Len(s)
      <3>1. i \in 1..Len(s) /\ r[i] = s[i]
        BY <1>1, <1>2, <2>3
      <3>2. j - Len(s) \in 1..Len(u) /\ r[j] = u[j - Len(s)]
        BY <1>1, <1>2, <2>3
      <3>3. r[i] \in Range(s) /\ r[j] \in Range(u)
        BY <1>2, <3>1, <3>2
      <3>4. QED
        BY <1>5, <3>3
    <2>4. CASE i > Len(s) /\ j <= Len(s)
      <3>1. j \in 1..Len(s) /\ r[j] = s[j]
        BY <1>1, <1>2, <2>4
      <3>2. i - Len(s) \in 1..Len(u) /\ r[i] = u[i - Len(s)]
        BY <1>1, <1>2, <2>4
      <3>3. r[j] \in Range(s) /\ r[i] \in Range(u)
        BY <1>2, <3>1, <3>2
      <3>4. QED
        BY <1>5, <3>3
    <2>5. QED
      BY <1>1, <1>2, <2>1, <2>2, <2>3, <2>4
  <1>6. IsInjective(r)
    BY <1>3, <1>5 DEF IsInjective
  <1>7. QED
    BY <1>1, <1>4, <1>6 DEF r

\* A set as a list.
LEMMA Listed ==
  ASSUME NEW S, IsFiniteSet(S)
  PROVE  /\ SetToSeq(S) \in Seq(S) /\ IsInjective(SetToSeq(S)) /\ Range(SetToSeq(S)) = S
  <1> DEFINE n == Cardinality(S)
             f == SetToSeq(S)
  <1>1. n \in Nat /\ ExistsBijection(1..n, S)
    BY FS_CardinalityType
  <1>2. \E g \in [1..n -> S] : IsInjective(g)
    BY <1>1 DEF ExistsBijection, Bijection, Injection
  <1>3. f \in [1..n -> S] /\ IsInjective(f)
    BY <1>2 DEF SetToSeq
  <1>4. f \in Injection(1..n, S)
    BY <1>3 DEF Injection
  <1>5. IsFiniteSet(1..n) /\ Cardinality(1..n) = n
    BY <1>1, FS_Interval
  <1>6. f \in Surjection(1..n, S)
    BY <1>4, <1>5, FS_Injection
  <1>7. Range(f) = S
    BY <1>3, <1>6 DEF Surjection, Range
  <1>8. f \in Seq(S)
    BY <1>1, <1>3, SeqDef
  <1>9. QED
    BY <1>3, <1>7, <1>8

\* A finite set has subsets of every size up to its own.
LEMMA SubsetOfSize ==
  ASSUME NEW S, IsFiniteSet(S), NEW k \in Nat, k <= Cardinality(S)
  PROVE  \E U \in SUBSET S : Cardinality(U) = k
  <1> DEFINE f == SetToSeq(S)
             U == {f[i] : i \in 1..k}
             g == [i \in 1..k |-> f[i]]
  <1>1. /\ Cardinality(S) \in Nat /\ f \in Seq(S) /\ IsInjective(f) /\ Range(f) = S
    BY Listed, FS_CardinalityType
  <1>2. DOMAIN f = 1..Cardinality(S)
    <2>1. \E h \in [1..Cardinality(S) -> S] : IsInjective(h)
      BY FS_CardinalityType DEF ExistsBijection, Bijection, Injection
    <2>2. QED
      BY <2>1 DEF SetToSeq
  <1> HIDE DEF f
  <1>3. U \subseteq S
    BY <1>1, <1>2 DEF Range
  <1>4. g \in Bijection(1..k, U)
    <2>1. g \in [1..k -> U] /\ \A y \in U : \E i \in 1..k : g[i] = y
      OBVIOUS
    <2>2. IsInjective(g)
      BY <1>1, <1>2 DEF IsInjective
    <2>3. QED
      BY <2>1, <2>2 DEF Bijection, Injection, Surjection
  <1>5. IsFiniteSet(1..k) /\ Cardinality(1..k) = k
    BY FS_Interval
  <1>6. Cardinality(U) = k
    <2>1. ExistsBijection(1..k, U)
      BY <1>4 DEF ExistsBijection
    <2>2. QED
      BY <1>5, <2>1, FS_Bijection
  <1>7. QED
    BY <1>3, <1>6
-----------------------------------------------------------------------------
\* The invariant in two parts: jobs and workers, and those who look on.
PoolTypes ==
  /\ freeCount \in Int /\ stuck \in BOOLEAN
  /\ threads \in Seq(Workers) /\ IsInjective(threads)
  /\ waiting \in Seq(Jobs) /\ IsInjective(waiting)
  /\ timed \subseteq Jobs /\ transit \in Jobs \cup {Null}
  /\ at \in [Workers -> WorkerLabels] /\ signal \in [Workers -> BOOLEAN]
  /\ item \in [Workers -> Jobs \cup {Null}] /\ final \subseteq Jobs
  /\ fate \in [Jobs -> {"new", "pending", "done", "thrown", "cancelled"}]
Core == /\ PoolTypes /\ ListAgrees /\ Apart /\ FatesAgree /\ FinalAgrees
        /\ CountAgrees /\ EventsAgree
core == <<threads, waiting, timed, transit, at, item, signal, freeCount, fate, final, stuck>>

ClientStates == [at : ClientLabels, job : Jobs \cup {Null}, on : Workers \cup {Null}]
Rest == /\ dynamic \in BOOLEAN /\ total \in Nat /\ maximum \in Nat
        /\ free \in [Workers -> BOOLEAN] /\ code \in [Workers -> Jobs \cup {Null}]
        /\ waitingwcs \in [Jobs -> {"none", "clear", "signalled"}]
        /\ client \in [Clients -> ClientStates]
        /\ missed \in BOOLEAN
        /\ CallsAgree

\* The two parts are the invariant.
LEMMA IInvParts == IInv <=> Core /\ Rest
  <1>1. threads \in Seq(Workers) => Range(threads) \subseteq Workers
    BY ListBasics
  <1>2. waiting \in Seq(Jobs) => Range(waiting) \subseteq Jobs
    BY ListBasics
  <1>3. QED
    BY <1>1, <1>2, Zenon DEF IInv, Lists, TypeOK, Core, PoolTypes, Rest, ClientStates

\* Core is about the variables of core only.
LEMMA CoreStays == Core /\ UNCHANGED core => Core'
  BY DEF Core, core, PoolTypes, ListAgrees, Apart, FatesAgree, FinalAgrees, CountAgrees,
         EventsAgree, Owed, Ready, NoneLost, Nowhere, Waiting, HasJob, Pending

\* How the sizes of Owed and Ready go when one worker moves.
Has(S, w) == IF w \in S THEN 1 ELSE 0

\* One element enters or leaves a set.
LEMMA MemberMoves ==
  ASSUME NEW S, NEW U, NEW w, IsFiniteSet(S), S \ {w} = U \ {w}
  PROVE  /\ IsFiniteSet(U) /\ Cardinality(S) \in Nat /\ Cardinality(U) \in Nat
         /\ Cardinality(U) = Cardinality(S) - Has(S, w) + Has(U, w)
  <1> DEFINE R == S \ {w}
  <1>1. /\ IsFiniteSet(R) /\ Cardinality(S) \in Nat /\ Cardinality(R) \in Nat
        /\ Cardinality(R) = Cardinality(S) - Has(S, w)
    BY FS_RemoveElement, FS_CardinalityType DEF Has
  <1>2. U = R \/ (U = R \cup {w} /\ w \notin R)
    OBVIOUS
  <1>3. /\ IsFiniteSet(R \cup {w})
        /\ w \notin R => Cardinality(R \cup {w}) = Cardinality(R) + 1
    BY <1>1, FS_AddElement
  <1>4. w \in U <=> U # R
    BY <1>2
  <1> HIDE DEF R
  <1>5. CASE U = R
    BY <1>1, <1>4, <1>5 DEF Has
  <1>6. CASE U = R \cup {w} /\ w \notin R
    BY <1>1, <1>3, <1>4, <1>6 DEF Has
  <1>7. QED
    BY <1>2, <1>5, <1>6

\* The bound on free, when at most worker w enters or leaves Owed and Ready.
LEMMA CountMoves ==
  ASSUME Core, NEW w \in Workers, freeCount' \in Int,
         Owed' \ {w} = Owed \ {w}, Ready' \ {w} = Ready \ {w},
         freeCount' + Has(Owed', w) + Has(Ready, w)
           <= freeCount + Has(Owed, w) + Has(Ready', w)
  PROVE  freeCount' + Cardinality(Owed') <= Cardinality(Ready')
  <1>1. IsFiniteSet(Owed) /\ IsFiniteSet(Ready)
    BY PoolAssumption, FS_Subset DEF Owed, Ready
  <1>2. /\ Cardinality(Owed) \in Nat /\ Cardinality(Owed') \in Nat
        /\ Cardinality(Owed') = Cardinality(Owed) - Has(Owed, w) + Has(Owed', w)
    BY <1>1, MemberMoves
  <1>3. /\ Cardinality(Ready) \in Nat /\ Cardinality(Ready') \in Nat
        /\ Cardinality(Ready') = Cardinality(Ready) - Has(Ready, w) + Has(Ready', w)
    BY <1>1, MemberMoves
  <1>4. freeCount \in Int /\ freeCount + Cardinality(Owed) <= Cardinality(Ready)
    BY DEF Core, PoolTypes, CountAgrees
  <1>5. Has(Owed, w) \in Int /\ Has(Owed', w) \in Int /\ Has(Ready, w) \in Int /\ Has(Ready', w) \in Int
    BY DEF Has
  <1>6. QED
    BY <1>2, <1>3, <1>4, <1>5

\* The bound on free, when nothing it is about changes.
LEMMA CountStays ==
  ASSUME Core, freeCount' = freeCount, Owed' = Owed, Ready' = Ready
  PROVE  freeCount' + Cardinality(Owed') <= Cardinality(Ready')
  BY DEF Core, CountAgrees

\* A job that was lost stays lost.
LEMMA LostStays ==
  ASSUME \A j \in Jobs : fate[j] = "pending" /\ Nowhere(j) => fate'[j] = "pending" /\ Nowhere(j)',
         NoneLost'
  PROVE  NoneLost
  BY DEF NoneLost
-----------------------------------------------------------------------------
\* Steps of a worker that move neither a job nor a worker's place on the list.
Early == {"starting", "top", "unmarked", "marked", "ended"}

\* A worker goes to another label, and may lose its event.
LEMMA StepLabel ==
  ASSUME Core, NEW w \in Workers, NEW l \in WorkerLabels \ {"new", "gone"},
         NEW s \in BOOLEAN, at[w] \notin {"new", "gone"},
         at' = [at EXCEPT ![w] = l], signal' = [signal EXCEPT ![w] = s], freeCount' \in Int,
         UNCHANGED <<threads, waiting, timed, transit, item, fate, final, stuck>>,
         s => signal[w],
         l = "busy" => HasJob(w),
         l \in Early => at[w] \in Early /\ s = signal[w],
         freeCount' + Has(Owed', w) + Has(Ready, w)
           <= freeCount + Has(Owed, w) + Has(Ready', w),
         NoneLost => /\ l = "woken" => HasJob(w)
                     /\ s => l \notin {"busy", "gap", "asleep", "woken"}
  PROVE  Core'
  <1>1. PoolTypes /\ ListAgrees /\ Apart /\ FatesAgree /\ FinalAgrees /\ CountAgrees /\ EventsAgree
    BY DEF Core
  <1>2. PoolTypes'
    BY <1>1 DEF PoolTypes
  <1>3. /\ at'[w] = l /\ signal'[w] = s
        /\ \A v \in Workers : v # w => at'[v] = at[v] /\ signal'[v] = signal[v]
    BY <1>1 DEF PoolTypes
  <1>4. ListAgrees'
    BY <1>1, <1>3 DEF ListAgrees, HasJob
  <1>5. Apart' /\ FatesAgree' /\ FinalAgrees'
    BY <1>1 DEF Apart, FatesAgree, FinalAgrees, Nowhere, Waiting, HasJob
  <1>6. \A v \in Workers : Pending(v)' <=> Pending(v)
    BY DEF Pending, HasJob
  <1>7. CountAgrees'
    <2>1. Owed' \ {w} = Owed \ {w} /\ Ready' \ {w} = Ready \ {w}
      BY <1>3, <1>6 DEF Owed, Ready
    <2>2. freeCount' + Cardinality(Owed') <= Cardinality(Ready')
      BY <2>1, CountMoves
    <2>3. \A v \in Workers : at'[v] \in Early /\ Pending(v)' => signal'[v]
      BY <1>1, <1>3, <1>6 DEF CountAgrees, Early
    <2>4. QED
      BY <2>2, <2>3 DEF CountAgrees, Early
  <1>8. EventsAgree'
    <2>1. NoneLost' <=> NoneLost
      BY DEF NoneLost, Nowhere, Waiting
    <2>2. \A v \in Workers : HasJob(v)' <=> HasJob(v)
      BY DEF HasJob
    <2>3. QED
      BY <1>1, <1>3, <1>6, <2>1, <2>2 DEF EventsAgree
  <1>9. QED
    BY <1>2, <1>4, <1>5, <1>7, <1>8 DEF Core

\* Whether a worker is owed or ready, now and after a step.
LEMMA Memberships ==
  ASSUME Core, NEW w \in Workers
  PROVE  /\ Has(Owed, w) = IF at[w] \notin Free /\ signal[w] THEN 1 ELSE 0
         /\ Has(Owed', w) = IF at'[w] \notin Free /\ signal'[w] THEN 1 ELSE 0
         /\ Has(Ready, w) = IF at[w] \in Free /\ ~signal[w] /\ ~Pending(w) THEN 1 ELSE 0
         /\ Has(Ready', w) = IF at'[w] \in Free /\ ~signal'[w] /\ ~Pending(w)' THEN 1 ELSE 0
  BY DEF Has, Owed, Ready

\* The worker's steps outside the mutex, but for the end of a job.
LEMMA StepPlain ==
  ASSUME Core, NEW w \in Workers,
         \/ Run(w) \/ MarkFree(w) \/ CountFree(w) \/ RetireUnmark(w) \/ RetireUncount(w)
         \/ Exit(w) \/ EventTest(w) \/ EventSleep(w) \/ Begin(w)
  PROVE  Core'
  <1>1. PoolTypes /\ CountAgrees /\ EventsAgree
    BY DEF Core
  <1>2. UNCHANGED <<threads, waiting, timed, transit, item, fate, final, stuck>>
    BY DEF Run, MarkFree, CountFree, RetireUnmark, RetireUncount, Exit, EventTest, EventSleep,
           Begin, others, queues, clients
  <1>3. ASSUME NEW l \in WorkerLabels, at' = [at EXCEPT ![w] = l]
        PROVE  at'[w] = l
    BY <1>1, <1>3 DEF PoolTypes
  <1>4. ASSUME NEW l \in WorkerLabels \ {"new", "gone"}, at[w] \notin {"new", "gone"},
               at' = [at EXCEPT ![w] = l], signal' = signal, freeCount' = freeCount,
               at[w] \in Free <=> l \in Free,
               l = "busy" => HasJob(w), l \in Early => at[w] \in Early, l # "woken",
               l \in {"busy", "gap", "asleep"} => (NoneLost => ~signal[w])
        PROVE  Core'
    <2>1. signal' = [signal EXCEPT ![w] = signal[w]] /\ signal[w] \in BOOLEAN /\ freeCount \in Int
      BY <1>1, <1>4, Zenon DEF PoolTypes
    <2>2. freeCount' + Has(Owed', w) + Has(Ready, w) <= freeCount + Has(Owed, w) + Has(Ready', w)
      <3>1. Pending(w)' <=> Pending(w)
        BY <1>2 DEF Pending, HasJob
      <3>2. Has(Owed', w) = Has(Owed, w) /\ Has(Ready', w) = Has(Ready, w)
        BY <1>3, <1>4, <3>1, Memberships
      <3>3. Has(Owed, w) \in Int /\ Has(Ready, w) \in Int
        BY DEF Has
      <3>4. QED
        BY <1>1, <1>4, <3>2, <3>3 DEF PoolTypes
    <2>3. QED
      BY <1>2, <1>4, <2>1, <2>2, StepLabel
  <1>5. CASE Run(w)
    BY <1>4, <1>5 DEF Run, Goto, WorkerLabels, Free, Early
  <1>6. CASE MarkFree(w) \/ RetireUnmark(w) \/ Exit(w)
    <2>1. UNCHANGED <<signal, freeCount>>
      BY <1>6 DEF MarkFree, RetireUnmark, Exit
    <2>2. QED
      BY <1>4, <1>6, <2>1 DEF MarkFree, RetireUnmark, Exit, Goto, WorkerLabels, Free, Early
  <1>7. CASE EventSleep(w)
    <2>1. NoneLost => ~signal[w]
      BY <1>1, <1>7 DEF EventSleep, EventsAgree
    <2>2. QED
      BY <1>4, <1>7, <2>1 DEF EventSleep, Goto, WorkerLabels, Free, Early
  <1>8. CASE Begin(w)
    <2>1. NoneLost => ~signal[w]
      BY <1>1, <1>8 DEF Begin, EventsAgree
    <2>2. QED
      BY <1>4, <1>8, <2>1 DEF Begin, Goto, WorkerLabels, Free, Early, HasJob
  <1>9. CASE CountFree(w)
    <2>1. PICK l \in {"retire", "test"} : at' = [at EXCEPT ![w] = l]
      BY <1>9 DEF CountFree, Goto
    <2>2. /\ at[w] = "marked" /\ freeCount' = freeCount + 1 /\ signal' = signal
      BY <1>9 DEF CountFree
    <2>3. signal' = [signal EXCEPT ![w] = signal[w]] /\ signal[w] \in BOOLEAN
      BY <1>1, <2>2, Zenon DEF PoolTypes
    <2>4. l \in WorkerLabels \ {"new", "gone"} /\ l \in Free /\ l \notin Early
          /\ l \notin {"busy", "gap", "asleep", "woken"}
      BY <2>1 DEF WorkerLabels, Free, Early
    <2>5. freeCount' + Has(Owed', w) + Has(Ready, w) <= freeCount + Has(Owed, w) + Has(Ready', w)
      <3>1. Pending(w)' <=> Pending(w)
        BY <1>2 DEF Pending, HasJob
      <3>2. Pending(w) => signal[w]
        BY <1>1, <2>2 DEF CountAgrees
      <3>3. at'[w] = l /\ signal'[w] = signal[w]
        BY <1>3, <2>1, <2>2, <2>4
      <3>4. Has(Ready, w) = 0 /\ Has(Owed', w) = 0 /\ Has(Ready', w) + Has(Owed, w) = 1
        BY <2>2, <2>4, <3>1, <3>2, <3>3, Memberships DEF Free
      <3>5. Has(Owed, w) \in Int /\ Has(Ready', w) \in Int /\ freeCount \in Int
        BY <1>1 DEF Has, PoolTypes
      <3>6. QED
        BY <2>2, <3>4, <3>5
    <2>6. freeCount' \in Int
      BY <1>1, <2>2 DEF PoolTypes
    <2>7. QED
      BY <1>2, <2>1, <2>2, <2>3, <2>4, <2>5, <2>6, StepLabel
  <1>10. CASE RetireUncount(w)
    <2>1. /\ at[w] = "uncount" /\ at' = [at EXCEPT ![w] = "exit"]
          /\ freeCount' = freeCount - 1 /\ signal' = signal
      BY <1>10 DEF RetireUncount, Goto
    <2>2. signal' = [signal EXCEPT ![w] = signal[w]] /\ signal[w] \in BOOLEAN
      BY <1>1, <2>1, Zenon DEF PoolTypes
    <2>3. at'[w] = "exit" /\ freeCount' \in Int /\ freeCount \in Int
      BY <1>1, <2>1 DEF PoolTypes, WorkerLabels
    <2>4. Has(Owed, w) = 0 /\ Has(Ready', w) = 0 /\ Has(Owed', w) + Has(Ready, w) <= 1
      BY <2>1, <2>3, Memberships DEF Free
    <2>5. freeCount' + Has(Owed', w) + Has(Ready, w) <= freeCount + Has(Owed, w) + Has(Ready', w)
      <3>1. Has(Owed', w) \in Int /\ Has(Ready, w) \in Int
        BY DEF Has
      <3>2. QED
        BY <2>1, <2>3, <2>4, <3>1
    <2>6. QED
      BY <1>2, <2>1, <2>2, <2>3, <2>5, StepLabel DEF WorkerLabels, Early
  <1>11. CASE EventTest(w)
    <2>1. PICK l : l = IF signal[w] THEN "woken" ELSE "gap"
      OBVIOUS
    <2>2. /\ at[w] = "test" /\ at' = [at EXCEPT ![w] = l] /\ freeCount' = freeCount
          /\ signal' = [signal EXCEPT ![w] = FALSE]
      BY <1>11, <2>1 DEF EventTest, Goto
    <2>3. l \in WorkerLabels \ {"new", "gone"} /\ l \notin Early /\ l # "busy"
      BY <2>1 DEF WorkerLabels, Early
    <2>4. at'[w] = l /\ signal'[w] = FALSE /\ freeCount \in Int
      BY <1>1, <2>2, <2>3 DEF PoolTypes
    <2>5. Has(Owed, w) = 0 /\ Has(Owed', w) = 0 /\ Has(Ready, w) = Has(Ready', w)
      <3>1. Pending(w)' <=> Pending(w)
        BY <1>2 DEF Pending, HasJob
      <3>2. QED
        BY <2>1, <2>2, <2>4, <3>1, Memberships DEF Free
    <2>6. freeCount' + Has(Owed', w) + Has(Ready, w) <= freeCount + Has(Owed, w) + Has(Ready', w)
      <3>1. Has(Ready, w) \in Int
        BY DEF Has
      <3>2. QED
        BY <2>2, <2>4, <2>5, <3>1
    <2>7. NoneLost => (l = "woken" => HasJob(w))
      BY <1>1, <2>1 DEF EventsAgree, Pending
    <2>8. QED
      BY <1>2, <2>2, <2>3, <2>4, <2>6, <2>7, StepLabel
  <1>12. QED
    BY <1>5, <1>6, <1>7, <1>8, <1>9, <1>10, <1>11
-----------------------------------------------------------------------------
\* Steps of a worker that move a job.
LEMMA StepTake ==
  ASSUME Core, NEW w \in Workers, at[w] \in {"top", "ended"}, waiting # <<>>,
         at' = [at EXCEPT ![w] = "busy"], item' = [item EXCEPT ![w] = Head(waiting)],
         waiting' = Tail(waiting),
         UNCHANGED <<threads, timed, transit, signal, freeCount, fate, final, stuck>>
  PROVE  Core'
  <1>1. PoolTypes /\ ListAgrees /\ Apart /\ FatesAgree /\ FinalAgrees /\ CountAgrees /\ EventsAgree
    BY DEF Core
  <1>2. PICK h : h = Head(waiting)
    OBVIOUS
  <1>3. /\ h \in Waiting /\ h \in Jobs /\ h # Null /\ waiting' \in Seq(Jobs)
        /\ IsInjective(waiting') /\ Waiting' = Waiting \ {h}
    BY <1>1, <1>2, Popped, PoolAssumption DEF PoolTypes, Waiting
  <1>4. /\ at'[w] = "busy" /\ item'[w] = h
        /\ \A v \in Workers : v # w => at'[v] = at[v] /\ item'[v] = item[v]
    BY <1>1, <1>2 DEF PoolTypes, WorkerLabels
  <1>5. PoolTypes'
    BY <1>1, <1>2, <1>3 DEF PoolTypes, WorkerLabels
  <1>6. ListAgrees'
    BY <1>1, <1>3, <1>4 DEF ListAgrees, HasJob
  <1>7. Apart'
    BY <1>1, <1>3, <1>4 DEF Apart, HasJob
  <1>8. FatesAgree'
    BY <1>1, <1>3, <1>4 DEF FatesAgree, HasJob
  <1>9. ASSUME NEW j, Nowhere(j) PROVE Nowhere(j)'
    BY <1>3, <1>4, <1>9 DEF Nowhere
  <1>10. FinalAgrees'
    BY <1>1, <1>9 DEF FinalAgrees
  <1>11. \A v \in Workers : v # w => (Pending(v)' <=> Pending(v)) /\ (HasJob(v)' <=> HasJob(v))
    BY <1>4 DEF Pending, HasJob
  <1>12. CountAgrees'
    <2>1. Owed' = Owed /\ Ready' = Ready
      BY <1>4, <1>11 DEF Owed, Ready, Free
    <2>2. QED
      BY <1>1, <1>4, <1>11, <2>1, CountStays DEF CountAgrees
  <1>13. EventsAgree'
    <2> SUFFICES ASSUME NoneLost'
                 PROVE  \A v \in Workers :
                          /\ at'[v] = "woken" => HasJob(v)'
                          /\ signal'[v] => Pending(v)' /\ at'[v] \notin {"busy", "gap", "asleep", "woken"}
      BY DEF EventsAgree
    <2>1. NoneLost
      BY <1>9, LostStays
    <2>2. ~signal[w]
      <3> SUFFICES ASSUME signal[w] PROVE FALSE
        OBVIOUS
      <3>1. PICK j \in Jobs : j = item[w] /\ HasJob(w) /\ fate[j] = "pending"
        BY <1>1, <2>1 DEF EventsAgree, Pending, HasJob, PoolTypes
      <3>2. Nowhere(j)'
        BY <1>1, <1>3, <1>4, <3>1, PoolAssumption DEF Apart, Nowhere, HasJob
      <3>3. QED
        BY <3>1, <3>2 DEF NoneLost
    <2>3. QED
      BY <1>1, <1>4, <1>11, <2>1, <2>2 DEF EventsAgree
  <1>14. QED
    BY <1>5, <1>6, <1>7, <1>8, <1>10, <1>12, <1>13 DEF Core

\* The head of the loop, from Top and from Done.
LEMMA StepRound ==
  ASSUME Core, NEW w \in Workers, at[w] \in {"top", "ended"}, TakeOrGoFree(w),
         UNCHANGED <<threads, timed, transit, signal, freeCount, fate, final, stuck>>
  PROVE  Core'
  <1>1. CASE waiting # <<>>
    BY <1>1, StepTake DEF TakeOrGoFree, Goto
  <1>2. CASE waiting = <<>>
    <2>1. at' = [at EXCEPT ![w] = "unmarked"] /\ UNCHANGED <<item, waiting>>
      BY <1>2 DEF TakeOrGoFree, Goto
    <2>2. /\ signal' = [signal EXCEPT ![w] = signal[w]] /\ signal[w] \in BOOLEAN
          /\ freeCount \in Int
      BY Zenon DEF Core, PoolTypes
    <2>3. at'[w] = "unmarked"
      BY <2>1 DEF Core, PoolTypes
    <2>4. freeCount' + Has(Owed', w) + Has(Ready, w) <= freeCount + Has(Owed, w) + Has(Ready', w)
      <3>1. Has(Owed', w) = Has(Owed, w) /\ Has(Ready, w) = 0 /\ Has(Ready', w) = 0
        BY <2>1, <2>3, Memberships DEF Free
      <3>2. Has(Owed, w) \in Int
        BY DEF Has
      <3>3. QED
        BY <2>2, <3>1, <3>2
    <2>5. QED
      BY <2>1, <2>2, <2>4, StepLabel DEF WorkerLabels, Early
  <1>3. QED
    BY <1>1, <1>2

\* The job has run: it leaves the pool.
LEMMA StepFinish ==
  ASSUME Core, NEW w \in Workers, Finish(w)
  PROVE  Core'
  <1>1. PoolTypes /\ ListAgrees /\ Apart /\ FatesAgree /\ FinalAgrees /\ CountAgrees /\ EventsAgree
    BY DEF Core
  <1>2. PICK h : h = item[w]
    OBVIOUS
  <1>3. /\ at[w] = "busy" /\ at' = [at EXCEPT ![w] = "ended"]
        /\ item' = [item EXCEPT ![w] = Null] /\ fate' = [fate EXCEPT ![h] = "done"]
        /\ UNCHANGED <<threads, waiting, timed, transit, signal, freeCount, final, stuck>>
    BY <1>2 DEF Finish, Goto, queues, clients
  <1>4. h \in Jobs /\ HasJob(w)
    BY <1>1, <1>2, <1>3 DEF ListAgrees, HasJob, PoolTypes
  <1>5. /\ at'[w] = "ended" /\ item'[w] = Null /\ fate'[h] = "done"
        /\ \A v \in Workers : v # w => at'[v] = at[v] /\ item'[v] = item[v] /\ item[v] # h
        /\ \A j \in Jobs : j # h => fate'[j] = fate[j]
    BY <1>1, <1>2, <1>3, <1>4 DEF PoolTypes, WorkerLabels, Apart
  <1>6. PoolTypes'
    BY <1>1, <1>3 DEF PoolTypes, WorkerLabels
  <1>7. ListAgrees'
    BY <1>1, <1>3, <1>5 DEF ListAgrees, HasJob
  <1>8. Waiting' = Waiting
    BY <1>3 DEF Waiting
  <1>9. Apart'
    BY <1>1, <1>3, <1>5, <1>8 DEF Apart, HasJob
  <1>10. FatesAgree'
    <2>1. h \notin Waiting \cup timed /\ h # transit
      BY <1>1, <1>2, <1>4 DEF Apart
    <2>2. \A v \in Workers : HasJob(v)' => v # w /\ HasJob(v) /\ item[v] \in Jobs
      BY <1>1, <1>5 DEF HasJob, PoolTypes
    <2>3. QED
      BY <1>1, <1>3, <1>5, <1>8, <2>1, <2>2 DEF FatesAgree
  <1>11. ASSUME NEW j \in Jobs, Nowhere(j) PROVE Nowhere(j)' /\ j # h
    BY <1>2, <1>3, <1>5, <1>8, <1>11, PoolAssumption DEF Nowhere
  <1>12. FinalAgrees'
    BY <1>1, <1>3, <1>5, <1>11 DEF FinalAgrees, PoolTypes
  <1>13. \A v \in Workers : v # w => (Pending(v)' <=> Pending(v)) /\ (HasJob(v)' <=> HasJob(v))
    BY <1>1, <1>5 DEF Pending, HasJob, PoolTypes
  <1>14. ~Pending(w)'
    BY <1>5 DEF Pending, HasJob
  <1>15. CountAgrees'
    <2>1. Owed' = Owed /\ Ready' = Ready
      BY <1>3, <1>5, <1>13 DEF Owed, Ready, Free
    <2>2. QED
      BY <1>1, <1>3, <1>5, <1>13, <1>14, <2>1, CountStays DEF CountAgrees
  <1>16. EventsAgree'
    <2>1. NoneLost' => NoneLost
      BY <1>5, <1>11, LostStays
    <2>2. QED
      BY <1>1, <1>3, <1>5, <1>13, <2>1 DEF EventsAgree
  <1>17. QED
    BY <1>6, <1>7, <1>9, <1>10, <1>12, <1>15, <1>16 DEF Core

\* The job has thrown: it stays with its worker, and is not pending any more.
LEMMA StepThrow ==
  ASSUME Core, NEW w \in Workers, Throw(w)
  PROVE  Core'
  <1>1. PoolTypes /\ ListAgrees /\ Apart /\ FatesAgree /\ FinalAgrees /\ CountAgrees /\ EventsAgree
    BY DEF Core
  <1>2. PICK h : h = item[w]
    OBVIOUS
  <1>3. /\ at[w] = "busy" /\ at' = [at EXCEPT ![w] = "top"] /\ fate' = [fate EXCEPT ![h] = "thrown"]
        /\ UNCHANGED <<threads, waiting, timed, transit, item, signal, freeCount, final, stuck>>
    BY <1>2 DEF Throw, Goto, queues, clients
  <1>4. h \in Jobs /\ HasJob(w)
    BY <1>1, <1>2, <1>3 DEF ListAgrees, HasJob, PoolTypes
  <1>5. /\ at'[w] = "top" /\ fate'[h] = "thrown"
        /\ \A v \in Workers : v # w => at'[v] = at[v] /\ item[v] # h
        /\ \A j \in Jobs : j # h => fate'[j] = fate[j]
    BY <1>1, <1>2, <1>3, <1>4 DEF PoolTypes, WorkerLabels, Apart
  <1>6. PoolTypes'
    BY <1>1, <1>3 DEF PoolTypes, WorkerLabels
  <1>7. ListAgrees'
    BY <1>1, <1>3, <1>5 DEF ListAgrees, HasJob
  <1>8. Waiting' = Waiting /\ \A v \in Workers : HasJob(v)' <=> HasJob(v)
    BY <1>3 DEF Waiting, HasJob
  <1>9. Apart'
    BY <1>1, <1>3, <1>8 DEF Apart
  <1>10. FatesAgree'
    <2>1. h \notin Waiting \cup timed /\ h # transit
      BY <1>1, <1>2, <1>4 DEF Apart
    <2>2. \A v \in Workers : HasJob(v) => item[v] \in Jobs
      BY <1>1 DEF HasJob, PoolTypes
    <2>3. QED
      BY <1>1, <1>2, <1>3, <1>5, <1>8, <2>1, <2>2 DEF FatesAgree
  <1>11. ASSUME NEW j \in Jobs, Nowhere(j) PROVE Nowhere(j)' /\ j # h
    BY <1>2, <1>3, <1>8, <1>11 DEF Nowhere
  <1>12. FinalAgrees'
    BY <1>1, <1>3, <1>5, <1>11 DEF FinalAgrees, PoolTypes
  <1>13. \A v \in Workers : v # w => (Pending(v)' <=> Pending(v))
    BY <1>1, <1>3, <1>5 DEF Pending, HasJob, PoolTypes
  <1>14. ~Pending(w)'
    BY <1>2, <1>3, <1>5 DEF Pending
  <1>15. CountAgrees'
    <2>1. Owed' = Owed /\ Ready' = Ready
      BY <1>3, <1>5, <1>13 DEF Owed, Ready, Free
    <2>2. QED
      BY <1>1, <1>3, <1>5, <1>13, <1>14, <2>1, CountStays DEF CountAgrees
  <1>16. EventsAgree'
    <2>1. NoneLost' => NoneLost
      BY <1>5, <1>11, LostStays
    <2>2. QED
      BY <1>1, <1>3, <1>5, <1>8, <1>13, <2>1 DEF EventsAgree
  <1>17. QED
    BY <1>6, <1>7, <1>9, <1>10, <1>12, <1>15, <1>16 DEF Core

\* The worker leaves the list, and a job it was given is lost with it.
LEMMA StepDestruct ==
  ASSUME Core, NEW w \in Workers, SelfDestruct(w)
  PROVE  Core'
  <1>1. PoolTypes /\ ListAgrees /\ Apart /\ FatesAgree /\ FinalAgrees /\ CountAgrees /\ EventsAgree
    BY DEF Core
  <1>2. /\ at[w] = "finished" /\ at' = [at EXCEPT ![w] = "gone"]
        /\ item' = [item EXCEPT ![w] = Null] /\ threads' = RemoveFirst(threads, w)
        /\ UNCHANGED <<waiting, timed, transit, signal, freeCount, fate, final, stuck>>
    BY DEF SelfDestruct, Goto, queues, clients
  <1>3. /\ threads' \in Seq(Workers) /\ IsInjective(threads')
        /\ Range(threads') = Range(threads) \ {w}
    BY <1>1, <1>2, Removed DEF PoolTypes
  <1>4. /\ at'[w] = "gone" /\ item'[w] = Null
        /\ \A v \in Workers : v # w => at'[v] = at[v] /\ item'[v] = item[v]
    BY <1>1, <1>2 DEF PoolTypes, WorkerLabels
  <1>5. PoolTypes'
    BY <1>1, <1>2, <1>3 DEF PoolTypes, WorkerLabels
  <1>6. ListAgrees'
    BY <1>1, <1>2, <1>3, <1>4 DEF ListAgrees, HasJob
  <1>7. Waiting' = Waiting
    BY <1>2 DEF Waiting
  <1>8. Apart'
    BY <1>1, <1>2, <1>4, <1>7 DEF Apart, HasJob
  <1>9. FatesAgree'
    BY <1>1, <1>2, <1>4, <1>7 DEF FatesAgree, HasJob
  <1>10. ASSUME NEW j \in Jobs, Nowhere(j) PROVE Nowhere(j)'
    BY <1>2, <1>4, <1>7, <1>10, PoolAssumption DEF Nowhere
  <1>11. FinalAgrees'
    BY <1>1, <1>2, <1>10 DEF FinalAgrees, PoolTypes
  <1>12. \A v \in Workers : v # w => (Pending(v)' <=> Pending(v)) /\ (HasJob(v)' <=> HasJob(v))
    BY <1>2, <1>4 DEF Pending, HasJob
  <1>13. CountAgrees'
    <2>1. Owed' = Owed /\ Ready' = Ready
      BY <1>2, <1>4, <1>12 DEF Owed, Ready, Free
    <2>2. QED
      BY <1>1, <1>2, <1>4, <1>12, <2>1, CountStays DEF CountAgrees
  <1>14. EventsAgree'
    <2> SUFFICES ASSUME NoneLost'
                 PROVE  \A v \in Workers :
                          /\ at'[v] = "woken" => HasJob(v)'
                          /\ signal'[v] => Pending(v)' /\ at'[v] \notin {"busy", "gap", "asleep", "woken"}
      BY DEF EventsAgree
    <2>1. NoneLost
      BY <1>2, <1>10, LostStays
    <2>2. ~signal[w]
      <3> SUFFICES ASSUME signal[w] PROVE FALSE
        OBVIOUS
      <3>1. PICK j \in Jobs : j = item[w] /\ HasJob(w) /\ fate[j] = "pending"
        BY <1>1, <2>1 DEF EventsAgree, Pending, HasJob, PoolTypes
      <3>2. Nowhere(j)'
        BY <1>1, <1>2, <1>4, <1>7, <3>1, PoolAssumption DEF Apart, Nowhere, HasJob
      <3>3. QED
        BY <1>2, <3>1, <3>2 DEF NoneLost
    <2>3. QED
      BY <1>1, <1>2, <1>4, <1>12, <2>1, <2>2 DEF EventsAgree
  <1>15. QED
    BY <1>5, <1>6, <1>8, <1>9, <1>11, <1>13, <1>14 DEF Core
-----------------------------------------------------------------------------
\* A job comes in, from a client or from the time keeper.
Arrives(j) == /\ fate' = [fate EXCEPT ![j] = "pending"]
              /\ \/ fate[j] = "new" /\ transit' = transit
                 \/ j = transit /\ transit' = Null

\* An arriving job is in no queue and with no worker, nor done with by cancel().
LEMMA ArrivalIsNew ==
  ASSUME Core, NEW j \in Jobs, Arrives(j)
  PROVE  /\ j \notin Waiting \cup timed /\ j \notin final /\ j # transit' /\ j # Null
         /\ transit' \in {transit, Null}
         /\ \A v \in Workers : item[v] # j
         /\ fate' \in [Jobs -> {"new", "pending", "done", "thrown", "cancelled"}]
         /\ fate'[j] = "pending"
         /\ \A k \in Jobs : k # j => fate'[k] = fate[k]
         /\ \A k \in Jobs : Nowhere(k) /\ fate[k] # "new" => k # j /\ k # transit'
         /\ \A k \in Jobs : k # j /\ k # transit' /\ k # Null => k # transit
  <1>1. PoolTypes /\ Apart /\ FatesAgree /\ FinalAgrees
    BY DEF Core
  <1>2. j # Null /\ Null \notin Jobs
    BY PoolAssumption
  <1>3. fate' \in [Jobs -> {"new", "pending", "done", "thrown", "cancelled"}] /\ fate'[j] = "pending"
        /\ \A k \in Jobs : k # j => fate'[k] = fate[k]
    BY <1>1 DEF Arrives, PoolTypes
  <1>4. CASE fate[j] = "new" /\ transit' = transit
    <2>1. j \notin Waiting \cup timed /\ j # transit
      BY <1>1, <1>4 DEF FatesAgree
    <2>2. \A v \in Workers : item[v] # j
      BY <1>1, <1>2, <1>4 DEF FatesAgree, HasJob
    <2>3. j \notin final
      BY <1>1, <1>4 DEF FinalAgrees
    <2>4. \A k \in Jobs : Nowhere(k) /\ fate[k] # "new" => k # j /\ k # transit'
      BY <1>4 DEF Nowhere
    <2>5. QED
      BY <1>2, <1>3, <1>4, <2>1, <2>2, <2>3, <2>4
  <1>5. CASE j = transit /\ transit' = Null
    <2>1. j \notin Waiting \cup timed /\ \A v \in Workers : item[v] # j
      BY <1>1, <1>2, <1>5 DEF Apart, HasJob
    <2>2. j \notin final
      BY <1>1, <1>5 DEF FinalAgrees, Nowhere
    <2>3. \A k \in Jobs : Nowhere(k) /\ fate[k] # "new" => k # j /\ k # transit'
      BY <1>2, <1>5 DEF Nowhere
    <2>4. QED
      BY <1>2, <1>3, <1>5, <2>1, <2>2, <2>3
  <1>6. QED
    BY <1>4, <1>5 DEF Arrives

\* An idle worker gets the job: it leaves Ready, or enters Owed with its event set.
LEMMA StepGive ==
  ASSUME Core, NEW j \in Jobs, Arrives(j), NEW w \in Workers, w \in Range(threads),
         ~stuck, ~HasJob(w),
         item' = [item EXCEPT ![w] = j], freeCount' = freeCount - 1,
         signal' = [signal EXCEPT ![w] = at[w] \notin {"gap", "asleep"}],
         at' = [at EXCEPT ![w] = IF @ = "asleep" THEN "woken" ELSE @],
         UNCHANGED <<threads, waiting, timed, final, stuck>>
  PROVE  Core'
  <1>1. PoolTypes /\ ListAgrees /\ Apart /\ FatesAgree /\ FinalAgrees /\ CountAgrees /\ EventsAgree
    BY DEF Core
  <1>2. /\ j \notin Waiting \cup timed /\ j \notin final /\ j # transit' /\ j # Null
        /\ transit' \in {transit, Null}
        /\ \A v \in Workers : item[v] # j
        /\ fate' \in [Jobs -> {"new", "pending", "done", "thrown", "cancelled"}]
        /\ fate'[j] = "pending"
        /\ \A k \in Jobs : k # j => fate'[k] = fate[k]
        /\ \A k \in Jobs : Nowhere(k) /\ fate[k] # "new" => k # j /\ k # transit'
    BY ArrivalIsNew
  <1>3. PICK s \in BOOLEAN : (s <=> at[w] \notin {"gap", "asleep"})
                             /\ signal' = [signal EXCEPT ![w] = s]
    <2>1. (at[w] \notin {"gap", "asleep"}) \in BOOLEAN
      OBVIOUS
    <2>2. QED
      BY <2>1, Zenon
  <1>4. PICK l : l = (IF at[w] = "asleep" THEN "woken" ELSE at[w]) /\ at' = [at EXCEPT ![w] = l]
    OBVIOUS
  <1>5. at[w] \in WorkerLabels \ {"new", "gone", "busy"} /\ l \in WorkerLabels \ {"new", "gone", "busy"}
    BY <1>1, <1>4 DEF ListAgrees, PoolTypes, WorkerLabels
  <1>6. /\ at'[w] = l /\ item'[w] = j /\ signal'[w] = s
        /\ \A v \in Workers : v # w => at'[v] = at[v] /\ item'[v] = item[v] /\ signal'[v] = signal[v]
    BY <1>1, <1>3, <1>4 DEF PoolTypes
  <1>7. PoolTypes'
    BY <1>1, <1>2, <1>3, <1>4, <1>5 DEF PoolTypes
  <1>8. ListAgrees'
    BY <1>1, <1>2, <1>5, <1>6 DEF ListAgrees, HasJob
  <1>9. Waiting' = Waiting
    BY DEF Waiting
  <1>10. Apart'
    <2>1. Waiting \subseteq Jobs /\ timed \subseteq Jobs /\ timed' = timed
      BY <1>1, ListBasics DEF PoolTypes, Waiting
    <2>2. \A v, u \in Workers : item'[v] # Null /\ item'[v] = item'[u] => v = u
      BY <1>1, <1>2, <1>6 DEF Apart, HasJob
    <2>3. ASSUME NEW v \in Workers, item'[v] # Null
          PROVE  item'[v] \notin Waiting \cup timed /\ item'[v] # transit'
      BY <1>1, <1>2, <1>6, <2>3 DEF Apart, HasJob
    <2>4. Waiting \cap timed = {} /\ transit' \notin Waiting \cup timed
      BY <1>1, <1>2, <2>1, PoolAssumption DEF Apart
    <2>5. QED
      BY <1>9, <2>1, <2>2, <2>3, <2>4 DEF Apart, HasJob
  <1>11. \A v \in Workers : v # w => /\ HasJob(v)' <=> HasJob(v)
                                     /\ HasJob(v) => item[v] \in Jobs /\ fate'[item[v]] = fate[item[v]]
                                     /\ Pending(v)' <=> Pending(v)
    BY <1>1, <1>2, <1>6 DEF HasJob, Pending, PoolTypes
  <1>12. Pending(w)' /\ HasJob(w)'
    BY <1>2, <1>6 DEF Pending, HasJob
  <1>13. FatesAgree'
    BY <1>1, <1>2, <1>6, <1>9, <1>11, PoolAssumption DEF FatesAgree
  <1>14. ASSUME NEW k \in Jobs, Nowhere(k), fate[k] # "new" PROVE Nowhere(k)' /\ fate'[k] = fate[k]
    BY <1>2, <1>6, <1>9, <1>14 DEF Nowhere
  <1>15. FinalAgrees'
    BY <1>1, <1>14 DEF FinalAgrees, PoolTypes
  <1>16. CountAgrees'
    <2>1. Owed' \ {w} = Owed \ {w} /\ Ready' \ {w} = Ready \ {w}
      BY <1>6, <1>11 DEF Owed, Ready
    <2>2. freeCount' \in Int /\ freeCount \in Int
      BY <1>1 DEF PoolTypes
    <2>3. Has(Owed', w) + Has(Ready, w) <= 1 + Has(Owed, w) + Has(Ready', w)
      <3>1. Has(Ready', w) = 0
        BY <1>12, Memberships
      <3>2. CASE at[w] \in Free
        <4>1. Has(Owed', w) = 0 /\ Has(Owed, w) = 0 /\ Has(Ready, w) <= 1
          BY <1>3, <1>4, <1>6, <3>2, Memberships DEF Free
        <4>2. Has(Ready, w) \in Int
          BY DEF Has
        <4>3. QED
          BY <3>1, <4>1, <4>2
      <3>3. CASE at[w] \notin Free
        <4>1. Has(Owed', w) <= 1 /\ Has(Owed, w) >= 0 /\ Has(Ready, w) = 0
          BY <3>3, Memberships
        <4>2. Has(Owed', w) \in Int /\ Has(Owed, w) \in Int
          BY DEF Has
        <4>3. QED
          BY <3>1, <4>1, <4>2
      <3>4. QED
        BY <3>2, <3>3
    <2>4. freeCount' + Has(Owed', w) + Has(Ready, w) <= freeCount + Has(Owed, w) + Has(Ready', w)
      <3>1. Has(Owed, w) \in Int /\ Has(Owed', w) \in Int /\ Has(Ready, w) \in Int /\ Has(Ready', w) \in Int
        BY DEF Has
      <3>2. QED
        BY <2>2, <2>3, <3>1
    <2>5. freeCount' + Cardinality(Owed') <= Cardinality(Ready')
      BY <2>1, <2>2, <2>4, CountMoves
    <2>6. \A v \in Workers :
            at'[v] \in {"starting", "top", "unmarked", "marked", "ended"} /\ Pending(v)' => signal'[v]
      BY <1>1, <1>3, <1>4, <1>6, <1>11 DEF CountAgrees
    <2>7. QED
      BY <2>5, <2>6 DEF CountAgrees
  <1>17. EventsAgree'
    <2>1. NoneLost' => NoneLost
      BY <1>14, LostStays
    <2>2. NoneLost => at[w] # "woken"
      BY <1>1 DEF EventsAgree
    <2>3. QED
      BY <1>1, <1>3, <1>4, <1>5, <1>6, <1>11, <1>12, <2>1, <2>2 DEF EventsAgree
  <1>18. QED
    BY <1>7, <1>8, <1>10, <1>13, <1>15, <1>16, <1>17 DEF Core
-----------------------------------------------------------------------------
\* Workers that are added, and started unless the pool gets stuck.
Grew(A) ==
  /\ A \subseteq {v \in Workers : at[v] = "new"}
  /\ threads' \in Seq(Workers) /\ IsInjective(threads') /\ Range(threads') = Range(threads) \cup A
  /\ stuck' \in BOOLEAN
  /\ at' = [v \in Workers |-> IF v \in A /\ ~stuck' THEN "starting" ELSE at[v]]

\* No worker is added.
LEMMA NobodyGrew ==
  ASSUME Core, ~stuck, UNCHANGED <<threads, at, stuck>>
  PROVE  Grew({})
  <1>1. PoolTypes
    BY DEF Core
  <1>2. at = [v \in Workers |-> at[v]]
    BY <1>1 DEF PoolTypes
  <1>3. at' = [v \in Workers |-> IF v \in {} /\ ~stuck' THEN "starting" ELSE at[v]]
    BY <1>2
  <1>4. QED
    BY <1>1, <1>3 DEF Grew, PoolTypes

\* startThreads() adds new workers only.
LEMMA StartThreadsGrows ==
  ASSUME Core, ~stuck, total \in Nat, NEW n \in Nat, StartThreads(n)
  PROVE  (\E A : Grew(A)) /\ total' \in Nat
  <1> DEFINE A == Added(n)
             k == IF n > total THEN n - total ELSE 0
             New == {v \in Workers : at[v] = "new"}
  <1>1. IsFiniteSet(New)
    BY PoolAssumption, FS_Subset
  <1>2. k \in Nat /\ k <= Cardinality(New)
    <2>1. n - total <= Cardinality(New)
      BY DEF StartThreads
    <2>2. Cardinality(New) \in Nat
      BY <1>1, FS_CardinalityType
    <2>3. QED
      BY <2>1, <2>2
  <1>3. \E S \in SUBSET New : Cardinality(S) = k
    BY <1>1, <1>2, SubsetOfSize
  <1>4. A \in SUBSET New
    BY <1>3 DEF Added
  <1> HIDE DEF A, k
  <1>5. IsFiniteSet(A)
    BY <1>1, <1>4, FS_Subset
  <1>6. SetToSeq(A) \in Seq(A) /\ IsInjective(SetToSeq(A)) /\ Range(SetToSeq(A)) = A
    BY <1>5, Listed
  <1>7. SetToSeq(A) \in Seq(Workers)
    BY <1>4, <1>6, SeqMonotonic
  <1>8. PoolTypes /\ ListAgrees
    BY DEF Core
  <1>9. Range(threads) \cap A = {}
    BY <1>4, <1>8 DEF ListAgrees
  <1>10. /\ threads' = threads \o SetToSeq(A) /\ total' = n /\ stuck' = Joins
         /\ at' = [v \in Workers |-> IF v \in A /\ ~Joins THEN "starting" ELSE at[v]]
    BY DEF StartThreads, A
  <1>11. /\ threads' \in Seq(Workers) /\ IsInjective(threads')
         /\ Range(threads') = Range(threads) \cup A
    BY <1>6, <1>7, <1>8, <1>9, <1>10, Joined DEF PoolTypes
  <1>12. stuck' \in BOOLEAN /\ stuck' = Joins
    BY <1>10 DEF Joins
  <1>13. Grew(A)
    BY <1>4, <1>10, <1>11, <1>12 DEF Grew
  <1>14. QED
    BY <1>10, <1>13

\* The list stays right when it grows.
LEMMA GrowthAgrees ==
  ASSUME Core, ~stuck, NEW A, Grew(A), item' = item
  PROVE  /\ at' \in [Workers -> WorkerLabels] /\ ListAgrees'
         /\ \A v \in Workers : at'[v] = at[v] \/ (at[v] = "new" /\ at'[v] = "starting" /\ ~HasJob(v))
  <1>1. PoolTypes /\ ListAgrees
    BY DEF Core
  <1>2. A \subseteq Workers /\ \A v \in Workers : v \in A => at[v] = "new" /\ ~HasJob(v)
    BY <1>1 DEF Grew, ListAgrees
  <1>3. \A v \in Workers : at'[v] = IF v \in A /\ ~stuck' THEN "starting" ELSE at[v]
    BY DEF Grew
  <1>4. at' \in [Workers -> WorkerLabels]
    BY <1>1, <1>3 DEF Grew, PoolTypes, WorkerLabels
  <1>5. Range(threads') = Range(threads) \cup A
    BY DEF Grew
  <1>6. ListAgrees'
    BY <1>1, <1>2, <1>3, <1>5 DEF ListAgrees, HasJob
  <1>7. QED
    BY <1>2, <1>3, <1>4, <1>6

\* The pool grows, and nothing else happens.
LEMMA StepGrow ==
  ASSUME Core, ~stuck, NEW A, Grew(A),
         UNCHANGED <<waiting, timed, transit, item, signal, freeCount, fate, final>>
  PROVE  Core'
  <1>1. PoolTypes /\ ListAgrees /\ Apart /\ FatesAgree /\ FinalAgrees /\ CountAgrees /\ EventsAgree
    BY DEF Core
  <1>2. /\ at' \in [Workers -> WorkerLabels] /\ ListAgrees'
        /\ \A v \in Workers : at'[v] = at[v] \/ (at[v] = "new" /\ at'[v] = "starting" /\ ~HasJob(v))
    BY GrowthAgrees
  <1>3. PoolTypes'
    BY <1>1, <1>2 DEF PoolTypes, Grew
  <1>4. Apart' /\ FatesAgree' /\ FinalAgrees'
    BY <1>1 DEF Apart, FatesAgree, FinalAgrees, Nowhere, Waiting, HasJob
  <1>5. \A v \in Workers : (Pending(v)' <=> Pending(v)) /\ (HasJob(v)' <=> HasJob(v))
                           /\ (Pending(v) => HasJob(v))
    BY DEF Pending, HasJob
  <1>6. CountAgrees'
    <2>1. Owed' = Owed /\ Ready' = Ready
      BY <1>2, <1>5 DEF Owed, Ready, Free
    <2>2. QED
      BY <1>1, <1>2, <1>5, <2>1, CountStays DEF CountAgrees
  <1>7. EventsAgree'
    <2>1. NoneLost' <=> NoneLost
      BY DEF NoneLost, Nowhere, Waiting
    <2>2. QED
      BY <1>1, <1>2, <1>5, <2>1 DEF EventsAgree
  <1>8. QED
    BY <1>2, <1>3, <1>4, <1>6, <1>7 DEF Core

\* The job goes to the end of the queue, and the pool may grow.
LEMMA StepEnqueue ==
  ASSUME Core, ~stuck, NEW j \in Jobs, Arrives(j), NEW A, Grew(A),
         waiting' = Append(waiting, j),
         UNCHANGED <<timed, item, signal, freeCount, final>>
  PROVE  Core'
  <1>1. PoolTypes /\ ListAgrees /\ Apart /\ FatesAgree /\ FinalAgrees /\ CountAgrees /\ EventsAgree
    BY DEF Core
  <1>2. /\ j \notin Waiting \cup timed /\ j \notin final /\ j # transit' /\ j # Null
        /\ transit' \in {transit, Null}
        /\ \A v \in Workers : item[v] # j
        /\ fate' \in [Jobs -> {"new", "pending", "done", "thrown", "cancelled"}]
        /\ fate'[j] = "pending"
        /\ \A k \in Jobs : k # j => fate'[k] = fate[k]
        /\ \A k \in Jobs : Nowhere(k) /\ fate[k] # "new" => k # j /\ k # transit'
    BY ArrivalIsNew
  <1>3. /\ waiting' \in Seq(Jobs) /\ IsInjective(waiting') /\ Waiting' = Waiting \cup {j}
    BY <1>1, <1>2, Pushed DEF PoolTypes, Waiting
  <1>4. /\ at' \in [Workers -> WorkerLabels] /\ ListAgrees'
        /\ \A v \in Workers : at'[v] = at[v] \/ (at[v] = "new" /\ at'[v] = "starting" /\ ~HasJob(v))
    BY GrowthAgrees
  <1>5. PoolTypes'
    BY <1>1, <1>2, <1>3, <1>4 DEF PoolTypes, Grew
  <1>6. Waiting \subseteq Jobs /\ timed \subseteq Jobs
    BY <1>1, ListBasics DEF PoolTypes, Waiting
  <1>7. Apart'
    BY <1>1, <1>2, <1>3, <1>6, PoolAssumption DEF Apart, HasJob, PoolTypes
  <1>8. \A v \in Workers : /\ HasJob(v)' <=> HasJob(v)
                           /\ HasJob(v) => item[v] \in Jobs /\ fate'[item[v]] = fate[item[v]]
                           /\ Pending(v)' <=> Pending(v)
                           /\ Pending(v) => HasJob(v)
    BY <1>1, <1>2 DEF HasJob, Pending, PoolTypes
  <1>9. FatesAgree'
    BY <1>1, <1>2, <1>3, <1>6, <1>8, PoolAssumption DEF FatesAgree
  <1>10. ASSUME NEW k \in Jobs, Nowhere(k), fate[k] # "new" PROVE Nowhere(k)' /\ fate'[k] = fate[k]
    BY <1>2, <1>3, <1>10 DEF Nowhere
  <1>11. FinalAgrees'
    BY <1>1, <1>10 DEF FinalAgrees, PoolTypes
  <1>12. CountAgrees'
    <2>1. Owed' = Owed /\ Ready' = Ready
      BY <1>4, <1>8 DEF Owed, Ready, Free
    <2>2. QED
      BY <1>1, <1>4, <1>8, <2>1, CountStays DEF CountAgrees
  <1>13. EventsAgree'
    <2>1. NoneLost' => NoneLost
      BY <1>10, LostStays
    <2>2. QED
      BY <1>1, <1>4, <1>8, <2>1 DEF EventsAgree
  <1>14. QED
    BY <1>4, <1>5, <1>7, <1>9, <1>11, <1>12, <1>13 DEF Core
-----------------------------------------------------------------------------
\* Steps of the time keeper, and of the clients that cancel.
LEMMA StepLater ==
  ASSUME Core, NEW j \in Jobs, fate[j] = "new", fate' = [fate EXCEPT ![j] = "pending"],
         timed' = timed \cup {j},
         UNCHANGED <<threads, waiting, transit, at, item, signal, freeCount, final, stuck>>
  PROVE  Core'
  <1>1. PoolTypes /\ ListAgrees /\ Apart /\ FatesAgree /\ FinalAgrees /\ CountAgrees /\ EventsAgree
    BY DEF Core
  <1>2. /\ j \notin Waiting \cup timed /\ j \notin final /\ j # transit /\ j # Null
        /\ \A v \in Workers : item[v] # j
        /\ fate' \in [Jobs -> {"new", "pending", "done", "thrown", "cancelled"}]
        /\ fate'[j] = "pending"
        /\ \A k \in Jobs : k # j => fate'[k] = fate[k]
    BY ArrivalIsNew DEF Arrives
  <1>3. Waiting' = Waiting /\ Waiting \subseteq Jobs /\ timed \subseteq Jobs
    BY <1>1, ListBasics DEF PoolTypes, Waiting
  <1>4. PoolTypes'
    BY <1>1, <1>2 DEF PoolTypes
  <1>5. ListAgrees'
    BY <1>1 DEF ListAgrees, HasJob
  <1>6. Apart'
    BY <1>1, <1>2, <1>3 DEF Apart, HasJob
  <1>7. \A v \in Workers : /\ HasJob(v)' <=> HasJob(v)
                           /\ HasJob(v) => item[v] \in Jobs /\ fate'[item[v]] = fate[item[v]]
                           /\ Pending(v)' <=> Pending(v)
                           /\ Pending(v) => HasJob(v)
    BY <1>1, <1>2 DEF HasJob, Pending, PoolTypes
  <1>8. FatesAgree'
    BY <1>1, <1>2, <1>3, <1>7, PoolAssumption DEF FatesAgree
  <1>9. ASSUME NEW k \in Jobs, Nowhere(k), fate[k] # "new" PROVE Nowhere(k)' /\ fate'[k] = fate[k]
    BY <1>2, <1>3, <1>9 DEF Nowhere
  <1>10. FinalAgrees'
    BY <1>1, <1>9 DEF FinalAgrees, PoolTypes
  <1>11. CountAgrees'
    <2>1. Owed' = Owed /\ Ready' = Ready
      BY <1>7 DEF Owed, Ready, Free
    <2>2. QED
      BY <1>1, <1>7, <2>1, CountStays DEF CountAgrees
  <1>12. EventsAgree'
    <2>1. NoneLost' => NoneLost
      BY <1>9, LostStays
    <2>2. QED
      BY <1>1, <1>7, <2>1 DEF EventsAgree
  <1>13. QED
    BY <1>4, <1>5, <1>6, <1>8, <1>10, <1>11, <1>12 DEF Core

\* Its time has come: the time keeper takes the entry out.
LEMMA StepFire ==
  ASSUME Core, NEW j \in Jobs, j \in timed, transit = Null, transit' = j, timed' = timed \ {j},
         UNCHANGED <<threads, waiting, at, item, signal, freeCount, fate, final, stuck>>
  PROVE  Core'
  <1>1. PoolTypes /\ ListAgrees /\ Apart /\ FatesAgree /\ FinalAgrees /\ CountAgrees /\ EventsAgree
    BY DEF Core
  <1>2. Waiting' = Waiting /\ j # Null
    BY PoolAssumption DEF Waiting
  <1>3. PoolTypes'
    BY <1>1 DEF PoolTypes
  <1>4. ListAgrees'
    BY <1>1 DEF ListAgrees, HasJob
  <1>5. Apart'
    BY <1>1, <1>2 DEF Apart, HasJob
  <1>6. FatesAgree'
    BY <1>1, <1>2 DEF FatesAgree, HasJob
  <1>7. \A k \in Jobs : Nowhere(k)' <=> Nowhere(k)
    BY <1>2, PoolAssumption DEF Nowhere
  <1>8. FinalAgrees'
    BY <1>1, <1>7 DEF FinalAgrees, PoolTypes
  <1>9. \A v \in Workers : (Pending(v)' <=> Pending(v)) /\ (HasJob(v)' <=> HasJob(v))
    BY DEF Pending, HasJob
  <1>10. CountAgrees'
    <2>1. Owed' = Owed /\ Ready' = Ready
      BY <1>9 DEF Owed, Ready, Free
    <2>2. QED
      BY <1>1, <1>9, <2>1, CountStays DEF CountAgrees
  <1>11. EventsAgree'
    <2>1. NoneLost' <=> NoneLost
      BY <1>7 DEF NoneLost
    <2>2. QED
      BY <1>1, <1>9, <2>1 DEF EventsAgree
  <1>12. QED
    BY <1>3, <1>4, <1>5, <1>6, <1>8, <1>10, <1>11 DEF Core

\* A job is taken out of the queue, or off the time keeper.
LEMMA StepCancelled ==
  ASSUME Core, NEW j \in Jobs, j \in Waiting \cup timed,
         fate' = [fate EXCEPT ![j] = "cancelled"], final' = final \cup {j},
         waiting' \in Seq(Jobs), IsInjective(waiting'), Waiting' = Waiting \ {j},
         timed' = timed \ {j},
         UNCHANGED <<threads, transit, at, item, signal, freeCount, stuck>>
  PROVE  Core'
  <1>1. PoolTypes /\ ListAgrees /\ Apart /\ FatesAgree /\ FinalAgrees /\ CountAgrees /\ EventsAgree
    BY DEF Core
  <1>2. /\ j # transit /\ \A v \in Workers : item[v] # j
        /\ fate'[j] = "cancelled" /\ \A k \in Jobs : k # j => fate'[k] = fate[k]
    BY <1>1, PoolAssumption DEF Apart, HasJob, PoolTypes
  <1>3. PoolTypes'
    BY <1>1 DEF PoolTypes
  <1>4. ListAgrees'
    BY <1>1 DEF ListAgrees, HasJob
  <1>5. Apart'
    BY <1>1, <1>2 DEF Apart, HasJob
  <1>6. \A v \in Workers : /\ HasJob(v)' <=> HasJob(v)
                           /\ HasJob(v) => item[v] \in Jobs /\ fate'[item[v]] = fate[item[v]]
                           /\ Pending(v)' <=> Pending(v)
    BY <1>1, <1>2 DEF HasJob, Pending, PoolTypes
  <1>7. FatesAgree'
    BY <1>1, <1>2, <1>6 DEF FatesAgree
  <1>8. ASSUME NEW k \in Jobs, Nowhere(k) PROVE Nowhere(k)' /\ k # j /\ fate'[k] = fate[k]
    BY <1>2, <1>8 DEF Nowhere
  <1>9. Nowhere(j)'
    BY <1>2 DEF Nowhere
  <1>10. FinalAgrees'
    <2>1. final \subseteq Jobs
      BY <1>1 DEF PoolTypes
    <2>2. \A k \in final : Nowhere(k)' /\ fate'[k] # "new"
      BY <1>1, <1>8, <2>1 DEF FinalAgrees
    <2>3. QED
      BY <1>2, <1>9, <2>2 DEF FinalAgrees
  <1>11. CountAgrees'
    <2>1. Owed' = Owed /\ Ready' = Ready
      BY <1>6 DEF Owed, Ready, Free
    <2>2. QED
      BY <1>1, <1>6, <2>1, CountStays DEF CountAgrees
  <1>12. EventsAgree'
    <2>1. NoneLost' => NoneLost
      BY <1>8, LostStays
    <2>2. QED
      BY <1>1, <1>6, <2>1 DEF EventsAgree
  <1>13. QED
    BY <1>3, <1>4, <1>5, <1>7, <1>10, <1>11, <1>12 DEF Core

\* cancel() finds the job nowhere, holding both mutexes.
LEMMA StepNotFound ==
  ASSUME Core, NEW j \in Jobs, fate[j] # "new", j \notin Waiting \cup timed, transit = Null,
         Running(j) = {}, final' = final \cup {j},
         UNCHANGED <<threads, waiting, timed, transit, at, item, signal, freeCount, fate, stuck>>
  PROVE  Core'
  <1>1. PoolTypes /\ ListAgrees /\ Apart /\ FatesAgree /\ FinalAgrees /\ CountAgrees /\ EventsAgree
    BY DEF Core
  <1>2. Nowhere(j)
    <2>1. j # Null
      BY PoolAssumption
    <2>2. ASSUME NEW w \in Workers, item[w] = j PROVE FALSE
      <3>1. w \in Range(threads)
        BY <1>1, <2>1, <2>2 DEF ListAgrees, HasJob
      <3>2. QED
        BY <2>2, <3>1 DEF Running
    <2>3. QED
      BY <2>1, <2>2 DEF Nowhere
  <1>3. PoolTypes' /\ ListAgrees' /\ Apart' /\ FatesAgree'
    BY <1>1 DEF PoolTypes, ListAgrees, Apart, FatesAgree, Waiting, HasJob
  <1>4. FinalAgrees'
    BY <1>1, <1>2 DEF FinalAgrees, Nowhere, Waiting
  <1>5. CountAgrees' /\ EventsAgree'
    BY <1>1 DEF CountAgrees, EventsAgree, Owed, Ready, NoneLost, Nowhere, Waiting, HasJob, Pending
  <1>6. QED
    BY <1>3, <1>4, <1>5 DEF Core
-----------------------------------------------------------------------------
\* The smallest element of a set of naturals.
LEMMA Smallest ==
  ASSUME NEW S, S \subseteq Nat, S # {}
  PROVE  \E x \in S : \A y \in S : x <= y
  <1>1. \E x \in S : \A y \in S : <<y, x>> \notin OpToRel(<, Nat)
    BY NatLessThanWellFounded, WFMin
  <1>2. \A x, y \in Nat : <<y, x>> \notin OpToRel(<, Nat) => x <= y
    BY DEF OpToRel
  <1>3. QED
    BY <1>1, <1>2

\* The search for an idle worker finds one on the list.
LEMMA FirstIdle ==
  ASSUME threads \in Seq(Workers), SelectInSeq(threads, Idle) # 0
  PROVE  /\ threads[SelectInSeq(threads, Idle)] \in Range(threads)
         /\ threads[SelectInSeq(threads, Idle)] \in Workers
         /\ ~HasJob(threads[SelectInSeq(threads, Idle)])
  <1> DEFINE I == {i \in 1..Len(threads) : Idle(threads[i])}
  <1>1. SelectInSeq(threads, Idle) = IF I # {} THEN CHOOSE x \in I : \A y \in I : x <= y ELSE 0
    BY DEF SelectInSeq, Min
  <1>2. I # {}
    BY <1>1
  <1>3. \E x \in I : \A y \in I : x <= y
    <2>1. I \subseteq Nat
      BY ListBasics
    <2>2. QED
      BY <1>2, <2>1, Smallest
  <1>4. SelectInSeq(threads, Idle) \in I
    BY <1>1, <1>2, <1>3
  <1>5. PICK i \in 1..Len(threads) : i = SelectInSeq(threads, Idle) /\ Idle(threads[i])
    BY <1>4
  <1>6. threads[i] \in Range(threads) /\ threads[i] \in Workers
    BY ListBasics, ElementOfSeq
  <1>7. QED
    BY <1>5, <1>6 DEF Idle, HasJob

\* A job that arrives is given to a worker or waits.
LEMMA StepDispatchNow ==
  ASSUME Core, ~stuck, total \in Nat, NEW j \in Jobs, Arrives(j), DispatchNow(j),
         UNCHANGED <<timed, final>>
  PROVE  Core' /\ total' \in Nat
  <1> DEFINE first == SelectInSeq(threads, Idle)
  <1>1. CASE first # 0 /\ Give(threads[first], j)
    <2>1. threads \in Seq(Workers)
      BY DEF Core, PoolTypes
    <2>2. PICK w : w = threads[first]
      OBVIOUS
    <2>3. w \in Workers /\ w \in Range(threads) /\ ~HasJob(w) /\ Give(w, j)
      BY <1>1, <2>1, <2>2, FirstIdle
    <2>4. Core'
      BY <2>3, StepGive DEF Give, FreeAfterGive
    <2>5. QED
      BY <2>3, <2>4 DEF Give
  <1>2. CASE Enqueue(j)
    <2>1. waiting' = Append(waiting, j) /\ UNCHANGED <<freeCount, item, signal>>
      BY <1>2 DEF Enqueue
    <2>2. CASE StartThreads(total + 1)
      BY <2>1, <2>2, StartThreadsGrows, StepEnqueue
    <2>3. CASE UNCHANGED <<threads, total, stuck, at>>
      BY <2>1, <2>3, NobodyGrew, StepEnqueue
    <2>4. QED
      BY <1>2, <2>2, <2>3 DEF Enqueue
  <1>3. QED
    BY <1>1, <1>2 DEF DispatchNow
-----------------------------------------------------------------------------
\* Steps of the clients that leave the jobs and the workers alone.
LEMMA CoreOfClients ==
  ASSUME Core, UNCHANGED <<workers, queues, fate, final>>
  PROVE  Core'
  BY CoreStays DEF workers, worker, queues, core

\* cancel() takes a job out of the queue.
LEMMA CoreOfDequeue ==
  ASSUME Core, NEW c \in Clients, NEW j \in Jobs, Dequeue(c, j), UNCHANGED <<workers, transit>>
  PROVE  Core'
  <1>1. PoolTypes /\ Apart
    BY DEF Core
  <1>2. /\ j \in Waiting /\ waiting' = RemoveFirst(waiting, j) /\ timed' = timed
        /\ fate' = [fate EXCEPT ![j] = "cancelled"] /\ final' = final \cup {j}
    BY DEF Dequeue, ReturnFinal, Waiting
  <1>3. waiting' \in Seq(Jobs) /\ IsInjective(waiting') /\ Waiting' = Waiting \ {j}
    BY <1>1, <1>2, Removed DEF PoolTypes, Waiting
  <1>4. timed' = timed \ {j}
    BY <1>1, <1>2 DEF Apart
  <1>5. UNCHANGED <<threads, transit, at, item, signal, freeCount, stuck>>
    BY DEF workers, worker
  <1>6. QED
    BY <1>2, <1>3, <1>4, <1>5, StepCancelled

\* cancel() searches under both mutexes.
LEMMA CoreOfSearch ==
  ASSUME Core, Rest, NEW c \in Clients, NEW wait \in BOOLEAN, CancelSearch(c, wait)
  PROVE  Core'
  <1>1. PICK j : j = client[c].job
    OBVIOUS
  <1>2. /\ j \in Jobs /\ fate[j] # "new" /\ transit = Null /\ UNCHANGED <<workers, transit>>
    BY <1>1 DEF CancelSearch, Rest, CallsAgree, TimeKeeperLocked
  <1>3. CASE Dequeue(c, j)
    BY <1>2, <1>3, CoreOfDequeue
  <1>4. CASE /\ j \in timed
             /\ timed' = timed \ {j}
             /\ fate' = [fate EXCEPT ![j] = "cancelled"]
             /\ ReturnFinal(c, j)
             /\ UNCHANGED waiting
    <2>1. waiting \in Seq(Jobs) /\ IsInjective(waiting) /\ Waiting' = Waiting \ {j}
      BY <1>4 DEF Core, PoolTypes, Apart, Waiting
    <2>2. UNCHANGED <<threads, transit, at, item, signal, freeCount, stuck>>
      BY <1>2 DEF workers, worker
    <2>3. QED
      BY <1>2, <1>4, <2>1, <2>2, StepCancelled DEF ReturnFinal
  <1>5. CASE /\ j \notin Waiting \cup timed /\ Running(j) = {} /\ ReturnFinal(c, j)
             /\ UNCHANGED <<waiting, timed, fate>>
    BY <1>2, <1>5, StepNotFound DEF ReturnFinal, workers, worker
  <1>6. CASE UNCHANGED <<waiting, timed, fate, final>>
    BY <1>2, <1>6, CoreOfClients DEF queues
  <1>7. QED
    BY <1>1, <1>3, <1>4, <1>5, <1>6 DEF CancelSearch, Waiting

\* Every step preserves the part about jobs and workers.
LEMMA CoreStep ==
  ASSUME Core, Rest, [Next]_vars
  PROVE  Core'
  <1>1. CASE UNCHANGED vars
    BY <1>1, CoreStays DEF vars, queues, worker, clients, core
  <1>2. ASSUME NEW w \in Workers, Work(w) PROVE Core'
    <2>1. CASE Top(w)
      BY <2>1, StepRound DEF Top, clients
    <2>2. CASE Done(w)
      BY <2>2, StepRound DEF Done
    <2>3. CASE SelfDestruct(w)
      BY <2>3, StepDestruct
    <2>4. CASE Finish(w)
      BY <2>4, StepFinish
    <2>5. CASE Throw(w)
      BY <2>5, StepThrow
    <2>6. QED
      BY <1>2, <2>1, <2>2, <2>3, <2>4, <2>5, StepPlain DEF Work
  <1>3. ASSUME NEW j \in Jobs, Fire(j) PROVE Core'
    BY <1>3, StepFire DEF Fire, workers, worker, clients
  <1>4. CASE FireDispatch
    <2>1. transit \in Jobs /\ fate[transit] = "pending" /\ fate \in [Jobs -> {"new", "pending", "done", "thrown", "cancelled"}]
      BY <1>4 DEF FireDispatch, Core, PoolTypes, FatesAgree
    <2>2. Arrives(transit)
      BY <1>4, <2>1 DEF FireDispatch, Arrives
    <2>3. ~stuck /\ DispatchNow(transit) /\ UNCHANGED <<timed, final>> /\ total \in Nat
      BY <1>4 DEF FireDispatch, DispatchNow, clients, Rest
    <2>4. PICK j \in Jobs : j = transit
      BY <2>1
    <2>5. QED
      BY <2>2, <2>3, <2>4, StepDispatchNow
  <1>5. ASSUME NEW c \in Clients, NEW n \in Totals, SetTotal(c, n) PROVE Core'
    <2>1. ~stuck /\ UNCHANGED <<waiting, timed, transit, item, signal, freeCount, fate, final>>
      BY <1>5 DEF SetTotal, queues, clients
    <2>2. n \in Nat /\ total \in Nat
      BY PoolAssumption DEF Rest
    <2>3. CASE StartThreads(n)
      BY <2>1, <2>2, <2>3, StartThreadsGrows, StepGrow
    <2>4. CASE UNCHANGED <<threads, total, stuck, at>>
      BY <2>1, <2>4, CoreStays DEF core
    <2>5. QED
      BY <1>5, <2>3, <2>4 DEF SetTotal
  <1>6. ASSUME NEW c \in Clients, NEW j \in Jobs, Dispatch(c, j) PROVE Core'
    <2>1. Arrives(j) /\ ~stuck /\ DispatchNow(j) /\ UNCHANGED <<timed, final>> /\ total \in Nat
      BY <1>6 DEF Dispatch, Arrives, DispatchNow, clients, Rest
    <2>2. QED
      BY <2>1, StepDispatchNow
  <1>7. ASSUME NEW c \in Clients, NEW j \in Jobs, DispatchLater(c, j) PROVE Core'
    BY <1>7, StepLater DEF DispatchLater, workers, worker, clients
  <1>8. ASSUME NEW c \in Clients, NEW j \in Jobs, Cancel(c, j) PROVE Core'
    <2>1. CASE Dequeue(c, j)
      BY <1>8, <2>1, CoreOfDequeue DEF Cancel
    <2>2. CASE UNCHANGED <<waiting, timed, fate, final>>
      BY <1>8, <2>2, CoreOfClients DEF Cancel, queues
    <2>3. QED
      BY <1>8, <2>1, <2>2 DEF Cancel
  <1>9. ASSUME NEW c \in Clients, \/ CancelJoin(c) \/ WaitEvent(c) \/ WaitEnd(c) \/ WaitTimeout(c)
                                  \/ WaitRefused(c) \/ \E j \in Jobs : Wait(c, j)
        PROVE  Core'
    BY <1>9, CoreOfClients DEF CancelJoin, WaitEvent, WaitEnd, WaitTimeout,
                           WaitRefused, Wait
  <1>10. ASSUME NEW c \in Clients, Call(c) \/ Ongoing(c) \/ WaitTimeout(c) \/ WaitRefused(c)
         PROVE  Core'
    BY <1>5, <1>6, <1>7, <1>8, <1>9, <1>10, CoreOfSearch DEF Call, Ongoing
  <1>11. QED
    BY <1>1, <1>2, <1>3, <1>4, <1>10 DEF Next, KeepTime
-----------------------------------------------------------------------------
\* The rest of the invariant: a call stays about a job that was dispatched.
RestTypes == /\ dynamic \in BOOLEAN /\ total \in Nat /\ maximum \in Nat
             /\ free \in [Workers -> BOOLEAN] /\ code \in [Workers -> Jobs \cup {Null}]
             /\ waitingwcs \in [Jobs -> {"none", "clear", "signalled"}]
             /\ missed \in BOOLEAN
Calls == client \in [Clients -> ClientStates] /\ CallsAgree

\* The domains, and the calls.
LEMMA RestParts == (Rest => RestTypes /\ Calls) /\ (RestTypes' /\ Calls' => Rest')
  BY DEF Rest, RestTypes, Calls

\* No call changes, and no job becomes new again.
LEMMA CallsStay ==
  ASSUME Calls, client' = client, \A j \in Jobs : fate'[j] = "new" => fate[j] = "new"
  PROVE  Calls'
  BY DEF Calls, CallsAgree

\* A call about a dispatched job goes on.
LEMMA CallProceeds ==
  ASSUME Calls, NEW c \in Clients, NEW j \in Jobs, fate[j] # "new", NEW l \in ClientLabels,
         NEW w \in Workers \cup {Null}, Proceed(c, j, l, w), fate' = fate
  PROVE  Calls'
  BY DEF Calls, CallsAgree, Proceed, ClientStates

\* A call ends.
LEMMA CallReturns ==
  ASSUME Calls, NEW c \in Clients, Return(c),
         \A j \in Jobs : fate'[j] = "new" => fate[j] = "new"
  PROVE  Calls'
  BY DEF Calls, CallsAgree, Return, ClientStates, ClientLabels

\* Calls go on with the jobs they are about, or end.
LEMMA CallMoves ==
  ASSUME Calls, client' \in [Clients -> ClientStates], fate' = fate,
         \A c \in Clients : client'[c].at # "run" =>
           client[c].at # "run" /\ client'[c].job = client[c].job
  PROVE  Calls'
  BY DEF Calls, CallsAgree

\* The steps of a worker; Done also wakes the waiters.
LEMMA RestOfWorker ==
  ASSUME Core, Rest, NEW w \in Workers, Work(w)
  PROVE  Rest'
  <1>1. PoolTypes /\ ListAgrees /\ RestTypes /\ Calls
    BY RestParts DEF Core
  <1>2. CASE Run(w) \/ CountFree(w) \/ RetireUncount(w) \/ Exit(w) \/ EventTest(w) \/ EventSleep(w)
    <2>1. UNCHANGED <<sizes, free, code, waitingwcs, client, fate, missed>>
      BY <1>2 DEF Run, CountFree, RetireUncount, Exit, EventTest, EventSleep, others, clients
    <2>2. RestTypes'
      BY <1>1, <2>1 DEF RestTypes, sizes
    <2>3. QED
      BY <1>1, <2>1, <2>2, CallsStay, RestParts
  <1>3. CASE MarkFree(w) \/ RetireUnmark(w) \/ Begin(w)
    <2>1. UNCHANGED <<sizes, code, waitingwcs, client, fate, missed>>
      BY <1>3 DEF MarkFree, RetireUnmark, Begin, others, clients
    <2>2. free' = [free EXCEPT ![w] = TRUE] \/ free' = [free EXCEPT ![w] = FALSE]
      BY <1>3, Zenon DEF MarkFree, RetireUnmark, Begin
    <2>3. free' \in [Workers -> BOOLEAN]
      BY <1>1, <2>2 DEF RestTypes
    <2>4. RestTypes'
      BY <1>1, <2>1, <2>3 DEF RestTypes, sizes
    <2>5. QED
      BY <1>1, <2>1, <2>4, CallsStay, RestParts
  <1>4. CASE Top(w) \/ SelfDestruct(w) \/ Throw(w)
    <2>1. UNCHANGED <<sizes, free, code, waitingwcs, client, missed>>
      BY <1>4 DEF Top, SelfDestruct, Throw, clients
    <2>2. \A j \in Jobs : fate'[j] = "new" => fate[j] = "new"
      BY <1>1, <1>4 DEF Top, SelfDestruct, Throw, PoolTypes
    <2>3. RestTypes'
      BY <1>1, <2>1 DEF RestTypes, sizes
    <2>4. QED
      BY <1>1, <2>1, <2>2, <2>3, CallsStay, RestParts
  <1>5. CASE Finish(w)
    <2>1. UNCHANGED <<sizes, free, waitingwcs, client, missed>>
      BY <1>5 DEF Finish, clients
    <2>2. \A j \in Jobs : fate'[j] = "new" => fate[j] = "new"
      BY <1>1, <1>5 DEF Finish, PoolTypes
    <2>3. code' \in [Workers -> Jobs \cup {Null}]
      BY <1>1, <1>5 DEF Finish, PoolTypes, RestTypes
    <2>4. RestTypes'
      BY <1>1, <2>1, <2>3 DEF RestTypes, sizes
    <2>5. QED
      BY <1>1, <2>1, <2>2, <2>4, CallsStay, RestParts
  <1>6. CASE Done(w)
    <2>1. UNCHANGED <<sizes, free, fate>> /\ code' = [code EXCEPT ![w] = Null]
      BY <1>6 DEF Done
    <2>2. code' \in [Workers -> Jobs \cup {Null}]
      BY <1>1, <2>1 DEF RestTypes
    <2>3. PICK j : WakeWaiters(j)
      BY <1>6 DEF Done
    <2>4. CASE UNCHANGED <<waitingwcs, client, missed>>
      <3>1. RestTypes'
        BY <1>1, <2>1, <2>2, <2>4 DEF RestTypes, sizes
      <3>2. QED
        BY <1>1, <2>1, <2>4, <3>1, CallsStay, RestParts
    <2>5. CASE /\ waitingwcs' = [waitingwcs EXCEPT ![j] = "signalled"]
               /\ client' = [c \in Clients |-> IF c \in WaitersOf(j, "asleep")
                               THEN [client[c] EXCEPT !.at = "woken"] ELSE client[c]]
               /\ missed' = (missed \/ WaitersOf(j, "gap") # {})
      <3>1. waitingwcs' \in [Jobs -> {"none", "clear", "signalled"}]
        BY <1>1, <2>5 DEF RestTypes
      <3>2. missed' \in BOOLEAN
        BY <2>5, Zenon
      <3>3. RestTypes'
        BY <1>1, <2>1, <2>2, <3>1, <3>2 DEF RestTypes, sizes
      <3>4. client' \in [Clients -> ClientStates]
        BY <1>1, <2>5 DEF Calls, ClientStates, ClientLabels
      <3>5. \A c \in Clients : client'[c].at # "run" =>
              client[c].at # "run" /\ client'[c].job = client[c].job
        BY <1>1, <2>5 DEF Calls, ClientStates, WaitersOf
      <3>6. QED
        BY <1>1, <2>1, <3>3, <3>4, <3>5, CallMoves, RestParts
    <2>6. QED
      BY <2>3, <2>4, <2>5 DEF WakeWaiters
  <1>7. QED
    BY <1>2, <1>3, <1>4, <1>5, <1>6 DEF Work

\* A dispatch, by a client or by the time keeper.
LEMMA RestOfDispatch ==
  ASSUME Core, Rest, ~stuck, NEW j \in Jobs, Arrives(j), DispatchNow(j),
         UNCHANGED <<timed, final>>
  PROVE  Rest'
  <1>1. PoolTypes /\ FatesAgree /\ RestTypes /\ Calls
    BY RestParts DEF Core
  <1>2. /\ UNCHANGED <<dynamic, maximum, free, code, waitingwcs, client>>
        /\ \/ \E w : Give(w, j)
           \/ Enqueue(j)
    BY DEF DispatchNow, clients
  <1>3. total' \in Nat
    BY <1>1, StepDispatchNow DEF RestTypes
  <1>4. missed' \in BOOLEAN
    <2>1. CASE \E w : Give(w, j)
      <3>1. PICK w : missed' = (missed \/ at[w] = "gap")
        BY <2>1 DEF Give
      <3>2. QED
        BY <3>1, Zenon
    <2>2. CASE Enqueue(j)
      BY <1>1, <2>2 DEF Enqueue, RestTypes
    <2>3. QED
      BY <1>2, <2>1, <2>2
  <1>5. RestTypes'
    BY <1>1, <1>2, <1>3, <1>4 DEF RestTypes
  <1>6. \A k \in Jobs : fate'[k] = "new" => fate[k] = "new"
    BY <1>1 DEF Arrives, PoolTypes
  <1>7. QED
    BY <1>1, <1>2, <1>5, <1>6, CallsStay, RestParts

\* cancel() returns or goes on.
LEMMA RestOfCancel ==
  ASSUME Core, Rest, NEW c \in Clients, NEW j \in Jobs, fate[j] # "new",
         UNCHANGED <<workers, waitingwcs>>,
         \/ Return(c) /\ (fate' = fate \/ fate' = [fate EXCEPT ![j] = "cancelled"])
         \/ fate' = fate /\ \E l \in ClientLabels, w \in Workers \cup {Null} : Proceed(c, j, l, w)
  PROVE  Rest'
  <1>1. PoolTypes /\ RestTypes /\ Calls
    BY RestParts DEF Core
  <1>2. RestTypes'
    BY <1>1 DEF RestTypes, workers, worker, sizes
  <1>3. \A k \in Jobs : fate' = fate \/ fate' = [fate EXCEPT ![j] = "cancelled"] =>
                          (fate'[k] = "new" => fate[k] = "new")
    BY <1>1 DEF PoolTypes
  <1>4. Calls'
    BY <1>1, <1>3, CallReturns, CallProceeds
  <1>5. QED
    BY <1>2, <1>4, RestParts

\* Every step preserves the rest of the invariant.
LEMMA RestStep ==
  ASSUME Core, Rest, [Next]_vars
  PROVE  Rest'
  <1>1. PoolTypes /\ FatesAgree /\ RestTypes /\ Calls
    BY RestParts DEF Core
  <1>2. CASE UNCHANGED vars
    <2>1. UNCHANGED <<sizes, free, code, waitingwcs, client, fate, missed>>
      BY <1>2 DEF vars, worker, clients
    <2>2. RestTypes'
      BY <1>1, <2>1 DEF RestTypes, sizes
    <2>3. QED
      BY <1>1, <2>1, <2>2, CallsStay, RestParts
  <1>3. ASSUME NEW j \in Jobs, Fire(j) PROVE Rest'
    <2>1. UNCHANGED <<sizes, free, code, waitingwcs, client, fate, missed>>
      BY <1>3 DEF Fire, workers, worker, clients
    <2>2. RestTypes'
      BY <1>1, <2>1 DEF RestTypes, sizes
    <2>3. QED
      BY <1>1, <2>1, <2>2, CallsStay, RestParts
  <1>4. CASE FireDispatch
    <2>1. transit \in Jobs /\ fate[transit] = "pending"
      BY <1>1, <1>4 DEF FireDispatch, PoolTypes, FatesAgree
    <2>2. Arrives(transit)
      BY <1>1, <1>4, <2>1 DEF FireDispatch, Arrives, PoolTypes
    <2>3. ~stuck /\ DispatchNow(transit) /\ UNCHANGED <<timed, final>>
      BY <1>4 DEF FireDispatch, DispatchNow, clients
    <2>4. PICK j \in Jobs : j = transit
      BY <2>1
    <2>5. QED
      BY <2>2, <2>3, <2>4, RestOfDispatch
  <1>5. ASSUME NEW c \in Clients, NEW n \in Totals, SetTotal(c, n) PROVE Rest'
    <2>1. /\ maximum' = n /\ n \in Nat /\ ~stuck
          /\ UNCHANGED <<dynamic, free, code, waitingwcs, client, fate, missed>>
      BY <1>5, PoolAssumption DEF SetTotal, clients
    <2>2. total' \in Nat
      <3>1. CASE StartThreads(n)
        BY <2>1, <3>1 DEF StartThreads
      <3>2. CASE total' = total
        BY <1>1, <3>2 DEF RestTypes
      <3>3. QED
        BY <1>5, <3>1, <3>2 DEF SetTotal
    <2>3. RestTypes'
      BY <1>1, <2>1, <2>2 DEF RestTypes
    <2>4. QED
      BY <1>1, <2>1, <2>3, CallsStay, RestParts
  <1>6. ASSUME NEW c \in Clients, NEW j \in Jobs, Dispatch(c, j) PROVE Rest'
    <2>1. Arrives(j) /\ ~stuck /\ DispatchNow(j) /\ UNCHANGED <<timed, final>>
      BY <1>6 DEF Dispatch, Arrives, DispatchNow, clients
    <2>2. QED
      BY <2>1, RestOfDispatch
  <1>7. ASSUME NEW c \in Clients, NEW j \in Jobs, DispatchLater(c, j) PROVE Rest'
    <2>1. UNCHANGED <<sizes, free, code, waitingwcs, client, missed>>
      BY <1>7 DEF DispatchLater, workers, worker, clients
    <2>2. RestTypes'
      BY <1>1, <2>1 DEF RestTypes, sizes
    <2>3. \A k \in Jobs : fate'[k] = "new" => fate[k] = "new"
      BY <1>1, <1>7 DEF DispatchLater, PoolTypes
    <2>4. QED
      BY <1>1, <2>1, <2>2, <2>3, CallsStay, RestParts
  <1>8. ASSUME NEW c \in Clients, NEW j \in Jobs, Cancel(c, j) PROVE Rest'
    <2>1. CASE Dequeue(c, j)
      BY <1>8, <2>1, RestOfCancel DEF Cancel, Dequeue, ReturnFinal
    <2>2. CASE Proceed(c, j, "cancel", Null) /\ UNCHANGED fate
      BY <1>8, <2>2, RestOfCancel DEF Cancel, ClientLabels
    <2>3. QED
      BY <1>8, <2>1, <2>2 DEF Cancel
  <1>9. ASSUME NEW c \in Clients, NEW wait \in BOOLEAN, CancelSearch(c, wait) PROVE Rest'
    <2>1. PICK j : j = client[c].job
      OBVIOUS
    <2>2. /\ j \in Jobs /\ fate[j] # "new" /\ UNCHANGED <<workers, waitingwcs>>
      BY <1>1, <1>9, <2>1 DEF CancelSearch, Calls, CallsAgree
    <2>3. CASE Return(c) /\ (fate' = fate \/ fate' = [fate EXCEPT ![j] = "cancelled"])
      BY <2>2, <2>3, RestOfCancel
    <2>4. CASE fate' = fate /\ \E w \in Running(j) : Proceed(c, j, "join", w)
      <3>1. Running(j) \subseteq Workers
        BY <1>1, ListBasics DEF Running, PoolTypes
      <3>2. QED
        BY <2>2, <2>4, <3>1, RestOfCancel DEF ClientLabels
    <2>5. QED
      BY <1>9, <2>1, <2>3, <2>4 DEF CancelSearch, Dequeue, ReturnFinal
  <1>10. ASSUME NEW c \in Clients, CancelJoin(c) \/ WaitTimeout(c) PROVE Rest'
    <2>1. UNCHANGED <<workers, waitingwcs, fate>> /\ Return(c)
      BY <1>10 DEF CancelJoin, WaitTimeout
    <2>2. RestTypes'
      BY <1>1, <2>1 DEF RestTypes, workers, worker, sizes
    <2>3. QED
      BY <1>1, <2>1, <2>2, CallReturns, RestParts
  <1>11. ASSUME NEW c \in Clients, WaitEnd(c) PROVE Rest'
    <2>1. UNCHANGED <<workers, fate>> /\ Return(c)
      BY <1>11 DEF WaitEnd
    <2>2. waitingwcs' \in [Jobs -> {"none", "clear", "signalled"}]
      BY <1>1, <1>11 DEF WaitEnd, RestTypes
    <2>3. RestTypes'
      BY <1>1, <2>1, <2>2 DEF RestTypes, workers, worker, sizes
    <2>4. QED
      BY <1>1, <2>1, <2>3, CallReturns, RestParts
  <1>12. ASSUME NEW c \in Clients, WaitEvent(c) \/ WaitRefused(c) PROVE Rest'
    <2>1. UNCHANGED <<workers, waitingwcs, fate>>
      BY <1>12 DEF WaitEvent, WaitRefused
    <2>2. PICK l \in {"woken", "gap", "asleep"} :
            client' = [client EXCEPT ![c].at = l] /\ client[c].at \in {"test", "gap"}
      BY <1>12 DEF WaitEvent, WaitRefused
    <2>3. client' \in [Clients -> ClientStates]
      BY <1>1, <2>2 DEF Calls, ClientStates, ClientLabels
    <2>4. \A d \in Clients : client'[d].at # "run" =>
            client[d].at # "run" /\ client'[d].job = client[d].job
      BY <1>1, <2>2 DEF Calls, ClientStates
    <2>5. RestTypes'
      BY <1>1, <2>1 DEF RestTypes, workers, worker, sizes
    <2>6. QED
      BY <1>1, <2>1, <2>3, <2>4, <2>5, CallMoves, RestParts
  <1>13. ASSUME NEW c \in Clients, NEW j \in Jobs, Wait(c, j) PROVE Rest'
    <2>1. UNCHANGED <<workers, fate>> /\ fate[j] # "new"
      BY <1>13 DEF Wait
    <2>2. waitingwcs' \in [Jobs -> {"none", "clear", "signalled"}]
      BY <1>1, <1>13 DEF Wait, RestTypes
    <2>3. RestTypes'
      BY <1>1, <2>1, <2>2 DEF RestTypes, workers, worker, sizes
    <2>4. CASE client' = client
      BY <1>1, <2>1, <2>3, <2>4, CallsStay, RestParts
    <2>5. CASE Proceed(c, j, "test", Null)
      BY <1>1, <2>1, <2>3, <2>5, CallProceeds, RestParts DEF ClientLabels
    <2>6. QED
      BY <1>13, <2>4, <2>5 DEF Wait
  <1>14. ASSUME NEW c \in Clients, Call(c) \/ Ongoing(c) \/ WaitTimeout(c) \/ WaitRefused(c)
         PROVE  Rest'
    BY <1>5, <1>6, <1>7, <1>8, <1>9, <1>10, <1>11, <1>12, <1>13, <1>14 DEF Call, Ongoing
  <1>15. QED
    BY <1>2, <1>3, <1>4, <1>14, RestOfWorker DEF Next, KeepTime
-----------------------------------------------------------------------------
\* The threads that a pool of fixed size starts with.
LEMMA InitThreads ==
  ASSUME Init
  PROVE  threads \in Seq(Workers) /\ IsInjective(threads) /\ total \in Nat /\ maximum \in Nat
  <1>1. total \in Nat /\ maximum \in Nat /\ total <= Cardinality(Workers)
    BY PoolAssumption DEF Init
  <1>2. PICK A : A = (CHOOSE S \in SUBSET Workers : Cardinality(S) = total)
    OBVIOUS
  <1>3. A \in SUBSET Workers
    <2>1. \E U \in SUBSET Workers : Cardinality(U) = total
      BY <1>1, PoolAssumption, SubsetOfSize
    <2>2. QED
      BY <1>2, <2>1
  <1>4. IsFiniteSet(A)
    BY <1>3, PoolAssumption, FS_Subset
  <1>5. SetToSeq(A) \in Seq(A) /\ IsInjective(SetToSeq(A))
    BY <1>4, Listed
  <1>6. SetToSeq(A) \in Seq(Workers)
    BY <1>3, <1>5, SeqMonotonic
  <1>7. threads = SetToSeq(A)
    BY <1>2 DEF Init
  <1>8. QED
    BY <1>1, <1>5, <1>6, <1>7

\* The invariant holds of a new pool.
LEMMA InitIInv == Init => Core /\ Rest
  <1> SUFFICES ASSUME Init PROVE Core /\ Rest
    OBVIOUS
  <1>1. threads \in Seq(Workers) /\ IsInjective(threads) /\ total \in Nat /\ maximum \in Nat
    BY InitThreads
  <1>2. waiting = <<>> /\ waiting \in Seq(Jobs) /\ IsInjective(waiting) /\ Waiting = {}
    <2>1. waiting = <<>> /\ waiting \in Seq(Jobs) /\ Len(waiting) = 0 /\ DOMAIN waiting = {}
      BY EmptySeq DEF Init
    <2>2. QED
      BY <2>1 DEF IsInjective, Waiting, Range
  <1>3. PoolTypes
    <2>1. at \in [Workers -> WorkerLabels]
      BY DEF Init, WorkerLabels
    <2>2. signal \in [Workers -> BOOLEAN] /\ stuck \in BOOLEAN
      BY DEF Init
    <2>3. freeCount \in Int
      BY DEF Init
    <2>4. item \in [Workers -> Jobs \cup {Null}] /\ timed \subseteq Jobs /\ final \subseteq Jobs
          /\ transit \in Jobs \cup {Null}
      BY DEF Init
    <2>5. fate \in [Jobs -> {"new", "pending", "done", "thrown", "cancelled"}]
      BY DEF Init
    <2>6. QED
      BY <1>1, <1>2, <2>1, <2>2, <2>4, <2>5, <2>3 DEF PoolTypes
  <1>4. ListAgrees
    BY DEF Init, ListAgrees, HasJob
  <1>5. Apart /\ FatesAgree /\ FinalAgrees
    BY <1>2, PoolAssumption DEF Init, Apart, FatesAgree, FinalAgrees, HasJob
  <1>6. CountAgrees
    <2>1. Owed = {} /\ IsFiniteSet(Ready)
      BY PoolAssumption, FS_Subset DEF Init, Owed, Ready
    <2>2. Cardinality(Owed) = 0 /\ Cardinality(Ready) \in Nat
      BY <2>1, FS_EmptySet, FS_CardinalityType
    <2>3. \A w \in Workers : ~Pending(w)
      BY DEF Init, Pending, HasJob
    <2>4. freeCount = 0
      BY DEF Init
    <2>5. QED
      BY <2>2, <2>3, <2>4 DEF CountAgrees
  <1>7. EventsAgree
    BY DEF Init, EventsAgree
  <1>8. Rest
    <2>1. free \in [Workers -> BOOLEAN] /\ missed \in BOOLEAN /\ dynamic \in BOOLEAN
      BY DEF Init
    <2>2. client \in [Clients -> ClientStates] /\ \A c \in Clients : client[c].at = "run"
      BY DEF Init, ClientStates, ClientLabels
    <2>3. code \in [Workers -> Jobs \cup {Null}] /\ waitingwcs \in [Jobs -> {"none", "clear", "signalled"}]
      BY DEF Init
    <2>4. QED
      BY <1>1, <2>1, <2>2, <2>3 DEF Rest, CallsAgree
  <1>9. QED
    BY <1>3, <1>4, <1>5, <1>6, <1>7, <1>8 DEF Core

\* The inductive invariant holds: the lists, the places and the fates of the jobs,
\* free and the events agree in every reachable state.
THEOREM Invariance == Spec => []IInv
  <1>1. Init => Core /\ Rest
    BY InitIInv
  <1>2. Core /\ Rest /\ [Next]_vars => (Core /\ Rest)'
    BY CoreStep, RestStep
  <1>3. Core /\ Rest => IInv
    BY IInvParts
  <1>4. QED
    BY <1>1, <1>2, <1>3, PTL DEF Spec

\* Every variable stays in its domain, and no worker or job is twice in a list.
THEOREM TypeCorrect == Spec => []TypeOK
  <1>1. IInv => TypeOK
    BY DEF IInv, Lists
  <1>2. QED
    BY <1>1, Invariance, PTL
-----------------------------------------------------------------------------
\* Counting the places of a job.
LEMMA AtMostOne ==
  ASSUME NEW S, \A x, y \in S : x = y
  PROVE  Cardinality(S) = IF S = {} THEN 0 ELSE 1
  <1>1. CASE S = {}
    BY <1>1, FS_EmptySet
  <1>2. CASE S # {}
    <2>1. PICK x : S = {x}
      BY <1>2
    <2>2. QED
      BY <2>1, FS_Singleton
  <1>3. QED
    BY <1>1, <1>2

\* Places(j) is 0 or 1, and 0 when the job is nowhere.
LEMMA PlacesOf ==
  ASSUME IInv, NEW j \in Jobs
  PROVE  Places(j) <= 1 /\ (Places(j) = 0 <=> Nowhere(j))
  <1>1. waiting \in Seq(Jobs) /\ IsInjective(waiting) /\ Apart
    BY DEF IInv, Lists, TypeOK
  <1>2. j # Null
    BY PoolAssumption
  <1> DEFINE queued == {i \in DOMAIN waiting : waiting[i] = j}
             held == {w \in Workers : item[w] = j}
  <1>3. /\ Cardinality(queued) = IF queued = {} THEN 0 ELSE 1
        /\ queued = {} <=> j \notin Waiting
    <2>1. \A x, y \in queued : x = y
      BY <1>1 DEF IsInjective
    <2>2. queued = {} <=> j \notin Waiting
      BY DEF Waiting, Range
    <2> HIDE DEF queued
    <2>3. QED
      BY <2>1, <2>2, AtMostOne
  <1>4. /\ Cardinality(held) = IF held = {} THEN 0 ELSE 1
        /\ held = {} <=> \A w \in Workers : item[w] # j
    <2>1. \A x, y \in held : x = y
      BY <1>1, <1>2 DEF Apart, HasJob
    <2>2. held = {} <=> \A w \in Workers : item[w] # j
      OBVIOUS
    <2> HIDE DEF held
    <2>3. QED
      BY <2>1, <2>2, AtMostOne
  <1>5. Places(j) = Cardinality(queued) + Cardinality(held)
                    + (IF j \in timed THEN 1 ELSE 0) + (IF j = transit THEN 1 ELSE 0)
    BY DEF Places
  <1>6. /\ j \in Waiting => j \notin timed /\ j # transit /\ \A w \in Workers : item[w] # j
        /\ j \in timed => j # transit /\ \A w \in Workers : item[w] # j
        /\ j = transit => \A w \in Workers : item[w] # j
    BY <1>1, <1>2 DEF Apart, HasJob
  <1> HIDE DEF queued, held
  <1>7. QED
    BY <1>3, <1>4, <1>5, <1>6 DEF Nowhere

\* A job is never handed to two workers nor kept in two lists; once it has run or
\* was cancelled it is nowhere.
THEOREM JobsInOnePlace == Spec => []OnePlace
  <1>1. IInv => OnePlace
    <2> SUFFICES ASSUME IInv, NEW j \in Jobs
                 PROVE  /\ Places(j) <= 1
                        /\ fate[j] \in {"new", "done", "cancelled"} => Places(j) = 0
      BY DEF OnePlace
    <2>1. Places(j) <= 1 /\ (Places(j) = 0 <=> Nowhere(j))
      BY PlacesOf
    <2>2. ASSUME fate[j] \in {"new", "done", "cancelled"} PROVE Nowhere(j)
      <3>1. j # Null /\ FatesAgree
        BY PoolAssumption DEF IInv
      <3>2. QED
        BY <2>2, <3>1 DEF FatesAgree, Nowhere, HasJob
    <2>3. QED
      BY <2>1, <2>2
  <1>2. QED
    BY <1>1, Invariance, PTL

\* Once cancel() has answered NotFound or Cancelled for a job, it will not run.
THEOREM CancelsAreFinal == Spec => []CancelIsFinal
  <1>1. IInv => CancelIsFinal
    <2> SUFFICES ASSUME IInv, NEW j \in final PROVE Places(j) = 0
      BY DEF CancelIsFinal
    <2>1. j \in Jobs /\ Nowhere(j)
      BY DEF IInv, Lists, TypeOK, FinalAgrees
    <2>2. QED
      BY <2>1, PlacesOf
  <1>2. QED
    BY <1>1, Invariance, PTL

\* free never counts more workers than there are between their ++free and the job
\* they are given.
THEOREM FreeIsNotOverstated == Spec => []FreeNotOverstated
  <1>1. IInv => FreeNotOverstated
    <2> SUFFICES ASSUME IInv PROVE FreeNotOverstated
      OBVIOUS
    <2>1. freeCount \in Int /\ freeCount + Cardinality(Owed) <= Cardinality(Ready)
      BY DEF IInv, Lists, TypeOK, CountAgrees
    <2>2. Ready \subseteq Counted
      BY DEF Ready, Counted, Free, Pending, HasJob
    <2>3. IsFiniteSet(Owed) /\ IsFiniteSet(Ready) /\ IsFiniteSet(Counted)
      BY PoolAssumption, FS_Subset DEF Owed, Ready, Counted
    <2>4. /\ Cardinality(Owed) \in Nat /\ Cardinality(Ready) \in Nat /\ Cardinality(Counted) \in Nat
          /\ Cardinality(Ready) <= Cardinality(Counted)
      BY <2>2, <2>3, FS_CardinalityType, FS_Subset
    <2>5. QED
      BY <2>1, <2>4 DEF FreeNotOverstated
  <1>2. QED
    BY <1>1, Invariance, PTL

\* As long as no job was lost, a worker whose event lets it through has a job to call.
THEOREM WokenHaveJobs == Spec => []WorkerHasJob
  <1>1. IInv => WorkerHasJob
    <2> SUFFICES ASSUME IInv, JobsAreKept, NEW w \in Workers, at[w] \in {"woken", "busy"}
                 PROVE  item[w] # Null
      BY DEF WorkerHasJob
    <2>1. NoneLost
      <3> SUFFICES ASSUME NEW j \in Jobs, fate[j] = "pending" PROVE ~Nowhere(j)
        BY DEF NoneLost
      <3>1. Places(j) = 1
        BY DEF JobsAreKept
      <3>2. QED
        BY <3>1, PlacesOf
    <2>2. QED
      BY <2>1 DEF IInv, EventsAgree, ListAgrees, HasJob
  <1>2. QED
    BY <1>1, Invariance, PTL
=============================================================================
