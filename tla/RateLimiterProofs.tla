-------------------------- MODULE RateLimiterProofs --------------------------
(***************************************************************************)
(* Proofs about the sliding window (RateLimiter), for every set of         *)
(* addresses, every limit and every window.                                *)
(***************************************************************************)
EXTENDS RateLimiter, FiniteSetTheorems, TLAPS

\* _prune leaves a suffix, and drops stale entries only.
LEMMA PrunedIsSuffix ==
  ASSUME NEW q \in Seq(Nat), NEW r \in Pruned(q)
  PROVE  /\ r \in Seq(Nat)
         /\ \E n \in 0..Len(q) :
              /\ Len(r) = Len(q) - n
              /\ \A i \in 1..Len(r) : r[i] = q[n + i]
              /\ \A j \in 1..n : Stale(q[j])
<1>1. PICK n \in 0..Len(q) :
        r = SubSeq(q, n + 1, Len(q)) /\ \A j \in 1..n : Stale(q[j])
  BY DEF Pruned
<1>2. r \in Seq(Nat) /\ Len(r) = Len(q) - n
      /\ \A i \in 1..Len(r) : r[i] = q[n + i]
  BY <1>1
<1> QED BY <1>1, <1>2

\* Pruning a remembered suffix leaves a remembered suffix.
LEMMA PruneRemembers ==
  ASSUME NEW q \in Seq(Nat), NEW c \in Seq(Nat), NEW d \in 0..Len(c),
         Remembers(q, c, d), NEW r \in Pruned(q)
  PROVE  /\ r \in Seq(Nat) /\ Len(r) <= Len(q)
         /\ \E e \in 0..Len(c) : Remembers(r, c, e)
<1>1. r \in Seq(Nat) BY PrunedIsSuffix
<1>2. PICK n \in 0..Len(q) :
        /\ Len(r) = Len(q) - n
        /\ \A i \in 1..Len(r) : r[i] = q[n + i]
        /\ \A j \in 1..n : Stale(q[j])
  BY PrunedIsSuffix
<1>3. d + n \in 0..Len(c) /\ Len(c) = (d + n) + Len(r)
  BY <1>1, <1>2 DEF Remembers
<1>4. ASSUME NEW i \in 1..Len(r) PROVE r[i] = c[(d + n) + i]
  <2>1. n + i \in 1..Len(q) BY <1>1, <1>2
  <2>2. q[n + i] = c[d + (n + i)] BY <2>1 DEF Remembers
  <2>3. d + (n + i) = (d + n) + i BY <1>1
  <2>4. r[i] = q[n + i] BY <1>2
  <2> QED BY <2>2, <2>3, <2>4
<1>5. ASSUME NEW i \in 1..(d + n) PROVE Stale(c[i])
  <2>1. CASE i \in 1..d BY <2>1 DEF Remembers
  <2>2. CASE i \notin 1..d
    <3>1. i - d \in 1..n /\ i - d \in 1..Len(q) BY <2>2, <1>2
    <3>2. q[i - d] = c[d + (i - d)] BY <3>1 DEF Remembers
    <3> QED BY <3>1, <3>2, <1>2
  <2> QED BY <2>1, <2>2
<1>6. Remembers(r, c, d + n) BY <1>3, <1>4, <1>5 DEF Remembers
<1> QED BY <1>1, <1>2, <1>3, <1>6

\* The same failure is appended to a bucket and to its history.
LEMMA AppendRemembers ==
  ASSUME NEW q \in Seq(Nat), NEW c \in Seq(Nat), NEW d \in 0..Len(c),
         Remembers(q, c, d), NEW t \in Nat
  PROVE  Remembers(Append(q, t), Append(c, t), d)
<1>0. Len(c) = d + Len(q) BY DEF Remembers
<1>1. Len(Append(c, t)) = d + Len(Append(q, t)) BY <1>0
<1>2. ASSUME NEW i \in 1..Len(Append(q, t))
      PROVE  Append(q, t)[i] = Append(c, t)[d + i]
  <2>0. i \in 1..Len(q) \/ i = Len(q) + 1
    <3>1. Len(Append(q, t)) = Len(q) + 1 /\ Len(q) \in Nat OBVIOUS
    <3> QED BY <3>1
  <2>1. CASE i \in 1..Len(q)
    <3>1. d + i \in 1..Len(c) BY <2>1 DEF Remembers
    <3> QED BY <2>1, <3>1 DEF Remembers
  <2>2. CASE i = Len(q) + 1
    <3>1. d + (Len(q) + 1) = Len(c) + 1 BY <1>0
    <3>2. Append(q, t)[Len(q) + 1] = t OBVIOUS
    <3>3. Append(c, t)[Len(c) + 1] = t OBVIOUS
    <3> QED BY <2>2, <3>1, <3>2, <3>3
  <2> QED BY <2>0, <2>1, <2>2
<1>3. ASSUME NEW i \in 1..d PROVE Stale(Append(c, t)[i])
  BY DEF Remembers
<1> QED BY <1>1, <1>2, <1>3 DEF Remembers

Ordered(c) == \A i, j \in 1..Len(c) : i <= j => c[i] <= c[j]
Past(c) == \A i \in 1..Len(c) : c[i] <= now
Spaced(c) == \A i, j \in 1..Len(c) :
               j = i + MaxFailures => c[i] + Window < c[j]
Known(k) == \E d \in 0..Len(compared[k]) : Remembers(bucket[k], compared[k], d)

Inv == TypeOK /\ LimiterInv

\* A failure recorded after fewer than MaxFailures remembered ones is spaced.
LEMMA AppendSpaced ==
  ASSUME NEW q \in Seq(Nat), NEW c \in Seq(Nat), NEW d \in 0..Len(c),
         Remembers(q, c, d), Len(q) < MaxFailures, now \in Nat,
         Ordered(c), Past(c), Spaced(c)
  PROVE  /\ Ordered(Append(c, now)) /\ Past(Append(c, now))
         /\ Spaced(Append(c, now))
<1> DEFINE a == Append(c, now)
<1>1. Len(a) = Len(c) + 1 /\ a[Len(c) + 1] = now
      /\ \A i \in 1..Len(c) : a[i] = c[i] /\ c[i] \in Nat
  OBVIOUS
<1> HIDE DEF a
<1>2. Past(a)
  <2> SUFFICES ASSUME NEW i \in 1..Len(a) PROVE a[i] <= now
    BY DEF Past
  <2>1. CASE i \in 1..Len(c) BY <2>1, <1>1 DEF Past
  <2>2. CASE i = Len(c) + 1 BY <2>2, <1>1
  <2> QED BY <2>1, <2>2, <1>1
<1>3. Ordered(a)
  <2> SUFFICES ASSUME NEW i \in 1..Len(a), NEW j \in 1..Len(a), i <= j
               PROVE  a[i] <= a[j]
    BY DEF Ordered
  <2>1. CASE j \in 1..Len(c)
    <3>1. i \in 1..Len(c) BY <2>1
    <3> QED BY <2>1, <3>1, <1>1 DEF Ordered
  <2>2. CASE j = Len(c) + 1 BY <2>2, <1>1, <1>2 DEF Past
  <2> QED BY <2>1, <2>2, <1>1
<1>4. Spaced(a)
  <2> SUFFICES ASSUME NEW i \in 1..Len(a), NEW j \in 1..Len(a),
                      j = i + MaxFailures
               PROVE  a[i] + Window < a[j]
    BY DEF Spaced
  <2>1. CASE j \in 1..Len(c)
    <3>1. i \in 1..Len(c) BY <2>1, LimiterAssumption
    <3> QED BY <2>1, <3>1, <1>1 DEF Spaced
  <2>2. CASE j = Len(c) + 1
    <3>1. i \in 1..d BY <2>2, LimiterAssumption DEF Remembers
    <3>2. Stale(c[i]) BY <3>1 DEF Remembers
    <3>3. i \in 1..Len(c) BY <3>1
    <3> QED BY <2>2, <3>2, <3>3, <1>1 DEF Stale
  <2> QED BY <2>1, <2>2, <1>1
<1> QED BY <1>2, <1>3, <1>4 DEF a

\* Pruning the bucket of k, and nothing else, keeps the invariant.
LEMMA PruneStep ==
  ASSUME Inv, NEW k \in Keys, NEW q \in Pruned(bucket[k]), Keep(k, q),
         UNCHANGED <<now, compared>>
  PROVE  /\ bucket' \in [Keys -> Times] /\ Len(q) <= Len(bucket[k])
         /\ \A m \in Keys : Len(bucket'[m]) <= Len(bucket[m])
         /\ \A m \in Keys : Known(m)'
<1>1. bucket[k] \in Seq(Nat) /\ compared[k] \in Seq(Nat)
  BY DEF Inv, TypeOK, Times
<1>2. PICK d \in 0..Len(compared[k]) : Remembers(bucket[k], compared[k], d)
  BY DEF Inv, LimiterInv
<1>3. /\ q \in Seq(Nat) /\ Len(q) <= Len(bucket[k])
      /\ \E e \in 0..Len(compared[k]) : Remembers(q, compared[k], e)
  BY <1>1, <1>2, PruneRemembers
<1>4. bucket' \in [Keys -> Times]
      /\ \A m \in Keys : bucket'[m] = IF m = k THEN q ELSE bucket[m]
  BY <1>3 DEF Keep, Inv, TypeOK, Times
<1>5. ASSUME NEW m \in Keys
      PROVE  Len(bucket'[m]) <= Len(bucket[m]) /\ Known(m)'
  <2>1. CASE m = k
    BY <2>1, <1>3, <1>4 DEF Known, Remembers, Stale
  <2>2. CASE m # k
    <3>1. bucket'[m] = bucket[m] /\ compared'[m] = compared[m] /\ now' = now
      BY <2>2, <1>4
    <3>2. Len(bucket[m]) \in Nat BY DEF Inv, TypeOK, Times
    <3>3. Known(m) BY DEF Known, Inv, LimiterInv
    <3>4. Known(m)' BY <3>1, <3>3 DEF Known, Remembers, Stale
    <3> QED BY <3>1, <3>2, <3>4
  <2> QED BY <2>1, <2>2
<1> QED BY <1>3, <1>4, <1>5

\* LimiterInv, one address at a time.
LEMMA InvByKey ==
  LimiterInv <=>
    /\ \A k \in Keys : /\ Ordered(compared[k]) /\ Past(compared[k])
                       /\ Known(k) /\ Spaced(compared[k])
    /\ guessing # NoKey => Len(bucket[guessing]) < MaxFailures
BY DEF LimiterInv, Ordered, Past, Known, Spaced, WindowLimit

LEMMA InitInv == Init => Inv
<1> SUFFICES ASSUME Init PROVE Inv
  OBVIOUS
<1>1. \A k \in Keys : bucket[k] = <<>> /\ compared[k] = <<>>
  BY DEF Init
<1>2. <<>> \in Seq(Nat) /\ Len(<<>>) = 0 OBVIOUS
<1>3. TypeOK BY <1>2, LimiterAssumption DEF Init, TypeOK, Times
<1>4. ASSUME NEW k \in Keys PROVE Known(k)
  <2>1. bucket[k] = <<>> /\ compared[k] = <<>> BY <1>1
  <2>2. Remembers(bucket[k], compared[k], 0) BY <2>1 DEF Remembers
  <2> QED BY <2>1, <2>2 DEF Known
<1>5. LimiterInv
  BY <1>1, <1>4, InvByKey DEF Init, Ordered, Past, Spaced
<1> QED BY <1>3, <1>5 DEF Inv

\* Each step keeps the buckets suffixes of the history, and the history spaced.
LEMMA StepInv == Inv /\ [Next]_vars => Inv'
<1> SUFFICES ASSUME Inv, [Next]_vars PROVE Inv'
  OBVIOUS
<1> USE LimiterAssumption
<1>0. /\ \A k \in Keys : /\ Ordered(compared[k]) /\ Past(compared[k])
                         /\ Known(k) /\ Spaced(compared[k])
      /\ guessing # NoKey => Len(bucket[guessing]) < MaxFailures
      /\ \A k \in Keys : bucket[k] \in Seq(Nat) /\ compared[k] \in Seq(Nat)
      /\ now \in Nat
  BY InvByKey DEF Inv, TypeOK, Times
<1>1. CASE Tick
  <2>1. TypeOK' BY <1>1 DEF Tick, Inv, TypeOK
  <2>2. now' = now + 1 /\ UNCHANGED <<bucket, guessing, compared>>
    BY <1>1 DEF Tick
  <2>3. ASSUME NEW k \in Keys
        PROVE  /\ Ordered(compared[k])' /\ Past(compared[k])' /\ Known(k)'
               /\ Spaced(compared[k])'
    <3>1. PICK d \in 0..Len(compared[k]) : Remembers(bucket[k], compared[k], d)
      BY <1>0 DEF Known
    <3>2. \A i \in 1..Len(compared[k]) : compared[k][i] \in Nat BY <1>0
    <3>3. \A i \in 1..d : compared[k][i] + Window < now + 1
      BY <1>0, <3>1, <3>2 DEF Remembers, Stale
    <3>4. Known(k)'
      BY <2>2, <3>1, <3>3 DEF Known, Remembers, Stale
    <3>5. Past(compared[k])' BY <1>0, <2>2, <3>2 DEF Past
    <3> QED BY <1>0, <2>2, <3>4, <3>5 DEF Ordered, Spaced
  <2>4. LimiterInv'
    BY <1>0, <2>2, <2>3
    DEF LimiterInv, Ordered, Past, Known, Spaced, WindowLimit
  <2> QED BY <2>1, <2>4 DEF Inv
<1>2. CASE Leave
  <2>1. TypeOK' BY <1>2 DEF Leave, Inv, TypeOK
  <2>2. LimiterInv'
    BY <1>2 DEF Leave, Inv, LimiterInv, WindowLimit, Remembers, Stale
  <2> QED BY <2>1, <2>2 DEF Inv
<1>3. ASSUME NEW k \in Keys, Refuse(k) \/ Pass(k) PROVE Inv'
  <2>1. PICK q \in Pruned(bucket[k]) :
          Keep(k, q) /\ (Pass(k) => ~IsFull(q))
    BY <1>3 DEF Refuse, Pass
  <2>2. UNCHANGED <<now, compared>> BY <1>3 DEF Refuse, Pass
  <2>3. /\ bucket' \in [Keys -> Times]
        /\ \A m \in Keys : Len(bucket'[m]) <= Len(bucket[m])
        /\ \A m \in Keys : Known(m)'
    BY <2>1, <2>2, PruneStep
  <2>4. \A m \in Keys : bucket'[m] \in Seq(Nat) BY <2>3 DEF Times
  <2>5. ASSUME NEW m \in Keys PROVE Len(bucket'[m]) <= MaxFailures
    <3>1. Len(bucket'[m]) <= Len(bucket[m]) /\ Len(bucket[m]) <= MaxFailures
      BY <2>3 DEF Inv, TypeOK
    <3> QED BY <3>1, <2>4, <1>0
  <2>6. TypeOK'
    BY <1>3, <2>2, <2>3, <2>5 DEF Refuse, Pass, Inv, TypeOK
  <2>7. guessing' # NoKey => Len(bucket'[guessing']) < MaxFailures
    <3>1. CASE Refuse(k)
      BY <3>1, LimiterAssumption DEF Refuse
    <3>2. CASE Pass(k)
      <4>1. guessing' = k BY <3>2 DEF Pass
      <4>2. bucket'[k] = q BY <2>1 DEF Keep, Inv, TypeOK
      <4>3. q \in Seq(Nat) BY <2>4, <4>2
      <4> QED BY <2>1, <3>2, <4>1, <4>2, <4>3 DEF IsFull
    <3> QED BY <1>3, <3>1, <3>2
  <2>8. LimiterInv'
    BY <1>0, <2>2, <2>3, <2>7
    DEF LimiterInv, Ordered, Past, Known, Spaced, WindowLimit
  <2> QED BY <2>6, <2>8 DEF Inv
<1>4. CASE Record
  <2> DEFINE k == guessing
             a == Append(bucket[k], now)
             c == Append(compared[k], now)
  <2>1. k \in Keys BY <1>4 DEF Record, Inv, TypeOK
  <2>2. PICK q \in Pruned(a) : Keep(k, q) BY <1>4 DEF Record
  <2>3. PICK d \in 0..Len(compared[k]) : Remembers(bucket[k], compared[k], d)
    BY <1>0, <2>1 DEF Known
  <2>4. Len(bucket[k]) < MaxFailures /\ a \in Seq(Nat) /\ c \in Seq(Nat)
        /\ Len(a) = Len(bucket[k]) + 1 /\ Len(c) = Len(compared[k]) + 1
    BY <1>0, <2>1
  <2>5. Remembers(a, c, d) /\ d \in 0..Len(c)
    BY <1>0, <2>1, <2>3, <2>4, AppendRemembers
  <2>6. /\ q \in Seq(Nat) /\ Len(q) <= Len(a)
        /\ \E e \in 0..Len(c) : Remembers(q, c, e)
    BY <2>2, <2>4, <2>5, PruneRemembers
  <2>7. Ordered(c) /\ Past(c) /\ Spaced(c)
    BY <1>0, <2>1, <2>3, <2>4, AppendSpaced
  <2>8. now' = now /\ guessing' = NoKey /\ refused' = refused
        /\ compared' = [compared EXCEPT ![k] = c]
    BY <1>4 DEF Record
  <2>9. bucket' = [bucket EXCEPT ![k] = q] BY <2>2 DEF Keep
  <2> HIDE DEF a, c
  <2>10. ASSUME NEW m \in Keys
         PROVE  /\ Ordered(compared[m])' /\ Past(compared[m])' /\ Known(m)'
                /\ Spaced(compared[m])'
    <3>1. CASE m = k
      <4>1. compared'[m] = c /\ bucket'[m] = q
        BY <3>1, <2>1, <2>8, <2>9 DEF Inv, TypeOK
      <4> QED BY <4>1, <2>6, <2>7, <2>8
          DEF Ordered, Past, Spaced, Known, Remembers, Stale
    <3>2. CASE m # k
      <4>1. compared'[m] = compared[m] /\ bucket'[m] = bucket[m]
        BY <3>2, <2>8, <2>9 DEF Inv, TypeOK
      <4>2. now' = now BY <2>8
      <4>3. Known(m)' BY <4>1, <4>2, <1>0 DEF Known, Remembers, Stale
      <4>4. Past(compared[m])' BY <4>1, <4>2, <1>0 DEF Past
      <4> QED BY <4>1, <4>3, <4>4, <1>0 DEF Ordered, Spaced
    <3> QED BY <3>1, <3>2
  <2>11. Len(q) <= MaxFailures BY <2>4, <2>6, <1>0, <2>1
  <2>12. TypeOK'
    BY <2>1, <2>4, <2>6, <2>8, <2>9, <2>11 DEF Inv, TypeOK, Times
  <2>13. LimiterInv'
    BY <2>8, <2>10
    DEF LimiterInv, Ordered, Past, Known, Spaced, WindowLimit
  <2> QED BY <2>12, <2>13 DEF Inv
<1>5. CASE UNCHANGED vars
  <2>1. TypeOK' BY <1>5 DEF vars, Inv, TypeOK
  <2>2. LimiterInv'
    BY <1>5 DEF vars, Inv, LimiterInv, WindowLimit, Remembers, Stale
  <2> QED BY <2>1, <2>2 DEF Inv
<1> QED BY <1>1, <1>2, <1>3, <1>4, <1>5 DEF Next

\* No bucket outgrows the limit, and every variable keeps its type.
THEOREM TypeCorrect == Spec => []TypeOK
BY InitInv, StepInv, PTL DEF Spec, Inv

\* In no window of an address are more than MaxFailures guesses compared.
THEOREM GuessesLimited == Spec => []WindowLimit
BY InitInv, StepInv, PTL DEF Spec, Inv, LimiterInv

-----------------------------------------------------------------------------
(* Nobody is refused without reason.                                       *)

\* What _prune leaves begins with a failure that is not stale.
LEMMA PrunedHead ==
  ASSUME NEW q \in Seq(Nat), NEW r \in Pruned(q), Len(r) > 0
  PROVE  ~Stale(r[1])
<1>1. PICK n \in 0..Len(q) :
        r = SubSeq(q, n + 1, Len(q)) /\ (n < Len(q) => ~Stale(q[n + 1]))
  BY DEF Pruned
<1>2. Len(r) = Len(q) - n /\ n < Len(q) BY <1>1
<1>3. r[1] = q[n + 1] BY <1>1, <1>2
<1> QED BY <1>1, <1>2, <1>3

\* A full bucket without stale failures is that many recent ones.
LEMMA FullIsEarned ==
  ASSUME Inv, NEW k \in Keys, NEW q \in Pruned(bucket[k]), IsFull(q)
  PROVE  Cardinality(Recent(k)) >= MaxFailures
<1> DEFINE c == compared[k]
<1>1. bucket[k] \in Seq(Nat) /\ c \in Seq(Nat) /\ now \in Nat
  BY DEF Inv, TypeOK, Times
<1>2. PICK d \in 0..Len(c) : Remembers(bucket[k], c, d)
  BY DEF Inv, LimiterInv
<1>3. q \in Seq(Nat) /\ \E e \in 0..Len(c) : Remembers(q, c, e)
  BY <1>1, <1>2, PruneRemembers
<1>4. PICK e \in 0..Len(c) : Remembers(q, c, e)
  BY <1>3
<1>5. Len(q) >= MaxFailures /\ Len(q) > 0
  BY <1>3, LimiterAssumption DEF IsFull
<1>6. ~Stale(q[1]) BY <1>1, <1>5, PrunedHead
<1>7. Len(c) = e + Len(q) /\ q[1] = c[e + 1]
  BY <1>3, <1>4, <1>5 DEF Remembers
<1>8. (e + 1)..Len(c) \subseteq Recent(k)
  <2> SUFFICES ASSUME NEW i \in (e + 1)..Len(c) PROVE c[i] + Window >= now
    BY DEF Recent
  <2>1. e + 1 \in 1..Len(c) /\ i \in 1..Len(c) BY <1>5, <1>7, <1>3
  <2>2. c[e + 1] <= c[i] BY <2>1 DEF Inv, LimiterInv
  <2>3. ~(c[e + 1] + Window < now) BY <1>6, <1>7 DEF Stale
  <2>4. c[e + 1] \in Nat /\ c[i] \in Nat BY <1>1, <2>1
  <2>5. \A a, b, w, n \in Nat : a <= b /\ ~(a + w < n) => b + w >= n
    OBVIOUS
  <2> HIDE DEF c
  <2> QED BY <1>1, <2>2, <2>3, <2>4, <2>5, LimiterAssumption
<1>9. IsFiniteSet(Recent(k))
  <2>1. IsFiniteSet(1..Len(c)) BY <1>1, FS_Interval
  <2>2. Recent(k) \subseteq 1..Len(c) BY DEF Recent
  <2> QED BY <2>1, <2>2, FS_Subset
<1>10. Cardinality((e + 1)..Len(c)) = Len(q)
  <2>1. e + 1 \in Int /\ Len(c) \in Int /\ e + 1 <= Len(c)
    BY <1>1, <1>3, <1>5, <1>7
  <2>2. Cardinality((e + 1)..Len(c)) = Len(c) - (e + 1) + 1
    BY <2>1, FS_Interval
  <2> QED BY <1>1, <1>3, <1>7, <2>2
<1>11. Cardinality((e + 1)..Len(c)) <= Cardinality(Recent(k))
  BY <1>8, <1>9, FS_Subset
<1>12. Cardinality(Recent(k)) \in Nat BY <1>9, FS_CardinalityType
<1> QED BY <1>3, <1>5, <1>10, <1>11, <1>12, LimiterAssumption

\* A refusal is earned at its instant, and stays so until the clock moves.
LEMMA EarnedStep == Inv /\ RefusalEarned /\ [Next]_vars => RefusalEarned'
<1> SUFFICES ASSUME Inv, RefusalEarned, [Next]_vars, refused' # NoKey
             PROVE  Cardinality(Recent(refused)') >= MaxFailures
  BY DEF RefusalEarned
<1>1. ASSUME NEW k \in Keys, Refuse(k)
      PROVE  Cardinality(Recent(refused)') >= MaxFailures
  <2>1. Cardinality(Recent(k)) >= MaxFailures
    BY <1>1, FullIsEarned DEF Refuse
  <2>2. refused' = k /\ UNCHANGED <<now, compared>> BY <1>1 DEF Refuse
  <2> QED BY <2>1, <2>2 DEF Recent
<1>2. ~Tick BY DEF Tick
<1>3. CASE Record
  <2>1. /\ refused' = refused /\ now' = now /\ guessing \in Keys
        /\ refused \in Keys
        /\ compared' = [compared EXCEPT ![guessing] = Append(@, now)]
        /\ \A k \in Keys : compared[k] \in Seq(Nat)
    BY <1>3 DEF Record, Inv, TypeOK, Times
  <2>2. Recent(refused) \subseteq Recent(refused)'
    BY <2>1 DEF Recent, Inv, TypeOK
  <2>3. IsFiniteSet(Recent(refused)')
    <3>1. compared'[refused] \in Seq(Nat)
      BY <2>1 DEF Inv, TypeOK
    <3>2. IsFiniteSet(1..Len(compared'[refused])) BY <3>1, FS_Interval
    <3>3. Recent(refused)' \subseteq 1..Len(compared'[refused])
      BY <2>1 DEF Recent
    <3> QED BY <3>2, <3>3, FS_Subset
  <2>4. /\ IsFiniteSet(Recent(refused))
        /\ Cardinality(Recent(refused)) <= Cardinality(Recent(refused)')
    BY <2>2, <2>3, FS_Subset
  <2>5. /\ Cardinality(Recent(refused)) \in Nat
        /\ Cardinality(Recent(refused)') \in Nat
    BY <2>3, <2>4, FS_CardinalityType
  <2>6. Cardinality(Recent(refused)) >= MaxFailures
    BY <2>1 DEF RefusalEarned
  <2> QED BY <2>4, <2>5, <2>6, LimiterAssumption
<1>4. CASE Leave \/ (\E k \in Keys : Pass(k)) \/ UNCHANGED vars
  <2>1. UNCHANGED <<refused, now, compared>>
    BY <1>4 DEF Leave, Pass, vars
  <2> QED BY <2>1 DEF RefusalEarned, Recent
<1> QED BY <1>1, <1>2, <1>3, <1>4 DEF Next

\* Who is refused has had MaxFailures wrong guesses in the last Window.
THEOREM OnlyEarnedRefusals == Spec => []RefusalEarned
<1>1. Init => RefusalEarned BY DEF Init, RefusalEarned
<1> QED BY <1>1, InitInv, StepInv, EarnedStep, PTL DEF Spec

-----------------------------------------------------------------------------
(* The limiter implements its counter (FailureCounter).                    *)

LiveOf(q) == {i \in 1..Len(q) : ~Stale(q[i])}

LEMMA LiveFinite ==
  ASSUME NEW q \in Seq(Nat)
  PROVE  /\ IsFiniteSet(LiveOf(q)) /\ Cardinality(LiveOf(q)) \in Nat
         /\ Cardinality(LiveOf(q)) <= Len(q) /\ Len(q) \in Nat
<1>1. Len(q) \in Nat /\ LiveOf(q) \in SUBSET (1..Len(q)) BY DEF LiveOf
<1>2. IsFiniteSet(1..Len(q)) /\ Cardinality(1..Len(q)) = Len(q)
  <2>1. 1 \in Int /\ Len(q) \in Int BY <1>1
  <2>2. /\ IsFiniteSet(1..Len(q))
        /\ Cardinality(1..Len(q)) = IF 1 > Len(q) THEN 0 ELSE Len(q) - 1 + 1
    BY <2>1, FS_Interval
  <2> QED BY <1>1, <2>2
<1> QED BY <1>1, <1>2, FS_Subset, FS_CardinalityType

\* What _prune drops was not counted.
LEMMA PrunedLive ==
  ASSUME NEW q \in Seq(Nat), NEW r \in Pruned(q)
  PROVE  r \in Seq(Nat) /\ Cardinality(LiveOf(r)) = Cardinality(LiveOf(q))
<1>1. r \in Seq(Nat) BY PrunedIsSuffix
<1>2. PICK n \in 0..Len(q) :
        /\ Len(r) = Len(q) - n
        /\ \A i \in 1..Len(r) : r[i] = q[n + i]
        /\ \A j \in 1..n : Stale(q[j])
  BY PrunedIsSuffix
<1> DEFINE f == [i \in LiveOf(r) |-> n + i]
<1>3. ASSUME NEW i \in LiveOf(r) PROVE f[i] = n + i /\ n + i \in LiveOf(q)
  <2>1. i \in 1..Len(r) /\ ~Stale(r[i]) BY DEF LiveOf
  <2>2. n + i \in 1..Len(q) BY <1>2, <2>1
  <2> QED BY <1>2, <2>1, <2>2 DEF LiveOf
<1>4. f \in [LiveOf(r) -> LiveOf(q)] BY <1>3
<1>5. f \in Injection(LiveOf(r), LiveOf(q))
  <2>1. ASSUME NEW i \in LiveOf(r), NEW j \in LiveOf(r), f[i] = f[j] PROVE i = j
    <3>1. i \in Nat /\ j \in Nat /\ n \in Nat BY <1>1 DEF LiveOf
    <3>2. n + i = n + j BY <1>3, <2>1
    <3> QED BY <3>1, <3>2
  <2> QED BY <1>4, <2>1, Zenon DEF Injection, IsInjective
<1>6. f \in Surjection(LiveOf(r), LiveOf(q))
  <2>1. ASSUME NEW j \in LiveOf(q) PROVE \E i \in LiveOf(r) : f[i] = j
    <3>1. j \in 1..Len(q) /\ ~Stale(q[j]) BY DEF LiveOf
    <3>2. j \notin 1..n BY <1>2, <3>1, Zenon
    <3>3. j - n \in 1..Len(r) /\ n + (j - n) = j BY <1>2, <3>1, <3>2
    <3>4. j - n \in LiveOf(r) BY <1>2, <3>1, <3>3 DEF LiveOf
    <3> QED BY <1>3, <3>3, <3>4
  <2> QED BY <1>4, <2>1, Zenon DEF Surjection
<1>7. IsFiniteSet(LiveOf(q)) BY LiveFinite
<1> QED BY <1>1, <1>5, <1>6, <1>7, FS_Injection

\* A failure of this instant counts.
LEMMA AppendLive ==
  ASSUME NEW q \in Seq(Nat), now \in Nat
  PROVE  Cardinality(LiveOf(Append(q, now))) = Cardinality(LiveOf(q)) + 1
<1> DEFINE a == Append(q, now)
<1>1. /\ Len(a) = Len(q) + 1 /\ Len(q) \in Nat /\ a[Len(q) + 1] = now
      /\ \A i \in 1..Len(q) : a[i] = q[i]
  OBVIOUS
<1> HIDE DEF a
<1>2. ~Stale(now) BY LimiterAssumption DEF Stale
<1>3. LiveOf(a) = LiveOf(q) \cup {Len(q) + 1}
  <2>1. ASSUME NEW i PROVE i \in LiveOf(a) <=> i \in LiveOf(q) \cup {Len(q) + 1}
    <3>1. i \in 1..Len(a) <=> (i \in 1..Len(q) \/ i = Len(q) + 1) BY <1>1
    <3> QED BY <1>1, <1>2, <3>1 DEF LiveOf
  <2> QED BY <2>1, Zenon
<1>4. Len(q) + 1 \notin LiveOf(q) BY <1>1 DEF LiveOf
<1>5. Cardinality(LiveOf(a)) = Cardinality(LiveOf(q)) + 1
  BY <1>3, <1>4, LiveFinite, FS_AddElement
<1> QED BY <1>5 DEF a

Count == [k \in Keys |-> Cardinality(Live(k))]
Counted ==
  \A k \in Keys : /\ Count[k] = Cardinality(LiveOf(bucket[k])) /\ Count[k] \in 0..MaxFailures
                  /\ bucket[k] \in Seq(Nat)

LEMMA CountIs == Inv => Counted
<1> SUFFICES ASSUME Inv, NEW k \in Keys
             PROVE  /\ Count[k] = Cardinality(LiveOf(bucket[k])) /\ Count[k] \in 0..MaxFailures
                    /\ bucket[k] \in Seq(Nat)
  BY DEF Counted
<1>1. bucket[k] \in Seq(Nat) /\ Len(bucket[k]) <= MaxFailures BY DEF Inv, TypeOK, Times
<1>2. Count[k] = Cardinality(LiveOf(bucket[k])) BY DEF Count, Live, LiveOf
<1>3. /\ Cardinality(LiveOf(bucket[k])) \in Nat /\ Len(bucket[k]) \in Nat
      /\ Cardinality(LiveOf(bucket[k])) <= Len(bucket[k])
  BY <1>1, LiveFinite
<1> QED BY <1>1, <1>2, <1>3, LimiterAssumption

\* A step of the limiter raises one count, lowers some, or leaves them alone.
Ages == \A k \in Keys : Count'[k] <= Count[k]
Fails(k) == Count[k] < MaxFailures /\ Count' = [Count EXCEPT ![k] = @ + 1]

\* The counts after a step that is not of the clock.
LEMMA CountAfter ==
  ASSUME Counted', now' = now, NEW k \in Keys
  PROVE  Count'[k] = Cardinality(LiveOf(bucket'[k]))
<1>1. Count'[k] = Cardinality(LiveOf(bucket[k]))' BY DEF Counted
<1>2. LiveOf(bucket[k])' = LiveOf(bucket'[k]) BY DEF LiveOf, Stale
<1> QED BY <1>1, <1>2

LEMMA CountMoves ==
  ASSUME Inv, Counted, Counted', [Next]_vars
  PROVE  Ages \/ \E k \in Keys : Fails(k)
<1>1. now \in Nat BY DEF Inv, TypeOK
<1>2. CASE Tick
  <2>1. ASSUME NEW k \in Keys PROVE Count'[k] <= Count[k]
    <3>1. bucket' = bucket /\ now' = now + 1 BY <1>2 DEF Tick
    <3>2. bucket[k] \in Seq(Nat) BY DEF Counted
    <3>3. LiveOf(bucket[k])' \subseteq LiveOf(bucket[k])
      <4>1. ASSUME NEW t \in Nat, t + Window < now PROVE t + Window < now + 1
        BY <1>1, <4>1, LimiterAssumption
      <4>2. \A i \in 1..Len(bucket[k]) : bucket[k][i] \in Nat BY <3>2
      <4> QED BY <3>1, <4>1, <4>2 DEF LiveOf, Stale
    <3>4. IsFiniteSet(LiveOf(bucket[k])) BY <3>2, LiveFinite
    <3> QED BY <3>3, <3>4, FS_Subset DEF Counted
  <2> QED BY <2>1 DEF Ages
<1>3. ASSUME NEW k \in Keys, Refuse(k) \/ Pass(k) PROVE Ages
  <2>1. PICK q \in Pruned(bucket[k]) : Keep(k, q) BY <1>3 DEF Refuse, Pass
  <2>2. now' = now BY <1>3 DEF Refuse, Pass
  <2>3. ASSUME NEW m \in Keys PROVE Count'[m] <= Count[m]
    <3>1. Count'[m] = Cardinality(LiveOf(bucket'[m])) BY <2>2, CountAfter
    <3>2. bucket'[m] = IF m = k THEN q ELSE bucket[m] BY <2>1 DEF Keep, Inv, TypeOK
    <3>3. Cardinality(LiveOf(q)) = Cardinality(LiveOf(bucket[k])) BY PrunedLive DEF Counted
    <3>4. Count'[m] = Count[m] BY <3>1, <3>2, <3>3 DEF Counted
    <3> QED BY <3>4 DEF Counted
  <2> QED BY <2>3 DEF Ages
<1>4. CASE Record
  <2>1. guessing \in Keys /\ now' = now BY <1>4 DEF Record, Inv, TypeOK
  <2>2. PICK k \in Keys : k = guessing BY <2>1
  <2>3. PICK q \in Pruned(Append(bucket[k], now)) : Keep(k, q) BY <1>4, <2>2 DEF Record
  <2>4. bucket[k] \in Seq(Nat) /\ Append(bucket[k], now) \in Seq(Nat) BY <1>1 DEF Counted
  <2>5. Cardinality(LiveOf(q)) = Cardinality(LiveOf(bucket[k])) + 1
    BY <1>1, <2>4, PrunedLive, AppendLive
  <2>6. ASSUME NEW m \in Keys PROVE Count'[m] = IF m = k THEN Count[k] + 1 ELSE Count[m]
    <3>1. Count'[m] = Cardinality(LiveOf(bucket'[m])) BY <2>1, CountAfter
    <3>2. bucket'[m] = IF m = k THEN q ELSE bucket[m] BY <2>3 DEF Keep, Inv, TypeOK
    <3> QED BY <2>5, <3>1, <3>2 DEF Counted
  <2>7. Count' = [Count EXCEPT ![k] = @ + 1] BY <2>6 DEF Count
  <2>8. Count[k] < MaxFailures
    <3>1. Count'[k] \in 0..MaxFailures /\ Count[k] \in 0..MaxFailures BY DEF Counted
    <3>2. Count'[k] = Count[k] + 1 BY <2>6
    <3> QED BY <3>1, <3>2, LimiterAssumption
  <2> QED BY <2>7, <2>8 DEF Fails
<1>5. CASE Leave \/ UNCHANGED vars
  <2>1. bucket' = bucket /\ now' = now BY <1>5 DEF Leave, vars
  <2>2. ASSUME NEW m \in Keys PROVE Count'[m] <= Count[m]
    <3>1. Count'[m] = Count[m] BY <2>1, CountAfter DEF Counted
    <3> QED BY <3>1 DEF Counted
  <2> QED BY <2>2 DEF Ages
<1> QED BY <1>2, <1>3, <1>4, <1>5 DEF Next

\* What PairingAuthority assumes of the limiter: a count that a wrong guess raises by one, that
\* only time lowers, and that never passes the limit.
THEOREM CounterKept == Spec => CounterSpec
<1>1. Init => Counter!CounterInit
  <2> SUFFICES ASSUME Init PROVE Count = [k \in Keys |-> 0]
    BY DEF Counter!CounterInit, Count
  <2>1. ASSUME NEW k \in Keys PROVE Live(k) = {} BY DEF Init, Live
  <2> QED BY <2>1, FS_EmptySet DEF Count
<1>2. Inv /\ Counted /\ Counted' /\ [Next]_vars => [Counter!CounterNext]_Count
  <2> SUFFICES ASSUME Inv, Counted, Counted', [Next]_vars PROVE Counter!CounterNext
    OBVIOUS
  <2>1. CASE Ages
    <3>1. Count' \in [Keys -> 0..MaxFailures] BY DEF Counted, Count
    <3>2. Counter!Age BY <2>1, <3>1 DEF Ages, Counter!Age, Count
    <3> QED BY <3>2 DEF Counter!CounterNext
  <2>2. ASSUME NEW k \in Keys, Fails(k) PROVE Counter!CounterNext
    <3>1. Counter!Fail(k) BY <2>2 DEF Fails, Counter!Fail, Count
    <3> QED BY <3>1 DEF Counter!CounterNext
  <2> QED BY <2>1, <2>2, CountMoves
<1> QED BY <1>1, <1>2, CountIs, InitInv, StepInv, PTL
        DEF Spec, CounterSpec, Counter!CounterSpec, Count
=============================================================================
