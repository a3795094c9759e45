---------------------------- MODULE BackendProofs ----------------------------
(***************************************************************************)
(* Proofs about the admission of tasks to GPUs, for every finite set of    *)
(* tasks and of GPUs, whatever they ask for and whatever the tasks are     *)
(* seen to use:                                                            *)
(*   what the scheduler promises of a GPU can be kept;                     *)
(*   nobody is overtaken in the queue who could have been helped by        *)
(*   waiting.                                                              *)
(* A batch is a fold over the queue, and a ledger is a sum.                *)
(*                                                                         *)
(* And about what the web console shows of a GPU, for every report of it:  *)
(*   the shares of the owners add up to what their tasks use, every share  *)
(*   is fair, and the owners have different colours.                       *)
(* The shares are divisions, the order of the remainders a rank, and the   *)
(* colours a fold over the alphabet.                                       *)
(***************************************************************************)
EXTENDS GpuAdmission, GpuShares, FoldLemmas

-----------------------------------------------------------------------------
(* What of the state is used. *)

Sample == [Gpu -> [tasks : BOOLEAN, foreign : Nat]]

GpuTypeOK ==
  /\ life \in [Task -> {"new", "queued", "reserved", "running", "ended"}]
  /\ prio \in [Task -> Priority]
  /\ assigned \in [Task -> SUBSET Gpu]
  /\ peak \in [Exclusive -> [Gpu -> Nat]]
  /\ reclaimed \in [Exclusive -> [Gpu -> Nat]]
  /\ done \in SUBSET Exclusive
  /\ view \in SUBSET Task
  /\ samples \in Seq(Sample)

\* The snapshot lists tasks that have left the queue.
SeenWereLaunched == \A t \in view : life[t] \in {"reserved", "running", "ended"}

\* Only tasks that have run are decided, and the others have nothing reclaimed.
DecidedHaveRun ==
  /\ \A t \in done : life[t] \in {"running", "ended"}
  /\ \A t \in Exclusive \ done : \A g \in Gpu : reclaimed[t][g] = 0

\* Nobody else was seen on the GPUs that are the tasks' own.
QuietCards == \A i \in DOMAIN samples : \A g \in Gpu \ Noisy : samples[i][g].foreign = 0

GpuBasics == GpuTypeOK /\ SeenWereLaunched /\ DecidedHaveRun /\ QuietCards

\* What the cycle's thread has seen so far misses no task that was put on a GPU.
NothingMissed ==
  /\ phase = "half" => \A t \in Task : life[t] = "running" => t \in view
  /\ phase = "read" => \A t \in Task : Active(t) => t \in view

GpuInv == GpuBasics /\ NothingMissed /\ PromisesCanBeKept

-----------------------------------------------------------------------------
(* Ledgers. *)

\* The larger of two numbers, which the ledger takes of what is declared and what is seen.
LEMMA MaxOfTwo ==
  ASSUME NEW a \in Int, NEW b \in Int
  PROVE  Max({a, b}) = IF a >= b THEN a ELSE b
<1>1. IsFiniteSet({a, b})
  <2>1. {a, b} = {a} \cup {b}
    OBVIOUS
  <2>2. IsFiniteSet({a}) /\ IsFiniteSet({b})
    BY FS_Singleton
  <2>3. QED
    BY <2>1, <2>2, FS_Union
<1>2. {a, b} \in SUBSET Int /\ {a, b} # {}
  OBVIOUS
<1> DEFINE S == {a, b}
<1>3. Max(S) \in S /\ \A x \in S : Max(S) >= x
  <2> HIDE DEF S
  <2>1. S \in SUBSET Int /\ IsFiniteSet(S) /\ S # {}
    BY <1>1, <1>2 DEF S
  <2>2. QED
    BY <2>1, MaxIsLargest
<1>4. QED
  BY <1>3

\* A ledger sums natural numbers: what each task of a set has declared of a GPU.
LEMMA LedgerIsNatural ==
  ASSUME GpuTypeOK, NEW g \in Gpu
  PROVE  /\ \A t \in Task : Memory(g)[t] = Declared(t, g) /\ Memory(g)[t] \in Nat
         /\ \A S \in SUBSET Task : IsFiniteSet(S) /\ SumFunctionOnSet(Memory(g), S) \in Nat
         /\ Viewed(g) \in SUBSET Task /\ On(g) \in SUBSET Task
         /\ Managed(g) \in Nat
<1>1. ASSUME NEW t \in Task PROVE Memory(g)[t] = Declared(t, g) /\ Memory(g)[t] \in Nat
  <2>1. Memory(g)[t] = Declared(t, g)
    BY DEF Memory
  <2>2. Declared(t, g) \in Nat
    BY GpuAdmissionAssumption DEF Declared, GpuTypeOK
  <2>3. QED
    BY <2>1, <2>2
<1>2. ASSUME NEW S \in SUBSET Task
      PROVE  IsFiniteSet(S) /\ SumFunctionOnSet(Memory(g), S) \in Nat
  <2>1. IsFiniteSet(S)
    BY GpuAdmissionAssumption, FS_Subset
  <2>2. \A x \in S : Memory(g)[x] \in Nat
    BY <1>1
  <2> DEFINE f == Memory(g)
  <2> HIDE DEF f
  <2>3. \A x \in S : f[x] \in Nat
    BY <2>2 DEF f
  <2>4. SumFunctionOnSet(f, S) \in Nat
    BY <2>1, <2>3, SumOf
  <2>5. QED
    BY <2>1, <2>4 DEF f
<1>3. Viewed(g) \in SUBSET Task /\ On(g) \in SUBSET Task
  BY DEF Viewed, On, GpuTypeOK
<1>4. QED
  BY <1>1, <1>2, <1>3 DEF Managed

Batch == [decided : Seq(Task), gpus : [Task -> SUBSET Gpu], pending : [Gpu -> Nat],
          owned : SUBSET Gpu]

\* Memory that is free on a GPU may be given away.
LEMMA FreeIsThere ==
  ASSUME GpuTypeOK, NEW b \in Batch, NEW h \in Seq(Sample), NEW g \in Gpu
  PROVE  /\ Free(b, h, g) \in Nat
         /\ \A n \in Nat : n > 0 /\ Free(b, h, g) >= 100 * n =>
               100 * (Managed(g) + b.pending[g] + n) <= 98 * Total[g]
         /\ \A n \in Nat :
               98 * Total[g] >= 100 * (n + (Managed(g) + b.pending[g])) + 105 * ForeignPeak(h, g)
                  => Free(b, h, g) >= 100 * n
<1> DEFINE seen == {0} \cup {h[i][g].foreign : i \in DOMAIN h}
<1>1. seen \in SUBSET Nat
  BY DEF Sample
<1>2. IsFiniteSet(seen)
  <2>1. IsFiniteSet(DOMAIN h)
    <3>1. DOMAIN h = 1..Len(h) /\ Len(h) \in Int /\ 1 \in Int
      OBVIOUS
    <3>2. QED
      BY <3>1, FS_Interval
  <2>2. IsFiniteSet({h[i][g].foreign : i \in DOMAIN h})
    <3> DEFINE f == [i \in DOMAIN h |-> h[i][g].foreign]
               D == DOMAIN h
               V == {h[i][g].foreign : i \in DOMAIN h}
    <3>1. f \in Surjection(D, V)
      BY DEF Surjection
    <3>2. IsFiniteSet(V)
      <4> HIDE DEF f, D, V
      <4>1. IsFiniteSet(D)
        BY <2>1 DEF D
      <4>2. QED
        BY <3>1, <4>1, FS_Surjection
    <3>3. QED
      BY <3>2
  <2>3. IsFiniteSet({0})
    BY FS_Singleton
  <2>4. QED
    BY <2>2, <2>3, FS_Union
<1>3. ForeignPeak(h, g) = Max(seen)
  BY DEF ForeignPeak
<1>4. ForeignPeak(h, g) \in Nat
  <2>1. seen \in SUBSET Int /\ seen # {}
    BY <1>1
  <2> HIDE DEF seen
  <2>2. Max(seen) \in seen
    BY <1>2, <2>1, MaxIsLargest
  <2>3. QED
    BY <1>1, <1>3, <2>2
<1> DEFINE total == Total[g]
           held == Managed(g)
           pending == b.pending[g]
           other == ForeignPeak(h, g)
           slack == 98 * total - 100 * (held + pending) - 105 * other
<1>5. total \in Nat /\ held \in Nat /\ pending \in Nat /\ other \in Nat
  BY <1>4, GpuAdmissionAssumption, LedgerIsNatural DEF Batch
<1>6. Free(b, h, g) = Max({0, slack})
  BY DEF Free, Reserved
<1>7. slack \in Int
  <2> HIDE DEF total, held, pending, other
  <2>1. QED
    BY <1>5
<1>8. Free(b, h, g) = IF 0 >= slack THEN 0 ELSE slack
  <2> HIDE DEF slack
  <2>1. QED
    BY <1>6, <1>7, MaxOfTwo
<1>9. Free(b, h, g) \in Nat
  <2> HIDE DEF slack
  <2>1. QED
    BY <1>7, <1>8
<1>10. ASSUME NEW n \in Nat, n > 0, Free(b, h, g) >= 100 * n
       PROVE  100 * (Managed(g) + b.pending[g] + n) <= 98 * Total[g]
  <2>1. slack >= 100 * n
    <3> HIDE DEF slack
    <3>1. QED
      BY <1>7, <1>8, <1>10
  <2>2. 100 * (held + pending + n) <= 98 * total
    <3> HIDE DEF total, held, pending, other
    <3>1. QED
      BY <1>5, <2>1
  <2>3. QED
    BY <2>2
<1>11. ASSUME NEW n \in Nat, 98 * total >= 100 * (n + (held + pending)) + 105 * other
       PROVE  Free(b, h, g) >= 100 * n
  <2>1. slack >= 100 * n
    <3> HIDE DEF total, held, pending, other
    <3>1. QED
      BY <1>5, <1>11
  <2>2. QED
    <3> HIDE DEF slack
    <3>1. QED
      BY <1>7, <1>8, <2>1
<1>12. QED
  BY <1>9, <1>10, <1>11


\* From n eligible GPUs or more, n are chosen.
LEMMA BestAreChosen ==
  ASSUME GpuTypeOK, NEW b \in Batch, NEW h \in Seq(Sample), NEW S \in SUBSET Gpu, NEW n \in Nat,
         n <= Cardinality(S)
  PROVE  Best(b, h, S, n) \in SUBSET S /\ Cardinality(Best(b, h, S, n)) = n
<1> DEFINE Top(m) == {B \in SUBSET S : /\ Cardinality(B) = m
                                       /\ \A g \in B, k \in S \ B : Better(b, h, g, k)}
           G == {m \in Nat : m <= Cardinality(S) => Top(m) # {}}
           R == {p \in Gpu \X Gpu : Better(b, h, p[2], p[1])}
<1>1. IsFiniteSet(S) /\ Cardinality(S) \in Nat
  BY GpuAdmissionAssumption, FS_Subset, FS_CardinalityType
<1>2. /\ \A g, k \in Gpu : g # k => <<g, k>> \in R \/ <<k, g>> \in R
      /\ \A g, k, l \in Gpu : <<g, k>> \in R /\ <<k, l>> \in R => <<g, l>> \in R
      /\ \A g, k \in Gpu : <<g, k>> \in R => Better(b, h, k, g)
  <2> DEFINE F == [g \in Gpu |-> Free(b, h, g)]
  <2>1. \A g \in Gpu : F[g] \in Nat /\ g \in Nat
    BY GpuAdmissionAssumption, FreeIsThere
  <2>2. \A g, k \in Gpu : <<g, k>> \in R <=> F[k] > F[g] \/ (F[k] = F[g] /\ k < g)
    BY DEF Better
  <2>3. \A g, k \in Gpu : <<g, k>> \in R => Better(b, h, k, g)
    OBVIOUS
  <2> HIDE DEF F, R
  <2>4. \A g, k \in Gpu : g # k => <<g, k>> \in R \/ <<k, g>> \in R
    BY <2>1, <2>2
  <2>5. \A g, k, l \in Gpu : <<g, k>> \in R /\ <<k, l>> \in R => <<g, l>> \in R
    BY <2>1, <2>2
  <2>6. QED
    BY <2>3, <2>4, <2>5
<1>3. 0 \in G
  <2>1. {} \in Top(0)
    BY FS_EmptySet
  <2>2. QED
    BY <2>1
<1>4. ASSUME NEW m \in G PROVE m + 1 \in G
  <2>1. m \in Nat /\ m + 1 \in Nat
    OBVIOUS
  <2> SUFFICES ASSUME m + 1 <= Cardinality(S) PROVE Top(m + 1) # {}
    BY <2>1
  <2>2. PICK B \in SUBSET S : /\ Cardinality(B) = m
                              /\ \A g \in B, k \in S \ B : Better(b, h, g, k)
    <3>1. m <= Cardinality(S)
      BY <1>1, <2>1
    <3>2. QED
      BY <3>1
  <2> DEFINE Rest == S \ B
  <2>3. IsFiniteSet(B) /\ IsFiniteSet(Rest)
    BY <1>1, FS_Subset
  <2>4. Rest # {}
    <3>1. CASE Rest = {}
      <4>1. B = S
        BY <3>1
      <4>2. QED
        BY <1>1, <2>1, <2>2, <4>1
    <3>2. QED
      BY <3>1
  <2>5. PICK x \in Rest : \A y \in Rest \ {x} : <<y, x>> \in R
    <3>1. Rest \in SUBSET Gpu
      OBVIOUS
    <3> HIDE DEF Rest, R
    <3>2. /\ \A g, k \in Rest : g # k => <<g, k>> \in R \/ <<k, g>> \in R
          /\ \A g, k, l \in Rest : <<g, k>> \in R /\ <<k, l>> \in R => <<g, l>> \in R
      BY <1>2, <3>1
    <3>3. IsFiniteSet(Rest) /\ Rest # {}
      BY <2>3, <2>4
    <3>4. QED
      BY <3>2, <3>3, LastExists
  <2>6. B \cup {x} \in SUBSET S
    OBVIOUS
  <2>7. Cardinality(B \cup {x}) = m + 1
    BY <2>2, <2>3, FS_AddElement
  <2>8. ASSUME NEW g \in B \cup {x}, NEW k \in S \ (B \cup {x})
        PROVE  Better(b, h, g, k)
    <3>1. CASE g \in B
      BY <2>2, <3>1
    <3>2. CASE g = x
      <4>1. <<k, x>> \in R
        BY <2>5
      <4>2. QED
        BY <1>2, <3>2, <4>1
    <3>3. QED
      BY <3>1, <3>2
  <2>9. B \cup {x} \in Top(m + 1)
    BY <2>6, <2>7, <2>8
  <2>10. QED
    BY <2>9
<1>5. G \in SUBSET Nat
  OBVIOUS
<1>6. G = Nat
  <2> HIDE DEF G
  <2>1. QED
    BY <1>3, <1>4, <1>5, SetOfAllNumbers
<1>7. \E B \in SUBSET S : /\ Cardinality(B) = n
                          /\ \A g \in B, k \in S \ B : Better(b, h, g, k)
  BY <1>6
<1>8. QED
  BY <1>7 DEF Best

\* The queue has a last task.
LEMMA HindmostExists ==
  ASSUME GpuTypeOK, NEW S \in SUBSET Task, S # {}
  PROVE  Hindmost(S) \in S /\ \A u \in S \ {Hindmost(S)} : Before(u, Hindmost(S))
<1> DEFINE R == {p \in Task \X Task : Before(p[1], p[2])}
<1>1. IsFiniteSet(S)
  BY GpuAdmissionAssumption, FS_Subset
<1>2. \A t \in Task : prio[t] \in Nat /\ t \in Nat
  BY GpuAdmissionAssumption DEF GpuTypeOK
<1>3. \A t, u \in Task : <<t, u>> \in R <=> prio[t] < prio[u] \/ (prio[t] = prio[u] /\ t < u)
  BY DEF Before
<1>4. \A t, u \in Task : <<t, u>> \in R => Before(t, u)
  OBVIOUS
<1> HIDE DEF R
<1>5. \A t, u \in S : t # u => <<t, u>> \in R \/ <<u, t>> \in R
  BY <1>2, <1>3
<1>6. \A t, u, v \in S : <<t, u>> \in R /\ <<u, v>> \in R => <<t, v>> \in R
  BY <1>2, <1>3
<1>7. PICK t \in S : \A u \in S \ {t} : <<u, t>> \in R
  BY <1>1, <1>5, <1>6, LastExists
<1>8. \A u \in S \ {t} : Before(u, t)
  BY <1>4, <1>7
<1>9. QED
  BY <1>8 DEF Hindmost

-----------------------------------------------------------------------------
(* The batch. *)

\* The tasks a batch has put on a GPU.
Given(b, g) == {t \in Task : g \in b.gpus[t]}

\* A batch of tasks of s keeps what is promised.
Keeps(b, s, g) ==
  /\ Given(b, g) \in SUBSET s
  /\ b.pending[g] = SumFunctionOnSet(Memory(g), Given(b, g))
  /\ Given(b, g) # {} => 100 * (Managed(g) + b.pending[g]) <= 98 * Total[g]
  /\ \A t \in Given(b, g) : t \notin Exclusive => Need[t] > 0
  /\ \A t \in Given(b, g) : t \in Exclusive =>
        g \in b.owned /\ Given(b, g) = {t} /\ Viewed(g) = {}
  /\ \A t \in Viewed(g) : ExclusiveActive(t, g) => Given(b, g) = {}

GoodBatch(b, s) ==
  /\ b \in Batch
  /\ \A i \in 1..Len(b.decided) : b.decided[i] \in s
  /\ \A g \in Gpu : Keeps(b, s, g)

\* What is asked for, and of cards of what size.
EveryoneAsks == \A t \in Task \ Exclusive : Count[t] > 0 => Need[t] > 0
LargeCards == \A g \in Gpu : 28 * Total[g] >= 51200

\* Considering a task makes a batch of a batch.
LEMMA ConsiderTyped ==
  ASSUME GpuTypeOK, NEW b \in Batch, NEW h \in Seq(Sample), NEW busy, NEW t \in Task
  PROVE  Consider(b, h, busy, t) \in Batch
<1> DEFINE eligible == Eligible(b, h, busy, t)
           chosen == Best(b, h, eligible, Count[t])
<1>1. CASE Cardinality(eligible) < Count[t]
  BY <1>1 DEF Consider
<1>2. CASE ~(Cardinality(eligible) < Count[t])
  <2>1. eligible \in SUBSET Gpu
    BY DEF Eligible
  <2>2. chosen \in SUBSET Gpu
    <3>1. IsFiniteSet(eligible) /\ Cardinality(eligible) \in Nat
      BY <2>1, GpuAdmissionAssumption, FS_Subset, FS_CardinalityType
    <3>2. Count[t] \in Nat
      BY GpuAdmissionAssumption
    <3> HIDE DEF eligible
    <3>3. chosen \in SUBSET eligible
      BY <1>2, <2>1, <3>1, <3>2, BestAreChosen
    <3>4. QED
      BY <2>1, <3>3
  <2> DEFINE c == [decided |-> Append(b.decided, t),
                   gpus    |-> [b.gpus EXCEPT ![t] = chosen],
                   pending |-> [g \in Gpu |-> b.pending[g] + IF g \in chosen THEN Need[t] ELSE 0],
                   owned   |-> IF t \in Exclusive THEN b.owned \cup chosen ELSE b.owned]
  <2>3. Consider(b, h, busy, t) = c
    BY <1>2 DEF Consider
  <2> HIDE DEF chosen, eligible
  <2>4. Append(b.decided, t) \in Seq(Task)
    BY DEF Batch
  <2>5. [b.gpus EXCEPT ![t] = chosen] \in [Task -> SUBSET Gpu]
    BY <2>2 DEF Batch
  <2>6. [g \in Gpu |-> b.pending[g] + IF g \in chosen THEN Need[t] ELSE 0] \in [Gpu -> Nat]
    BY GpuAdmissionAssumption DEF Batch
  <2>7. (IF t \in Exclusive THEN b.owned \cup chosen ELSE b.owned) \in SUBSET Gpu
    BY <2>2 DEF Batch
  <2>8. c \in Batch
    BY <2>4, <2>5, <2>6, <2>7 DEF Batch
  <2>9. QED
    BY <2>3, <2>8
<1>3. QED
  BY <1>1, <1>2


\* Nothing is reclaimed from a task of the queue.
LEMMA QueuedDeclareTheirNeed ==
  ASSUME GpuTypeOK, DecidedHaveRun, NEW t \in Queued, NEW g \in Gpu
  PROVE  Memory(g)[t] = Need[t]
<1>1. t \in Task /\ life[t] = "queued" /\ t \notin done
  BY DEF Queued, DecidedHaveRun
<1>2. Memory(g)[t] = Declared(t, g)
  BY <1>1, LedgerIsNatural
<1>3. CASE t \in Exclusive
  BY <1>1, <1>2, <1>3, GpuAdmissionAssumption DEF Declared, DecidedHaveRun
<1>4. CASE t \notin Exclusive
  BY <1>2, <1>4 DEF Declared
<1>5. QED
  BY <1>3, <1>4

\* A task more in the batch.
LEMMA ConsiderKeeps ==
  ASSUME GpuTypeOK, DecidedHaveRun, EveryoneAsks,
         NEW s \in SUBSET Queued, NEW t \in s, NEW b, GoodBatch(b, s \ {t}),
         NEW h \in Seq(Sample), NEW busy,
         \A g \in Gpu : Viewed(g) # {} => \E i \in DOMAIN h : h[i][g].tasks
  PROVE  GoodBatch(Consider(b, h, busy, t), s)
<1> DEFINE eligible == Eligible(b, h, busy, t)
           chosen == Best(b, h, eligible, Count[t])
           c == Consider(b, h, busy, t)
<1>1. b \in Batch /\ t \in Task /\ t \in Queued /\ s \in SUBSET Task
  BY DEF GoodBatch, Queued
<1>2. c \in Batch
  BY <1>1, ConsiderTyped
<1>3. CASE Cardinality(eligible) < Count[t]
  <2>1. c = b
    BY <1>3 DEF Consider
  <2>2. \A g \in Gpu : Keeps(b, s \ {t}, g) => Keeps(b, s, g)
    BY DEF Keeps
  <2>3. QED
    BY <2>1, <2>2 DEF GoodBatch
<1>4. CASE ~(Cardinality(eligible) < Count[t])
  <2>1. eligible \in SUBSET Gpu
    BY DEF Eligible
  <2>2. chosen \in SUBSET eligible /\ Cardinality(chosen) = Count[t]
    <3>1. IsFiniteSet(eligible) /\ Cardinality(eligible) \in Nat
      BY <2>1, GpuAdmissionAssumption, FS_Subset, FS_CardinalityType
    <3>2. Count[t] \in Nat
      BY <1>1, GpuAdmissionAssumption
    <3> HIDE DEF eligible
    <3>3. QED
      BY <1>1, <1>4, <2>1, <3>1, <3>2, BestAreChosen
  <2>3. c = [decided |-> Append(b.decided, t),
             gpus    |-> [b.gpus EXCEPT ![t] = chosen],
             pending |-> [g \in Gpu |-> b.pending[g] + IF g \in chosen THEN Need[t] ELSE 0],
             owned   |-> IF t \in Exclusive THEN b.owned \cup chosen ELSE b.owned]
    BY <1>4 DEF Consider
  <2>4. ASSUME NEW g \in chosen
        PROVE  /\ g \in Gpu /\ Count[t] > 0
               /\ ~Owned(b, g)
               /\ t \notin Exclusive => Need[t] > 0 /\ Free(b, h, g) >= 100 * Need[t]
               /\ t \in Exclusive => Reserved(b, g) = 0 /\ Viewed(g) = {}
    <3>1. g \in eligible /\ g \in Gpu
      BY <2>1, <2>2
    <3>2. Count[t] > 0
      <4>1. IsFiniteSet(chosen)
        BY <2>1, <2>2, GpuAdmissionAssumption, FS_Subset
      <4>2. Count[t] # 0
        BY <2>2, <4>1, FS_EmptySet
      <4>3. QED
        BY <1>1, <4>2, GpuAdmissionAssumption
    <3>3. CASE t \in Exclusive
      <4>1. EligibleExclusive(b, h, busy, g)
        BY <3>1, <3>3 DEF Eligible
      <4>2. \A i \in DOMAIN h : ~h[i][g].tasks
        BY <4>1 DEF EligibleExclusive, IdleInSample
      <4>3. Viewed(g) = {}
        BY <3>1, <4>2
      <4>4. QED
        BY <3>1, <3>2, <3>3, <4>1, <4>3 DEF EligibleExclusive
    <3>4. CASE t \notin Exclusive
      <4>1. EligibleShared(b, h, g, Need[t])
        BY <3>1, <3>4 DEF Eligible
      <4>2. Need[t] > 0
        BY <1>1, <3>2, <3>4 DEF EveryoneAsks
      <4>3. QED
        BY <3>1, <3>2, <3>4, <4>1, <4>2 DEF EligibleShared
    <3>5. QED
      BY <3>3, <3>4
  <2> HIDE DEF chosen, eligible, c
  <2>5. ASSUME NEW i \in 1..Len(c.decided) PROVE c.decided[i] \in s
    <3>1. c.decided = Append(b.decided, t) /\ b.decided \in Seq(Task)
      BY <1>1, <2>3 DEF Batch
    <3>2. \A j \in 1..Len(b.decided) : b.decided[j] \in s
      BY DEF GoodBatch
    <3>3. QED
      BY <3>1, <3>2
  <2>6. ASSUME NEW g \in Gpu PROVE Keeps(c, s, g)
    <3>1. /\ Given(b, g) \in SUBSET (s \ {t})
          /\ b.pending[g] = SumFunctionOnSet(Memory(g), Given(b, g))
          /\ Given(b, g) # {} => 100 * (Managed(g) + b.pending[g]) <= 98 * Total[g]
          /\ \A u \in Given(b, g) : u \notin Exclusive => Need[u] > 0
          /\ \A u \in Given(b, g) : u \in Exclusive =>
                g \in b.owned /\ Given(b, g) = {u} /\ Viewed(g) = {}
          /\ \A u \in Viewed(g) : ExclusiveActive(u, g) => Given(b, g) = {}
      BY DEF GoodBatch, Keeps
    <3>2. c.gpus = [b.gpus EXCEPT ![t] = chosen] /\ b.gpus \in [Task -> SUBSET Gpu]
      BY <1>1, <2>3 DEF Batch
    <3>3. c.pending[g] = b.pending[g] + IF g \in chosen THEN Need[t] ELSE 0
      BY <2>3
    <3>4. b.owned \subseteq c.owned /\ (t \in Exclusive => chosen \subseteq c.owned)
      BY <2>3
    <3>5. b.pending[g] \in Nat /\ Need[t] \in Nat /\ Managed(g) \in Nat /\ Total[g] \in Nat
      BY <1>1, LedgerIsNatural, GpuAdmissionAssumption DEF Batch
    <3>6. CASE g \notin chosen
      <4>1. Given(c, g) = Given(b, g)
        BY <3>1, <3>2, <3>6 DEF Given
      <4>2. c.pending[g] = b.pending[g]
        BY <3>3, <3>5, <3>6
      <4>3. QED
        BY <3>1, <3>4, <4>1, <4>2 DEF Keeps
    <3>7. CASE g \in chosen
      <4>1. Given(c, g) = Given(b, g) \cup {t} /\ t \notin Given(b, g)
        BY <1>1, <3>1, <3>2, <3>7 DEF Given
      <4>2. c.pending[g] = b.pending[g] + Need[t]
        BY <3>3, <3>7
      <4>3. SumFunctionOnSet(Memory(g), Given(c, g)) = c.pending[g]
        <5> DEFINE f == Memory(g)
                   R == Given(c, g)
        <5>1. IsFiniteSet(R) /\ \A u \in R : f[u] \in Nat
          <6>1. R \in SUBSET Task
            BY DEF Given
          <6>2. QED
            BY <6>1, LedgerIsNatural
        <5>2. t \in R
          BY <4>1
        <5>3. SumFunctionOnSet(f, R) = f[t] + SumFunctionOnSet(f, R \ {t})
          <6> HIDE DEF f, R
          <6>1. QED
            BY <5>1, <5>2, SumOf
        <5>4. f[t] = Need[t]
          BY <1>1, QueuedDeclareTheirNeed
        <5>5. R \ {t} = Given(b, g)
          BY <4>1
        <5>6. SumFunctionOnSet(f, R) = Need[t] + b.pending[g]
          BY <3>1, <5>3, <5>4, <5>5
        <5>7. QED
          BY <3>5, <4>2, <5>6
      <4>4. ASSUME NEW u \in Viewed(g) PROVE ~ExclusiveActive(u, g)
        BY <2>4, <3>7 DEF Owned
      <4>5. \A u \in Given(b, g) : u \notin Exclusive
        BY <2>4, <3>1, <3>7 DEF Owned
      <4>6. Given(c, g) \in SUBSET s
        BY <3>1, <4>1
      <4>7. CASE t \notin Exclusive
        <5>1. 100 * (Managed(g) + b.pending[g] + Need[t]) <= 98 * Total[g]
          <6>1. Need[t] > 0 /\ Free(b, h, g) >= 100 * Need[t]
            BY <2>4, <3>7, <4>7
          <6>2. QED
            BY <1>1, <3>5, <6>1, FreeIsThere
        <5>2. 100 * (Managed(g) + c.pending[g]) <= 98 * Total[g]
          BY <3>5, <4>2, <5>1
        <5>3. Need[t] > 0
          BY <2>4, <3>7, <4>7
        <5>4. QED
          BY <3>1, <4>1, <4>3, <4>4, <4>5, <4>6, <4>7, <5>2, <5>3 DEF Keeps
      <4>8. CASE t \in Exclusive
        <5>1. Managed(g) + b.pending[g] = 0 /\ Viewed(g) = {}
          BY <2>4, <3>7, <4>8 DEF Reserved
        <5>2. b.pending[g] = 0 /\ Managed(g) = 0
          BY <3>5, <5>1
        <5>3. Given(b, g) = {}
          <6> SUFFICES ASSUME NEW u \in Given(b, g) PROVE FALSE
            OBVIOUS
          <6> DEFINE f == Memory(g)
                     R == Given(b, g)
          <6>1. IsFiniteSet(R) /\ (\A v \in R : f[v] \in Nat) /\ IsFiniteSet(R \ {u})
            <7>1. R \in SUBSET Task /\ R \ {u} \in SUBSET Task
              BY DEF Given
            <7>2. QED
              BY <7>1, LedgerIsNatural
          <6>2. SumFunctionOnSet(f, R) = f[u] + SumFunctionOnSet(f, R \ {u})
            <7> HIDE DEF f, R
            <7>1. QED
              BY <6>1, SumOf DEF R
          <6>3. SumFunctionOnSet(f, R \ {u}) \in Nat
            <7> HIDE DEF f, R
            <7>1. \A v \in R \ {u} : f[v] \in Nat
              BY <6>1
            <7>2. QED
              BY <6>1, <7>1, SumOf
          <6>4. u \in Queued /\ f[u] = Need[u]
            BY <3>1, QueuedDeclareTheirNeed
          <6>5. Need[u] > 0 /\ Need[u] \in Nat
            BY <3>1, <4>5, <6>4, GpuAdmissionAssumption DEF Queued
          <6> DEFINE rest == SumFunctionOnSet(f, R \ {u})
          <6>6. 0 = Need[u] + rest
            BY <3>1, <5>2, <6>2, <6>4
          <6>7. QED
            <7> HIDE DEF rest
            <7>1. rest \in Nat
              BY <6>3 DEF rest
            <7>2. QED
              BY <6>5, <6>6, <7>1
        <5>4. Given(c, g) = {t} /\ g \in c.owned
          BY <3>4, <3>7, <4>1, <4>8, <5>3
        <5>5. Need[t] = 0
          BY <4>8, GpuAdmissionAssumption
        <5>6. 100 * (Managed(g) + c.pending[g]) <= 98 * Total[g]
          BY <3>5, <4>2, <5>2, <5>5
        <5>7. QED
          BY <4>3, <4>4, <4>6, <4>8, <5>1, <5>4, <5>6 DEF Keeps
      <4>9. QED
        BY <4>7, <4>8
    <3>8. QED
      BY <3>6, <3>7
  <2>7. GoodBatch(c, s)
    BY <1>2, <2>5, <2>6 DEF GoodBatch
  <2>8. QED
    BY <2>7 DEF c
<1>5. QED
  BY <1>3, <1>4


\* it is what the scheduler has decided after the tasks of a set.
Schedules(it, h, busy) ==
  /\ it[{}] = EmptyBatch
  /\ \A s \in SUBSET Queued : s # {} =>
        it[s] = Consider(it[s \ {Hindmost(s)}], h, busy, Hindmost(s))
  /\ TrySchedule(h, busy) = it[Queued]

\* The scheduler goes through the queue from the front: the fold has intermediate batches.
LEMMA ScheduleUnfolds ==
  ASSUME GpuTypeOK, NEW h \in Seq(Sample), NEW busy
  PROVE  \E it : Schedules(it, h, busy)
<1> DEFINE Schedule(it) == it = [s \in SUBSET Queued |-> IF s = {} THEN EmptyBatch
                                   ELSE Consider(it[s \ {Hindmost(s)}], h, busy, Hindmost(s))]
           pick == [s \in SUBSET Queued |-> Hindmost(s)]
           step == [p \in Queued \X Batch |-> Consider(p[2], h, busy, p[1])]
<1>1. Queued \in SUBSET Task /\ IsFiniteSet(Queued)
  <2>1. Queued \in SUBSET Task
    BY DEF Queued
  <2>2. QED
    BY <2>1, GpuAdmissionAssumption, FS_Subset
<1>2. \A s \in SUBSET Queued : s # {} => Hindmost(s) \in s
  BY <1>1, HindmostExists
<1>3. EmptyBatch \in Batch
  <2>1. <<>> \in Seq(Task)
    OBVIOUS
  <2>2. QED
    BY <2>1 DEF EmptyBatch, Batch
<1>4. step \in [Queued \X Batch -> Batch]
  BY <1>1, ConsiderTyped
<1>5. \E it : Schedule(it)
  <2>1. \A s \in SUBSET Queued : s # {} => pick[s] \in s
    BY <1>2
  <2>2. PICK it \in [SUBSET Queued -> Batch] : Folds(it, Queued, EmptyBatch, pick, step)
    <3> HIDE DEF pick, step
    <3>1. QED
      BY <1>1, <1>3, <1>4, <2>1, FoldExists
  <2>3. ASSUME NEW s \in SUBSET Queued
        PROVE  it[s] = IF s = {} THEN EmptyBatch
                       ELSE Consider(it[s \ {Hindmost(s)}], h, busy, Hindmost(s))
    <3>1. CASE s = {}
      BY <2>2, <3>1 DEF Folds
    <3>2. CASE s # {}
      <4>1. it[s] = step[<<pick[s], it[s \ {pick[s]}]>>]
        <5> HIDE DEF pick, step
        <5>1. QED
          BY <2>2, <3>2 DEF Folds
      <4>2. pick[s] = Hindmost(s) /\ Hindmost(s) \in Queued
        BY <1>2, <3>2
      <4>3. it[s \ {Hindmost(s)}] \in Batch
        OBVIOUS
      <4>4. step[<<Hindmost(s), it[s \ {Hindmost(s)}]>>]
              = Consider(it[s \ {Hindmost(s)}], h, busy, Hindmost(s))
        BY <4>2, <4>3
      <4>5. QED
        BY <3>2, <4>1, <4>2, <4>4
    <3>3. QED
      BY <3>1, <3>2
  <2>4. Schedule(it)
    BY <2>3
  <2>5. QED
    <3> HIDE DEF Schedule
    <3>1. QED
      BY <2>4
<1> DEFINE run == CHOOSE it : Schedule(it)
<1>6. TrySchedule(h, busy) = run[Queued]
  BY DEF TrySchedule, MapThenFoldSet
<1>7. Schedule(run)
  <2> HIDE DEF Schedule
  <2>1. QED
    BY <1>5
<1> HIDE DEF run
<1>8. Schedules(run, h, busy)
  BY <1>6, <1>7 DEF Schedules
<1>9. QED
  BY <1>8

\* The whole batch.
LEMMA ScheduleKeeps ==
  ASSUME GpuTypeOK, DecidedHaveRun, EveryoneAsks, NEW h \in Seq(Sample), NEW busy,
         \A g \in Gpu : Viewed(g) # {} => \E i \in DOMAIN h : h[i][g].tasks
  PROVE  GoodBatch(TrySchedule(h, busy), Queued)
<1>1. Queued \in SUBSET Task /\ IsFiniteSet(Queued)
  <2>1. Queued \in SUBSET Task
    BY DEF Queued
  <2>2. QED
    BY <2>1, GpuAdmissionAssumption, FS_Subset
<1>2. \A s \in SUBSET Queued : s # {} => Hindmost(s) \in s
  BY <1>1, HindmostExists
<1>3. PICK it : Schedules(it, h, busy)
  BY ScheduleUnfolds
<1> DEFINE G == {s \in SUBSET Queued : GoodBatch(it[s], s)}
<1>8. {} \in G
  <2>0. EmptyBatch \in Batch
    <3>1. <<>> \in Seq(Task)
      OBVIOUS
    <3>2. QED
      BY <3>1 DEF EmptyBatch, Batch
  <2>1. it[{}] = EmptyBatch
    BY <1>3 DEF Schedules
  <2>2. Len(EmptyBatch.decided) = 0
    BY DEF EmptyBatch
  <2>3. ASSUME NEW g \in Gpu PROVE Keeps(EmptyBatch, {}, g)
    <3>1. Given(EmptyBatch, g) = {}
      BY DEF Given, EmptyBatch
    <3>2. EmptyBatch.pending[g] = 0
      BY DEF EmptyBatch
    <3>3. SumFunctionOnSet(Memory(g), {}) = 0
      BY FS_EmptySet, SumOf
    <3>4. QED
      BY <3>1, <3>2, <3>3 DEF Keeps
  <2>4. GoodBatch(EmptyBatch, {})
    BY <2>0, <2>2, <2>3 DEF GoodBatch
  <2>5. QED
    BY <2>1, <2>4
<1>9. ASSUME NEW s \in SUBSET Queued, s # {}, \A x \in s : s \ {x} \in G
      PROVE  s \in G
  <2>1. it[s] = Consider(it[s \ {Hindmost(s)}], h, busy, Hindmost(s))
    BY <1>3, <1>9 DEF Schedules
  <2>2. Hindmost(s) \in s
    BY <1>2, <1>9
  <2>3. GoodBatch(it[s \ {Hindmost(s)}], s \ {Hindmost(s)})
    BY <1>9, <2>2
  <2>4. GoodBatch(it[s], s)
    BY <2>1, <2>2, <2>3, ConsiderKeeps
  <2>5. QED
    BY <2>4
<1>10. G \in SUBSET SUBSET Queued
  OBVIOUS
<1>11. G = SUBSET Queued
  <2> HIDE DEF G
  <2>1. QED
    BY <1>1, <1>8, <1>9, <1>10, SetOfAllSubsets
<1>12. Queued \in G
  BY <1>11
<1>13. QED
  BY <1>3, <1>12 DEF Schedules

-----------------------------------------------------------------------------
(* Nobody is overtaken by a task that could help it by waiting.  The batch   *)
(* turns a task away only for want of room beside the tasks before it, and   *)
(* it is carried out in the order of the queue.                              *)

\* Is there room for t beside the tasks before it?
RoomFor(b, h, t, g) ==
  LET there == Viewed(g) \cup {v \in Given(b, g) : Before(v, t)}
  IN  IF t \in Exclusive
      THEN /\ there = {} /\ g \notin Noisy
           /\ \A i \in DOMAIN h : ~h[i][g].tasks
      ELSE /\ \A v \in there : ~ExclusiveActive(v, g)
           /\ 98 * Total[g] >= 100 * (Need[t] + SumFunctionOnSet(Memory(g), there))
                                + 105 * ForeignPeak(h, g)

DecidedOf(b) == {b.decided[i] : i \in 1..Len(b.decided)}

\* The ledger of a GPU after the tasks of s.
Balanced(b, s, g) ==
  /\ Given(b, g) \in SUBSET s
  /\ b.pending[g] = SumFunctionOnSet(Memory(g), Given(b, g))
  /\ g \in b.owned => \E t \in Given(b, g) : t \in Exclusive
  /\ Given(b, g) \subseteq DecidedOf(b)

FairBatch(b, s, h) ==
  /\ b \in Batch
  /\ DecidedOf(b) \in SUBSET s
  /\ \A i, j \in 1..Len(b.decided) : i < j => Before(b.decided[i], b.decided[j])
  /\ \A g \in Gpu : Balanced(b, s, g)
  /\ \A t \in s \ DecidedOf(b) : Cardinality({g \in Gpu : RoomFor(b, h, t, g)}) < Count[t]

\* The queue is ordered by priority and age: nobody is before himself.
LEMMA BeforeIsAnOrder ==
  ASSUME GpuTypeOK
  PROVE  /\ \A t, u \in Task : ~(Before(t, u) /\ Before(u, t))
         /\ \A t \in Task : ~Before(t, t)
<1>1. \A t \in Task : prio[t] \in Nat /\ t \in Nat
  BY GpuAdmissionAssumption DEF GpuTypeOK
<1>2. QED
  BY <1>1 DEF Before

\* Where there is room for the next task of the queue, it is eligible.
LEMMA RoomIsEligible ==
  ASSUME GpuTypeOK, DecidedHaveRun, \A g \in Gpu : Viewed(g) \cap Queued = {},
         NEW s \in SUBSET Queued, NEW t \in s, \A u \in s \ {t} : Before(u, t),
         NEW h \in Seq(Sample), NEW busy \in SUBSET Noisy,
         \A i \in DOMAIN h : \A g \in Gpu \ Noisy : h[i][g].foreign = 0,
         NEW b \in Batch, NEW g \in Gpu, Balanced(b, s \ {t}, g), RoomFor(b, h, t, g)
  PROVE  g \in Eligible(b, h, busy, t)
<1>1. t \in Task /\ t \in Queued /\ Given(b, g) \in SUBSET Task
  BY DEF Queued, Given
<1>2. {v \in Given(b, g) : Before(v, t)} = Given(b, g)
  BY DEF Balanced
<1> DEFINE there == Viewed(g) \cup Given(b, g)
<1>3. /\ t \in Exclusive => /\ there = {} /\ g \notin Noisy
                            /\ \A i \in DOMAIN h : ~h[i][g].tasks
      /\ t \notin Exclusive =>
            /\ \A v \in there : ~ExclusiveActive(v, g)
            /\ 98 * Total[g] >= 100 * (Need[t] + SumFunctionOnSet(Memory(g), there))
                                 + 105 * ForeignPeak(h, g)
  BY <1>2 DEF RoomFor
<1>4. \A v \in Given(b, g) : v \in Exclusive => ExclusiveActive(v, g)
  <2> TAKE v \in Given(b, g)
  <2>1. v \in Queued /\ v \notin done
    BY DEF Balanced, DecidedHaveRun, Queued
  <2>2. QED
    BY <2>1 DEF DecidedHaveRun, ExclusiveActive
<1>5. (\A v \in there : ~ExclusiveActive(v, g)) => ~Owned(b, g)
  BY <1>4 DEF Owned, Balanced
<1>6. CASE t \in Exclusive
  <2>1. Viewed(g) = {} /\ Given(b, g) = {}
    BY <1>3, <1>6
  <2>2. SumFunctionOnSet(Memory(g), {}) = 0
    BY FS_EmptySet, SumOf
  <2>3. Reserved(b, g) = 0
    BY <2>1, <2>2 DEF Reserved, Managed, Balanced
  <2>4. ~Owned(b, g)
    BY <1>5, <2>1
  <2>5. ASSUME NEW i \in DOMAIN h PROVE IdleInSample(h[i], g)
    <3>1. h[i][g].foreign = 0 /\ ~h[i][g].tasks
      BY <1>3, <1>6
    <3>2. Total[g] \in Nat \ {0}
      BY GpuAdmissionAssumption
    <3>3. QED
      BY <3>1, <3>2 DEF IdleInSample
  <2>6. g \notin busy
    BY <1>3, <1>6
  <2>7. EligibleExclusive(b, h, busy, g)
    BY <2>3, <2>4, <2>5, <2>6 DEF EligibleExclusive
  <2>8. QED
    BY <1>6, <2>7 DEF Eligible
<1>7. CASE t \notin Exclusive
  <2>1. ~Owned(b, g)
    BY <1>3, <1>5, <1>7
  <2>2. SumFunctionOnSet(Memory(g), there) = Managed(g) + b.pending[g]
    <3> DEFINE f == Memory(g)
               A == Viewed(g)
               B == Given(b, g)
    <3>1. IsFiniteSet(A) /\ IsFiniteSet(B) /\ \A v \in A \cup B : f[v] \in Nat
      BY <1>1, LedgerIsNatural
    <3>2. A \cap B = {}
      BY DEF Balanced
    <3>3. SumFunctionOnSet(f, A \cup B) = SumFunctionOnSet(f, A) + SumFunctionOnSet(f, B)
      <4> HIDE DEF f, A, B
      <4>1. QED
        BY <3>1, <3>2, SumOfTwo
    <3>4. QED
      BY <3>3 DEF Managed, Balanced
  <2>3. Free(b, h, g) >= 100 * Need[t]
    <3>1. 98 * Total[g] >= 100 * (Need[t] + (Managed(g) + b.pending[g])) + 105 * ForeignPeak(h, g)
      BY <1>3, <1>7, <2>2
    <3>2. Need[t] \in Nat
      BY <1>1, GpuAdmissionAssumption
    <3>3. QED
      BY <3>1, <3>2, FreeIsThere
  <2>4. QED
    BY <1>7, <2>1, <2>3 DEF Eligible, EligibleShared
<1>8. QED
  BY <1>6, <1>7

\* A task more in the batch.
LEMMA ConsiderIsFair ==
  ASSUME GpuTypeOK, DecidedHaveRun, \A g \in Gpu : Viewed(g) \cap Queued = {},
         NEW s \in SUBSET Queued, NEW t \in s, \A u \in s \ {t} : Before(u, t),
         NEW h \in Seq(Sample), NEW busy \in SUBSET Noisy,
         \A i \in DOMAIN h : \A g \in Gpu \ Noisy : h[i][g].foreign = 0,
         NEW b, FairBatch(b, s \ {t}, h)
  PROVE  FairBatch(Consider(b, h, busy, t), s, h)
<1> DEFINE eligible == Eligible(b, h, busy, t)
           chosen == Best(b, h, eligible, Count[t])
           c == Consider(b, h, busy, t)
<1>1. b \in Batch /\ t \in Task /\ t \in Queued /\ s \in SUBSET Task
  BY DEF FairBatch, Queued
<1>2. c \in Batch
  BY <1>1, ConsiderTyped
<1>3. eligible \in SUBSET Gpu /\ IsFiniteSet(eligible) /\ Cardinality(eligible) \in Nat
  <2>1. eligible \in SUBSET Gpu
    BY DEF Eligible
  <2>2. QED
    BY <2>1, GpuAdmissionAssumption, FS_Subset, FS_CardinalityType
<1>4. Count[t] \in Nat
  BY <1>1, GpuAdmissionAssumption
<1>5. CASE Cardinality(eligible) < Count[t]
  <2>1. c = b
    BY <1>5 DEF Consider
  <2>2. \A g \in Gpu : Balanced(b, s, g)
    BY DEF FairBatch, Balanced
  <2>3. Cardinality({g \in Gpu : RoomFor(b, h, t, g)}) < Count[t]
    <3> DEFINE R == {g \in Gpu : RoomFor(b, h, t, g)}
    <3>1. R \in SUBSET eligible
      <4> SUFFICES ASSUME NEW g \in Gpu, RoomFor(b, h, t, g) PROVE g \in Eligible(b, h, busy, t)
        OBVIOUS
      <4>1. Balanced(b, s \ {t}, g)
        BY DEF FairBatch
      <4>2. QED
        BY <1>1, <4>1, RoomIsEligible
    <3> HIDE DEF R, eligible
    <3>2. Cardinality(R) <= Cardinality(eligible) /\ Cardinality(R) \in Nat
      BY <1>3, <3>1, FS_Subset, FS_CardinalityType
    <3>3. QED
      BY <1>3, <1>4, <1>5, <3>2 DEF R
  <2>4. ASSUME NEW u \in s \ DecidedOf(b)
        PROVE  Cardinality({g \in Gpu : RoomFor(b, h, u, g)}) < Count[u]
    <3>1. CASE u = t
      BY <2>3, <3>1
    <3>2. CASE u # t
      BY <3>2 DEF FairBatch
    <3>3. QED
      BY <3>1, <3>2
  <2>5. FairBatch(b, s, h)
    BY <2>2, <2>4 DEF FairBatch
  <2>6. QED
    BY <2>1, <2>5
<1>6. CASE ~(Cardinality(eligible) < Count[t])
  <2>1. chosen \in SUBSET Gpu
    <3> HIDE DEF eligible
    <3>1. chosen \in SUBSET eligible
      BY <1>1, <1>3, <1>4, <1>6, BestAreChosen
    <3>2. QED
      BY <1>3, <3>1
  <2>2. c = [decided |-> Append(b.decided, t),
             gpus    |-> [b.gpus EXCEPT ![t] = chosen],
             pending |-> [g \in Gpu |-> b.pending[g] + IF g \in chosen THEN Need[t] ELSE 0],
             owned   |-> IF t \in Exclusive THEN b.owned \cup chosen ELSE b.owned]
    BY <1>6 DEF Consider
  <2> HIDE DEF chosen, eligible, c
  <2>3. /\ b.decided \in Seq(Task) /\ Len(b.decided) \in Nat
        /\ c.decided = Append(b.decided, t)
        /\ Len(c.decided) = Len(b.decided) + 1
        /\ c.decided[Len(b.decided) + 1] = t
        /\ \A i \in 1..Len(b.decided) : c.decided[i] = b.decided[i]
    BY <1>1, <2>2 DEF Batch
  <2>4. DecidedOf(c) = DecidedOf(b) \cup {t}
    <3>1. \A i \in 1..Len(c.decided) : i \in 1..Len(b.decided) \/ i = Len(b.decided) + 1
      BY <2>3
    <3>2. \A i \in 1..Len(b.decided) : i \in 1..Len(c.decided)
      BY <2>3
    <3>3. Len(b.decided) + 1 \in 1..Len(c.decided)
      BY <2>3
    <3>4. QED
      BY <2>3, <3>1, <3>2, <3>3 DEF DecidedOf
  <2>5. DecidedOf(c) \in SUBSET s
    BY <2>4 DEF FairBatch
  <2>6. ASSUME NEW i \in 1..Len(c.decided), NEW j \in 1..Len(c.decided), i < j
        PROVE  Before(c.decided[i], c.decided[j])
    <3>1. i \in 1..Len(b.decided)
      BY <2>3, <2>6
    <3>2. b.decided[i] \in s \ {t}
      BY <3>1 DEF FairBatch, DecidedOf
    <3>3. CASE j \in 1..Len(b.decided)
      BY <2>3, <2>6, <3>1, <3>3 DEF FairBatch
    <3>4. CASE j \notin 1..Len(b.decided)
      <4>1. c.decided[j] = t
        BY <2>3, <3>4
      <4>2. QED
        BY <2>3, <3>1, <3>2, <4>1
    <3>5. QED
      BY <3>3, <3>4
  <2>7. ASSUME NEW g \in Gpu
        PROVE  /\ Given(c, g) = IF g \in chosen THEN Given(b, g) \cup {t} ELSE Given(b, g)
               /\ t \notin Given(b, g)
               /\ Given(b, g) \in SUBSET (s \ {t})
    <3>1. Given(b, g) \in SUBSET (s \ {t})
      BY DEF FairBatch, Balanced
    <3>2. c.gpus = [b.gpus EXCEPT ![t] = chosen] /\ b.gpus \in [Task -> SUBSET Gpu]
      BY <1>1, <2>2 DEF Batch
    <3>3. QED
      BY <1>1, <3>1, <3>2 DEF Given
  <2>8. ASSUME NEW g \in Gpu PROVE Balanced(c, s, g)
    <3>1. /\ b.pending[g] = SumFunctionOnSet(Memory(g), Given(b, g))
          /\ g \in b.owned => \E u \in Given(b, g) : u \in Exclusive
          /\ Given(b, g) \subseteq DecidedOf(b)
      BY DEF FairBatch, Balanced
    <3>2. c.pending[g] = b.pending[g] + IF g \in chosen THEN Need[t] ELSE 0
      BY <2>2
    <3>3. c.owned = IF t \in Exclusive THEN b.owned \cup chosen ELSE b.owned
      BY <2>2
    <3>4. b.pending[g] \in Nat /\ Need[t] \in Nat
      BY <1>1, GpuAdmissionAssumption DEF Batch
    <3>5. CASE g \notin chosen
      <4>1. Given(c, g) = Given(b, g) /\ c.pending[g] = b.pending[g]
        BY <2>7, <3>2, <3>4, <3>5
      <4>2. QED
        BY <2>4, <2>7, <3>1, <3>3, <3>5, <4>1 DEF Balanced
    <3>6. CASE g \in chosen
      <4>1. Given(c, g) = Given(b, g) \cup {t} /\ c.pending[g] = b.pending[g] + Need[t]
        BY <2>7, <3>2, <3>6
      <4>2. SumFunctionOnSet(Memory(g), Given(c, g)) = c.pending[g]
        <5> DEFINE f == Memory(g)
                   R == Given(c, g)
        <5>1. IsFiniteSet(R) /\ \A u \in R : f[u] \in Nat
          <6>1. R \in SUBSET Task
            BY DEF Given
          <6>2. QED
            BY <6>1, LedgerIsNatural
        <5>2. t \in R
          BY <4>1
        <5>3. SumFunctionOnSet(f, R) = f[t] + SumFunctionOnSet(f, R \ {t})
          <6> HIDE DEF f, R
          <6>1. QED
            BY <5>1, <5>2, SumOf
        <5>4. f[t] = Need[t]
          BY <1>1, QueuedDeclareTheirNeed
        <5>5. R \ {t} = Given(b, g)
          BY <2>7, <4>1
        <5>6. SumFunctionOnSet(f, R) = Need[t] + b.pending[g]
          BY <3>1, <5>3, <5>4, <5>5
        <5>7. QED
          BY <3>4, <4>1, <5>6
      <4>3. g \in c.owned => \E u \in Given(c, g) : u \in Exclusive
        BY <3>1, <3>3, <4>1
      <4>4. Given(c, g) \in SUBSET s /\ Given(c, g) \subseteq DecidedOf(c)
        BY <2>4, <2>7, <3>1, <4>1
      <4>5. QED
        BY <4>2, <4>3, <4>4 DEF Balanced
    <3>7. QED
      BY <3>5, <3>6
  <2>9. ASSUME NEW u \in s \ DecidedOf(c)
        PROVE  Cardinality({g \in Gpu : RoomFor(c, h, u, g)}) < Count[u]
    <3>1. u \in (s \ {t}) \ DecidedOf(b)
      BY <2>4
    <3>2. ~Before(t, u)
      BY <1>1, <3>1, BeforeIsAnOrder
    <3>3. ASSUME NEW g \in Gpu PROVE RoomFor(c, h, u, g) <=> RoomFor(b, h, u, g)
      <4>1. {v \in Given(c, g) : Before(v, u)} = {v \in Given(b, g) : Before(v, u)}
        BY <2>7, <3>2
      <4>2. QED
        BY <4>1 DEF RoomFor
    <3>4. {g \in Gpu : RoomFor(c, h, u, g)} = {g \in Gpu : RoomFor(b, h, u, g)}
      BY <3>3
    <3>5. QED
      BY <3>1, <3>4 DEF FairBatch
  <2>10. FairBatch(c, s, h)
    BY <1>2, <2>5, <2>6, <2>8, <2>9 DEF FairBatch
  <2>11. QED
    BY <2>10 DEF c
<1>7. QED
  BY <1>5, <1>6

\* The whole batch.
LEMMA ScheduleIsFair ==
  ASSUME GpuTypeOK, DecidedHaveRun, \A g \in Gpu : Viewed(g) \cap Queued = {},
         NEW h \in Seq(Sample), NEW busy \in SUBSET Noisy,
         \A i \in DOMAIN h : \A g \in Gpu \ Noisy : h[i][g].foreign = 0
  PROVE  FairBatch(TrySchedule(h, busy), Queued, h)
<1>1. Queued \in SUBSET Task /\ IsFiniteSet(Queued)
  <2>1. Queued \in SUBSET Task
    BY DEF Queued
  <2>2. QED
    BY <2>1, GpuAdmissionAssumption, FS_Subset
<1>2. PICK it : Schedules(it, h, busy)
  BY ScheduleUnfolds
<1> DEFINE G == {s \in SUBSET Queued : FairBatch(it[s], s, h)}
<1>3. {} \in G
  <2>1. EmptyBatch \in Batch
    <3>1. <<>> \in Seq(Task)
      OBVIOUS
    <3>2. QED
      BY <3>1 DEF EmptyBatch, Batch
  <2>2. it[{}] = EmptyBatch
    BY <1>2 DEF Schedules
  <2>3. Len(EmptyBatch.decided) = 0 /\ DecidedOf(EmptyBatch) = {}
    BY DEF EmptyBatch, DecidedOf
  <2>4. ASSUME NEW g \in Gpu PROVE Balanced(EmptyBatch, {}, g)
    <3>1. Given(EmptyBatch, g) = {}
      BY DEF Given, EmptyBatch
    <3>2. EmptyBatch.pending[g] = 0 /\ EmptyBatch.owned = {}
      BY DEF EmptyBatch
    <3>3. SumFunctionOnSet(Memory(g), {}) = 0
      BY FS_EmptySet, SumOf
    <3>4. QED
      BY <3>1, <3>2, <3>3 DEF Balanced
  <2>5. FairBatch(EmptyBatch, {}, h)
    BY <2>1, <2>3, <2>4 DEF FairBatch
  <2>6. QED
    BY <2>2, <2>5
<1>4. ASSUME NEW s \in SUBSET Queued, s # {}, \A x \in s : s \ {x} \in G
      PROVE  s \in G
  <2>1. it[s] = Consider(it[s \ {Hindmost(s)}], h, busy, Hindmost(s))
    BY <1>2, <1>4 DEF Schedules
  <2>2. Hindmost(s) \in s /\ \A u \in s \ {Hindmost(s)} : Before(u, Hindmost(s))
    BY <1>1, <1>4, HindmostExists
  <2>3. FairBatch(it[s \ {Hindmost(s)}], s \ {Hindmost(s)}, h)
    BY <1>4, <2>2
  <2>4. FairBatch(it[s], s, h)
    BY <2>1, <2>2, <2>3, ConsiderIsFair
  <2>5. QED
    BY <2>4
<1>5. G \in SUBSET SUBSET Queued
  OBVIOUS
<1>6. G = SUBSET Queued
  <2> HIDE DEF G
  <2>1. QED
    BY <1>1, <1>3, <1>4, <1>5, SetOfAllSubsets
<1>7. Queued \in G
  BY <1>6
<1>8. QED
  BY <1>2, <1>7 DEF Schedules

-----------------------------------------------------------------------------
(* The cycle. *)

\* What is reserved for a decided task; on a large card it fits.
LEMMA ReclaimFits ==
  ASSUME NEW p \in Nat, NEW total \in Nat
  PROVE  /\ ReclaimTo(p, total) \in Nat
         /\ 28 * total >= 51200 => 100 * ReclaimTo(p, total) <= 98 * total
<1>1. CASE p = 0 \/ 10 * p >= 7 * total
  BY <1>1 DEF ReclaimTo
<1>2. CASE ~(p = 0 \/ 10 * p >= 7 * total)
  <2> DEFINE a == (11 * p + 9) \div 10
             b == p + 512
  <2>1. a \in Nat /\ 10 * a <= 11 * p + 9
    OBVIOUS
  <2>2. ReclaimTo(p, total) = Max({a, b})
    BY <1>2 DEF ReclaimTo
  <2>3. Max({a, b}) = IF a >= b THEN a ELSE b
    <3> HIDE DEF a, b
    <3>1. a \in Int /\ b \in Int
      BY <2>1 DEF b
    <3>2. QED
      BY <3>1, MaxOfTwo
  <2>4. 28 * total >= 51200 => 100 * a <= 98 * total
    <3> HIDE DEF a
    <3>1. QED
      BY <1>2, <2>1
  <2>5. (28 * total >= 51200 => 100 * b <= 98 * total) /\ b \in Nat
    BY <1>2
  <2> HIDE DEF a, b
  <2>6. QED
    BY <2>1, <2>2, <2>3, <2>4, <2>5
<1>3. QED
  BY <1>1, <1>2

\* The first decisions of a batch are carried out.
Launched(b, L) ==
  /\ L \in SUBSET Queued
  /\ \A t \in Task : IF t \in L THEN /\ life'[t] \in {"reserved", "running"}
                                     /\ assigned'[t] = b.gpus[t]
                     ELSE life'[t] = life[t] /\ assigned'[t] = assigned[t]

\* The cycle launches the first decisions of its batch, all of them unless a launch fails.
LEMMA CarriedOut ==
  ASSUME GpuTypeOK, NEW b \in Batch, DecidedOf(b) \in SUBSET Queued,
         \/ Carry(b, Len(b.decided))
         \/ \E n \in 0..Len(b.decided) - 1 : CarryUntilFailure(b, n)
  PROVE  /\ life' \in [Task -> {"new", "queued", "reserved", "running", "ended"}]
         /\ assigned' \in [Task -> SUBSET Gpu]
         /\ \E m \in 0..Len(b.decided) : Launched(b, {b.decided[i] : i \in 1..m})
<1>1. /\ b.decided \in Seq(Task) /\ b.gpus \in [Task -> SUBSET Gpu]
      /\ Len(b.decided) \in Nat
      /\ \A i \in 1..Len(b.decided) : b.decided[i] \in Queued
  BY DEF DecidedOf, Batch
<1>2. CASE Carry(b, Len(b.decided))
  <2> DEFINE L == {b.decided[i] : i \in 1..Len(b.decided)}
  <2>1. L \in SUBSET Queued
    BY <1>1
  <2>2. /\ life' = [t \in Task |-> IF t \notin L THEN life[t]
                                   ELSE IF t \in Foreground THEN "reserved" ELSE "running"]
        /\ assigned' = [t \in Task |-> IF t \in L THEN b.gpus[t] ELSE assigned[t]]
    BY <1>2 DEF Carry
  <2>3. /\ Launched(b, L)
        /\ life' \in [Task -> {"new", "queued", "reserved", "running", "ended"}]
        /\ assigned' \in [Task -> SUBSET Gpu]
    <3> HIDE DEF L
    <3>1. QED
      BY <1>1, <2>1, <2>2 DEF Launched, GpuTypeOK
  <2>4. Len(b.decided) \in 0..Len(b.decided)
    BY <1>1
  <2>5. QED
    BY <2>3, <2>4
<1>3. CASE \E n \in 0..Len(b.decided) - 1 : CarryUntilFailure(b, n)
  <2>1. PICK n \in 0..Len(b.decided) - 1 : CarryUntilFailure(b, n)
    BY <1>3
  <2> DEFINE f == b.decided[n + 1]
             K == {b.decided[i] : i \in 1..n}
             L == {b.decided[i] : i \in 1..(n + 1)}
  <2>2. /\ n \in Nat /\ n + 1 \in 0..Len(b.decided) /\ n + 1 \in 1..Len(b.decided)
        /\ \A i \in 1..n : i \in 1..Len(b.decided)
    BY <1>1, <2>1
  <2>3. f \in Queued /\ K \in SUBSET Queued
    BY <1>1, <2>2
  <2>4. L = K \cup {f}
    <3>1. \A i \in 1..(n + 1) : i \in 1..n \/ i = n + 1
      BY <2>2
    <3>2. (\A i \in 1..n : i \in 1..(n + 1)) /\ n + 1 \in 1..(n + 1)
      BY <2>2
    <3>3. QED
      BY <3>1, <3>2
  <2>5. /\ life' = [t \in Task |-> IF t = f THEN "reserved"
                                   ELSE IF t \notin K THEN life[t]
                                   ELSE IF t \in Foreground THEN "reserved" ELSE "running"]
        /\ assigned' = [t \in Task |-> IF t \in K \cup {f} THEN b.gpus[t] ELSE assigned[t]]
    BY <2>1 DEF CarryUntilFailure
  <2>6. /\ Launched(b, K \cup {f})
        /\ life' \in [Task -> {"new", "queued", "reserved", "running", "ended"}]
        /\ assigned' \in [Task -> SUBSET Gpu]
    <3> HIDE DEF f, K
    <3>1. QED
      BY <1>1, <2>3, <2>5 DEF Launched, GpuTypeOK
  <2>7. Launched(b, L)
    BY <2>4, <2>6
  <2>8. QED
    BY <2>2, <2>6, <2>7
<1>4. QED
  BY <1>2, <1>3

\* The cycle launches the first decisions of a batch over the window's samples.
Cycle(b, h, busy, m) ==
  /\ h \in Seq(Sample) /\ samples' = h /\ busy \in SUBSET Noisy
  /\ \A g \in Gpu : Viewed(g) # {} => \E i \in DOMAIN h : h[i][g].tasks
  /\ \A i \in DOMAIN h : \A g \in Gpu \ Noisy : h[i][g].foreign = 0
  /\ b = TrySchedule(h, busy) /\ FairBatch(b, Queued, h)
  /\ m \in 0..Len(b.decided) /\ Launched(b, {b.decided[i] : i \in 1..m})
  /\ life' \in [Task -> {"new", "queued", "reserved", "running", "ended"}]
  /\ assigned' \in [Task -> SUBSET Gpu]

\* What a cycle does to the tasks: the batch is the scheduler's for the history it has kept.
LEMMA CycleLaunches ==
  ASSUME GpuBasics, CollectCycle
  PROVE  \E b, h, busy, m : Cycle(b, h, busy, m)
<1>1. PICK foreign \in {f \in [Gpu -> Foreign] : \A g \in Gpu \ Noisy : f[g] = 0},
           busy \in SUBSET Noisy,
           kept \in {SubSeq(samples, k + 1, Len(samples)) : k \in 0..Len(samples)} :
        /\ Len(kept) < MaxSamples
        /\ samples' = Append(kept, Present(foreign))
        /\ \E b \in {TrySchedule(Append(kept, Present(foreign)), busy)} :
               \/ Carry(b, Len(b.decided))
               \/ \E n \in 0..Len(b.decided) - 1 : CarryUntilFailure(b, n)
  BY DEF CollectCycle
<1> DEFINE h == Append(kept, Present(foreign))
           b == TrySchedule(h, busy)
<1>2. /\ kept \in Seq(Sample)
      /\ \A i \in DOMAIN kept : \A g \in Gpu \ Noisy : kept[i][g].foreign = 0
  <2>1. samples \in Seq(Sample) /\ Len(samples) \in Nat
    BY DEF GpuBasics, GpuTypeOK
  <2>2. PICK k \in 0..Len(samples) : kept = SubSeq(samples, k + 1, Len(samples))
    OBVIOUS
  <2>3. k + 1 \in Int /\ \A i \in (k + 1)..Len(samples) : samples[i] \in Sample
    BY <2>1
  <2>4. /\ kept \in Seq(Sample)
        /\ Len(kept) = IF k + 1 <= Len(samples) THEN Len(samples) - (k + 1) + 1 ELSE 0
        /\ \A i \in 1..(Len(samples) - (k + 1) + 1) : kept[i] = samples[(k + 1) + i - 1]
    BY <2>1, <2>2, <2>3, SubSeqProperties
  <2>5. ASSUME NEW i \in DOMAIN kept, NEW g \in Gpu \ Noisy PROVE kept[i][g].foreign = 0
    <3>1. i \in 1..(Len(samples) - (k + 1) + 1) /\ (k + 1) + i - 1 \in 1..Len(samples)
      BY <2>1, <2>4
    <3>2. samples[(k + 1) + i - 1][g].foreign = 0
      BY <2>1, <3>1 DEF GpuBasics, QuietCards
    <3>3. QED
      BY <2>4, <3>1, <3>2
  <2>6. QED
    BY <2>4, <2>5
<1>3. Present(foreign) \in Sample /\ \A g \in Gpu \ Noisy : Present(foreign)[g].foreign = 0
  <2>1. \A g \in Gpu : foreign[g] \in Nat
    BY GpuAdmissionAssumption
  <2>2. QED
    BY <2>1 DEF Present, Sample
<1>4. /\ h \in Seq(Sample)
      /\ \A i \in DOMAIN h : (i \in DOMAIN kept /\ h[i] = kept[i]) \/ h[i] = Present(foreign)
      /\ Len(kept) + 1 \in DOMAIN h /\ h[Len(kept) + 1] = Present(foreign)
  BY <1>2, <1>3
<1>5. \A i \in DOMAIN h : \A g \in Gpu \ Noisy : h[i][g].foreign = 0
  BY <1>2, <1>3, <1>4
<1>6. ASSUME NEW g \in Gpu, Viewed(g) # {}
      PROVE  \E i \in DOMAIN h : h[i][g].tasks
  <2>1. Present(foreign)[g].tasks
    BY <1>6 DEF Present
  <2>2. QED
    BY <1>4, <2>1
<1>7. \/ Carry(b, Len(b.decided))
      \/ \E n \in 0..Len(b.decided) - 1 : CarryUntilFailure(b, n)
  BY <1>1
<1>8. FairBatch(b, Queued, h)
  <2>1. \A g \in Gpu : Viewed(g) \cap Queued = {}
    BY DEF GpuBasics, SeenWereLaunched, Viewed, Queued
  <2> HIDE DEF h
  <2>2. QED
    BY <1>4, <1>5, <2>1, ScheduleIsFair DEF GpuBasics
<1>9. samples' = h
  BY <1>1
<1> HIDE DEF h, b
<1>10. /\ life' \in [Task -> {"new", "queued", "reserved", "running", "ended"}]
       /\ assigned' \in [Task -> SUBSET Gpu]
       /\ \E m \in 0..Len(b.decided) : Launched(b, {b.decided[i] : i \in 1..m})
  <2>1. b \in Batch /\ DecidedOf(b) \in SUBSET Queued
    BY <1>8 DEF FairBatch
  <2>2. QED
    BY <1>7, <2>1, CarriedOut DEF GpuBasics
<1>11. PICK m \in 0..Len(b.decided) : Launched(b, {b.decided[i] : i \in 1..m})
  BY <1>10
<1>12. b = TrySchedule(h, busy)
  BY DEF b
<1>13. Cycle(b, h, busy, m)
  BY <1>4, <1>5, <1>6, <1>8, <1>9, <1>10, <1>11, <1>12 DEF Cycle
<1>14. QED
  BY <1>13

\* The cycle decides the tasks of T.
Decides(T) ==
  /\ \A t \in T : t \in Exclusive \ done /\ life[t] = "running"
  /\ done' = done \cup T
  /\ peak' \in [Exclusive -> [Gpu -> Nat]]
  /\ reclaimed' \in [Exclusive -> [Gpu -> Nat]]
  /\ \A t \in Exclusive, g \in Gpu :
        IF t \in T /\ g \in assigned[t]
        THEN 28 * Total[g] >= 51200 => 100 * reclaimed'[t][g] <= 98 * Total[g]
        ELSE reclaimed'[t][g] = reclaimed[t][g]

\* What a cycle does to the exclusive tasks: those whose time is up keep what they were seen to use.
LEMMA CycleReclaims ==
  ASSUME GpuTypeOK, CollectCycle
  PROVE  \E T : Decides(T)
<1>1. PICK seen \in [Exclusive -> Usage], T \in SUBSET Exclusive : UpdateAutoReclaim(T, seen)
  BY DEF CollectCycle
<1> DEFINE watched == {t \in Exclusive \ done : life[t] = "running"}
           newPeak == [t \in Exclusive |-> [g \in Gpu |->
                         IF t \in watched \cap view /\ g \in assigned[t]
                         THEN Max({peak[t][g], seen[t]}) ELSE peak[t][g]]]
<1>2. /\ T \subseteq watched
      /\ peak' = newPeak
      /\ done' = done \cup T
      /\ reclaimed' = [t \in Exclusive |-> [g \in Gpu |->
             IF t \in T /\ g \in assigned[t]
             THEN ReclaimTo(newPeak[t][g], Total[g]) ELSE reclaimed[t][g]]]
  BY <1>1 DEF UpdateAutoReclaim
<1>3. ASSUME NEW t \in Exclusive, NEW g \in Gpu
      PROVE  newPeak[t][g] \in Nat
  <2> DEFINE p == peak[t][g]
             q == seen[t]
  <2>1. p \in Nat /\ q \in Nat
    <3>1. q \in Usage
      BY <1>1
    <3>2. p \in Nat
      BY DEF GpuTypeOK
    <3>3. QED
      BY <3>1, <3>2, GpuAdmissionAssumption
  <2>2. Max({p, q}) \in Nat
    <3> HIDE DEF p, q
    <3>1. p \in Int /\ q \in Int
      BY <2>1
    <3>2. Max({p, q}) = IF p >= q THEN p ELSE q
      BY <3>1, MaxOfTwo
    <3>3. QED
      BY <2>1, <3>2
  <2>3. QED
    BY <2>1, <2>2
<1>4. newPeak \in [Exclusive -> [Gpu -> Nat]]
  BY <1>3
<1> HIDE DEF newPeak
<1>5. ASSUME NEW t \in Exclusive, NEW g \in Gpu
      PROVE  /\ reclaimed'[t][g] \in Nat
             /\ IF t \in T /\ g \in assigned[t]
                THEN 28 * Total[g] >= 51200 => 100 * reclaimed'[t][g] <= 98 * Total[g]
                ELSE reclaimed'[t][g] = reclaimed[t][g]
  <2> DEFINE p == newPeak[t][g]
             total == Total[g]
  <2>1. p \in Nat /\ total \in Nat
    BY <1>3, GpuAdmissionAssumption
  <2>2. /\ ReclaimTo(p, total) \in Nat
        /\ 28 * total >= 51200 => 100 * ReclaimTo(p, total) <= 98 * total
    <3> HIDE DEF p, total
    <3>1. QED
      BY <2>1, ReclaimFits
  <2>3. reclaimed'[t][g] = IF t \in T /\ g \in assigned[t]
                           THEN ReclaimTo(p, total) ELSE reclaimed[t][g]
    BY <1>2
  <2>4. reclaimed[t][g] \in Nat
    BY DEF GpuTypeOK
  <2> HIDE DEF p
  <2>5. QED
    BY <2>2, <2>3, <2>4
<1>6. reclaimed' \in [Exclusive -> [Gpu -> Nat]]
  BY <1>2, <1>5
<1>7. Decides(T)
  BY <1>2, <1>4, <1>5, <1>6 DEF Decides
<1>8. QED
  BY <1>7

-----------------------------------------------------------------------------
(* The steps. *)

\* At the start nothing was seen or launched.
LEMMA GpuInitBasics == GpuInit => GpuBasics
<1> SUFFICES ASSUME GpuInit PROVE GpuBasics
  OBVIOUS
<1>1. (CHOOSE p \in Priority : TRUE) \in Priority
  BY GpuAdmissionAssumption
<1>2. <<>> \in Seq(Sample) /\ DOMAIN <<>> = {}
  OBVIOUS
<1>3. GpuTypeOK
  BY <1>1, <1>2 DEF GpuInit, GpuTypeOK
<1>4. SeenWereLaunched /\ DecidedHaveRun
  BY DEF GpuInit, SeenWereLaunched, DecidedHaveRun
<1>5. QuietCards
  BY <1>2 DEF GpuInit, QuietCards
<1>6. QED
  BY <1>3, <1>4, <1>5 DEF GpuBasics

\* No step breaks the types, the provenance of what was seen, or the quiet cards.
LEMMA GpuStepBasics ==
  ASSUME GpuBasics, [GpuNext]_gpuVars
  PROVE  GpuBasics'
<1>1. CASE UNCHANGED gpuVars
  BY <1>1 DEF gpuVars, GpuBasics, GpuTypeOK, SeenWereLaunched, DecidedHaveRun, QuietCards
<1>2. ASSUME NEW t \in Task, Submit(t) PROVE GpuBasics'
  BY <1>2 DEF Submit, GpuBasics, GpuTypeOK, SeenWereLaunched, DecidedHaveRun, QuietCards
<1>3. ASSUME NEW t \in Task, NEW p \in Priority, SetTaskPriority(t, p) PROVE GpuBasics'
  BY <1>3 DEF SetTaskPriority, GpuBasics, GpuTypeOK, SeenWereLaunched, DecidedHaveRun, QuietCards
<1>4. ASSUME NEW t \in Task, Confirm(t) PROVE GpuBasics'
  BY <1>4 DEF Confirm, GpuBasics, GpuTypeOK, SeenWereLaunched, DecidedHaveRun, QuietCards
<1>5. ASSUME NEW t \in Task, End(t) PROVE GpuBasics'
  BY <1>5 DEF End, GpuBasics, GpuTypeOK, SeenWereLaunched, DecidedHaveRun, QuietCards
<1>6. CASE ReadRunning \/ ReadReserved
  BY <1>6 DEF ReadRunning, ReadReserved, taskVars, GpuBasics, GpuTypeOK, SeenWereLaunched,
              DecidedHaveRun, QuietCards
<1>7. CASE CollectCycle
  <2>1. phase = "read" /\ phase' = "idle" /\ view' = {} /\ prio' = prio
    BY <1>7 DEF CollectCycle
  <2>2. PICK b, h, busy, m : Cycle(b, h, busy, m)
    BY <1>7, CycleLaunches
  <2>3. PICK T : Decides(T)
    BY <1>7, CycleReclaims DEF GpuBasics
  <2>4. GpuTypeOK'
    <3>1. samples' \in Seq(Sample)
      BY <2>2 DEF Cycle
    <3>2. /\ life' \in [Task -> {"new", "queued", "reserved", "running", "ended"}]
          /\ assigned' \in [Task -> SUBSET Gpu]
      BY <2>2 DEF Cycle
    <3>3. /\ peak' \in [Exclusive -> [Gpu -> Nat]]
          /\ reclaimed' \in [Exclusive -> [Gpu -> Nat]]
          /\ done' \in SUBSET Exclusive
      BY <2>3 DEF Decides, GpuBasics, GpuTypeOK
    <3>4. prio' \in [Task -> Priority] /\ view' \in SUBSET Task
      BY <2>1 DEF GpuBasics, GpuTypeOK
    <3>5. QED
      BY <3>1, <3>2, <3>3, <3>4 DEF GpuTypeOK
  <2>5. SeenWereLaunched'
    BY <2>1 DEF SeenWereLaunched
  <2>6. DecidedHaveRun'
    <3> DEFINE L == {b.decided[i] : i \in 1..m}
    <3>1. Launched(b, L)
      BY <2>2 DEF Cycle
    <3> HIDE DEF L
    <3>2. ASSUME NEW t \in done' PROVE life'[t] \in {"running", "ended"}
      <4>1. life[t] \in {"running", "ended"} /\ t \in Task
        BY <2>3, GpuAdmissionAssumption DEF Decides, GpuBasics, DecidedHaveRun, GpuTypeOK
      <4>2. t \notin L
        BY <3>1, <4>1 DEF Launched, Queued
      <4>3. QED
        BY <3>1, <4>1, <4>2 DEF Launched
    <3>3. ASSUME NEW t \in Exclusive \ done', NEW g \in Gpu PROVE reclaimed'[t][g] = 0
      <4>1. t \notin T /\ t \notin done
        BY <2>3 DEF Decides
      <4>2. reclaimed'[t][g] = reclaimed[t][g]
        BY <2>3, <4>1 DEF Decides
      <4>3. QED
        BY <4>1, <4>2 DEF GpuBasics, DecidedHaveRun
    <3>4. QED
      BY <3>2, <3>3 DEF DecidedHaveRun
  <2>7. QuietCards'
    BY <2>2 DEF Cycle, QuietCards
  <2>8. QED
    BY <2>4, <2>5, <2>6, <2>7 DEF GpuBasics
<1>8. QED
  BY <1>1, <1>2, <1>3, <1>4, <1>5, <1>6, <1>7 DEF GpuNext

\* A step other than the cycle launches nothing, and starts no task of the queue.
LEMMA OtherSteps ==
  ASSUME GpuBasics, [GpuNext]_gpuVars, ~CollectCycle
  PROVE  /\ reclaimed' = reclaimed
         /\ \A g \in Gpu : On(g)' \subseteq On(g)
         /\ \A t \in Queued : life'[t] \notin {"reserved", "running"}
<1>1. CASE UNCHANGED gpuVars
  BY <1>1 DEF gpuVars, On, Active, Queued
<1>2. CASE \E t \in Task : Submit(t)
  BY <1>2 DEF Submit, On, Active, Queued, GpuBasics, GpuTypeOK
<1>3. CASE \E t \in Task, p \in Priority : SetTaskPriority(t, p)
  BY <1>3 DEF SetTaskPriority, On, Active, Queued
<1>4. CASE \E t \in Task : Confirm(t)
  BY <1>4 DEF Confirm, On, Active, Queued, GpuBasics, GpuTypeOK
<1>5. CASE \E t \in Task : End(t)
  BY <1>5 DEF End, On, Active, Queued, GpuBasics, GpuTypeOK
<1>6. CASE ReadRunning \/ ReadReserved
  BY <1>6 DEF ReadRunning, ReadReserved, taskVars, On, Active, Queued
<1>7. QED
  BY <1>1, <1>2, <1>3, <1>4, <1>5, <1>6 DEF GpuNext

-----------------------------------------------------------------------------
(* The promises. *)

\* A set of tasks within another, of which each declares what it did, keeps
\* within the same memory.
LEMMA SameLedger ==
  ASSUME GpuTypeOK, NEW g \in Gpu, NEW R \in SUBSET Task, NEW S \in SUBSET Task, R \subseteq S,
         100 * SumFunctionOnSet(Memory(g), S) <= 98 * Total[g]
  PROVE  100 * SumFunctionOnSet(Memory(g), R) <= 98 * Total[g]
<1> DEFINE f == Memory(g)
           p == SumFunctionOnSet(f, R)
           q == SumFunctionOnSet(f, S)
           total == Total[g]
<1>1. IsFiniteSet(S) /\ \A t \in S : f[t] \in Nat
  BY LedgerIsNatural
<1>2. \A t \in R : f[t] \in Nat /\ f[t] <= f[t]
  BY <1>1
<1>3. p <= q
  <2> HIDE DEF f
  <2>1. QED
    BY <1>1, <1>2, SumGrows
<1>4. p \in Nat /\ q \in Nat /\ total \in Nat /\ 100 * q <= 98 * total
  BY LedgerIsNatural, GpuAdmissionAssumption
<1>5. 100 * p <= 98 * total
  <2> HIDE DEF p, q, total
  <2>1. QED
    BY <1>3, <1>4
<1>6. QED
  BY <1>5

\* The sum over one task.
LEMMA OneLedger ==
  ASSUME NEW f, NEW t, f[t] \in Nat
  PROVE  SumFunctionOnSet(f, {t}) = f[t] /\ SumFunctionOnSet(f, {}) = 0
<1>1. IsFiniteSet({t}) /\ \A x \in {t} : f[x] \in Nat
  BY FS_Singleton
<1>2. SumFunctionOnSet(f, {t}) = f[t] + SumFunctionOnSet(f, {t} \ {t})
  BY <1>1, SumOf
<1>3. {t} \ {t} = {} /\ SumFunctionOnSet(f, {}) = 0
  BY <1>1, SumOf
<1> DEFINE n == f[t]
<1>4. SumFunctionOnSet(f, {t}) = n + 0
  BY <1>2, <1>3
<1>5. n + 0 = n
  <2> HIDE DEF n
  <2>1. n \in Nat
    BY DEF n
  <2>2. QED
    BY <2>1
<1>6. QED
  BY <1>3, <1>4, <1>5

\* A step that puts no task on a GPU and changes no declaration keeps the promises.
LEMMA NothingPromised ==
  ASSUME GpuTypeOK, PromisesCanBeKept, reclaimed' = reclaimed, \A g \in Gpu : On(g)' \subseteq On(g)
  PROVE  PromisesCanBeKept'
<1>1. CapacityRespected'
  <2> SUFFICES ASSUME NEW g \in Gpu
               PROVE  100 * SumFunctionOnSet(Memory(g)', On(g)') <= 98 * Total[g]
    BY DEF CapacityRespected
  <2>1. Memory(g)' = Memory(g)
    BY DEF Memory, Declared
  <2>2. On(g)' \in SUBSET Task /\ On(g) \in SUBSET Task /\ On(g)' \subseteq On(g)
    BY DEF On
  <2>3. 100 * SumFunctionOnSet(Memory(g), On(g)) <= 98 * Total[g]
    BY DEF PromisesCanBeKept, CapacityRespected
  <2>4. 100 * SumFunctionOnSet(Memory(g), On(g)') <= 98 * Total[g]
    BY <2>2, <2>3, SameLedger
  <2>5. QED
    BY <2>1, <2>4
<1>2. ExclusiveAlone'
  BY DEF PromisesCanBeKept, ExclusiveAlone, ExclusiveActive
<1>3. QED
  BY <1>1, <1>2 DEF PromisesCanBeKept

\* The cycle: what it reclaims and what it launches.
LEMMA CollectKeeps ==
  ASSUME GpuInv, EveryoneAsks, LargeCards, CollectCycle
  PROVE  PromisesCanBeKept'
<1>1. PICK b, h, busy, m : Cycle(b, h, busy, m)
  BY CycleLaunches DEF GpuInv
<1>2. PICK T : Decides(T)
  BY CycleReclaims DEF GpuInv, GpuBasics
<1>3. GpuTypeOK /\ DecidedHaveRun /\ SeenWereLaunched /\ phase = "read"
  BY DEF GpuInv, GpuBasics, CollectCycle
<1> DEFINE L == {b.decided[i] : i \in 1..m}
<1>4. Launched(b, L)
  BY <1>1 DEF Cycle
<1> HIDE DEF L
<1>5. GoodBatch(b, Queued)
  BY <1>1, <1>3, ScheduleKeeps DEF Cycle
<1>6. ASSUME NEW g \in Gpu
       PROVE  /\ On(g) \subseteq Viewed(g)
              /\ On(g)' \subseteq On(g) \cup Given(b, g)
              /\ Given(b, g) \in SUBSET Queued
              /\ Viewed(g) \cap Given(b, g) = {}
              /\ On(g)' \in SUBSET Task
  <2>1. On(g) \subseteq Viewed(g)
    BY <1>3 DEF On, Viewed, GpuInv, NothingMissed
  <2>2. Given(b, g) \in SUBSET Queued
    BY <1>5 DEF GoodBatch, Keeps
  <2>3. Viewed(g) \cap Given(b, g) = {}
    BY <1>3, <2>2 DEF Viewed, Queued, SeenWereLaunched
  <2>4. ASSUME NEW t \in On(g)' PROVE t \in On(g) \cup Given(b, g)
    <3>1. t \in Task /\ life'[t] \in {"reserved", "running"} /\ g \in assigned'[t]
      BY DEF On, Active
    <3>2. CASE t \in L
      BY <1>4, <3>1, <3>2 DEF Launched, Given
    <3>3. CASE t \notin L
      BY <1>4, <3>1, <3>3 DEF Launched, On, Active
    <3>4. QED
      BY <3>2, <3>3
  <2>5. On(g)' \in SUBSET Task
    BY DEF On
  <2>6. QED
    BY <2>1, <2>2, <2>3, <2>4, <2>5
<1>7. ASSUME NEW g \in Gpu
       PROVE  /\ 100 * SumFunctionOnSet(Memory(g)', On(g)') <= 98 * Total[g]
              /\ \A t \in On(g)' : ExclusiveActive(t, g)' => On(g)' = {t}
  <2> DEFINE freed == {t \in T : g \in assigned[t] /\ reclaimed'[t][g] # 0}
  <2>1. CASE freed # {}
    <3>1. PICK t \in T : g \in assigned[t] /\ reclaimed'[t][g] # 0
      BY <2>1
    <3>2. t \in Exclusive /\ t \notin done /\ life[t] = "running" /\ t \in Task
      <4>1. t \in Exclusive \ done /\ life[t] = "running"
        BY <1>2 DEF Decides
      <4>2. Exclusive \subseteq Task
        BY GpuAdmissionAssumption
      <4>3. QED
        BY <4>1, <4>2
    <3>3. t \in On(g) /\ ExclusiveActive(t, g)
      BY <1>3, <3>1, <3>2 DEF On, Active, ExclusiveActive, DecidedHaveRun
    <3>4. On(g) = {t} /\ Given(b, g) = {}
      <4>1. On(g) = {t}
        BY <3>3 DEF GpuInv, PromisesCanBeKept, ExclusiveAlone
      <4>2. t \in Viewed(g)
        BY <1>6, <3>3
      <4>3. QED
        BY <1>5, <3>3, <4>1, <4>2 DEF GoodBatch, Keeps
    <3>5. On(g)' = {} \/ On(g)' = {t}
      BY <1>6, <3>4
    <3> DEFINE f == Memory(g)'
               R == On(g)'
               total == Total[g]
    <3>6. f[t] = reclaimed'[t][g]
      BY <3>2 DEF Memory, Declared
    <3>7. /\ f[t] \in Nat /\ 100 * f[t] <= 98 * total /\ total \in Nat
      <4>1. reclaimed'[t][g] \in Nat
        BY <1>2, <3>2 DEF Decides
      <4>2. total \in Nat /\ 28 * total >= 51200
        BY GpuAdmissionAssumption DEF LargeCards
      <4>3. 100 * reclaimed'[t][g] <= 98 * total
        BY <1>2, <3>1, <3>2, <4>2 DEF Decides
      <4>4. QED
        BY <3>6, <4>1, <4>2, <4>3
    <3>8. 100 * SumFunctionOnSet(f, R) <= 98 * total
      <4> HIDE DEF f, R
      <4>1. SumFunctionOnSet(f, {t}) = f[t] /\ SumFunctionOnSet(f, {}) = 0
        BY <3>7, OneLedger
      <4>2. SumFunctionOnSet(f, R) = f[t] \/ SumFunctionOnSet(f, R) = 0
        BY <3>5, <4>1 DEF R
      <4> HIDE DEF total
      <4>3. 100 * 0 <= 98 * total
        BY <3>7
      <4>4. QED
        BY <3>7, <4>2, <4>3
    <3>9. \A u \in On(g)' : On(g)' = {u}
      BY <3>5
    <3>10. QED
      BY <3>8, <3>9
  <2>2. CASE freed = {}
    <3>1. ASSUME NEW t \in Exclusive PROVE reclaimed'[t][g] = reclaimed[t][g]
      <4>1. CASE t \in T /\ g \in assigned[t]
        <5>1. reclaimed'[t][g] = 0
          BY <2>2, <4>1
        <5>2. reclaimed[t][g] = 0
          BY <1>2, <1>3, <4>1 DEF Decides, DecidedHaveRun
        <5>3. QED
          BY <5>1, <5>2
      <4>2. CASE ~(t \in T /\ g \in assigned[t])
        BY <1>2, <4>2 DEF Decides
      <4>3. QED
        BY <4>1, <4>2
    <3>2. Memory(g)' = Memory(g)
      BY <3>1 DEF Memory, Declared
    <3>3. On(g) \in SUBSET Task /\ Given(b, g) \in SUBSET Task /\ Viewed(g) \in SUBSET Task
      BY <1>3, LedgerIsNatural DEF Given
    <3>4. CASE Given(b, g) = {}
      <4>1. On(g)' \subseteq On(g)
        BY <1>6, <3>4
      <4>2. 100 * SumFunctionOnSet(Memory(g), On(g)) <= 98 * Total[g]
        BY DEF GpuInv, PromisesCanBeKept, CapacityRespected
      <4>3. 100 * SumFunctionOnSet(Memory(g), On(g)') <= 98 * Total[g]
        BY <1>3, <1>6, <3>3, <4>1, <4>2, SameLedger
      <4>4. ASSUME NEW t \in On(g)', ExclusiveActive(t, g)'
            PROVE  On(g)' = {t}
        <5>1. t \in On(g) /\ ExclusiveActive(t, g)
          BY <3>1, <4>1, <4>4 DEF ExclusiveActive
        <5>2. On(g) = {t}
          BY <5>1 DEF GpuInv, PromisesCanBeKept, ExclusiveAlone
        <5>3. QED
          BY <4>1, <5>2
      <4>5. QED
        BY <3>2, <4>3, <4>4
    <3>5. CASE Given(b, g) # {}
      <4>1. On(g)' \subseteq Viewed(g) \cup Given(b, g)
        BY <1>6
      <4>2. SumFunctionOnSet(Memory(g), Viewed(g) \cup Given(b, g)) = Managed(g) + b.pending[g]
        <5> DEFINE f == Memory(g)
                   A == Viewed(g)
                   B == Given(b, g)
        <5>1. IsFiniteSet(A) /\ IsFiniteSet(B) /\ \A t \in A \cup B : f[t] \in Nat
          BY <1>3, <3>3, LedgerIsNatural
        <5>2. A \cap B = {}
          BY <1>6
        <5>3. SumFunctionOnSet(f, A \cup B) = SumFunctionOnSet(f, A) + SumFunctionOnSet(f, B)
          <6> HIDE DEF f, A, B
          <6>1. QED
            BY <5>1, <5>2, SumOfTwo
        <5>4. b.pending[g] = SumFunctionOnSet(f, B)
          BY <1>5 DEF GoodBatch, Keeps
        <5>5. QED
          BY <5>3, <5>4 DEF Managed
      <4>3. 100 * SumFunctionOnSet(Memory(g), Viewed(g) \cup Given(b, g)) <= 98 * Total[g]
        BY <1>5, <3>5, <4>2 DEF GoodBatch, Keeps
      <4>4. 100 * SumFunctionOnSet(Memory(g), On(g)') <= 98 * Total[g]
        <5>1. Viewed(g) \cup Given(b, g) \in SUBSET Task
          BY <3>3
        <5>2. QED
          BY <1>3, <1>6, <4>1, <4>3, <5>1, SameLedger
      <4>5. ASSUME NEW t \in On(g)', ExclusiveActive(t, g)'
            PROVE  On(g)' = {t}
        <5>1. ExclusiveActive(t, g)
          BY <3>1, <4>5 DEF ExclusiveActive
        <5>2. t \notin Viewed(g)
          BY <1>5, <3>5, <5>1 DEF GoodBatch, Keeps
        <5>3. t \in Given(b, g) /\ t \in Exclusive
          BY <4>1, <5>1, <5>2 DEF ExclusiveActive
        <5>4. Given(b, g) = {t} /\ Viewed(g) = {}
          BY <1>5, <5>3 DEF GoodBatch, Keeps
        <5>5. QED
          BY <4>1, <5>4
      <4>6. QED
        BY <3>2, <4>4, <4>5
    <3>6. QED
      BY <3>4, <3>5
  <2>3. QED
    BY <2>1, <2>2
<1>8. CapacityRespected'
  BY <1>7 DEF CapacityRespected
<1>9. ExclusiveAlone'
  BY <1>7 DEF ExclusiveAlone
<1>10. QED
  BY <1>8, <1>9 DEF PromisesCanBeKept

\* The command line of a task confirms its launch between the two reads.
TornRead == phase = "half" /\ \E t \in Task : Confirm(t)

\* Every step keeps the invariant, unless the snapshot was torn.
LEMMA GpuStepInv ==
  ASSUME GpuInv, EveryoneAsks, LargeCards, [GpuNext]_gpuVars, ~TornRead
  PROVE  GpuInv'
<1>1. GpuBasics /\ GpuBasics' /\ GpuTypeOK
  BY GpuStepBasics DEF GpuInv, GpuBasics
<1>2. PromisesCanBeKept'
  <2>1. CASE CollectCycle
    BY <2>1, CollectKeeps
  <2>2. CASE ~CollectCycle
    <3>1. reclaimed' = reclaimed /\ \A g \in Gpu : On(g)' \subseteq On(g)
      BY <1>1, <2>2, OtherSteps
    <3>2. QED
      BY <1>1, <3>1, NothingPromised DEF GpuInv
  <2>3. QED
    BY <2>1, <2>2
<1>3. NothingMissed'
  <2>1. CASE UNCHANGED gpuVars
    BY <2>1 DEF gpuVars, GpuInv, NothingMissed, Active
  <2>2. CASE \E t \in Task : Submit(t)
    BY <1>1, <2>2 DEF Submit, GpuInv, NothingMissed, Active, GpuTypeOK
  <2>3. CASE \E t \in Task, p \in Priority : SetTaskPriority(t, p)
    BY <2>3 DEF SetTaskPriority, GpuInv, NothingMissed, Active
  <2>4. CASE \E t \in Task : Confirm(t)
    <3>1. phase # "half"
      BY <2>4 DEF TornRead
    <3>2. QED
      BY <1>1, <2>4, <3>1 DEF Confirm, GpuInv, NothingMissed, Active, GpuTypeOK
  <2>5. CASE \E t \in Task : End(t)
    BY <1>1, <2>5 DEF End, GpuInv, NothingMissed, Active, GpuTypeOK
  <2>6. CASE ReadRunning \/ ReadReserved
    BY <2>6 DEF ReadRunning, ReadReserved, taskVars, GpuInv, NothingMissed, Active
  <2>7. CASE CollectCycle
    BY <2>7 DEF CollectCycle, NothingMissed
  <2>8. QED
    BY <2>1, <2>2, <2>3, <2>4, <2>5, <2>6, <2>7 DEF GpuNext
<1>4. QED
  BY <1>1, <1>2, <1>3 DEF GpuInv

\* The invariant holds when the daemon starts.
LEMMA GpuInitInv == GpuInit => GpuInv
<1> SUFFICES ASSUME GpuInit PROVE GpuInv
  OBVIOUS
<1>1. GpuBasics
  BY GpuInitBasics
<1>2. NothingMissed
  BY DEF GpuInit, NothingMissed
<1>3. \A g \in Gpu : On(g) = {}
  BY DEF GpuInit, On, Active
<1>4. CapacityRespected
  <2> SUFFICES ASSUME NEW g \in Gpu
               PROVE  100 * SumFunctionOnSet(Memory(g), On(g)) <= 98 * Total[g]
    BY DEF CapacityRespected
  <2>1. SumFunctionOnSet(Memory(g), {}) = 0
    BY FS_EmptySet, SumOf
  <2>2. On(g) = {} /\ Total[g] \in Nat
    BY <1>3, GpuAdmissionAssumption
  <2>3. SumFunctionOnSet(Memory(g), On(g)) = 0
    BY <2>1, <2>2
  <2>4. QED
    BY <2>2, <2>3
<1>5. ExclusiveAlone
  BY <1>3 DEF ExclusiveAlone
<1>6. QED
  BY <1>1, <1>2, <1>4, <1>5 DEF GpuInv, PromisesCanBeKept

\* What the scheduler promises of a GPU can be kept as long as no command line
\* confirms its launch between the two reads of the queue (scheduler.py,
\* service.py, snapshot.py), provided a shared task that wants GPUs declares
\* memory, and every card has 1829 MB or more.
THEOREM PromisesAreKept ==
  ASSUME EveryoneAsks, LargeCards
  PROVE  GpuSpec /\ [][~TornRead]_gpuVars => []PromisesCanBeKept
<1>1. GpuInv /\ [GpuNext]_gpuVars /\ [~TornRead]_gpuVars => GpuInv'
  <2> SUFFICES ASSUME GpuInv, [GpuNext]_gpuVars, [~TornRead]_gpuVars PROVE GpuInv'
    OBVIOUS
  <2>1. CASE ~TornRead
    BY <2>1, GpuStepInv
  <2>2. CASE UNCHANGED gpuVars
    <3>1. ~TornRead
      BY <2>2 DEF TornRead, Confirm, gpuVars, GpuInv, GpuBasics, GpuTypeOK
    <3>2. QED
      BY <3>1, GpuStepInv
  <2>3. QED
    BY <2>1, <2>2
<1>2. GpuInv => PromisesCanBeKept
  BY DEF GpuInv
<1>3. QED
  BY <1>1, <1>2, GpuInitInv, PTL DEF GpuSpec

\* A task of the queue is overtaken only by tasks that it would not fit beside
\* if they had waited: the batch is made and carried out in the queue's order
\* (scheduler.py, service.py).  This needs nothing of the tasks or the cards,
\* and no whole snapshot.
THEOREM NobodyIsOvertaken == GpuSpec => NoOvertaking
<1> DEFINE launched == {t \in Queued : life'[t] \in {"reserved", "running"}}
<1>1. ASSUME GpuBasics, [GpuNext]_gpuVars,
             NEW t \in Queued \ launched, NEW u \in launched,
             life'[t] = "queued", Before(t, u)
      PROVE  Cardinality({g \in Gpu : Room(t, g, {v \in launched : Before(v, t)})}) < Count[t]
  <2>1. CollectCycle
    BY <1>1, OtherSteps
  <2>2. PICK b, h, busy, m : Cycle(b, h, busy, m)
    BY <1>1, <2>1, CycleLaunches
  <2> DEFINE L == {b.decided[i] : i \in 1..m}
  <2>3. /\ Launched(b, L) /\ FairBatch(b, Queued, h) /\ samples' = h
        /\ m \in Nat /\ m <= Len(b.decided) /\ Len(b.decided) \in Nat
    <3>1. FairBatch(b, Queued, h) /\ m \in 0..Len(b.decided) /\ Launched(b, L) /\ samples' = h
      BY <2>2 DEF Cycle
    <3>2. b.decided \in Seq(Task)
      BY <3>1 DEF FairBatch, Batch
    <3>3. QED
      BY <3>1, <3>2
  <2>4. launched = L
    BY <2>3 DEF Launched, Queued
  <2>5. /\ t \in Task /\ u \in Task /\ L \in SUBSET Task
        /\ \A x, y \in Task : ~(Before(x, y) /\ Before(y, x))
        /\ \A x \in Task : ~Before(x, x)
    BY <1>1, <2>3, BeforeIsAnOrder DEF Queued, GpuBasics, Launched
  <2>6. PICK j \in 1..m : u = b.decided[j]
    BY <2>4
  <2>7. ASSUME NEW v \in DecidedOf(b), v = t \/ Before(v, t)
        PROVE  v \in L
    <3>1. PICK i \in 1..Len(b.decided) : v = b.decided[i]
      BY DEF DecidedOf
    <3>2. \A x \in Task : prio[x] \in Nat /\ x \in Nat
      BY <1>1, GpuAdmissionAssumption DEF GpuBasics, GpuTypeOK
    <3>3. v \in Task
      BY <2>3 DEF FairBatch, Queued
    <3>4. Before(v, u)
      BY <1>1, <2>5, <2>7, <3>2, <3>3 DEF Before
    <3>5. ~(j < i) /\ i # j
      <4>1. j \in 1..Len(b.decided)
        BY <2>3
      <4>2. j < i => Before(u, v)
        BY <2>3, <2>6, <3>1, <4>1 DEF FairBatch
      <4>3. QED
        BY <2>5, <2>6, <3>1, <3>3, <3>4, <4>2
    <3>6. i \in 1..m
      BY <2>3, <3>5
    <3>7. QED
      BY <3>1, <3>6
  <2>8. t \in Queued \ DecidedOf(b)
    BY <1>1, <2>4, <2>7
  <2>9. Cardinality({g \in Gpu : RoomFor(b, h, t, g)}) < Count[t]
    BY <2>3, <2>8 DEF FairBatch
  <2>10. ASSUME NEW g \in Gpu
         PROVE  Room(t, g, {v \in launched : Before(v, t)}) <=> RoomFor(b, h, t, g)
    <3> DEFINE V == {v \in launched : Before(v, t)}
    <3>1. {v \in V : g \in assigned'[v]} = {v \in Given(b, g) : Before(v, t)}
      <4>1. ASSUME NEW v \in launched PROVE v \in Task /\ assigned'[v] = b.gpus[v]
        BY <2>3, <2>4, <2>5 DEF Launched
      <4>2. ASSUME NEW v \in Given(b, g), Before(v, t) PROVE v \in launched
        BY <2>3, <2>4, <2>7, <4>2 DEF FairBatch, Balanced
      <4>3. QED
        BY <4>1, <4>2 DEF Given
    <3> HIDE DEF V
    <3>2. QED
      BY <2>3, <3>1 DEF Room, RoomFor, V
  <2>11. {g \in Gpu : Room(t, g, {v \in launched : Before(v, t)})} = {g \in Gpu : RoomFor(b, h, t, g)}
    BY <2>10
  <2>12. QED
    BY <2>9, <2>11
<1>2. GpuBasics /\ [GpuNext]_gpuVars =>
        [LET tried == {t \in Queued : life'[t] \in {"reserved", "running"}}
         IN  \A t \in Queued \ tried : \A u \in tried :
               life'[t] = "queued" /\ Before(t, u)
                   => Cardinality({g \in Gpu : Room(t, g, {v \in tried : Before(v, t)})})
                          < Count[t]]_gpuVars
  BY <1>1
<1>3. QED
  BY <1>2, GpuInitBasics, GpuStepBasics, PTL DEF GpuSpec, NoOvertaking

-----------------------------------------------------------------------------
(***************************************************************************)
(* The shares of a card: its rows are finitely many, and what is measured  *)
(* is any natural number.                                                  *)
(***************************************************************************)
Row == [key : Key, mb : Nat]
CardOK ==
  /\ card.tasks \in Seq(Row) /\ card.processes \in Seq(Row)
  /\ card.unknown \in Nat /\ card.used \in Nat

\* A card without rows is one.
LEMMA CardInitOK == ShareInit => CardOK
<1> SUFFICES ASSUME ShareInit PROVE CardOK
  OBVIOUS
<1>1. card.tasks = <<>> /\ card.processes = <<>> /\ card.unknown = 0 /\ card.used = 0
  BY DEF ShareInit
<1>2. QED
  BY <1>1 DEF CardOK

\* Each row is added to one of the sequences.
LEMMA CardKeeps == CardOK /\ [ShareNext]_shareVars => CardOK'
<1> SUFFICES ASSUME CardOK, [ShareNext]_shareVars PROVE CardOK'
  OBVIOUS
<1>1. ASSUME NEW k \in Key, NEW mb \in 0..MaxMb, TaskRow(k, mb) PROVE CardOK'
  <2>1. [key |-> k, mb |-> mb] \in Row
    BY ShareAssumption DEF Row
  <2>2. /\ card'.tasks = Append(card.tasks, [key |-> k, mb |-> mb])
        /\ card'.processes = card.processes /\ card'.unknown = card.unknown
        /\ card'.used = card.used
    BY <1>1 DEF TaskRow
  <2>3. QED
    BY <2>1, <2>2 DEF CardOK
<1>2. ASSUME NEW k \in Key, NEW mb \in 0..MaxMb, ProcessRow(k, mb) PROVE CardOK'
  <2>1. [key |-> k, mb |-> mb] \in Row
    BY ShareAssumption DEF Row
  <2>2. /\ card'.processes = Append(card.processes, [key |-> k, mb |-> mb])
        /\ card'.tasks = card.tasks /\ card'.unknown = card.unknown
        /\ card'.used = card.used
    BY <1>2 DEF ProcessRow
  <2>3. QED
    BY <2>1, <2>2 DEF CardOK
<1>3. ASSUME NEW mb \in 1..MaxMb, UnknownRow(mb) PROVE CardOK'
  BY <1>3, ShareAssumption DEF UnknownRow, CardOK
<1>4. CASE Measured
  BY <1>4 DEF Measured, CardOK
<1>5. CASE UNCHANGED shareVars
  BY <1>5 DEF shareVars, CardOK
<1>6. QED
  BY <1>1, <1>2, <1>3, <1>4, <1>5 DEF ShareNext

-----------------------------------------------------------------------------
(* Numbers. *)

\* What is clamped lies between the bounds, and nothing else is changed.
LEMMA ClampIs ==
  ASSUME NEW v \in Int, NEW high \in Nat
  PROVE  /\ clamp(v, 0, high) \in 0..high
         /\ v \in 0..high => clamp(v, 0, high) = v
<1> DEFINE m == IF v >= 0 THEN v ELSE 0
           n == IF m <= high THEN m ELSE high
<1>1. Max({v, 0}) = m
  BY DEF Max
<1>2. m \in Nat
  OBVIOUS
<1> HIDE DEF m
<1>3. Min({m, high}) = n
  BY <1>2 DEF Min
<1>4. clamp(v, 0, high) = n
  BY <1>1, <1>3 DEF clamp
<1>5. QED
  BY <1>2, <1>4 DEF m

-----------------------------------------------------------------------------
(* What the owners have reserved. *)

\* The rows of an owner are some of all rows; every task has an owner.
LEMMA RowsAre ==
  ASSUME CardOK
  PROVE  /\ rows \in Seq(Row)
         /\ DOMAIN card.tasks = 1..Len(card.tasks) /\ Len(card.tasks) \in Nat
         /\ DOMAIN rows = 1..Len(rows) /\ Len(rows) \in Nat
         /\ Len(rows) = Len(card.tasks) + Len(card.processes)
         /\ Len(card.processes) \in Nat
         /\ \A i \in DOMAIN card.tasks : i \in DOMAIN rows /\ rows[i] = card.tasks[i]
<1> DEFINE t == card.tasks
           p == card.processes
<1>1. t \in Seq(Row) /\ p \in Seq(Row)
  BY DEF CardOK
<1>2. rows = t \o p
  BY DEF rows
<1> HIDE DEF t, p
<1>3. /\ t \o p \in Seq(Row) /\ Len(t \o p) = Len(t) + Len(p)
      /\ \A i \in 1..Len(t) + Len(p) : (t \o p)[i] = IF i <= Len(t) THEN t[i] ELSE p[i - Len(t)]
  BY <1>1, ConcatProperties
<1>4. DOMAIN t = 1..Len(t) /\ Len(t) \in Nat /\ Len(p) \in Nat
  BY <1>1
<1>5. DOMAIN rows = 1..Len(t) + Len(p) /\ Len(rows) = Len(t) + Len(p) /\ rows \in Seq(Row)
  BY <1>2, <1>3
<1>6. \A i \in 1..Len(t) : i \in DOMAIN rows /\ rows[i] = t[i]
  BY <1>2, <1>3, <1>4, <1>5
<1>7. /\ DOMAIN rows = 1..Len(rows) /\ Len(rows) \in Nat
      /\ \A i \in DOMAIN t : i \in DOMAIN rows /\ rows[i] = t[i]
  BY <1>4, <1>5, <1>6
<1>8. QED
  BY <1>4, <1>5, <1>7 DEF t, p

\* The amounts of rows are natural numbers, and so is what they add up to.
LEMMA AmountsAre ==
  ASSUME NEW rs \in Seq(Row)
  PROVE  /\ IsFiniteSet(DOMAIN rs)
         /\ \A i \in DOMAIN rs : Amounts(rs)[i] = rs[i].mb /\ rs[i].mb \in Nat /\ rs[i].key \in Key
         /\ TotalMb(rs) \in Nat
         /\ \A k : MbOf(k, rs) \in Nat
<1>1. DOMAIN rs = 1..Len(rs) /\ Len(rs) \in Nat
  OBVIOUS
<1>2. IsFiniteSet(DOMAIN rs)
  BY <1>1, FS_Interval
<1>3. \A i \in DOMAIN rs : rs[i] \in Row
  OBVIOUS
<1>4. \A i \in DOMAIN rs : Amounts(rs)[i] = rs[i].mb /\ rs[i].mb \in Nat /\ rs[i].key \in Key
  BY <1>3 DEF Amounts, Row
<1>5. TotalMb(rs) \in Nat
  BY <1>2, <1>4, SumOf DEF TotalMb
<1>6. ASSUME NEW k PROVE MbOf(k, rs) \in Nat
  <2> DEFINE I == {i \in DOMAIN rs : rs[i].key = k}
  <2>1. IsFiniteSet(I) /\ \A i \in I : Amounts(rs)[i] \in Nat
    BY <1>2, <1>4, FS_Subset
  <2> HIDE DEF I
  <2>2. SumFunctionOnSet(Amounts(rs), I) \in Nat
    BY <2>1, SumOf
  <2>3. QED
    BY <2>2 DEF MbOf, I
<1>7. QED
  BY <1>2, <1>4, <1>5, <1>6

\* The owners are finitely many keys.
LEMMA OwnersAreFinite ==
  ASSUME CardOK
  PROVE  /\ IsFiniteSet(Owners) /\ Owners \subseteq Key
         /\ managed \subseteq Owners /\ IsFiniteSet(managed)
<1> DEFINE D == DOMAIN rows
           owner == [i \in D |-> rows[i].key]
<1>1. rows \in Seq(Row)
  BY RowsAre
<1>2. IsFiniteSet(D) /\ \A i \in D : rows[i].key \in Key
  BY <1>1, AmountsAre
<1>3. owner \in Surjection(D, Owners)
  BY DEF Surjection, Owners
<1>4. Owners \subseteq Key
  BY <1>2 DEF Owners
<1> HIDE DEF D, owner
<1>5. IsFiniteSet(Owners)
  BY <1>2, <1>3, FS_Surjection
<1>6. managed \subseteq Owners
  BY DEF managed
<1>7. QED
  BY <1>4, <1>5, <1>6, FS_Subset

\* What each managed owner has reserved.
Claims == [k \in managed |-> managedReservedMb(k)]

\* What the managed owners have reserved is all that is reserved.
LEMMA ReservedAddsUp ==
  ASSUME CardOK
  PROVE  /\ \A k \in managed : managedReservedMb(k) \in Nat /\ managedReservedMb(k) > 0
         /\ totalManagedReserved \in Nat
         /\ SumFunctionOnSet(Claims, managed) = totalManagedReserved
<1> DEFINE ts == card.tasks
           D == DOMAIN ts
           f == Amounts(ts)
           key == [i \in D |-> ts[i].key]
           I == KeyIsIn(D, key, managed)
<1>1. ts \in Seq(Row)
  BY DEF CardOK
<1>2. /\ IsFiniteSet(D)
      /\ \A i \in D : f[i] = ts[i].mb /\ ts[i].mb \in Nat
      /\ \A k : MbOf(k, ts) \in Nat
      /\ TotalMb(ts) \in Nat
  BY <1>1, AmountsAre
<1>3. \A k \in managed : managedReservedMb(k) \in Nat /\ managedReservedMb(k) > 0
  BY <1>2 DEF managed, managedReservedMb
<1>4. totalManagedReserved = TotalMb(ts) /\ totalManagedReserved = SumFunctionOnSet(f, D)
  BY DEF totalManagedReserved, TotalMb
<1>5. ASSUME NEW i \in D, i \notin I
      PROVE  f[i] = 0
  <2> USE DEF KeyIsIn
  <2> DEFINE k == ts[i].key
             J == {j \in D : ts[j].key = k}
  <2>1. k \in Owners
    BY RowsAre DEF Owners
  <2>2. k \notin managed
    BY <1>5
  <2>3. MbOf(k, ts) = 0
    BY <1>2, <2>1, <2>2 DEF managed, managedReservedMb
  <2>4. SumFunctionOnSet(f, J) = 0
    BY <2>3 DEF MbOf
  <2>5. i \in J /\ IsFiniteSet(J) /\ \A j \in J : f[j] \in Nat
    BY <1>2, FS_Subset
  <2> HIDE DEF J, f
  <2>6. SumFunctionOnSet(f, J) = f[i] + SumFunctionOnSet(f, J \ {i})
    BY <2>5, SumOf
  <2>7. SumFunctionOnSet(f, J \ {i}) \in Nat
    <3>1. IsFiniteSet(J \ {i}) /\ \A j \in J \ {i} : f[j] \in Nat
      BY <2>5, FS_Subset
    <3>2. QED
      BY <3>1, SumOf
  <2>8. QED
    BY <2>4, <2>5, <2>6, <2>7
<1>6. I \in SUBSET D
  BY DEF KeyIsIn
<1>7. \A k \in managed : Claims[k] = SumFunctionOnSet(f, KeyIs(D, key, k))
  <2> TAKE k \in managed
  <2>1. KeyIs(D, key, k) = {i \in D : ts[i].key = k}
    BY DEF KeyIs
  <2>2. QED
    BY <2>1 DEF Claims, managedReservedMb, MbOf
<1>8. \A i \in D : f[i] \in Nat
  BY <1>2
<1> HIDE DEF D, f, key
<1>9. SumFunctionOnSet(Claims, managed) = SumFunctionOnSet(f, I)
  <2>1. IsFiniteSet(managed) /\ IsFiniteSet(D)
    BY <1>2, OwnersAreFinite
  <2>2. QED
    BY <1>7, <1>8, <2>1, SumByKey
<1> HIDE DEF I
<1>10. SumFunctionOnSet(f, D) = SumFunctionOnSet(f, I)
  BY <1>2, <1>5, <1>6, <1>8, SumOfSome
<1>11. QED
  BY <1>2, <1>3, <1>4, <1>9, <1>10

\* The tasks do not use more than they have reserved.
LEMMA ActualIs ==
  ASSUME CardOK
  PROVE  totalActualManaged \in Nat /\ totalActualManaged <= totalManagedReserved
<1> DEFINE v == card.used - TotalMb(card.processes) - card.unknown
<1>1. TotalMb(card.processes) \in Nat
  BY AmountsAre DEF CardOK
<1>2. v \in Int
  BY <1>1 DEF CardOK
<1>3. totalActualManaged = clamp(v, 0, totalManagedReserved)
  BY DEF totalActualManaged
<1> HIDE DEF v
<1>4. totalManagedReserved \in Nat
  BY ReservedAddsUp
<1>5. QED
  BY <1>2, <1>3, <1>4, ClampIs

-----------------------------------------------------------------------------
(* Quotients and their order. *)

\* The exact share of an owner: whole megabytes, not more than it has reserved, and a
\* remainder that is one only where there is room for one more.
LEMMA QuotientIs ==
  ASSUME CardOK, NEW k \in managed
  PROVE  /\ totalManagedReserved > 0
         /\ floorShare(k) \in Nat /\ remainder(k) \in Nat
         /\ remainder(k) < totalManagedReserved
         /\ totalActualManaged * managedReservedMb(k)
               = totalManagedReserved * floorShare(k) + remainder(k)
         /\ floorShare(k) <= managedReservedMb(k)
         /\ remainder(k) > 0 => floorShare(k) + 1 <= managedReservedMb(k)
<1> DEFINE A == totalActualManaged
           R == totalManagedReserved
           r == managedReservedMb(k)
           n == floorShare(k)
           m == remainder(k)
<1>1. r \in Nat /\ r > 0 /\ R \in Nat /\ A \in Nat /\ A <= R
  BY ReservedAddsUp, ActualIs
<1>2. R > 0
  <2>1. /\ SumFunctionOnSet(Claims, managed) = R
        /\ IsFiniteSet(managed) /\ \A j \in managed : Claims[j] \in Nat
    BY ReservedAddsUp, OwnersAreFinite DEF Claims
  <2>2. SumFunctionOnSet(Claims, managed)
          = Claims[k] + SumFunctionOnSet(Claims, managed \ {k})
    BY <2>1, SumOf
  <2>3. SumFunctionOnSet(Claims, managed \ {k}) \in Nat
    <3>1. IsFiniteSet(managed \ {k}) /\ \A j \in managed \ {k} : Claims[j] \in Nat
      BY <2>1, FS_Subset
    <3>2. QED
      BY <3>1, SumOf
  <2>4. Claims[k] = r
    BY DEF Claims
  <2>5. QED
    BY <1>1, <2>1, <2>2, <2>3, <2>4
<1>3. n = (A * r) \div R /\ m = (A * r) % R
  BY DEF floorShare, remainder
<1> HIDE DEF A, R, r, n, m
<1>4. A * r \in Nat
  BY <1>1
<1>5. /\ n \in Nat /\ m \in Nat /\ m < R /\ A * r = R * n + m
  BY <1>1, <1>2, <1>3, <1>4, DivisionIs
<1>6. A * r <= R * r
  <2>1. r * A <= r * R
    BY <1>1, FactorLess
  <2>2. r * A = A * r /\ r * R = R * r
    BY <1>1
  <2>3. QED
    BY <2>1, <2>2
<1>7. R * n \in Nat /\ R * r \in Nat
  BY <1>1, <1>5
<1>8. R * n <= R * r /\ (m > 0 => R * n < R * r)
  BY <1>4, <1>5, <1>6, <1>7
<1>9. n <= r /\ (m > 0 => n < r)
  BY <1>1, <1>2, <1>5, <1>8, FactorLess
<1>10. QED
  BY <1>1, <1>2, <1>5, <1>9 DEF A, R, r, n, m

\* Whom the order of estimates.sort puts before whom.
Earlier == {p \in managed \X managed : SortedBefore(p[1], p[2])}

\* An owner's first row tells the owner.
LEMMA FirstRowIs ==
  ASSUME CardOK, NEW k \in Owners
  PROVE  FirstRow(k) \in Nat /\ rows[FirstRow(k)].key = k
<1> DEFINE I == {i \in DOMAIN rows : rows[i].key = k}
<1>1. I \in SUBSET Nat
  BY RowsAre
<1>2. I # {}
  BY DEF Owners
<1>3. FirstRow(k) = Min(I)
  BY DEF FirstRow
<1> HIDE DEF I
<1>4. Min(I) \in I
  BY <1>1, <1>2, MinIsSmallest
<1>5. QED
  BY <1>1, <1>3, <1>4 DEF I

\* The order in which the remaining megabytes are given away is strict.
LEMMA EarlierOrders ==
  ASSUME CardOK
  PROVE  /\ OrderedBy(managed, Earlier) /\ IsFiniteSet(managed)
         /\ \A j, k \in managed : <<j, k>> \in Earlier <=> SortedBefore(j, k)
<1>1. \A j, k \in managed : <<j, k>> \in Earlier <=> SortedBefore(j, k)
  BY DEF Earlier
<1>2. \A k \in managed : /\ remainder(k) \in Nat /\ managedReservedMb(k) \in Nat
                         /\ FirstRow(k) \in Nat /\ rows[FirstRow(k)].key = k
  <2> TAKE k \in managed
  <2>1. remainder(k) \in Nat
    BY QuotientIs
  <2>2. managedReservedMb(k) \in Nat
    BY ReservedAddsUp
  <2>3. FirstRow(k) \in Nat /\ rows[FirstRow(k)].key = k
    BY OwnersAreFinite, FirstRowIs
  <2>4. QED
    BY <2>1, <2>2, <2>3
<1>3. \A j, k \in managed : j # k => FirstRow(j) # FirstRow(k)
  BY <1>2
<1>4. \A k \in managed : ~SortedBefore(k, k)
  BY <1>2 DEF SortedBefore
<1>5. \A j, k \in managed : j # k => SortedBefore(j, k) \/ SortedBefore(k, j)
  BY <1>2, <1>3 DEF SortedBefore
<1>6. \A i, j, k \in managed : SortedBefore(i, j) /\ SortedBefore(j, k) => SortedBefore(i, k)
  BY <1>2 DEF SortedBefore
<1>7. OrderedBy(managed, Earlier)
  BY <1>1, <1>4, <1>5, <1>6 DEF OrderedBy
<1>8. QED
  BY <1>1, <1>7, OwnersAreFinite

-----------------------------------------------------------------------------
(* What is left after the whole megabytes. *)

Floors     == [k \in managed |-> floorShare(k)]
Remainders == [k \in managed |-> remainder(k)]
Positive   == {k \in managed : remainder(k) > 0}

\* What is left is what the remainders add up to: no more megabytes than there are
\* owners with a remainder.
LEMMA LeftIs ==
  ASSUME CardOK, managed # {}
  PROVE  /\ left \in Nat /\ left <= Cardinality(Positive)
         /\ Cardinality(Positive) \in Nat /\ Cardinality(Positive) <= Cardinality(managed)
         /\ SumFunctionOnSet(Floors, managed) \in Nat
         /\ SumFunctionOnSet(Floors, managed) + left = totalActualManaged
<1> DEFINE A == totalActualManaged
           R == totalManagedReserved
           F == SumFunctionOnSet(Floors, managed)
           M == SumFunctionOnSet(Remainders, managed)
           zero == [k \in managed |-> 0]
           one  == [k \in managed |-> IF k \in Positive THEN 1 ELSE 0]
           top  == [k \in managed |-> R * one[k]]
           h    == [k \in managed |-> A * managedReservedMb(k)]
<1>1. R > 0 /\ R \in Nat /\ A \in Nat /\ IsFiniteSet(managed)
  <2>1. PICK k \in managed : TRUE
    OBVIOUS
  <2>2. QED
    BY <2>1, QuotientIs, ReservedAddsUp, ActualIs, OwnersAreFinite
<1>2. ASSUME NEW k \in managed
      PROVE  /\ Floors[k] \in Nat /\ Remainders[k] \in Nat /\ Claims[k] \in Nat
             /\ zero[k] = 0 /\ h[k] = A * Claims[k] + zero[k]
             /\ h[k] = R * Floors[k] + Remainders[k]
             /\ Remainders[k] < R /\ (k \notin Positive => Remainders[k] = 0)
  <2>1. /\ floorShare(k) \in Nat /\ remainder(k) \in Nat /\ remainder(k) < R
        /\ A * managedReservedMb(k) = R * floorShare(k) + remainder(k)
    BY QuotientIs
  <2>2. managedReservedMb(k) \in Nat
    BY ReservedAddsUp
  <2>3. Floors[k] = floorShare(k) /\ Remainders[k] = remainder(k)
        /\ Claims[k] = managedReservedMb(k)
    BY DEF Floors, Remainders, Claims
  <2>4. h[k] = A * managedReservedMb(k) /\ zero[k] = 0
    OBVIOUS
  <2>5. k \notin Positive => remainder(k) = 0
    BY <2>1 DEF Positive
  <2> HIDE DEF A, R, h, zero
  <2>6. A * managedReservedMb(k) = A * managedReservedMb(k) + 0
    BY <1>1, <2>2
  <2>7. QED
    BY <2>1, <2>2, <2>3, <2>4, <2>5, <2>6
<1>3. SumFunctionOnSet(zero, managed) = 0
  <2>1. \A k \in managed : zero[k] \in Nat
    OBVIOUS
  <2>2. \A k \in managed \ {} : zero[k] = 0
    OBVIOUS
  <2> HIDE DEF zero
  <2>3. {} \in SUBSET managed
    OBVIOUS
  <2>4. SumFunctionOnSet(zero, managed) = SumFunctionOnSet(zero, {})
    BY <1>1, <2>1, <2>2, <2>3, SumOfSome
  <2>5. QED
    BY <1>1, <2>1, <2>4, SumOf
<1>4. /\ \A k \in managed : one[k] = IF k \in Positive THEN 1 ELSE 0
      /\ \A k \in managed : one[k] \in Nat
      /\ \A k \in managed : top[k] = R * one[k]
  BY DEF one
<1> HIDE DEF A, R, zero, one, h, top
<1>5. SumFunctionOnSet(h, managed) = A * R
  <2>1. \A k \in managed : Claims[k] \in Nat /\ zero[k] \in Nat /\ h[k] = A * Claims[k] + zero[k]
    BY <1>2
  <2>2. SumFunctionOnSet(h, managed)
           = A * SumFunctionOnSet(Claims, managed) + SumFunctionOnSet(zero, managed)
    BY <1>1, <2>1, SumLinear
  <2>3. SumFunctionOnSet(Claims, managed) = R
    BY ReservedAddsUp DEF R
  <2>4. A * R \in Nat
    BY <1>1
  <2>5. QED
    BY <1>3, <2>2, <2>3, <2>4
<1>6. SumFunctionOnSet(h, managed) = R * F + M
  <2>1. \A k \in managed : /\ Floors[k] \in Nat /\ Remainders[k] \in Nat
                           /\ h[k] = R * Floors[k] + Remainders[k]
    BY <1>2
  <2>2. QED
    BY <1>1, <2>1, SumLinear
<1>7. F \in Nat /\ M \in Nat
  <2>1. \A k \in managed : Floors[k] \in Nat /\ Remainders[k] \in Nat
    BY <1>2
  <2>2. QED
    BY <1>1, <2>1, SumOf
<1> DEFINE P == Cardinality(Positive)
<1>8. Positive \in SUBSET managed
  BY DEF Positive
<1>9. P \in Nat /\ P <= Cardinality(managed)
  BY <1>1, <1>8, FS_Subset, FS_CardinalityType
<1>10. SumFunctionOnSet(top, managed) = R * P
  <2>1. SumFunctionOnSet(one, managed) = P
    BY <1>1, <1>4, <1>8, SumCounts
  <2>2. \A k \in managed : one[k] \in Nat /\ zero[k] \in Nat /\ top[k] = R * one[k] + zero[k]
    <3> TAKE k \in managed
    <3>1. one[k] \in Nat /\ zero[k] = 0 /\ top[k] = R * one[k]
      BY <1>2, <1>4
    <3>2. R * one[k] \in Nat
      BY <1>1, <3>1
    <3>3. QED
      BY <3>1, <3>2
  <2>3. SumFunctionOnSet(top, managed)
          = R * SumFunctionOnSet(one, managed) + SumFunctionOnSet(zero, managed)
    BY <1>1, <2>2, SumLinear
  <2>4. R * P \in Nat
    BY <1>1, <1>9
  <2>5. QED
    BY <1>3, <2>1, <2>3, <2>4
<1>11. M <= R * P
  <2>1. ASSUME NEW k \in managed
        PROVE  top[k] \in Nat /\ Remainders[k] \in Nat /\ Remainders[k] <= top[k]
    <3>1. Remainders[k] \in Nat /\ Remainders[k] < R /\ (k \notin Positive => Remainders[k] = 0)
      BY <1>2
    <3>2. top[k] = R * one[k] /\ one[k] = IF k \in Positive THEN 1 ELSE 0
      BY <1>4
    <3>3. CASE k \in Positive
      <4>1. top[k] = R * 1
        BY <3>2, <3>3
      <4>2. QED
        BY <1>1, <3>1, <4>1
    <3>4. CASE k \notin Positive
      <4>1. top[k] = R * 0
        BY <3>2, <3>4
      <4>2. QED
        BY <1>1, <3>1, <3>4, <4>1
    <3>5. QED
      BY <3>3, <3>4
  <2>2. SumFunctionOnSet(Remainders, managed) <= SumFunctionOnSet(top, managed)
    <3>1. managed \in SUBSET managed
      OBVIOUS
    <3>2. QED
      BY <1>1, <2>1, <3>1, SumGrows
  <2>3. QED
    BY <1>10, <2>2
<1>12. left = A - F
  BY DEF left, Floors, A
<1> HIDE DEF F, M, P
<1>13. R * left = M
  <2>1. A * R = R * F + M
    BY <1>5, <1>6
  <2>2. R * (A - F) = R * A - R * F
    BY <1>1, <1>7
  <2>3. A * R = R * A /\ R * F \in Nat /\ R * A \in Nat
    BY <1>1, <1>7
  <2>4. QED
    BY <1>7, <1>12, <2>1, <2>2, <2>3
<1>14. left \in Int
  BY <1>1, <1>7, <1>12
<1>15. left >= 0 /\ left <= P
  <2>1. R * 0 <= R * left /\ R * left <= R * P
    BY <1>1, <1>7, <1>11, <1>13
  <2>2. QED
    BY <1>1, <1>9, <1>14, <2>1, FactorLess
<1>16. F + left = A
  BY <1>1, <1>7, <1>12
<1>17. QED
  BY <1>7, <1>9, <1>14, <1>15, <1>16 DEF F, P, A

\* A share is the whole megabytes, and one more for the first owners.
LEMMA ShareIs ==
  ASSUME CardOK, totalActualManaged > 0, NEW k \in managed
  PROVE  /\ managedActualMb(k) = floorShare(k) + (IF Rank(managed, Earlier, k) < left THEN 1 ELSE 0)
         /\ Rank(managed, Earlier, k) \in Nat /\ left \in Nat
         /\ Rank(managed, Earlier, k) < left => remainder(k) > 0
<1> DEFINE place == Rank(managed, Earlier, k)
           r == managedReservedMb(k)
           n == floorShare(k)
<1>1. place = Cardinality({j \in managed : SortedBefore(j, k)})
  <2>1. {j \in managed : <<j, k>> \in Earlier} = {j \in managed : SortedBefore(j, k)}
    BY EarlierOrders
  <2>2. QED
    BY <2>1 DEF Rank
<1>2. place \in Nat
  BY EarlierOrders, RanksDiffer
<1>3. left \in Nat /\ left <= Cardinality(Positive) /\ Cardinality(Positive) \in Nat
  BY LeftIs
<1>4. /\ n \in Nat /\ remainder(k) \in Nat /\ n <= r
      /\ remainder(k) > 0 => n + 1 <= r
  BY QuotientIs
<1>5. r \in Nat
  BY ReservedAddsUp
<1>6. ASSUME remainder(k) = 0
      PROVE  Cardinality(Positive) <= place
  <2> DEFINE I == {j \in managed : SortedBefore(j, k)}
  <2>1. ASSUME NEW j \in Positive PROVE j \in I
    <3>1. j \in managed /\ remainder(j) > 0
      BY DEF Positive
    <3>2. SortedBefore(j, k)
      BY <1>6, <3>1 DEF SortedBefore
    <3>3. QED
      BY <3>1, <3>2
  <2>2. IsFiniteSet(I)
    BY OwnersAreFinite, FS_Subset
  <2> HIDE DEF I
  <2>3. Positive \in SUBSET I
    BY <2>1
  <2>4. Cardinality(Positive) <= Cardinality(I)
    BY <2>2, <2>3, FS_Subset
  <2>5. QED
    BY <1>1, <2>4 DEF I
<1>7. place < left => remainder(k) > 0
  BY <1>2, <1>3, <1>4, <1>6
<1>8. managedActualMb(k) = clamp(n + (IF place < left THEN 1 ELSE 0), 0, r)
  BY <1>1 DEF managedActualMb, ShareOf
<1> HIDE DEF place, r, n
<1>9. n + (IF place < left THEN 1 ELSE 0) \in 0..r
  BY <1>4, <1>5, <1>7
<1>10. managedActualMb(k) = n + (IF place < left THEN 1 ELSE 0)
  BY <1>5, <1>8, <1>9, ClampIs
<1>11. QED
  BY <1>2, <1>3, <1>7, <1>10 DEF place, n


\* The shares add up to what the tasks use.
LEMMA SharesAlwaysAdd == CardOK => SharesAdd
<1> SUFFICES ASSUME CardOK PROVE SharesAdd
  OBVIOUS
<1> DEFINE shares == [k \in Owners |-> managedActualMb(k)]
           A == totalActualManaged
<1>1. /\ IsFiniteSet(Owners) /\ managed \in SUBSET Owners /\ IsFiniteSet(managed)
      /\ A \in Nat /\ totalManagedReserved \in Nat /\ A <= totalManagedReserved
  BY OwnersAreFinite, ActualIs, ReservedAddsUp
<1>2. CASE A = 0
  <2>1. \A k \in Owners : shares[k] = 0
    BY <1>2 DEF managedActualMb
  <2> HIDE DEF shares
  <2>2. /\ \A k \in Owners : shares[k] \in Nat
        /\ \A k \in Owners \ {} : shares[k] = 0
        /\ {} \in SUBSET Owners
    BY <2>1
  <2>3. SumFunctionOnSet(shares, Owners) = SumFunctionOnSet(shares, {})
    BY <1>1, <2>2, SumOfSome
  <2>4. SumFunctionOnSet(shares, {}) = 0
    BY <1>1, <2>2, SumOf
  <2>5. QED
    BY <1>2, <2>3, <2>4 DEF SharesAdd, shares
<1>3. CASE A > 0
  <2>1. managed # {}
    <3> SUFFICES ASSUME managed = {} PROVE FALSE
      OBVIOUS
    <3>1. SumFunctionOnSet(Claims, managed) = totalManagedReserved
          /\ \A k \in managed : Claims[k] \in Nat
      BY ReservedAddsUp
    <3>2. SumFunctionOnSet(Claims, {}) = 0
      BY <1>1, <3>1, SumOf
    <3>3. QED
      BY <1>1, <1>3, <3>1, <3>2
  <2> DEFINE first == {k \in managed : Rank(managed, Earlier, k) < left}
             one == [k \in managed |-> IF k \in first THEN 1 ELSE 0]
             F == SumFunctionOnSet(Floors, managed)
  <2>2. /\ left \in Nat /\ left <= Cardinality(managed) /\ Cardinality(managed) \in Nat
        /\ F \in Nat /\ F + left = A
    <3>1. /\ left \in Nat /\ left <= Cardinality(Positive) /\ Cardinality(Positive) \in Nat
          /\ Cardinality(Positive) <= Cardinality(managed)
          /\ F \in Nat /\ F + left = A
      BY <2>1, LeftIs
    <3>2. Cardinality(managed) \in Nat
      BY <1>1, FS_CardinalityType
    <3>3. QED
      BY <3>1, <3>2
  <2>3. Cardinality(first) = left
    <3>1. left \in 0..Cardinality(managed)
      BY <2>2
    <3>2. QED
      BY <3>1, EarlierOrders, FirstRanks
  <2>4. ASSUME NEW k \in managed
        PROVE  /\ Floors[k] \in Nat /\ one[k] \in Nat
               /\ one[k] = IF k \in first THEN 1 ELSE 0
               /\ shares[k] = 1 * Floors[k] + one[k]
    <3>1. floorShare(k) \in Nat /\ Floors[k] = floorShare(k)
      BY QuotientIs DEF Floors
    <3>2. one[k] = IF k \in first THEN 1 ELSE 0
      OBVIOUS
    <3>3. k \in first <=> Rank(managed, Earlier, k) < left
      OBVIOUS
    <3>4. shares[k] = managedActualMb(k)
      BY <1>1
    <3>5. managedActualMb(k) = floorShare(k) + (IF Rank(managed, Earlier, k) < left THEN 1 ELSE 0)
      BY <1>3, ShareIs
    <3> HIDE DEF one, first, shares
    <3>6. QED
      BY <3>1, <3>2, <3>3, <3>4, <3>5
  <2>5. first \in SUBSET managed
    OBVIOUS
  <2>6. \A k \in Owners \ managed : shares[k] = 0
    BY DEF managedActualMb
  <2> HIDE DEF first, one, shares
  <2>7. SumFunctionOnSet(one, managed) = left
    <3>1. \A k \in managed : one[k] = IF k \in first THEN 1 ELSE 0
      BY <2>4
    <3>2. QED
      BY <1>1, <2>3, <2>5, <3>1, SumCounts
  <2>8. SumFunctionOnSet(shares, managed) = 1 * F + SumFunctionOnSet(one, managed)
    <3> DEFINE c == 1
    <3>1. c \in Nat /\ IsFiniteSet(managed)
      BY <1>1
    <3>2. \A k \in managed : /\ Floors[k] \in Nat /\ one[k] \in Nat
                             /\ shares[k] = c * Floors[k] + one[k]
      BY <2>4
    <3> HIDE DEF c, F
    <3>3. SumFunctionOnSet(shares, managed)
             = c * SumFunctionOnSet(Floors, managed) + SumFunctionOnSet(one, managed)
      BY <3>1, <3>2, SumLinear
    <3>4. QED
      BY <3>3 DEF c, F
  <2>9. \A k \in Owners : shares[k] \in Nat
    <3> TAKE k \in Owners
    <3>1. CASE k \in managed
      BY <2>4, <3>1
    <3>2. CASE k \notin managed
      BY <2>6, <3>2
    <3>3. QED
      BY <3>1, <3>2
  <2>10. SumFunctionOnSet(shares, Owners) = SumFunctionOnSet(shares, managed)
    BY <1>1, <2>6, <2>9, SumOfSome
  <2> HIDE DEF F
  <2>11. SumFunctionOnSet(shares, Owners) = A
    BY <2>2, <2>7, <2>8, <2>10
  <2>12. QED
    BY <2>11 DEF SharesAdd, shares
<1>4. QED
  BY <1>1, <1>2, <1>3

\* Every share is fair.
LEMMA SharesAreFair == CardOK => \A k \in managed : ShareIsFair(k)
<1> SUFFICES ASSUME CardOK, NEW k \in managed PROVE ShareIsFair(k)
  OBVIOUS
<1> DEFINE A == totalActualManaged
           R == totalManagedReserved
           r(j) == managedReservedMb(j)
           n(j) == floorShare(j)
           m(j) == remainder(j)
           s(j) == managedActualMb(j)
           place(j) == Rank(managed, Earlier, j)
<1>1. A \in Nat /\ R \in Nat
  BY ActualIs, ReservedAddsUp
<1>2. ASSUME NEW j \in managed
      PROVE  /\ r(j) \in Nat /\ n(j) \in Nat /\ m(j) \in Nat /\ R > 0 /\ m(j) < R
             /\ A * r(j) = R * n(j) + m(j)
             /\ n(j) <= r(j) /\ (m(j) > 0 => n(j) + 1 <= r(j))
  BY ReservedAddsUp, QuotientIs
<1>3. ASSUME A > 0, NEW j \in managed
      PROVE  /\ s(j) = n(j) + (IF place(j) < left THEN 1 ELSE 0)
             /\ place(j) \in Nat /\ left \in Nat
             /\ place(j) < left => m(j) > 0
  BY <1>3, ShareIs
<1>4. \A j \in managed : SortedBefore(j, k) => place(j) < place(k)
  <2>1. \A j \in managed : SortedBefore(j, k) => <<j, k>> \in Earlier
    BY EarlierOrders
  <2>2. \A j \in managed :
           <<j, k>> \in Earlier => Rank(managed, Earlier, j) < Rank(managed, Earlier, k)
    BY EarlierOrders, RanksDiffer
  <2>3. QED
    BY <2>1, <2>2
<1>5. A = 0 => \A j : s(j) = 0
  BY DEF managedActualMb
<1>6. ASSUME NEW j \in managed, r(j) > r(k)
      PROVE  \/ m(j) > m(k) \/ m(j) # m(k) \/ SortedBefore(j, k)
  BY <1>6 DEF SortedBefore
<1>7. ASSUME NEW j \in managed, m(j) > m(k)
      PROVE  SortedBefore(j, k)
  BY <1>7 DEF SortedBefore
<1> SUFFICES /\ R * s(k) - A * r(k) < R /\ -(R * s(k) - A * r(k)) < R
             /\ s(k) \in 0..r(k)
             /\ \A j \in managed : r(j) > r(k) => s(j) >= s(k)
  BY DEF ShareIsFair
<1> HIDE DEF A, R, r, n, m, s, place
<1>8. CASE A = 0
  <2>1. s(k) = 0 /\ \A j \in managed : s(j) = 0
    BY <1>5, <1>8
  <2>2. r(k) \in Nat /\ R > 0
    BY <1>2
  <2>3. R * s(k) = 0 /\ A * r(k) = 0
    <3>1. R * 0 = 0 /\ 0 * r(k) = 0
      BY <1>1, <2>2
    <3>2. QED
      BY <1>8, <2>1, <3>1
  <2>4. QED
    BY <1>1, <2>1, <2>2, <2>3
<1>9. CASE A > 0
  <2>1. /\ r(k) \in Nat /\ n(k) \in Nat /\ m(k) \in Nat /\ R > 0 /\ m(k) < R
        /\ A * r(k) = R * n(k) + m(k)
        /\ n(k) <= r(k) /\ (m(k) > 0 => n(k) + 1 <= r(k))
    BY <1>2
  <2>2. /\ s(k) = n(k) + (IF place(k) < left THEN 1 ELSE 0)
        /\ place(k) \in Nat /\ left \in Nat
        /\ place(k) < left => m(k) > 0
    BY <1>3, <1>9
  <2>3. s(k) \in 0..r(k)
    BY <2>1, <2>2
  <2>4. R * s(k) - A * r(k) < R /\ -(R * s(k) - A * r(k)) < R
    <3>1. R * n(k) \in Nat
      BY <1>1, <2>1
    <3>2. CASE place(k) < left
      <4>1. R * s(k) = R * n(k) + R
        <5>1. s(k) = n(k) + 1
          BY <2>2, <3>2
        <5>2. R * (n(k) + 1) = R * n(k) + R
          BY <1>1, <2>1
        <5>3. QED
          BY <5>1, <5>2
      <4>2. m(k) > 0
        BY <2>2, <3>2
      <4>3. QED
        BY <1>1, <2>1, <3>1, <4>1, <4>2
    <3>3. CASE ~(place(k) < left)
      <4>1. s(k) = n(k)
        BY <2>1, <2>2, <3>3
      <4>2. R * s(k) = R * n(k)
        BY <4>1
      <4>3. QED
        BY <1>1, <2>1, <3>1, <4>2
    <3>4. QED
      BY <3>2, <3>3
  <2>5. ASSUME NEW j \in managed, r(j) > r(k) PROVE s(j) >= s(k)
    <3>1. /\ r(j) \in Nat /\ n(j) \in Nat /\ m(j) \in Nat /\ m(j) < R
          /\ A * r(j) = R * n(j) + m(j)
      BY <1>2
    <3>2. /\ s(j) = n(j) + (IF place(j) < left THEN 1 ELSE 0)
          /\ place(j) \in Nat
      BY <1>3, <1>9
    <3>3. A * r(k) <= A * r(j)
      BY <1>1, <1>9, <2>1, <2>5, <3>1, FactorLess
    <3>4. R * n(k) \in Nat /\ R * n(j) \in Nat
      BY <1>1, <2>1, <3>1
    <3>5. R * n(k) < R * (n(j) + 1)
      <4>1. R * (n(j) + 1) = R * n(j) + R
        BY <1>1, <3>1
      <4>2. QED
        BY <1>1, <2>1, <3>1, <3>3, <3>4, <4>1
    <3>6. n(k) <= n(j)
      <4>1. n(k) < n(j) + 1
        BY <1>1, <2>1, <3>1, <3>5, FactorLess
      <4>2. QED
        BY <2>1, <3>1, <4>1
    <3>7. CASE n(k) < n(j)
      BY <2>1, <2>2, <3>1, <3>2, <3>7
    <3>8. CASE n(k) = n(j)
      <4>1. m(j) >= m(k)
        <5>1. R * n(k) = R * n(j)
          BY <3>8
        <5>2. QED
          BY <2>1, <3>1, <3>3, <3>4, <5>1
      <4>2. SortedBefore(j, k)
        <5>1. CASE m(j) > m(k)
          BY <1>7, <5>1
        <5>2. CASE m(j) = m(k)
          BY <1>6, <2>1, <2>5, <5>2
        <5>3. QED
          BY <2>1, <3>1, <4>1, <5>1, <5>2
      <4>3. place(j) < place(k)
        BY <1>4, <4>2
      <4>4. place(k) < left => place(j) < left
        BY <2>2, <3>2, <4>3
      <4>5. QED
        BY <2>1, <2>2, <3>1, <3>2, <3>8, <4>4
    <3>9. QED
      BY <2>1, <3>1, <3>6, <3>7, <3>8
  <2>6. QED
    BY <2>3, <2>4, <2>5
<1>10. QED
  BY <1>1, <1>8, <1>9

-----------------------------------------------------------------------------
(***************************************************************************)
(* Colours.                                                                *)
(***************************************************************************)
\* 0 stands for no colour.
Colors == [Key -> 0..Palette]

\* A distance is a natural number.
LEMMA HueDistanceIs ==
  ASSUME NEW a \in Int, NEW b \in Int
  PROVE  hueDistance(a, b) \in Nat
<1> DEFINE x == (a - b) % Hues
           y == (b - a) % Hues
<1>1. Hues \in Nat /\ Hues > 0
  BY ShareAssumption
<1>2. x \in Nat /\ y \in Nat
  BY <1>1
<1>3. hueDistance(a, b) = Min({x, y})
  BY DEF hueDistance
<1> HIDE DEF x, y
<1>4. {x, y} \in SUBSET Nat /\ {x, y} # {}
  BY <1>2
<1>5. Min({x, y}) \in {x, y}
  BY <1>4, MinIsSmallest
<1>6. QED
  BY <1>2, <1>3, <1>5

\* A hue is a natural number.
LEMMA HueIs == ASSUME NEW c \in Nat PROVE hexToHue(c) \in Nat
<1>1. Hues \in Nat /\ Hues > 0
  BY ShareAssumption
<1>2. c % Hues \in Nat
  BY <1>1
<1>3. QED
  BY <1>2 DEF hexToHue

\* A colour is one of the palette, and one that is not used while there is one.
LEMMA ColorIs ==
  ASSUME NEW k \in Key, NEW used \in SUBSET (1..Palette)
  PROVE  /\ getOwnerColor(k, used) \in 1..Palette
         /\ 1..Palette \ used # {} => getOwnerColor(k, used) \notin used
<1> DEFINE free == 1..Palette \ used
           far(c) == Min({hueDistance(hexToHue(c), hexToHue(u)) : u \in used})
           best == {c \in free : \A d \in free : far(d) <= far(c)}
           dist == [c \in free |-> far(c)]
           Far == {dist[c] : c \in free}
<1>1. Palette \in Nat /\ Hash(k) \in 1..Palette
  BY ShareAssumption DEF Key
<1>2. getOwnerColor(k, used) = IF Hash(k) \notin used \/ free = {} THEN Hash(k) ELSE Min(best)
  BY DEF getOwnerColor
<1>3. CASE Hash(k) \notin used \/ free = {}
  BY <1>1, <1>2, <1>3
<1>4. CASE ~(Hash(k) \notin used \/ free = {})
  <2>1. used # {} /\ free # {} /\ IsFiniteSet(free)
    <3>1. IsFiniteSet(1..Palette)
      BY <1>1, FS_Interval
    <3>2. QED
      BY <1>4, <3>1, FS_Subset
  <2>2. ASSUME NEW c \in free PROVE far(c) \in Nat
    <3> DEFINE N == {hueDistance(hexToHue(c), hexToHue(u)) : u \in used}
    <3>1. c \in Nat /\ used \in SUBSET Nat
      BY <1>1
    <3>2. \A u \in used : hueDistance(hexToHue(c), hexToHue(u)) \in Nat
      <4> TAKE u \in used
      <4>1. hexToHue(c) \in Nat /\ hexToHue(u) \in Nat
        BY <3>1, HueIs
      <4>2. QED
        BY <4>1, HueDistanceIs
    <3>3. N \in SUBSET Nat /\ N # {}
      BY <2>1, <3>2
    <3> HIDE DEF N
    <3>4. Min(N) \in N
      BY <3>3, MinIsSmallest
    <3>5. QED
      BY <3>3, <3>4 DEF N
  <2> HIDE DEF far
  <2>3. dist \in Surjection(free, Far)
    BY DEF Surjection
  <2>4. Far \in SUBSET Int /\ Far # {}
    BY <2>1, <2>2
  <2>5. IsFiniteSet(Far)
    <3> HIDE DEF free, Far, dist
    <3>1. QED
      BY <2>1, <2>3, FS_Surjection
  <2>6. Max(Far) \in Far /\ \A x \in Far : Max(Far) >= x
    <3> HIDE DEF Far
    <3>1. QED
      BY <2>4, <2>5, MaxIsLargest
  <2>7. PICK c \in free : far(c) = Max(Far)
    BY <2>6
  <2>8. ASSUME NEW d \in free PROVE far(d) <= far(c)
    <3>1. far(d) \in Far
      OBVIOUS
    <3>2. far(d) \in Nat /\ far(c) \in Nat
      BY <2>2
    <3>3. far(c) >= far(d)
      BY <2>6, <2>7, <3>1
    <3>4. QED
      BY <3>2, <3>3
  <2>9. c \in best
    BY <2>8
  <2>10. best \in SUBSET Nat /\ best # {} /\ best \subseteq free
    BY <1>1, <2>9
  <2> HIDE DEF best
  <2>11. Min(best) \in best
    BY <2>10, MinIsSmallest
  <2>12. QED
    BY <1>2, <1>4, <2>10, <2>11
<1>5. QED
  BY <1>3, <1>4

\* The owners that are behind the places s of the alphabet have colours of their own.
Distinct(c, s) ==
  /\ c \in Colors
  /\ \A i \in DOMAIN Alphabet :
        c[Alphabet[i]] # 0 <=> i \in s /\ Alphabet[i] \in Owners
  /\ Cardinality(Owners) <= Palette =>
        \A i, j \in s : /\ i # j /\ Alphabet[i] \in Owners /\ Alphabet[j] \in Owners
                        => c[Alphabet[i]] # c[Alphabet[j]]

\* Each key of the alphabet has one place.
LEMMA AlphabetIs ==
  /\ \A i \in DOMAIN Alphabet : Alphabet[i] \in Key
  /\ \A i, j \in DOMAIN Alphabet : Alphabet[i] = Alphabet[j] => i = j
  /\ \A k \in Key : \E i \in DOMAIN Alphabet : Alphabet[i] = k
  /\ DOMAIN Alphabet = 1..Len(Alphabet) /\ Len(Alphabet) \in Nat
<1>1. \A i \in DOMAIN Alphabet : Alphabet[i] \in Key
  BY ShareAssumption DEF Key, ToSet
<1>2. \A k \in Key : \E i \in DOMAIN Alphabet : Alphabet[i] = k
  BY ShareAssumption DEF Key, ToSet
<1>3. QED
  BY <1>1, <1>2, ShareAssumption

\* Colouring a key gives a colouring.
LEMMA ColoredIs ==
  ASSUME NEW c \in Colors, NEW k \in Key
  PROVE  Colored(c, k) \in Colors
<1> DEFINE used == {c[j] : j \in Key} \ {0}
           x == getOwnerColor(k, used)
<1>1. used \in SUBSET (1..Palette)
  BY ShareAssumption DEF Colors
<1>2. Colored(c, k) = IF k \notin Owners THEN c ELSE [c EXCEPT ![k] = x]
  BY DEF Colored
<1> HIDE DEF used
<1>3. x \in 1..Palette
  BY <1>1, ColorIs
<1>4. Palette \in Nat
  BY ShareAssumption
<1> HIDE DEF x
<1>5. x \in 0..Palette
  BY <1>3, <1>4
<1>6. QED
  BY <1>2, <1>5 DEF Colors

\* One more key gets a colour that no owner before it has.
LEMMA ColoredKeeps ==
  ASSUME CardOK, NEW s \in SUBSET DOMAIN Alphabet, NEW i \in DOMAIN Alphabet, i \notin s,
         NEW c, Distinct(c, s)
  PROVE  Distinct(Colored(c, Alphabet[i]), s \cup {i})
<1> DEFINE k == Alphabet[i]
           used == {c[j] : j \in Key} \ {0}
           x == getOwnerColor(k, used)
           d == Colored(c, k)
<1>1. /\ k \in Key /\ c \in Colors /\ c[k] = 0
      /\ \A j \in DOMAIN Alphabet : Alphabet[j] \in Key /\ (Alphabet[j] = k => j = i)
  BY AlphabetIs DEF Distinct
<1>2. d \in Colors
  BY <1>1, ColoredIs
<1>3. d = IF k \notin Owners THEN c ELSE [c EXCEPT ![k] = x]
  BY DEF Colored
<1>4. CASE k \notin Owners
  <2>1. d = c
    BY <1>3, <1>4
  <2>2. QED
    BY <1>4, <2>1 DEF Distinct
<1>5. CASE k \in Owners
  <2>1. used \in SUBSET (1..Palette) /\ Palette \in Nat
    BY <1>1, ShareAssumption DEF Colors
  <2>2. \A j \in Key : c[j] # 0 => c[j] \in used
    OBVIOUS
  <2>3. Cardinality(Owners) <= Palette => 1..Palette \ used # {}
    <3> SUFFICES ASSUME Cardinality(Owners) <= Palette, 1..Palette \ used = {} PROVE FALSE
      OBVIOUS
    <3> DEFINE others == Owners \ {k}
               colors == {c[j] : j \in others}
               f == [j \in others |-> c[j]]
    <3>1. IsFiniteSet(others) /\ Cardinality(others) = Cardinality(Owners) - 1
          /\ Cardinality(Owners) \in Nat
      BY <1>5, OwnersAreFinite, FS_RemoveElement, FS_CardinalityType
    <3>2. f \in Surjection(others, colors)
      BY DEF Surjection
    <3>3. used \subseteq colors
      <4> SUFFICES ASSUME NEW j \in Key, c[j] # 0 PROVE j \in others
        OBVIOUS
      <4>1. PICK n \in DOMAIN Alphabet : Alphabet[n] = j
        BY AlphabetIs
      <4>2. j \in Owners /\ j # k
        BY <1>1, <4>1 DEF Distinct
      <4>3. QED
        BY <4>2
    <3>4. 1..Palette \subseteq colors
      BY <3>3
    <3> HIDE DEF others, colors, f
    <3>5. IsFiniteSet(colors) /\ Cardinality(colors) <= Cardinality(others)
      BY <3>1, <3>2, FS_Surjection
    <3>6. Cardinality(1..Palette) <= Cardinality(colors)
      BY <3>4, <3>5, FS_Subset
    <3>7. Cardinality(1..Palette) = Palette
      BY <2>1, FS_Interval
    <3>8. Cardinality(colors) \in Nat
      BY <3>5, FS_CardinalityType
    <3>9. QED
      BY <2>1, <3>1, <3>5, <3>6, <3>7, <3>8
  <2> HIDE DEF used
  <2>4. x \in 1..Palette /\ (Cardinality(Owners) <= Palette => x \notin used)
    BY <1>1, <2>1, <2>3, ColorIs
  <2>5. x # 0
    BY <2>1, <2>4
  <2>6. d[k] = x /\ \A j \in Key : j # k => d[j] = c[j]
    BY <1>1, <1>3, <1>5 DEF Colors
  <2> HIDE DEF d, x
  <2>7. \A j \in DOMAIN Alphabet : d[Alphabet[j]] # 0 <=> j \in s \cup {i} /\ Alphabet[j] \in Owners
    <3> TAKE j \in DOMAIN Alphabet
    <3>1. CASE j = i
      BY <1>5, <2>5, <2>6, <3>1
    <3>2. CASE j # i
      BY <1>1, <2>6, <3>2 DEF Distinct
    <3>3. QED
      BY <3>1, <3>2
  <2>8. ASSUME Cardinality(Owners) <= Palette, NEW j \in s \cup {i}, NEW n \in s \cup {i}, j # n,
               Alphabet[j] \in Owners, Alphabet[n] \in Owners
        PROVE  d[Alphabet[j]] # d[Alphabet[n]]
    <3>1. x \notin used /\ j \in DOMAIN Alphabet /\ n \in DOMAIN Alphabet
      BY <2>4, <2>8
    <3>2. ASSUME NEW m \in s, Alphabet[m] \in Owners
          PROVE  c[Alphabet[m]] \in used /\ d[Alphabet[m]] = c[Alphabet[m]]
      <4>1. m \in DOMAIN Alphabet /\ m # i
        OBVIOUS
      <4>2. Alphabet[m] \in Key /\ Alphabet[m] # k
        BY <1>1, <4>1
      <4>3. c[Alphabet[m]] # 0
        BY <3>2, <4>1 DEF Distinct
      <4>4. QED
        BY <2>2, <2>6, <4>2, <4>3
    <3>3. CASE j = i
      BY <2>6, <2>8, <3>1, <3>2, <3>3
    <3>4. CASE n = i
      BY <2>6, <2>8, <3>1, <3>2, <3>4
    <3>5. CASE j # i /\ n # i
      <4>1. c[Alphabet[j]] # c[Alphabet[n]]
        BY <2>8, <3>5 DEF Distinct
      <4>2. QED
        BY <2>8, <3>2, <3>5, <4>1
    <3>6. QED
      BY <3>3, <3>4, <3>5
  <2>9. Distinct(d, s \cup {i})
    BY <1>2, <2>7, <2>8 DEF Distinct
  <2>10. QED
    BY <2>9 DEF d
<1>6. QED
  BY <1>4, <1>5


\* A coloring of the places of the alphabet, one after another.
Colorings(it) ==
  /\ it[{}] = [k \in Key |-> 0]
  /\ it[DOMAIN Alphabet] = assignGroupColors
  /\ \A s \in SUBSET DOMAIN Alphabet : s # {} =>
        \E i \in s : it[s] = Colored(it[s \ {i}], Alphabet[i])

\* The fold of assignGroupColors is such a coloring.
LEMMA ColoringsUnfold == CardOK => \E it : Colorings(it)
<1> SUFFICES ASSUME CardOK PROVE \E it : Colorings(it)
  OBVIOUS
<1> DEFINE D == DOMAIN Alphabet
           none == [k \in Key |-> 0]
           Run(it) == it = [s \in SUBSET D |-> IF s = {} THEN none
                              ELSE Colored(it[s \ {Max(s)}], Alphabet[Max(s)])]
           pick == [s \in SUBSET D |-> Max(s)]
           step == [p \in D \X Colors |-> Colored(p[2], Alphabet[p[1]])]
<1>1. IsFiniteSet(D) /\ D \in SUBSET Int
  <2>1. D = 1..Len(Alphabet) /\ Len(Alphabet) \in Nat
    BY AlphabetIs
  <2>2. QED
    BY <2>1, FS_Interval
<1>2. \A s \in SUBSET D : s # {} => Max(s) \in s
  <2> SUFFICES ASSUME NEW s \in SUBSET D, s # {} PROVE Max(s) \in s
    OBVIOUS
  <2>1. IsFiniteSet(s) /\ s \in SUBSET Int
    BY <1>1, FS_Subset
  <2>2. QED
    BY <2>1, MaxIsLargest
<1>3. none \in Colors
  BY ShareAssumption DEF Colors
<1>4. step \in [D \X Colors -> Colors]
  <2>1. ASSUME NEW i \in D, NEW c \in Colors PROVE Colored(c, Alphabet[i]) \in Colors
    <3>1. Alphabet[i] \in Key
      BY AlphabetIs
    <3>2. QED
      BY <3>1, ColoredIs
  <2>2. QED
    BY <2>1
<1> HIDE DEF none
<1>5. \E it : Run(it)
  <2>0. \A s \in SUBSET D : s # {} => pick[s] \in s
    BY <1>2
  <2>1. PICK it \in [SUBSET D -> Colors] : Folds(it, D, none, pick, step)
    <3> HIDE DEF pick, step, D
    <3>1. QED
      BY <1>1, <1>3, <1>4, <2>0, FoldExists
  <2>2. ASSUME NEW s \in SUBSET D
        PROVE  it[s] = IF s = {} THEN none ELSE Colored(it[s \ {Max(s)}], Alphabet[Max(s)])
    <3>1. CASE s = {}
      BY <2>1, <3>1 DEF Folds
    <3>2. CASE s # {}
      <4>1. it[s] = step[<<pick[s], it[s \ {pick[s]}]>>]
        <5> HIDE DEF pick, step, D
        <5>1. QED
          BY <2>1, <3>2 DEF Folds
      <4>2. pick[s] = Max(s) /\ Max(s) \in D
        BY <1>2, <3>2
      <4>3. it[s \ {Max(s)}] \in Colors
        OBVIOUS
      <4>4. step[<<Max(s), it[s \ {Max(s)}]>>] = Colored(it[s \ {Max(s)}], Alphabet[Max(s)])
        BY <4>2, <4>3
      <4>5. QED
        BY <3>2, <4>1, <4>2, <4>4
    <3>3. QED
      BY <3>1, <3>2
  <2>3. Run(it)
    BY <2>2
  <2>4. QED
    <3> HIDE DEF Run
    <3>1. QED
      BY <2>3
<1> DEFINE run == CHOOSE it : Run(it)
<1>6. assignGroupColors = run[D]
  BY DEF assignGroupColors, FoldLeft, MapThenFoldSet, none
<1>7. Run(run)
  <2> HIDE DEF Run
  <2>1. QED
    BY <1>5
<1> HIDE DEF run
<1>8. run[{}] = none
  BY <1>7
<1>9. ASSUME NEW s \in SUBSET D, s # {}
      PROVE  \E i \in s : run[s] = Colored(run[s \ {i}], Alphabet[i])
  <2>1. Max(s) \in s /\ run[s] = Colored(run[s \ {Max(s)}], Alphabet[Max(s)])
    BY <1>2, <1>7, <1>9
  <2>2. QED
    BY <2>1
<1>10. Colorings(run)
  BY <1>6, <1>8, <1>9 DEF Colorings, none
<1>11. QED
  BY <1>10

\* The colours of a card differ while there are enough of them.
LEMMA ColorsAlwaysDiffer == CardOK => ColorsDiffer
<1> SUFFICES ASSUME CardOK PROVE ColorsDiffer
  OBVIOUS
<1> DEFINE D == DOMAIN Alphabet
<1>1. PICK it : Colorings(it)
  BY ColoringsUnfold
<1> DEFINE G == {s \in SUBSET D : Distinct(it[s], s)}
<1>2. IsFiniteSet(D)
  BY AlphabetIs, FS_Interval
<1>3. {} \in G
  <2>1. it[{}] = [k \in Key |-> 0]
    BY <1>1 DEF Colorings
  <2>2. [k \in Key |-> 0] \in Colors /\ \A i \in D : it[{}][Alphabet[i]] = 0
    BY <2>1, AlphabetIs, ShareAssumption DEF Colors
  <2>3. Distinct(it[{}], {})
    BY <2>1, <2>2 DEF Distinct
  <2>4. QED
    BY <2>3
<1>4. ASSUME NEW s \in SUBSET D, s # {}, \A x \in s : s \ {x} \in G
      PROVE  s \in G
  <2>1. PICK i \in s : it[s] = Colored(it[s \ {i}], Alphabet[i])
    BY <1>1, <1>4 DEF Colorings
  <2>2. Distinct(it[s \ {i}], s \ {i}) /\ s \ {i} \in SUBSET D /\ i \in D /\ i \notin s \ {i}
    BY <1>4
  <2>3. Distinct(Colored(it[s \ {i}], Alphabet[i]), (s \ {i}) \cup {i})
    BY <2>2, ColoredKeeps
  <2>4. (s \ {i}) \cup {i} = s
    OBVIOUS
  <2>5. QED
    BY <2>1, <2>3, <2>4
<1>5. G = SUBSET D
  <2>1. G \in SUBSET SUBSET D
    OBVIOUS
  <2> HIDE DEF G, D
  <2>2. QED
    BY <1>2, <1>3, <1>4, <2>1, SetOfAllSubsets
<1>6. Distinct(assignGroupColors, D)
  <2>1. D \in G
    BY <1>5
  <2>2. QED
    BY <1>1, <2>1 DEF Colorings
<1> DEFINE c == assignGroupColors
<1> HIDE DEF c
<1>7. ASSUME Cardinality(Owners) <= Palette, NEW j \in Owners, NEW k \in Owners, j # k
      PROVE  c[j] # c[k]
  <2>1. j \in Key /\ k \in Key
    BY OwnersAreFinite
  <2>2. PICK m \in D : Alphabet[m] = j
    BY <2>1, AlphabetIs
  <2>3. PICK n \in D : Alphabet[n] = k
    BY <2>1, AlphabetIs
  <2>4. QED
    BY <1>6, <1>7, <2>2, <2>3 DEF Distinct, c
<1>8. QED
  BY <1>7 DEF ColorsDiffer, c

-----------------------------------------------------------------------------
\* Whatever rows and measurements a card is put together from, what its owners are
\* said to use adds up to what the tasks use, every share is fair and the colours
\* differ.
THEOREM SharesAlwaysAddUp == ShareSpec => []SharesAddUp
<1>1. ShareInit => CardOK
  BY CardInitOK
<1>2. CardOK /\ [ShareNext]_shareVars => CardOK'
  BY CardKeeps
<1>3. CardOK => SharesAddUp
  BY SharesAlwaysAdd, SharesAreFair, ColorsAlwaysDiffer DEF SharesAddUp
<1>4. QED
  BY <1>1, <1>2, <1>3, PTL DEF ShareSpec
=============================================================================
