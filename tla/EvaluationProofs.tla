-------------------------- MODULE EvaluationProofs --------------------------
(***************************************************************************)
(* Type correctness, PeriodIsCurrent, PricedByMostSpecific,                *)
(* NothingEarlierCharged, NothingMissed and Judged, for every set of       *)
(* products and instants, every list of flags and every limit;             *)
(* OwnFamily, if every type has a family of its own with a price; and      *)
(* HoursLimitEnforced, if every type has a price.                          *)
(*                                                                         *)
(* IInv is what all of them need: what the loop of RateFor knows of the    *)
(* families it has visited (Scanned), which two readings of the clock a    *)
(* reconcile holds (Dated), and what can be on record (OnRecord).  Judged  *)
(* needs besides that a verdict is the Outcome of the answer (Settled),    *)
(* for which the two totals have to be the sums over the types visited so  *)
(* far (Totalled), and so what a sum over a set gains with one more        *)
(* element, which is proved here from a least counterexample.              *)
(*                                                                         *)
(* With the same, Evaluation implements Judgement (AlwaysJudgedAtOnce):    *)
(* the step in which the query is answered is the judgement, of the        *)
(* samples in its range (Counted), or the giving up, and the loops after   *)
(* it are stutters.                                                        *)
(***************************************************************************)
EXTENDS Evaluation, PeriodProofs, FiniteSetTheorems, WellFoundedInduction

-----------------------------------------------------------------------------
(* The rate table                                                          *)

\* A family has a name and a rate.
LEMMA FamilyFacts ==
  ASSUME NEW f \in Families
  PROVE  /\ f \in Names /\ Len(f) \in Nat /\ Len(f) > 0
         /\ GPURates[f] \in Int
<1>0. ASSUME NEW S, NEW s \in Seq(S)
      PROVE  /\ DOMAIN s = 1 .. Len(s) /\ Len(s) \in Nat
             /\ \A i \in DOMAIN s : s[i] \in S
  OBVIOUS
<1>1. DOMAIN Flags = 1 .. Len(Flags) /\ Len(Flags) \in Nat
  BY <1>0, FlagsAssumption
<1>2. \A i \in DOMAIN Flags : Flags[i] \in [family : Names \ {<<>>}, rate : Int]
  BY <1>0, FlagsAssumption
<1>3. PICK i \in DOMAIN Flags : Flags[i].family = f
  BY DEF Families
<1>4. f \in Names /\ f # <<>>
  BY <1>2, <1>3
<1>5. Len(f) \in Nat /\ Len(f) > 0
  BY <1>4 DEF Names
<1> DEFINE Back == {Len(Flags) - j : j \in {k \in DOMAIN Flags : Flags[k].family = f}}
<1>6. Back \subseteq Nat /\ Back # {}
  BY <1>1, <1>3
<1>7. PICK b \in Back : \A c \in Back : b <= c
  BY <1>6, LeastNat
<1>8. PICK j \in DOMAIN Flags : Flags[j].family = f /\ b = Len(Flags) - j
  BY <1>7
<1>9. \A k \in DOMAIN Flags : Flags[k].family = f => k <= j
  <2> SUFFICES ASSUME NEW k \in DOMAIN Flags, Flags[k].family = f
               PROVE  k <= j
    OBVIOUS
  <2>1. Len(Flags) - k \in Back
    OBVIOUS
  <2>2. b <= Len(Flags) - k
    BY <1>7, <2>1
  <2> HIDE DEF Back
  <2> QED
    BY <1>1, <1>8, <2>2
<1>10. LastFlag(f) \in DOMAIN Flags
  BY <1>8, <1>9 DEF LastFlag
<1>11. GPURates[f] = Flags[LastFlag(f)].rate
  BY DEF GPURates
<1> QED
  BY <1>2, <1>4, <1>5, <1>10, <1>11

-----------------------------------------------------------------------------
(* Sums over finite sets                                                   *)

Pick(s) == CHOOSE x \in s : TRUE

\* The sums over the subsets of S, each with the element that is picked first.
SumsOver(f, S) ==
  CHOOSE iter : iter = [s \in SUBSET S |->
                          IF s = {} THEN 0 ELSE f[Pick(s)] + iter[s \ {Pick(s)}]]

LEMMA SumIs ==
  ASSUME NEW f, NEW S
  PROVE  SumFunctionOnSet(f, S) = SumsOver(f, S)[S]
BY DEF SumFunctionOnSet, FoldFunctionOnSet, MapThenFoldSet, SumsOver, Pick

\* A family of finite sets has one with none of the others below it.
LEMMA LeastSet ==
  ASSUME NEW S, IsFiniteSet(S), NEW F, F \subseteq SUBSET S, F # {}
  PROVE  \E T \in F : \A U \in F : U \subseteq T => U = T
<1>1. IsWellFoundedOn(StrictSubsetOrdering(S), SUBSET S)
  BY FS_StrictSubsetOrderingWellFounded, FS_FiniteSubsetsOfFinite
<1>2. PICK T \in F : \A U \in F : ~(<<U, T>> \in StrictSubsetOrdering(S))
  BY <1>1, WFMin
<1> QED
  BY <1>2 DEF StrictSubsetOrdering

\* Right as far as the subsets of at most n elements go.
RightUpTo(g, f, S, n) ==
  /\ g = [s \in SUBSET S |-> g[s]]
  /\ \A s \in SUBSET S :
       Cardinality(s) <= n
         => g[s] = IF s = {} THEN 0 ELSE f[Pick(s)] + g[s \ {Pick(s)}]

\* The equation of a sum has a solution.
LEMMA SumsEquation ==
  ASSUME NEW f, NEW S, IsFiniteSet(S)
  PROVE  \A s \in SUBSET S :
           SumsOver(f, S)[s] = IF s = {} THEN 0 ELSE f[Pick(s)] + SumsOver(f, S)[s \ {Pick(s)}]
<1> DEFINE Term(g, s) == IF s = {} THEN 0 ELSE f[Pick(s)] + g[s \ {Pick(s)}]
           Bad == {n \in Nat : ~\E g : RightUpTo(g, f, S, n)}
<1>1. \A s \in SUBSET S : IsFiniteSet(s) /\ Cardinality(s) \in Nat
  BY FS_Subset, FS_CardinalityType
<1>2. \A s \in SUBSET S : Cardinality(s) <= 0 => s = {}
  BY <1>1, FS_EmptySet
<1>3. \A s \in SUBSET S : s # {} =>
        s \ {Pick(s)} \in SUBSET S /\ Cardinality(s \ {Pick(s)}) = Cardinality(s) - 1
  BY <1>1, FS_RemoveElement DEF Pick
<1>4. RightUpTo([s \in SUBSET S |-> 0], f, S, 0)
  BY <1>2 DEF RightUpTo
<1>5. ASSUME NEW n \in Nat, NEW g, RightUpTo(g, f, S, n)
      PROVE  RightUpTo([s \in SUBSET S |-> Term(g, s)], f, S, n + 1)
  <2> DEFINE h == [s \in SUBSET S |-> Term(g, s)]
  <2>1. \A s \in SUBSET S : h[s] = Term(g, s)
    OBVIOUS
  <2>2. \A s \in SUBSET S : Cardinality(s) <= n => h[s] = g[s]
    BY <1>5, <2>1 DEF RightUpTo
  <2>3. \A s \in SUBSET S : Cardinality(s) <= n + 1 /\ s # {} =>
          h[s \ {Pick(s)}] = g[s \ {Pick(s)}]
    <3> SUFFICES ASSUME NEW s \in SUBSET S, Cardinality(s) <= n + 1, s # {}
                 PROVE  h[s \ {Pick(s)}] = g[s \ {Pick(s)}]
      OBVIOUS
    <3>1. s \ {Pick(s)} \in SUBSET S /\ Cardinality(s \ {Pick(s)}) <= n
      BY <1>1, <1>3
    <3> QED
      BY <2>2, <3>1
  <2>4. \A s \in SUBSET S : Cardinality(s) <= n + 1 => h[s] = Term(h, s)
    BY <2>1, <2>3
  <2> QED
    BY <2>4 DEF RightUpTo
<1>6. Bad = {}
  <2> SUFFICES ASSUME Bad # {} PROVE FALSE
    OBVIOUS
  <2>1. PICK m \in Bad : \A n \in Bad : m <= n
    BY LeastNat
  <2>2. m # 0
    BY <1>4
  <2>3. m - 1 \in Nat /\ m - 1 \notin Bad /\ (m - 1) + 1 = m
    BY <2>1, <2>2
  <2>4. PICK g : RightUpTo(g, f, S, m - 1)
    BY <2>3
  <2>5. RightUpTo([s \in SUBSET S |-> Term(g, s)], f, S, m)
    BY <1>5, <2>3, <2>4
  <2> QED
    BY <2>5
<1>7. Cardinality(S) \in Nat
  BY FS_CardinalityType
<1>8. PICK g : RightUpTo(g, f, S, Cardinality(S))
  BY <1>6, <1>7
<1>9. \A s \in SUBSET S : Cardinality(s) <= Cardinality(S)
  BY FS_Subset
<1>10. g = [s \in SUBSET S |-> Term(g, s)]
  BY <1>8, <1>9 DEF RightUpTo
<1>11. SumsOver(f, S) = [s \in SUBSET S |-> Term(SumsOver(f, S), s)]
  BY <1>10 DEF SumsOver
<1> QED
  BY <1>11

\* The sum over nothing, and the element that is picked first.
LEMMA SumEmpty ==
  ASSUME NEW f
  PROVE  SumFunctionOnSet(f, {}) = 0
<1>1. SumsOver(f, {})[{}] = 0
  BY SumsEquation, FS_EmptySet
<1> QED
  BY <1>1, SumIs

LEMMA SumPicked ==
  ASSUME NEW f, NEW S, IsFiniteSet(S), S # {}
  PROVE  SumFunctionOnSet(f, S) = f[Pick(S)] + SumFunctionOnSet(f, S \ {Pick(S)})
<1> DEFINE x == Pick(S)
           R == S \ {x}
           G == SumsOver(f, S)
           H == SumsOver(f, R)
           Bad == {s \in SUBSET R : G[s] # H[s]}
<1>1. IsFiniteSet(R) /\ R \in SUBSET S
  BY FS_RemoveElement
<1>2. \A s \in SUBSET S : G[s] = IF s = {} THEN 0 ELSE f[Pick(s)] + G[s \ {Pick(s)}]
  BY SumsEquation
<1>3. \A s \in SUBSET R : H[s] = IF s = {} THEN 0 ELSE f[Pick(s)] + H[s \ {Pick(s)}]
  <2> HIDE DEF R
  <2> QED
    BY <1>1, SumsEquation
<1> HIDE DEF G, H, R, x
<1>4. Bad = {}
  <2> SUFFICES ASSUME Bad # {} PROVE FALSE
    OBVIOUS
  <2>0. Bad \subseteq SUBSET R
    OBVIOUS
  <2>1. PICK T \in Bad : \A U \in Bad : U \subseteq T => U = T
    <3> HIDE DEF Bad
    <3> QED
      BY <1>1, <2>0, LeastSet
  <2>2. T # {}
    BY <1>1, <1>2, <1>3
  <2>3. Pick(T) \in T
    BY <2>2 DEF Pick
  <2>4. T \ {Pick(T)} \in SUBSET R /\ T \ {Pick(T)} \notin Bad
    BY <2>1, <2>3
  <2>5. G[T \ {Pick(T)}] = H[T \ {Pick(T)}]
    BY <2>4
  <2> QED
    BY <1>1, <1>2, <1>3, <2>2, <2>5
<1>5. G[R] = H[R]
  BY <1>4
<1>6. G[S] = f[x] + G[R]
  BY <1>2 DEF R, x
<1> QED
  BY <1>5, <1>6, SumIs DEF G, H, R, x

\* Sums of integers are integers, of naturals naturals.
LEMMA SumType ==
  ASSUME NEW N, N \in {Nat, Int}, NEW f, NEW S, IsFiniteSet(S), \A s \in S : f[s] \in N
  PROVE  SumFunctionOnSet(f, S) \in N
<1> DEFINE Bad == {s \in SUBSET S : SumFunctionOnSet(f, s) \notin N}
<1> SUFFICES ASSUME Bad # {} PROVE FALSE
  OBVIOUS
<1>0. Bad \subseteq SUBSET S
  OBVIOUS
<1>1. PICK T \in Bad : \A U \in Bad : U \subseteq T => U = T
  <2> HIDE DEF Bad
  <2> QED
    BY <1>0, LeastSet
<1>2. T # {} /\ IsFiniteSet(T)
  <2>1. SumFunctionOnSet(f, {}) \in N
    BY SumEmpty
  <2> QED
    BY <2>1, FS_Subset
<1>3. Pick(T) \in T
  BY <1>2 DEF Pick
<1>4. SumFunctionOnSet(f, T \ {Pick(T)}) \in N
  BY <1>1, <1>3
<1>5. SumFunctionOnSet(f, T) = f[Pick(T)] + SumFunctionOnSet(f, T \ {Pick(T)})
  BY <1>2, SumPicked
<1>6. f[Pick(T)] \in N
  BY <1>3
<1> HIDE DEF Bad
<1>7. SumFunctionOnSet(f, T) \in N
  BY <1>4, <1>5, <1>6
<1> QED
  BY <1>7 DEF Bad

\* Any element may be taken out, not only the one that is picked.
LEMMA SumTakeOut ==
  ASSUME NEW f, NEW S, IsFiniteSet(S), \A s \in S : f[s] \in Int, NEW x \in S
  PROVE  SumFunctionOnSet(f, S) = f[x] + SumFunctionOnSet(f, S \ {x})
<1> DEFINE Sum(s) == SumFunctionOnSet(f, s)
           Bad == {s \in SUBSET S : \E y \in s : Sum(s) # f[y] + Sum(s \ {y})}
<1> SUFFICES ASSUME Bad # {} PROVE FALSE
  OBVIOUS
<1>0. Bad \subseteq SUBSET S
  OBVIOUS
<1>1. PICK T \in Bad : \A U \in Bad : U \subseteq T => U = T
  <2> HIDE DEF Bad
  <2> QED
    BY <1>0, LeastSet
<1>2. PICK y \in T : Sum(T) # f[y] + Sum(T \ {y})
  OBVIOUS
<1> DEFINE c == Pick(T)
<1>3. T \in SUBSET S /\ IsFiniteSet(T) /\ T # {}
  BY <1>2, FS_Subset
<1>4. c \in T
  BY <1>3 DEF Pick
<1>5. Sum(T) = f[c] + Sum(T \ {c})
  BY <1>3, SumPicked
<1>6. c # y
  BY <1>2, <1>5
<1>7. ASSUME NEW z \in T, NEW v \in T \ {z}
      PROVE  Sum(T \ {z}) = f[v] + Sum((T \ {z}) \ {v})
  <2>1. T \ {z} \in SUBSET S /\ T \ {z} \notin Bad
    <3> HIDE DEF Bad
    <3> QED
      BY <1>1, <1>3
  <2> QED
    BY <2>1
<1> HIDE DEF Sum, Bad, c
<1>8. /\ Sum(T \ {c}) = f[y] + Sum((T \ {c}) \ {y})
      /\ Sum(T \ {y}) = f[c] + Sum((T \ {c}) \ {y})
  <2>1. (T \ {y}) \ {c} = (T \ {c}) \ {y}
    OBVIOUS
  <2> QED
    BY <1>4, <1>6, <1>7, <2>1
<1>9. f[c] \in Int /\ f[y] \in Int /\ Sum((T \ {c}) \ {y}) \in Int
  <2>1. IsFiniteSet((T \ {c}) \ {y}) /\ \A s \in (T \ {c}) \ {y} : f[s] \in Int
    BY <1>3, FS_Subset
  <2>2. Sum((T \ {c}) \ {y}) \in Int
    BY <2>1, SumType DEF Sum
  <2> QED
    BY <1>3, <1>4, <2>2
<1>10. Sum(T) # f[y] + (f[c] + Sum((T \ {c}) \ {y}))
  BY <1>2, <1>8
<1>11. Sum(T) = f[c] + (f[y] + Sum((T \ {c}) \ {y}))
  BY <1>5, <1>8
<1> QED
  BY <1>9, <1>10, <1>11

-----------------------------------------------------------------------------
(* The samples                                                             *)

\* What is counted for a type can be counted.
LEMMA SamplesFinite ==
  ASSUME NEW t
  PROVE  IsFiniteSet(SamplesOf(t)) /\ Cardinality(SamplesOf(t)) \in Nat
<1>1. IsFiniteSet(Products \X Instants)
  BY FS_Product, EvaluationAssumption
<1>2. SamplesOf(t) \in SUBSET (Products \X Instants)
  BY DEF SamplesOf
<1> QED
  BY <1>1, <1>2, FS_Subset, FS_CardinalityType

\* A set of reservations has no more than one that includes it.
LEMMA HeldMono ==
  ASSUME NEW S, NEW T, S \subseteq T, T \subseteq Products \X Instants
  PROVE  /\ Cardinality(S) \in Nat /\ Cardinality(T) \in Nat
         /\ Cardinality(S) <= Cardinality(T)
<1>1. IsFiniteSet(Products \X Instants)
  BY FS_Product, EvaluationAssumption
<1>2. IsFiniteSet(T)
  BY <1>1, FS_Subset
<1>3. IsFiniteSet(S) /\ Cardinality(S) <= Cardinality(T)
  BY <1>2, FS_Subset
<1> QED
  BY <1>2, <1>3, FS_CardinalityType

\* Time goes on to an instant that is later.
LEMMA LaterMin ==
  ASSUME Later # {}
  PROVE  Min(Later) \in Instants /\ clock < Min(Later)
<1>1. Later \subseteq Nat
  BY EvaluationAssumption DEF Later
<1>2. PICK m \in Later : \A n \in Later : m <= n
  BY <1>1, LeastNat
<1>3. Min(Later) \in Later
  BY <1>2 DEF Min
<1> QED
  BY <1>3 DEF Later

-----------------------------------------------------------------------------
(* The invariant                                                           *)

\* The loop of RateFor has found the most specific of the families visited.
Scanned ==
  pc = "rate" =>
    /\ gpuType \in DOMAIN hours
    /\ \/ best = <<>> /\ \A f \in Families \ untried : ~Matches(f, gpuType)
       \/ /\ best \in Families \ untried /\ Matches(best, gpuType)
          /\ \A f \in Families \ untried : Matches(f, gpuType) => Len(f) <= Len(best)

\* A reconcile holds the start of the period of the time it has read, and
\* its query is evaluated no earlier.
Dated ==
  /\ pc # "idle" => asOf <= clock /\ start = PeriodStart(spec.period, asOf)
  /\ pc \in {"usage", "rate"} => asOf <= at /\ at <= clock
  /\ pc \in {"idle", "query"} => DOMAIN hours = {}

\* Samples are in the past, at the instants of the resampling.
OnRecord == \A p \in Products : \A i \in log[p] : i <= clock /\ i % Resample = 0

IInv == TypeOK /\ Scanned /\ Dated /\ OnRecord

LEMMA InitIInv == Init => IInv
<1> SUFFICES ASSUME Init PROVE IInv
  OBVIOUS
<1> USE DEF Init, Idle, NoHours
<1>1. TypeOK
  BY EvaluationAssumption DEF TypeOK, Names
<1>2. Scanned /\ Dated /\ OnRecord
  BY DEF Scanned, Dated, OnRecord
<1> QED
  BY <1>1, <1>2 DEF IInv

LEMMA NextIInv == IInv /\ [Next]_vars => IInv'
<1> SUFFICES ASSUME IInv, [Next]_vars PROVE IInv'
  OBVIOUS
<1> USE DEF IInv
<1>0. /\ clock \in Nat /\ asOf \in Nat /\ at \in Nat
      /\ spec.period \in Periods
  BY EvaluationAssumption DEF TypeOK, Specs
<1>1. CASE Tick
  <2>1. clock' \in Instants /\ clock' \in Nat /\ clock < clock'
    BY <1>1, LaterMin, EvaluationAssumption DEF Tick
  <2>2. PICK sampled \in SUBSET Products :
          /\ clock' % Resample # 0 => sampled = {}
          /\ log' = [p \in Products |->
                       IF p \in sampled THEN log[p] \union {clock'} ELSE log[p]]
    BY <1>1 DEF Tick
  <2>3. TypeOK'
    BY <1>1, <2>1, <2>2 DEF Tick, TypeOK, usageVars, scan
  <2>4. Scanned'
    BY <1>1 DEF Tick, Scanned, usageVars, scan, Matches
  <2>5. Dated'
    BY <1>0, <1>1, <2>1 DEF Tick, Dated, usageVars, scan
  <2>6. OnRecord'
    <3> SUFFICES ASSUME NEW p \in Products, NEW i \in log'[p]
                 PROVE  i <= clock' /\ i % Resample = 0
      BY <1>1 DEF OnRecord, Tick
    <3>1. CASE i \in log[p]
      <4>1. i \in Nat /\ i <= clock /\ i % Resample = 0
        BY <3>1, EvaluationAssumption DEF OnRecord, TypeOK
      <4> QED
        BY <1>0, <2>1, <4>1
    <3>2. CASE i \notin log[p]
      <4>1. i = clock' /\ p \in sampled
        BY <2>2, <3>2
      <4> QED
        BY <2>1, <2>2, <4>1
    <3> QED
      BY <3>1, <3>2
  <2> QED
    BY <2>3, <2>4, <2>5, <2>6
<1>2. CASE Begin
  <2>1. PeriodStart(spec.period, clock) \in Int
    BY <1>0, PeriodStartIsLatest
  <2>2. TypeOK'
    BY <1>0, <1>2, <2>1 DEF Begin, TypeOK, world, usageVars, scan
  <2>3. Scanned' /\ OnRecord'
    BY <1>2 DEF Begin, Scanned, OnRecord, world
  <2>4. Dated'
    BY <1>0, <1>2 DEF Begin, Dated, world, usageVars
  <2> QED
    BY <2>2, <2>3, <2>4
<1>3. CASE QueryFails
  BY <1>3 DEF QueryFails, TypeOK, Scanned, Dated, OnRecord, world, usageVars, scan
<1>4. CASE QueryAnswers
  <2>1. /\ DOMAIN hours' = Answered /\ todo' = Answered
        /\ \A t \in Answered : hours'[t] \in Nat
    BY <1>4, SamplesFinite DEF QueryAnswers
  <2>2. Answered \subseteq {GPUTypeOf[p] : p \in Products} \ {<<>>}
    BY DEF Answered
  <2>3. TypeOK'
    BY <1>0, <1>4, <2>1, <2>2 DEF QueryAnswers, TypeOK, world, scan
  <2>4. Scanned' /\ OnRecord'
    BY <1>4 DEF QueryAnswers, Scanned, OnRecord, world
  <2>5. Dated'
    BY <1>0, <1>4 DEF QueryAnswers, Dated, world
  <2> QED
    BY <2>3, <2>4, <2>5
<1>5. ASSUME NEW t \in todo, TakeType(t)
      PROVE  IInv'
  <2>1. t \in DOMAIN hours /\ hours[t] \in Nat /\ t \in Names
    BY EvaluationAssumption DEF TypeOK
  <2>2. TypeOK'
    <3>1. total + hours[t] \in Nat /\ todo \ {t} \subseteq DOMAIN hours
      BY <2>1 DEF TypeOK
    <3>2. <<>> \in Names
      BY DEF Names
    <3>3. CASE spec.dollars = None
      BY <1>5, <3>1, <3>3 DEF TakeType, TypeOK, world, scan
    <3>4. CASE spec.dollars # None
      BY <1>5, <2>1, <3>1, <3>2, <3>4 DEF TakeType, TypeOK, world
    <3> QED
      BY <3>3, <3>4
  <2>3. Scanned'
    <3>1. CASE spec.dollars = None
      BY <1>5, <3>1 DEF TakeType, Scanned, scan
    <3>2. CASE spec.dollars # None
      BY <1>5, <2>1, <3>2 DEF TakeType, Scanned
    <3> QED
      BY <3>1, <3>2
  <2>4. Dated' /\ OnRecord'
    BY <1>5 DEF TakeType, Dated, OnRecord, world, scan
  <2> QED
    BY <2>2, <2>3, <2>4
<1>6. ASSUME NEW f \in untried, TryFamily(f)
      PROVE  IInv'
  <2>1. f \in Families
    BY DEF TypeOK
  <2>2. TypeOK'
    BY <1>6, <2>1, FamilyFacts DEF TryFamily, Better, TypeOK, world
  <2>3. Scanned'
    <3>1. /\ pc = "rate" /\ best' = Better(best, f, gpuType)
          /\ Families \ untried' = (Families \ untried) \union {f}
          /\ gpuType' = gpuType /\ hours' = hours /\ pc' = pc
      BY <1>6, <2>1 DEF TryFamily
    <3>2. \A g \in Families : Len(g) \in Nat /\ Len(g) > 0
      BY FamilyFacts
    <3>3. CASE best = <<>> /\ \A g \in Families \ untried : ~Matches(g, gpuType)
      <4>1. Len(best) = 0
        BY <3>3
      <4>2. CASE Matches(f, gpuType)
        BY <2>1, <3>1, <3>2, <3>3, <4>1, <4>2 DEF Scanned, Better, Matches
      <4>3. CASE ~Matches(f, gpuType)
        BY <2>1, <3>1, <3>3, <4>3 DEF Scanned, Better, Matches
      <4> QED
        BY <4>2, <4>3
    <3>4. CASE /\ best \in Families \ untried /\ Matches(best, gpuType)
               /\ \A g \in Families \ untried : Matches(g, gpuType) => Len(g) <= Len(best)
      <4>1. CASE Matches(f, gpuType) /\ Len(f) > Len(best)
        BY <2>1, <3>1, <3>2, <3>4, <4>1 DEF Scanned, Better, Matches
      <4>2. CASE ~(Matches(f, gpuType) /\ Len(f) > Len(best))
        BY <2>1, <3>1, <3>2, <3>4, <4>2 DEF Scanned, Better, Matches
      <4> QED
        BY <4>1, <4>2
    <3> QED
      BY <3>1, <3>3, <3>4 DEF Scanned
  <2>4. Dated' /\ OnRecord'
    BY <1>6 DEF TryFamily, Dated, OnRecord, world
  <2> QED
    BY <2>2, <2>3, <2>4
<1>7. CASE RateFound
  <2>1. /\ best \in Families /\ GPURates[best] \in Int /\ GPURates[best] > 0
        /\ gpuType \in DOMAIN hours /\ hours[gpuType] \in Nat
    BY <1>7, FamilyFacts DEF RateFound, Scanned, Matches, TypeOK
  <2>2. hours[gpuType] * GPURates[best] \in Nat
    <3> DEFINE h == hours[gpuType]
               r == GPURates[best]
    <3>1. h \in Nat /\ r \in Nat
      BY <2>1
    <3> HIDE DEF h, r
    <3>2. h * r \in Nat
      BY <3>1
    <3> QED
      BY <3>2 DEF h, r
  <2>3. TypeOK'
    BY <1>7, <2>2 DEF RateFound, TypeOK, world, Names
  <2>4. Scanned' /\ Dated' /\ OnRecord'
    BY <1>7 DEF RateFound, Scanned, Dated, OnRecord, world
  <2> QED
    BY <2>3, <2>4
<1>8. CASE Unpriced
  BY <1>8 DEF Unpriced, TypeOK, Scanned, Dated, OnRecord, world, usageVars, scan
<1>9. CASE Decide
  BY <1>9 DEF Decide, TypeOK, Scanned, Dated, OnRecord, world, usageVars, scan
<1>10. CASE Return
  BY <1>10 DEF Return, TypeOK, Scanned, Dated, OnRecord, world, NoHours, Names
<1>11. CASE UNCHANGED vars
  BY <1>11 DEF vars, TypeOK, Scanned, Dated, OnRecord, world, usageVars, scan, Matches
<1> QED
  BY <1>1, <1>2, <1>3, <1>4, <1>5, <1>6, <1>7, <1>8, <1>9, <1>10, <1>11 DEF Next

LEMMA Invariance == Spec => []IInv
BY InitIInv, NextIInv, PTL DEF Spec

\* Every step of time and of the evaluation keeps every variable in its range.
THEOREM TypeCorrect == Spec => []TypeOK
BY Invariance, PTL DEF IInv

-----------------------------------------------------------------------------
(* The period and the price                                                *)

\* From whatever time is read, the period evaluated is the one it lies in.
THEOREM PeriodAlwaysCurrent == Spec => []PeriodIsCurrent
<1>1. IInv => PeriodIsCurrent
  <2> SUFFICES ASSUME IInv, pc = "query"
               PROVE  /\ start <= asOf
                      /\ Begins(spec.period, DayOf(start))
                      /\ \A d \in (DayOf(start) + 1) .. DayOf(asOf) : ~Begins(spec.period, d)
    BY DEF PeriodIsCurrent
  <2>1. spec.period \in Periods /\ asOf \in Nat
    BY DEF IInv, TypeOK, Specs
  <2>2. start = PeriodStart(spec.period, asOf)
    BY DEF IInv, Dated
  <2> QED
    BY <2>1, <2>2, PeriodStartIsLatest
<1> QED
  BY Invariance, <1>1, PTL

\* The loop of RateFor at its end.
LEMMA PricedNow == IInv => PricedByMostSpecific
<1> SUFFICES ASSUME IInv, pc = "rate", untried = {}
             PROVE  IF Priced(gpuType) THEN MostSpecific(best, gpuType) ELSE best = <<>>
  BY DEF PricedByMostSpecific
<1>1. \A f : f \in Candidates(gpuType) <=> f \in Families /\ Matches(f, gpuType)
  BY DEF Candidates, Matches
<1>2. CASE best = <<>> /\ \A f \in Families : ~Matches(f, gpuType)
  BY <1>1, <1>2 DEF Priced
<1>3. CASE /\ best \in Families /\ Matches(best, gpuType)
           /\ \A f \in Families : Matches(f, gpuType) => Len(f) <= Len(best)
  BY <1>1, <1>3 DEF Priced, MostSpecific
<1> QED
  BY <1>2, <1>3 DEF IInv, Scanned

\* In whatever order RateFor visits the table it ends with the most specific
\* family that has a price, and with none only if there is none.
THEOREM AlwaysPricedByMostSpecific == Spec => []PricedByMostSpecific
BY Invariance, PricedNow, PTL

\* Names that begin one name begin one another.
LEMMA PrefixesNest ==
  ASSUME NEW t \in Names, NEW f \in Names, NEW g \in Names,
         IsPrefix(f, t), IsPrefix(g, t), Len(f) <= Len(g)
  PROVE  IsPrefix(f, g) /\ (Len(f) = Len(g) => f = g)
<1>1. \A i \in 1 .. Len(f) : f[i] = t[i]
  BY DEF IsPrefix, Names
<1>2. \A i \in 1 .. Len(g) : g[i] = t[i]
  BY DEF IsPrefix, Names
<1>3. SubSeq(f, 1, Len(f)) = SubSeq(g, 1, Len(f))
  BY <1>1, <1>2 DEF Names
<1>4. Len(f) = Len(g) => f = g
  BY <1>1, <1>2 DEF Names
<1> QED
  BY <1>3, <1>4 DEF IsPrefix

\* The own family of every type has a price and begins its name.
OwnRates == \A t \in DOMAIN FamilyOf \ {<<>>} : FamilyOf[t] \in Families /\ Matches(FamilyOf[t], t)

\* The prefix rule never confuses two families of which each has a price: it
\* takes a rate to the wrong type only in place of one that is missing.
THEOREM OwnFamilyIfPriced ==
  ASSUME OwnRates
  PROVE  Spec => []OwnFamily
<1>1. IInv => OwnFamily
  <2> SUFFICES ASSUME IInv, pc = "rate", untried = {}, best # <<>>
               PROVE  IsPrefix(FamilyOf[gpuType], best)
    BY DEF OwnFamily
  <2> DEFINE own == FamilyOf[gpuType]
  <2>1. /\ best \in Families /\ Matches(best, gpuType)
        /\ \A f \in Families : Matches(f, gpuType) => Len(f) <= Len(best)
    BY DEF IInv, Scanned
  <2>2. gpuType \in DOMAIN FamilyOf \ {<<>>}
    BY EvaluationAssumption DEF IInv, Scanned, TypeOK
  <2>3. own \in Families /\ Matches(own, gpuType)
    BY <2>2 DEF OwnRates
  <2>4. own \in Names /\ best \in Names /\ gpuType \in Names
    BY <2>1, <2>3, FamilyFacts DEF IInv, TypeOK
  <2> QED
    BY <2>1, <2>3, <2>4, PrefixesNest DEF Matches
<1> QED
  BY Invariance, <1>1, PTL

-----------------------------------------------------------------------------
(* What is charged                                                         *)

\* Reservations held are reservations.
LEMMA HeldSubset ==
  ASSUME NEW t, NEW when \in SUBSET Instants
  PROVE  Held(t, when) \subseteq Products \X Instants
BY DEF Held

\* A period begins at a multiple of five minutes, as every sample is one.
LEMMA StartAtSample ==
  ASSUME NEW period \in Periods, NEW now \in Nat
  PROVE  PeriodStart(period, now) \in Int /\ PeriodStart(period, now) % Resample = 0
<1> DEFINE s == PeriodStart(period, now)
<1>1. s \in Int /\ s % Day = 0
  BY PeriodStartIsLatest
<1> HIDE DEF s
<1>2. s % Resample = 0
  BY <1>1 DEF Day, Resample
<1> QED
  BY <1>1, <1>2 DEF s

\* The range may reach back before the period, by less than a minute and so
\* to no earlier sample.
LEMMA SamplesAreOfThePeriod ==
  ASSUME IInv, pc = "query", NEW t
  PROVE  SamplesOf(t) \subseteq Held(t, {i \in Instants : start <= i})
<1>1. /\ asOf \in Nat /\ clock \in Nat /\ asOf <= clock
      /\ start \in Int /\ start % Resample = 0 /\ start <= asOf
  BY EvaluationAssumption, StartAtSample, PeriodStartIsLatest DEF IInv, TypeOK, Dated, Specs
<1> SUFFICES ASSUME NEW r \in SamplesOf(t)
             PROVE  r \in Held(t, {i \in Instants : start <= i})
  OBVIOUS
<1>2. PICK p \in Products, i \in Instants : r = <<p, i>>
  BY DEF SamplesOf
<1>3. /\ GPUTypeOf[p] = t /\ i \in log[p] /\ i \in Nat
      /\ i % Resample = 0 /\ clock - Window(asOf - start) < i
  BY <1>2, EvaluationAssumption DEF SamplesOf, Sampled
<1>4. start <= i
  <2>1. CASE asOf - start < Minute
    <3>1. clock - Minute < i
      BY <1>3, <2>1 DEF Window
    <3>2. start - 60 < i
      BY <1>1, <1>3, <3>1 DEF Minute
    <3> QED
      BY <1>1, <1>3, <3>2 DEF Resample
  <2>2. CASE ~(asOf - start < Minute)
    BY <1>1, <1>3, <2>2 DEF Window
  <2> QED
    BY <2>1, <2>2
<1> QED
  BY <1>2, <1>3, <1>4 DEF Held

\* On record is only ever more.
LEMMA LogGrows ==
  ASSUME IInv, Tick
  PROVE  \A p \in Products : log[p] \subseteq log'[p] /\ \A i \in log'[p] \ log[p] : clock < i
<1>1. Later # {} /\ clock' = Min(Later)
  BY DEF Tick
<1>2. clock < clock'
  BY <1>1, LaterMin
<1> QED
  BY <1>2 DEF Tick

\* No reservation of an earlier period is charged to a new one.
THEOREM NothingEarlierEverCharged == Spec => []NothingEarlierCharged
<1> DEFINE Within == {i \in Instants : start <= i}
<1>1. Init => NothingEarlierCharged
  BY DEF Init, Idle, NoHours, NothingEarlierCharged
<1>2. IInv /\ NothingEarlierCharged /\ [Next]_vars => NothingEarlierCharged'
  <2> SUFFICES ASSUME IInv, NothingEarlierCharged, [Next]_vars,
                      NEW t \in DOMAIN hours'
               PROVE  hours'[t] <= Cardinality(Held(t, Within)')
    BY DEF NothingEarlierCharged
  <2>1. CASE Tick
    <3>1. hours' = hours /\ start' = start
      BY <2>1 DEF Tick, usageVars
    <3>2. Held(t, Within) \subseteq Held(t, Within)'
      BY <2>1, <3>1, LogGrows DEF Held
    <3>3. Held(t, Within)' \subseteq Products \X Instants
      BY DEF Held
    <3>4. /\ Cardinality(Held(t, Within)) \in Nat /\ Cardinality(Held(t, Within)') \in Nat
          /\ Cardinality(Held(t, Within)) <= Cardinality(Held(t, Within)')
      BY <3>2, <3>3, HeldMono
    <3>5. hours[t] \in Nat /\ hours[t] <= Cardinality(Held(t, Within))
      BY <3>1 DEF NothingEarlierCharged, IInv, TypeOK
    <3> QED
      BY <3>1, <3>4, <3>5
  <2>2. CASE QueryAnswers
    <3>1. hours'[t] = Cardinality(SamplesOf(t))
      BY <2>2 DEF QueryAnswers
    <3>2. SamplesOf(t) \subseteq Held(t, Within)
      BY <2>2, SamplesAreOfThePeriod DEF QueryAnswers
    <3>3. Held(t, Within)' = Held(t, Within)
      BY <2>2 DEF QueryAnswers, world, Held
    <3> QED
      BY <3>1, <3>2, <3>3, HeldMono, HeldSubset
  <2>3. CASE Begin
    BY <2>3 DEF Begin, usageVars, IInv, Dated
  <2>4. CASE Return
    BY <2>4 DEF Return, NoHours
  <2>5. CASE UNCHANGED <<log, hours, start>>
    <3>1. Held(t, Within)' = Held(t, Within)
      BY <2>5 DEF Held
    <3> QED
      BY <2>5, <3>1 DEF NothingEarlierCharged
  <2> QED
    BY <2>1, <2>2, <2>3, <2>4, <2>5 DEF Next, QueryFails, TakeType, TryFamily, RateFound,
       Unpriced, Decide, vars, world, usageVars
<1> QED
  BY Invariance, <1>1, <1>2, PTL DEF Spec

\* What was held in the period, but for its very beginning, is charged.
THEOREM NothingEverMissed == Spec => []NothingMissed
<1> DEFINE Span == {i \in Instants : start + (at - asOf) < i /\ i <= asOf}
           Charged(t) == Held(t, Span) # {} => /\ t \in DOMAIN hours
                                              /\ hours[t] >= Cardinality(Held(t, Span))
<1>0. NothingMissed <=> (pc \in {"usage", "rate"}
        => \A p \in Products : GPUTypeOf[p] # <<>> => Charged(GPUTypeOf[p]))
  BY DEF NothingMissed
<1>1. Init => NothingMissed
  BY DEF Init, Idle, NothingMissed
<1>2. IInv /\ NothingMissed /\ [Next]_vars => NothingMissed'
  <2> SUFFICES ASSUME IInv, NothingMissed, [Next]_vars, (pc \in {"usage", "rate"})',
                      NEW p \in Products, GPUTypeOf[p] # <<>>
               PROVE  Charged(GPUTypeOf[p])'
    BY DEF NothingMissed
  <2> DEFINE t == GPUTypeOf[p]
  <2>0. pc \in {"usage", "rate"} => Charged(t)
    BY <1>0
  <2>1. CASE Tick
    <3>1. UNCHANGED <<pc, asOf, start, at, hours>>
      BY <2>1 DEF Tick, usageVars
    <3>2. asOf \in Nat /\ clock \in Nat /\ asOf <= clock
      BY <3>1, EvaluationAssumption DEF IInv, TypeOK, Dated
    <3>3. \A q \in Products, i \in Span : i \in log'[q] <=> i \in log[q]
      <4> SUFFICES ASSUME NEW q \in Products, NEW i \in Span
                   PROVE  i \in log'[q] <=> i \in log[q]
        OBVIOUS
      <4>1. i \in Nat /\ i <= asOf
        BY EvaluationAssumption
      <4>2. ~(clock < i)
        BY <3>2, <4>1
      <4>3. log[q] \subseteq log'[q] /\ \A j \in log'[q] \ log[q] : clock < j
        BY <2>1, LogGrows
      <4> QED
        BY <4>2, <4>3
    <3>4. Held(t, Span)' = Held(t, Span)
      BY <3>1, <3>3 DEF Held
    <3> QED
      BY <2>0, <3>1, <3>4
  <2>2. CASE QueryAnswers
    <3>1. /\ pc = "query" /\ at' = clock
          /\ hours' = [u \in Answered |-> Cardinality(SamplesOf(u))]
          /\ UNCHANGED <<log, asOf, start>>
      BY <2>2 DEF QueryAnswers, world
    <3>2. Held(t, Span)' \subseteq SamplesOf(t)
      <4>1. asOf \in Nat /\ clock \in Nat /\ asOf <= clock /\ start \in Int
        BY <3>1, EvaluationAssumption DEF IInv, TypeOK, Dated
      <4> SUFFICES ASSUME NEW r \in Held(t, Span)'
                   PROVE  r \in SamplesOf(t)
        OBVIOUS
      <4>2. PICK q \in Products, i \in Instants :
              /\ r = <<q, i>> /\ GPUTypeOf[q] = t /\ i \in log[q]
              /\ start + (clock - asOf) < i /\ i <= asOf
        BY <3>1 DEF Held
      <4>3. i \in Nat /\ i % Resample = 0
        BY <4>2, EvaluationAssumption DEF IInv, OnRecord
      <4>4. clock - Window(asOf - start) < i /\ i <= clock
        BY <4>1, <4>2, <4>3 DEF Window, Minute
      <4> QED
        BY <4>2, <4>3, <4>4 DEF SamplesOf, Sampled
    <3>3. SamplesOf(t) \subseteq Products \X Instants
      BY DEF SamplesOf
    <3>4. /\ Cardinality(Held(t, Span)') \in Nat /\ Cardinality(SamplesOf(t)) \in Nat
          /\ Cardinality(Held(t, Span)') <= Cardinality(SamplesOf(t))
      BY <3>2, <3>3, HeldMono
    <3>5. Held(t, Span)' # {} => t \in Answered
      BY <3>2 DEF Answered
    <3> QED
      BY <3>1, <3>4, <3>5
  <2>3. CASE UNCHANGED <<log, asOf, start, at, hours>> /\ pc \in {"usage", "rate"}
    <3>1. Held(t, Span)' = Held(t, Span)
      BY <2>3 DEF Held
    <3> QED
      BY <2>0, <2>3, <3>1
  <2> QED
    BY <2>1, <2>2, <2>3 DEF Next, Begin, QueryFails, TakeType, TryFamily, RateFound,
       Unpriced, Decide, Return, vars, world, usageVars
<1> QED
  BY Invariance, <1>1, <1>2, PTL DEF Spec

-----------------------------------------------------------------------------
(* The judgement                                                           *)

Bill == [t \in DOMAIN hours |-> hours[t] * RateOfType(t)]

\* The types whose price is part of cost.
Billed == DOMAIN hours \ (todo \union (IF pc = "rate" THEN {gpuType} ELSE {}))

\* total and cost are the sums over the types visited so far.
Totalled ==
  /\ pc \in {"idle", "query"} => at = 0 /\ total = 0 /\ cost = 0
  /\ pc \in {"usage", "rate"} => total = SumFunctionOnSet(hours, DOMAIN hours \ todo)
  /\ pc \in {"usage", "rate"} /\ spec.dollars # None
       => cost = SumFunctionOnSet(Bill, Billed) /\ \A t \in Billed : Priced(t)
  /\ pc = "rate" => spec.dollars # None /\ gpuType \notin todo

\* There is one most specific family at most, and its rate is the price.
LEMMA RateIsBest ==
  ASSUME NEW t \in Names, NEW f, MostSpecific(f, t)
  PROVE  RateOfType(t) = GPURates[f] /\ Priced(t)
<1> DEFINE g == CHOOSE h \in Families : MostSpecific(h, t)
<1>1. f \in Families
  BY DEF MostSpecific, Candidates
<1>2. g \in Families /\ MostSpecific(g, t)
  BY <1>1
<1> HIDE DEF g
<1>3. Len(f) \in Nat /\ Len(g) \in Nat /\ f \in Names /\ g \in Names
  BY <1>1, <1>2, FamilyFacts
<1>4. IsPrefix(f, t) /\ IsPrefix(g, t) /\ Len(f) = Len(g)
  BY <1>2, <1>3 DEF MostSpecific, Candidates
<1>5. f = g
  BY <1>3, <1>4, PrefixesNest
<1>6. Priced(t)
  BY DEF MostSpecific, Priced
<1> QED
  BY <1>5, <1>6 DEF RateOfType, g

\* What is priced has a rate to be multiplied with.
LEMMA BillType ==
  ASSUME IInv, NEW t \in DOMAIN hours, Priced(t)
  PROVE  Bill[t] \in Int
<1>1. t \in Names
  BY EvaluationAssumption DEF IInv, TypeOK
<1>2. \A f \in Candidates(t) : f \in Families /\ Len(f) \in Nat /\ Len(f) <= Len(t)
  BY FamilyFacts DEF Candidates, IsPrefix
<1>3. \E f : MostSpecific(f, t)
  <2> DEFINE Back == {Len(t) - Len(f) : f \in Candidates(t)}
  <2>1. Back \subseteq Nat /\ Back # {}
    BY <1>1, <1>2 DEF Priced, Names
  <2>2. PICK b \in Back : \A c \in Back : b <= c
    <3> HIDE DEF Back
    <3> QED
      BY <2>1, LeastNat
  <2>3. PICK f \in Candidates(t) : b = Len(t) - Len(f)
    OBVIOUS
  <2>4. \A g \in Candidates(t) : Len(t) - Len(f) <= Len(t) - Len(g)
    BY <2>2, <2>3
  <2>5. Len(t) \in Nat
    BY <1>1 DEF Names
  <2> QED
    BY <1>2, <2>4, <2>5 DEF MostSpecific
<1>4. PICK f : MostSpecific(f, t)
  BY <1>3
<1>5. RateOfType(t) \in Int
  BY <1>1, <1>4, RateIsBest, FamilyFacts DEF MostSpecific, Candidates
<1>6. hours[t] \in Nat
  BY DEF IInv, TypeOK
<1> DEFINE h == hours[t]
           r == RateOfType(t)
<1>7. Bill[t] = h * r
  BY DEF Bill
<1>8. h \in Int /\ r \in Int
  BY <1>5, <1>6
<1> HIDE DEF h, r
<1>9. h * r \in Int
  BY <1>8
<1> QED
  BY <1>7, <1>9

LEMMA TypesFinite ==
  ASSUME IInv
  PROVE  IsFiniteSet(DOMAIN hours)
<1> DEFINE T == {GPUTypeOf[p] : p \in Products}
<1>1. GPUTypeOf \in Surjection(Products, T)
  BY EvaluationAssumption DEF Surjection
<1>2. IsFiniteSet(T)
  BY <1>1, FS_Surjection, EvaluationAssumption
<1>3. DOMAIN hours \subseteq T
  BY DEF IInv, TypeOK
<1> QED
  BY <1>2, <1>3, FS_Subset

\* The outcome depends on the answer of the query and on the limits alone.
LEMMA OutcomeUnchanged ==
  ASSUME UNCHANGED <<hours, spec>>
  PROVE  Outcome' = Outcome
BY DEF Outcome, Chargeable, OverHours, OverDollars, Priced, Candidates, RateOfType, MostSpecific

\* The first type without a price ends the loop, as it must in any order.
LEMMA UnpricedIsOutcome ==
  ASSUME IInv, Totalled, Unpriced
  PROVE  verdict' = Outcome
<1>1. pc = "rate" /\ untried = {} /\ best = <<>> /\ verdict' = "Unknown"
  BY DEF Unpriced
<1>2. gpuType \in DOMAIN hours /\ spec.dollars # None
  BY <1>1 DEF IInv, Scanned, Totalled
<1>3. ~MostSpecific(best, gpuType)
  BY <1>1, FamilyFacts DEF MostSpecific, Candidates
<1>4. ~Priced(gpuType)
  BY <1>1, <1>3, PricedNow DEF PricedByMostSpecific
<1> QED
  BY <1>1, <1>2, <1>4 DEF Outcome, Chargeable

\* When both loops are through, the comparison is of the sums of the answer.
LEMMA DecideIsOutcome ==
  ASSUME Totalled, Decide
  PROVE  verdict' = Outcome
<1>1. pc = "usage" /\ todo = {} /\ verdict' = IF OverBudget THEN "over" ELSE "within"
  BY DEF Decide
<1>2. Billed = DOMAIN hours
  BY <1>1 DEF Billed
<1>3. /\ total = SumFunction(hours)
      /\ spec.dollars # None
           => cost = SumFunction(Bill) /\ \A t \in DOMAIN hours : Priced(t)
  <2>1. DOMAIN Bill = DOMAIN hours
    BY DEF Bill
  <2> QED
    BY <1>1, <1>2, <2>1 DEF Totalled, SumFunction
<1>4. OverHours <=> Exceeds(25 * total, 3, spec.hours)
  BY <1>3 DEF OverHours, Exceeds
<1>5. OverDollars <=> Exceeds(cost, 12, spec.dollars)
  BY <1>3 DEF OverDollars, Exceeds, Bill
<1>6. Chargeable
  BY <1>3 DEF Chargeable
<1> QED
  BY <1>1, <1>4, <1>5, <1>6 DEF Outcome, OverBudget

\* A step that leaves an evaluation alone leaves its totals alone.
LEMMA TotalledUnchanged ==
  ASSUME Totalled, UNCHANGED <<spec, pc, at, usageVars>>
  PROVE  Totalled'
<1>1. /\ hours' = hours /\ todo' = todo /\ pc' = pc /\ gpuType' = gpuType
      /\ total' = total /\ cost' = cost /\ spec' = spec /\ at' = at
  BY DEF usageVars, scan
<1>2. Bill' = Bill /\ Billed' = Billed
  BY <1>1 DEF Bill, Billed, RateOfType, MostSpecific, Candidates
<1> QED
  BY <1>1, <1>2 DEF Totalled, Priced

LEMMA NextTotalled ==
  ASSUME IInv, Totalled, [Next]_vars
  PROVE  Totalled'
<1>1. CASE Tick \/ UNCHANGED vars
  BY <1>1, TotalledUnchanged DEF Tick, vars, world
<1>2. CASE Begin
  BY <1>2 DEF Begin, Totalled, usageVars
<1>3. CASE QueryFails
  BY <1>3 DEF QueryFails, Totalled, usageVars
<1>4. CASE QueryAnswers
  <2>1. /\ pc' = "usage" /\ DOMAIN hours' = todo' /\ total' = 0 /\ cost' = 0
    BY <1>4 DEF QueryAnswers, Totalled
  <2>2. DOMAIN hours' \ todo' = {} /\ Billed' = {}
    BY <2>1 DEF Billed
  <2>3. \A f : SumFunctionOnSet(f, {}) = 0
    BY SumEmpty
  <2> QED
    BY <2>1, <2>2, <2>3 DEF Totalled
<1>5. ASSUME NEW t \in todo, TakeType(t)
      PROVE  Totalled'
  <2> DEFINE D == DOMAIN hours
             S == D \ todo'
  <2>1. /\ pc = "usage" /\ hours' = hours /\ spec' = spec /\ cost' = cost
        /\ todo' = todo \ {t} /\ total' = total + hours[t]
    BY <1>5 DEF TakeType, world
  <2>2. t \in D /\ t \in S /\ S \ {t} = D \ todo
    BY <2>1 DEF IInv, TypeOK
  <2>3. IsFiniteSet(S) /\ \A u \in S : hours[u] \in Int
    BY TypesFinite, FS_Subset DEF IInv, TypeOK
  <2>4. SumFunctionOnSet(hours, S) = hours[t] + SumFunctionOnSet(hours, S \ {t})
    <3> HIDE DEF S, D
    <3> QED
      BY <2>2, <2>3, SumTakeOut
  <2>5. total = SumFunctionOnSet(hours, D \ todo) /\ total \in Int /\ hours[t] \in Int
    BY <2>1, <2>2 DEF Totalled, IInv, TypeOK
  <2>6. total' = SumFunctionOnSet(hours, S)
    <3> HIDE DEF S, D
    <3>1. SumFunctionOnSet(hours, S \ {t}) = SumFunctionOnSet(hours, D \ todo)
      BY <2>2, Zenon
    <3>2. SumFunctionOnSet(hours, S) = hours[t] + total
      BY <2>4, <2>5, <3>1
    <3> QED
      BY <2>1, <2>5, <3>2
  <2>7. CASE spec.dollars = None
    <3>1. pc' = "usage"
      BY <1>5, <2>1, <2>7 DEF TakeType
    <3> QED
      BY <2>1, <2>6, <2>7, <3>1 DEF Totalled
  <2>8. CASE spec.dollars # None
    <3>1. pc' = "rate" /\ gpuType' = t
      BY <1>5, <2>8 DEF TakeType
    <3>2. Billed' = Billed /\ Bill' = Bill
      BY <2>1, <2>2, <3>1 DEF Billed, Bill, RateOfType, MostSpecific, Candidates
    <3> QED
      BY <2>1, <2>6, <2>8, <3>1, <3>2 DEF Totalled, Priced
  <2> QED
    BY <2>7, <2>8
<1>6. ASSUME NEW f \in untried, TryFamily(f)
      PROVE  Totalled'
  <2>1. /\ hours' = hours /\ todo' = todo /\ pc' = pc /\ gpuType' = gpuType /\ pc = "rate"
        /\ total' = total /\ cost' = cost /\ spec' = spec /\ at' = at
    BY <1>6 DEF TryFamily, world
  <2>2. Bill' = Bill /\ Billed' = Billed
    BY <2>1 DEF Bill, Billed, RateOfType, MostSpecific, Candidates
  <2> QED
    BY <2>1, <2>2 DEF Totalled, Priced
<1>7. CASE RateFound
  <2> DEFINE S == Billed'
  <2>1. /\ pc = "rate" /\ pc' = "usage" /\ untried = {} /\ best # <<>>
        /\ hours' = hours /\ spec' = spec /\ todo' = todo /\ total' = total
        /\ cost' = cost + hours[gpuType] * GPURates[best]
    BY <1>7 DEF RateFound, world
  <2>2. Bill' = Bill
    BY <2>1 DEF Bill, RateOfType, MostSpecific, Candidates
  <2>3. /\ gpuType \in DOMAIN hours /\ gpuType \in Names
        /\ MostSpecific(best, gpuType)
    BY <2>1, PricedNow DEF IInv, TypeOK, Scanned, PricedByMostSpecific
  <2>4. RateOfType(gpuType) = GPURates[best] /\ Priced(gpuType)
    BY <2>3, RateIsBest
  <2>5. Bill[gpuType] = hours[gpuType] * GPURates[best]
    BY <2>3, <2>4 DEF Bill
  <2>6. /\ S \subseteq DOMAIN hours /\ gpuType \in S /\ S \ {gpuType} = Billed
        /\ \A t \in Billed : Priced(t)
        /\ cost = SumFunctionOnSet(Bill, Billed)
    BY <2>1, <2>3 DEF Billed, Totalled
  <2>7. \A t \in S : Priced(t) /\ Bill[t] \in Int
    <3> SUFFICES ASSUME NEW t \in S PROVE Priced(t) /\ Bill[t] \in Int
      OBVIOUS
    <3>1. Priced(t) /\ t \in DOMAIN hours
      BY <2>4, <2>6
    <3> QED
      BY <3>1, BillType
  <2>8. IsFiniteSet(S)
    BY <2>6, TypesFinite, FS_Subset
  <2>9. SumFunctionOnSet(Bill, S) = Bill[gpuType] + SumFunctionOnSet(Bill, S \ {gpuType})
    <3> HIDE DEF S
    <3> QED
      BY <2>6, <2>7, <2>8, SumTakeOut
  <2>10. cost \in Int /\ Bill[gpuType] \in Int
    BY <2>6, <2>7 DEF IInv, TypeOK
  <2>11. cost' = SumFunctionOnSet(Bill, S)
    <3>1. cost' = cost + Bill[gpuType]
      BY <2>1, <2>5
    <3> HIDE DEF S
    <3>2. SumFunctionOnSet(Bill, S \ {gpuType}) = SumFunctionOnSet(Bill, Billed)
      BY <2>6, Zenon
    <3>3. SumFunctionOnSet(Bill, S) = Bill[gpuType] + cost
      BY <2>6, <2>9, <3>2
    <3> QED
      BY <2>10, <3>1, <3>3
  <2> QED
    BY <2>1, <2>2, <2>7, <2>11 DEF Totalled, Priced, Candidates
<1>8. CASE Unpriced
  BY <1>8 DEF Unpriced, Totalled, usageVars
<1>9. CASE Decide
  BY <1>9 DEF Decide, Totalled, usageVars
<1>10. CASE Return
  BY <1>10 DEF Return, Totalled
<1> QED
  BY <1>1, <1>2, <1>3, <1>4, <1>5, <1>6, <1>7, <1>8, <1>9, <1>10 DEF Next

\* A verdict that comes of an answer is its outcome.
Settled == Answer /\ verdict # "none" => verdict = Outcome

\* From the answer of the query to the verdict its outcome does not change,
\* and the verdict is that outcome.
LEMMA NextSettled ==
  ASSUME IInv, Totalled, Settled, [Next]_vars
  PROVE  Settled'
<1> SUFFICES ASSUME pc' = "done", verdict' # "none", at' # 0
             PROVE  verdict' = Outcome'
  BY DEF Settled, Answer
<1>1. CASE Unpriced \/ Decide
  <2>1. verdict' = Outcome
    BY <1>1, UnpricedIsOutcome, DecideIsOutcome
  <2>2. UNCHANGED <<hours, spec>>
    BY <1>1 DEF Unpriced, Decide, world, usageVars
  <2> QED
    BY <2>1, <2>2, OutcomeUnchanged
<1>2. CASE QueryFails
  BY <1>2 DEF QueryFails, Totalled
<1>3. CASE Tick \/ UNCHANGED vars
  <2>1. UNCHANGED <<pc, verdict, at, hours, spec>>
    BY <1>3 DEF Tick, vars, world, usageVars
  <2> QED
    BY <2>1, OutcomeUnchanged DEF Settled, Answer
<1> QED
  BY <1>1, <1>2, <1>3 DEF Next, Begin, QueryAnswers, TakeType, TryFamily, RateFound, Return

\* The verdict is there at the end, and only then.
Silent == verdict = "none" <=> pc # "done"

LEMMA NextSilent ==
  ASSUME Silent, [Next]_vars
  PROVE  Silent'
<1>1. ASSUME Decide PROVE verdict' # "none" /\ pc' = "done"
  BY <1>1 DEF Decide
<1> QED
  BY <1>1 DEF Silent, Next, Tick, Begin, QueryFails, QueryAnswers, TakeType, TryFamily,
     RateFound, Unpriced, Return, vars, world

LEMMA AlwaysSettled == Spec => [](IInv /\ Totalled /\ Silent /\ Settled)
<1>1. Init => Totalled /\ Silent /\ Settled
  BY DEF Init, Idle, Totalled, Silent, Settled, Answer
<1>2. IInv /\ Totalled /\ Silent /\ Settled /\ [Next]_vars => (Totalled /\ Silent /\ Settled)'
  BY NextTotalled, NextSilent, NextSettled
<1> QED
  BY <1>1, <1>2, Invariance, PTL DEF Spec

\* In whatever order the types and the table are visited, the verdict is the
\* one the totals of the whole answer call for wherever all of it can be
\* charged, and is never within where it cannot.
THEOREM AlwaysJudged == Spec => []Judged
<1>1. Silent /\ Settled => Judged
  BY DEF Silent, Settled, Answer, Outcome, Judged
<1> QED
  BY <1>1, AlwaysSettled, PTL

\* Where every type has a price, or no GpuBudget has a dollarsLimit, a
\* gpuHoursLimit that is exceeded is always enforced.
THEOREM HoursLimitEnforcedIfPriced ==
  ASSUME DollarsLimits = {None} \/ \A t \in Labels : Priced(t)
  PROVE  Spec => []HoursLimitEnforced
<1>1. IInv /\ Silent /\ Settled => HoursLimitEnforced
  <2> SUFFICES ASSUME IInv, Silent, Settled, Answer, OverHours
               PROVE  verdict = "over"
    BY DEF HoursLimitEnforced
  <2>1. spec \in Specs /\ DOMAIN hours \subseteq Labels
    BY DEF IInv, TypeOK, Labels
  <2>2. Chargeable
    BY <2>1 DEF Chargeable, Specs
  <2> QED
    BY <2>2 DEF Silent, Settled, Answer, Outcome
<1> QED
  BY <1>1, AlwaysSettled, PTL

-----------------------------------------------------------------------------
(* One judgement at one moment                                             *)

\* The samples the answer of a query is made of.
Counted ==
  {r \in Products \X Instants :
     /\ GPUTypeOf[r[1]] # <<>> /\ r[2] \in log[r[1]]
     /\ Sampled(r[2], clock, Window(asOf - start))}

\* The period they are of, and what a query under way does not see of it.
LEMMA CountedIsOfThePeriod ==
  ASSUME IInv, pc = "query"
  PROVE  /\ Counted \subseteq Atomic!Since(start)
         /\ Atomic!Since(start + (clock - asOf) + 1) \subseteq Counted
<1>1. /\ asOf \in Nat /\ clock \in Nat /\ asOf <= clock /\ start \in Int
      /\ \A p \in Products : \A i \in log[p] :
           i \in Instants /\ i \in Nat /\ i <= clock /\ i % Resample = 0
  BY EvaluationAssumption DEF IInv, TypeOK, Dated, OnRecord
<1>2. ASSUME NEW r \in Counted
      PROVE  r \in Atomic!Since(start)
  <2>1. r \in SamplesOf(GPUTypeOf[r[1]])
    BY <1>2 DEF Counted, SamplesOf
  <2>2. r \in Held(GPUTypeOf[r[1]], {i \in Instants : start <= i})
    BY <2>1, SamplesAreOfThePeriod
  <2> QED
    BY <1>2, <2>2 DEF Counted, Held, Atomic!Since
<1>3. ASSUME NEW r \in Atomic!Since(start + (clock - asOf) + 1)
      PROVE  r \in Counted
  <2>1. PICK p \in Products, i \in Instants :
          r = <<p, i>> /\ GPUTypeOf[p] # <<>> /\ i \in log[p] /\ start + (clock - asOf) + 1 <= i
    BY <1>3 DEF Atomic!Since
  <2>2. i \in Nat /\ i <= clock /\ i % Resample = 0
    BY <1>1, <2>1
  <2>3. clock - Window(asOf - start) < i
    BY <1>1, <2>1, <2>2 DEF Window, Minute
  <2> QED
    BY <2>1, <2>2, <2>3 DEF Counted, Sampled
<1> QED
  BY <1>2, <1>3

\* Judgement counts and adds as Evaluation does.
LEMMA SameCounting ==
  /\ \A S : Atomic!Cardinality(S) = Cardinality(S)
  /\ \A f : Atomic!SumFunction(f) = SumFunction(f)
<1>1. \A S : Atomic!Cardinality(S) = Cardinality(S)
  BY DEF Atomic!Cardinality, Cardinality
<1>2. \A f : Atomic!SumFunction(f) = SumFunction(f)
  BY DEF Atomic!SumFunction, SumFunction, Atomic!SumFunctionOnSet, SumFunctionOnSet,
     Atomic!FoldFunctionOnSet, FoldFunctionOnSet, Atomic!MapThenFoldSet, MapThenFoldSet
<1> QED
  BY <1>1, <1>2

\* The outcome of an answer is the judgement of the samples it is made of, if
\* they can all be charged.
LEMMA OutcomeIsVerdict ==
  ASSUME IInv, QueryAnswers
  PROVE  /\ Chargeable'
              <=> (spec.dollars # None
                     => DOMAIN Atomic!Count(Counted) \subseteq {l \in Labels : Priced(l)})
         /\ Chargeable' => Outcome' = Atomic!VerdictOf(Counted)
<1> DEFINE types == {GPUTypeOf[s[1]] : s \in Counted}
           Of(t) == {s \in Counted : GPUTypeOf[s[1]] = t}
           count == [t \in types |-> Cardinality(Of(t))]
           Cost == [t \in {l \in Labels : Priced(l)} |-> RateOfType(t)]
<1>1. \A t : t # <<>> => Of(t) = SamplesOf(t)
  BY DEF Counted, SamplesOf
<1>2. types = Answered
  BY DEF Counted, SamplesOf, Answered
<1>3. <<>> \notin types /\ types \subseteq Labels
  BY <1>2 DEF Answered, Labels
<1>4. hours' = count /\ spec' = spec
  BY <1>1, <1>2, <1>3 DEF QueryAnswers, world
<1>5. \A t : (Priced(t))' = Priced(t) /\ (RateOfType(t))' = RateOfType(t)
  BY DEF Priced, Candidates, RateOfType, MostSpecific
<1>6. Atomic!Count(Counted) = count
  BY SameCounting DEF Atomic!Count
<1> DEFINE sum == SumFunction(count)
           bill == SumFunction([t \in types |-> count[t] * RateOfType(t)])
           charge == SumFunction([t \in types |-> count[t] * Cost[t]])
           over(b) == \/ spec.hours # None /\ 25 * sum > 3 * spec.hours
                      \/ spec.dollars # None /\ b > 12 * spec.dollars
           pays == spec.dollars # None => \A t \in types : Priced(t)
<1>7. DOMAIN hours' = types
  BY <1>4
<1>8. Chargeable' <=> pays
  BY <1>4, <1>5, <1>7 DEF Chargeable
<1>9. pays <=> (spec.dollars # None => DOMAIN count \subseteq {l \in Labels : Priced(l)})
  BY <1>3
<1>10. Chargeable' => Outcome' = IF over(bill) THEN "over" ELSE "within"
  BY <1>4, <1>5, <1>7 DEF Outcome, OverHours, OverDollars
<1>11. Atomic!VerdictOf(Counted) = IF over(charge) THEN "over" ELSE "within"
  BY <1>6, SameCounting DEF Atomic!VerdictOf
<1>12. pays /\ spec.dollars # None => charge = bill
  <2> SUFFICES ASSUME \A t \in types : Priced(t) PROVE charge = bill
    OBVIOUS
  <2>1. \A t \in types : Cost[t] = RateOfType(t)
    BY <1>3
  <2>2. [t \in types |-> count[t] * Cost[t]] = [t \in types |-> count[t] * RateOfType(t)]
    BY <2>1
  <2> QED
    BY <2>2
<1> HIDE DEF bill, charge, sum, count, Of, types
<1> QED
  BY <1>6, <1>8, <1>9, <1>10, <1>11, <1>12

\* The moment the query is answered is the moment of the judgement, or the
\* moment at which the reconcile gives up.
LEMMA AnswerJudges ==
  ASSUME IInv, Silent, QueryAnswers
  PROVE  Atomic!Judge \/ Atomic!GiveUp
<1>1. pc = "query" /\ pc' = "usage" /\ UNCHANGED <<world, asOf, start>>
  BY DEF QueryAnswers
<1>2. asOf # None /\ verdict = "none" /\ start = PeriodStart(spec.period, asOf)
  BY <1>1, EvaluationAssumption DEF IInv, TypeOK, Dated, Silent
<1>3. CASE ~Chargeable'
  <2>1. Outcome' = "Unknown"
    BY <1>3 DEF Outcome
  <2> QED
    BY <1>1, <1>2, <2>1 DEF Atomic!GiveUp, world
<1>4. CASE Chargeable'
  <2> DEFINE missed == Atomic!Since(start) \ Counted
  <2>1. /\ missed \in SUBSET (Atomic!Since(start) \ Atomic!Since(start + (clock - asOf) + 1))
        /\ Counted = Atomic!Since(start) \ missed
    BY <1>1, CountedIsOfThePeriod
  <2>2. /\ Outcome' = Atomic!VerdictOf(Atomic!Since(start) \ missed)
        /\ spec.dollars # None
             => DOMAIN Atomic!Count(Atomic!Since(start) \ missed)
                  \subseteq {l \in Labels : Priced(l)}
    BY <1>4, <2>1, OutcomeIsVerdict
  <2>3. Atomic!Start = start
    BY <1>1, <1>2 DEF Atomic!Start
  <2> HIDE DEF missed
  <2> QED
    BY <1>1, <1>2, <2>1, <2>2, <2>3 DEF Atomic!Judge, world
<1> QED
  BY <1>3, <1>4

\* Two loops over maps, a rate table, and a query under way while time goes
\* on: a verdict of over or within is a judgement, at one moment, of what is
\* on record then.
THEOREM AlwaysJudgedAtOnce == Spec => JudgedAtOnce
<1>1. Init => Silent /\ Totalled /\ Atomic!Init
  BY DEF Init, Idle, Silent, Totalled, Atomic!Init
<1>2. ASSUME IInv, Totalled, Silent, [Next]_vars
      PROVE  [Atomic!Next]_(Atomic!vars)
  <2> USE <1>2
  <2> DEFINE asked == IF pc = "idle" THEN None ELSE asOf
             says == IF pc \in {"usage", "rate"} THEN Outcome ELSE verdict
  <2>0. ASSUME UNCHANGED world, asked' = asked, says' = says
        PROVE  UNCHANGED Atomic!vars
    BY <2>0 DEF Atomic!vars, world
  <2>1. CASE Tick
    <3>1. UNCHANGED <<spec, pc, asOf, hours, verdict>>
      BY <2>1 DEF Tick, usageVars
    <3>2. asked' = asked /\ says' = says
      BY <3>1, OutcomeUnchanged
    <3>3. clock' \in Instants /\ clock' > clock
      BY <2>1, LaterMin, EvaluationAssumption DEF Tick, IInv, TypeOK
    <3>4. \A p \in Products : log[p] \subseteq log'[p] /\ log'[p] \subseteq log[p] \union {clock'}
      BY <2>1 DEF Tick, IInv, TypeOK
    <3>5. Atomic!Time
      BY <3>1, <3>2, <3>3, <3>4 DEF Atomic!Time
    <3> QED
      BY <3>5 DEF Atomic!Next
  <2>2. CASE Begin
    <3>1. asked = None /\ asked' = clock /\ says' = says /\ UNCHANGED world
      BY <2>2 DEF Begin
    <3> QED
      BY <3>1 DEF Atomic!Next, Atomic!Ask, world
  <2>3. CASE QueryFails
    <3>1. /\ asked = asOf /\ asOf # None /\ says = "none"
          /\ asked' = asked /\ says' = "Unknown" /\ UNCHANGED world
      BY <2>3, EvaluationAssumption DEF QueryFails, IInv, TypeOK, Silent
    <3> QED
      BY <3>1 DEF Atomic!Next, Atomic!GiveUp, world
  <2>4. CASE QueryAnswers
    BY <2>4, AnswerJudges DEF Atomic!Next
  <2>5. CASE RateFound \/ (\E t \in todo : TakeType(t)) \/ \E f \in untried : TryFamily(f)
    <3>1. /\ pc \in {"usage", "rate"} /\ pc' \in {"usage", "rate"}
          /\ UNCHANGED <<world, asOf, hours>>
      BY <2>5 DEF RateFound, TakeType, TryFamily, scan
    <3>2. Outcome' = Outcome
      BY <3>1, OutcomeUnchanged DEF world
    <3> QED
      BY <2>0, <3>1, <3>2
  <2>6. CASE Unpriced \/ Decide
    <3>1. pc \in {"usage", "rate"} /\ pc' = "done" /\ UNCHANGED <<world, asOf>>
      BY <2>6 DEF Unpriced, Decide
    <3>2. verdict' = Outcome
      BY <2>6, UnpricedIsOutcome, DecideIsOutcome
    <3> QED
      BY <2>0, <3>1, <3>2
  <2>7. CASE Return
    <3>1. /\ pc = "done" /\ says = verdict /\ verdict # "none"
          /\ asked' = None /\ says' = "none" /\ UNCHANGED world
      BY <2>7 DEF Return, Silent
    <3> QED
      BY <3>1 DEF Atomic!Next, Atomic!Finish, world
  <2>8. CASE UNCHANGED vars
    <3>1. UNCHANGED <<world, pc, asOf, hours, verdict>>
      BY <2>8 DEF vars, usageVars
    <3>2. Outcome' = Outcome
      BY <3>1, OutcomeUnchanged DEF world
    <3> QED
      BY <2>0, <3>1, <3>2
  <2> QED
    BY <2>1, <2>2, <2>3, <2>4, <2>5, <2>6, <2>7, <2>8 DEF Next
<1>3. Spec => [](IInv /\ Totalled /\ Silent)
  <2>1. IInv /\ Totalled /\ Silent /\ [Next]_vars => (Totalled /\ Silent)'
    BY NextTotalled, NextSilent
  <2> QED
    BY <1>1, <2>1, Invariance, PTL DEF Spec
<1> QED
  BY <1>1, <1>2, <1>3, PTL DEF Spec, JudgedAtOnce, Atomic!Spec

=============================================================================
