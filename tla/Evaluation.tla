----------------------------- MODULE Evaluation -----------------------------
(***************************************************************************)
(* How Reconcile comes to its judgement of one GpuBudget: the period and   *)
(* the query (periodStart, BuildGPUHoursQuery, GPUHoursByType), the prices *)
(* (computeUsage, RateFor) and the comparison with the limits, while time  *)
(* goes on and Prometheus samples the reservations of the namespace.       *)
(* Reconciler has all this as one step over a usage and a limit.           *)
(*                                                                         *)
(* Quantities are exact: a sample is a reservation at a multiple of five   *)
(* minutes and counts for 5/60 of a GPU-hour.  Limits are in hundredths of *)
(* a GPU-hour and in cents.  (The code adds floats, in any order.)         *)
(***************************************************************************)
EXTENDS Period, Rates, FiniteSets, FiniteSetsExt, Functions

CONSTANTS
  Products,      \* GPU products of the nodes, one GPU of each in the namespace
  GPUTypeOf,     \* the gpuType label of a product, <<>> if it gets none
  FamilyOf,      \* the family a gpuType belongs to, as its maker names it
  Instants,      \* bound: the points in time at which something happens
  Starts,        \* the instants a run may begin at
  HoursLimits,   \* bound: values of spec.gpuHoursLimit, None if unset
  DollarsLimits, \* bound: values of spec.dollarsLimit, None if unset
  None

ASSUME EvaluationAssumption ==
  /\ IsFiniteSet(Products) /\ IsFiniteSet(Instants)
  /\ GPUTypeOf \in [Products -> Names]
  /\ FamilyOf \in [{GPUTypeOf[p] : p \in Products} -> Names]
  /\ Instants \subseteq Nat /\ Starts \subseteq Instants
  /\ HoursLimits \subseteq Nat \union {None}
  /\ DollarsLimits \subseteq Nat \union {None}
  /\ None \notin Nat

Specs == {s \in [period : Periods, hours : HoursLimits, dollars : DollarsLimits] :
            s.hours # None \/ s.dollars # None}

VARIABLES
  clock,    \* the time
  log,      \* log[p]: the instants at which product p was sampled reserved
  spec,     \* gb.Spec
  pc,       \* the point the evaluation has reached
  asOf,     \* "now" of Reconcile
  start,    \* the start of the period it is in
  at,       \* "time.Now()" of GPUHoursByType
  hours,    \* hoursByType, in samples
  todo,     \* the types the loop of computeUsage has not visited
  gpuType,  \* the type being priced
  untried,  \* the families the loop of RateFor has not visited
  best,     \* bestFamily
  total,    \* totalHours, in samples
  cost,     \* totalDollars, in twelfths of a cent
  verdict   \* what Reconcile makes of it

world == <<clock, log, spec>>
scan == <<gpuType, untried, best>>
usageVars == <<hours, todo, scan, total, cost>>
vars == <<world, pc, asOf, start, at, usageVars, verdict>>

NoHours == [t \in {} |-> 0]

Idle ==
  /\ pc = "idle" /\ asOf = 0 /\ start = 0 /\ at = 0
  /\ hours = NoHours /\ todo = {} /\ total = 0 /\ cost = 0
  /\ gpuType = <<>> /\ untried = {} /\ best = <<>>
  /\ verdict = "none"

Init ==
  /\ clock \in Starts
  /\ log = [p \in Products |-> {}]
  /\ spec \in Specs
  /\ Idle

-----------------------------------------------------------------------------
(* Time, and the reservations Prometheus has on record                     *)

Later == {i \in Instants : clock < i}

\* Time goes on to the next instant; pods with a GPU come and go, and at a
\* multiple of five minutes those that are there are sampled.
Tick ==
  /\ Later # {}
  /\ clock' = Min(Later)
  /\ \E sampled \in SUBSET Products :
       /\ clock' % Resample # 0 => sampled = {}
       /\ log' = [p \in Products |->
                    IF p \in sampled THEN log[p] \union {clock'} ELSE log[p]]
  /\ UNCHANGED <<spec, pc, asOf, start, at, usageVars, verdict>>

-----------------------------------------------------------------------------
(* Reconcile, from the time it reads to the phase it comes to              *)

Begin ==
  /\ pc = "idle"
  /\ pc' = "query"
  /\ asOf' = clock
  /\ start' = PeriodStart(spec.period, clock)
  /\ UNCHANGED <<world, at, usageVars, verdict>>

\* The query has no answer: markFailed, with the evaluation given up.
QueryFails ==
  /\ pc = "query"
  /\ verdict' = "Unknown"
  /\ pc' = "done"
  /\ UNCHANGED <<world, asOf, start, at, usageVars>>

\* The samples counted for one gpuType.
SamplesOf(t) ==
  {r \in Products \X Instants :
     /\ GPUTypeOf[r[1]] = t /\ r[2] \in log[r[1]]
     /\ Sampled(r[2], clock, Window(asOf - start))}

\* Mutant of Answered: a sample without a gpuType label is kept.
AnsweredUnlabelled == {t \in {GPUTypeOf[p] : p \in Products} : SamplesOf(t) # {}}

\* The types in the answer: a product without a gpuType label is skipped, a
\* type without a sample in the range is not in it.
Answered == {t \in {GPUTypeOf[p] : p \in Products} \ {<<>>} : SamplesOf(t) # {}}

QueryAnswers ==
  /\ pc = "query"
  /\ at' = clock
  /\ hours' = [t \in Answered |-> Cardinality(SamplesOf(t))]
  /\ todo' = Answered
  /\ pc' = "usage"
  /\ UNCHANGED <<world, asOf, start, scan, total, cost, verdict>>

\* One turn of the loop of computeUsage, over the map in any order; with a
\* dollarsLimit it looks for the price of the type.
TakeType(t) ==
  /\ pc = "usage" /\ t \in todo
  /\ todo' = todo \ {t}
  /\ total' = total + hours[t]
  /\ IF spec.dollars = None
       THEN UNCHANGED <<pc, scan>>
       ELSE /\ pc' = "rate"
            /\ gpuType' = t /\ untried' = Families /\ best' = <<>>
  /\ UNCHANGED <<world, asOf, start, at, hours, cost, verdict>>

\* One turn of the loop of RateFor, over the map in any order.
TryFamily(f) ==
  /\ pc = "rate" /\ f \in untried
  /\ untried' = untried \ {f}
  /\ best' = Better(best, f, gpuType)
  /\ UNCHANGED <<world, pc, asOf, start, at, hours, todo, gpuType, total, cost, verdict>>

RateFound ==
  /\ pc = "rate" /\ untried = {} /\ best # <<>>
  /\ cost' = cost + hours[gpuType] * GPURates[best]
  /\ pc' = "usage"
  /\ gpuType' = <<>> /\ best' = <<>>
  /\ UNCHANGED <<world, asOf, start, at, hours, todo, untried, total, verdict>>

\* Mutant of Unpriced: a type without a rate is skipped.
UnpricedSkipped ==
  /\ pc = "rate" /\ untried = {} /\ best = <<>>
  /\ pc' = "usage"
  /\ gpuType' = <<>>
  /\ UNCHANGED <<world, asOf, start, at, hours, todo, untried, best, total, cost, verdict>>

\* The first type found without a rate ends the evaluation: markFailed.
Unpriced ==
  /\ pc = "rate" /\ untried = {} /\ best = <<>>
  /\ verdict' = "Unknown"
  /\ pc' = "done"
  /\ UNCHANGED <<world, asOf, start, at, usageVars>>

\* roundToHundredths of num / den.
RoundToHundredths(num, den) == (2 * num + den) \div (2 * den)

\* Mutant of Exceeds: the comparison is made with what the status shows.
ExceedsRounded(num, den, limit) == limit # None /\ RoundToHundredths(num, den) > limit

\* A pointer that is set, and a total strictly above it.
Exceeds(num, den, limit) == limit # None /\ num > den * limit

\* A sample is 25/3 hundredths of an hour; a cent is twelve twelfths of one.
OverBudget == Exceeds(25 * total, 3, spec.hours) \/ Exceeds(cost, 12, spec.dollars)

Decide ==
  /\ pc = "usage" /\ todo = {}
  /\ verdict' = IF OverBudget THEN "over" ELSE "within"
  /\ pc' = "done"
  /\ UNCHANGED <<world, asOf, start, at, usageVars>>

\* The next reconcile starts from nothing.
Return ==
  /\ pc = "done"
  /\ pc' = "idle" /\ asOf' = 0 /\ start' = 0 /\ at' = 0
  /\ hours' = NoHours /\ todo' = {} /\ total' = 0 /\ cost' = 0
  /\ gpuType' = <<>> /\ untried' = {} /\ best' = <<>>
  /\ verdict' = "none"
  /\ UNCHANGED world

Next ==
  \/ Tick
  \/ Begin \/ QueryFails \/ QueryAnswers
  \/ \E t \in todo : TakeType(t)
  \/ \E f \in untried : TryFamily(f)
  \/ RateFound \/ Unpriced \/ Decide
  \/ Return

Spec == Init /\ [][Next]_vars

-----------------------------------------------------------------------------
(* Properties                                                              *)

TypeOK ==
  /\ clock \in Instants
  /\ log \in [Products -> SUBSET Instants]
  /\ spec \in Specs
  /\ pc \in {"idle", "query", "usage", "rate", "done"}
  /\ asOf \in Nat /\ start \in Int /\ at \in Nat
  /\ DOMAIN hours \subseteq {GPUTypeOf[p] : p \in Products} \ {<<>>}
  /\ \A t \in DOMAIN hours : hours[t] \in Nat
  /\ todo \subseteq DOMAIN hours
  /\ gpuType \in Names /\ best \in Names
  /\ untried \subseteq Families
  /\ total \in Nat /\ cost \in Nat
  /\ verdict \in {"none", "Unknown", "over", "within"}

\* Reservations of a type the namespace held at instants of a set.
Held(t, when) == {r \in Products \X when : GPUTypeOf[r[1]] = t /\ r[2] \in log[r[1]]}

\* The period is fixed by the calendar, not a rolling window: it begins at a
\* midnight at which a period begins, and none begins between that midnight
\* and the time of the check.
PeriodIsCurrent ==
  pc = "query"
    => /\ start <= asOf
       /\ Begins(spec.period, DayOf(start))
       /\ \A d \in (DayOf(start) + 1) .. DayOf(asOf) : ~Begins(spec.period, d)

\* A new period starts from nothing: no reservation of an earlier period is
\* charged to it, not in its first minute either, when the range of the query
\* is longer than the period is old.
NothingEarlierCharged ==
  \A t \in DOMAIN hours : hours[t] <= Cardinality(Held(t, {i \in Instants : start <= i}))

\* Nothing of the period is missed, except in its beginning for as long as
\* the query was under way.
NothingMissed ==
  pc \in {"usage", "rate"}
    => \A p \in Products : GPUTypeOf[p] # <<>>
         => LET h == Held(GPUTypeOf[p], {i \in Instants : start + (at - asOf) < i /\ i <= asOf})
            IN  h # {} => /\ GPUTypeOf[p] \in DOMAIN hours
                          /\ hours[GPUTypeOf[p]] >= Cardinality(h)

\* A price is the rate of the most specific family configured, in whatever
\* order the maps are visited.
PricedByMostSpecific ==
  pc = "rate" /\ untried = {}
    => IF Priced(gpuType) THEN MostSpecific(best, gpuType) ELSE best = <<>>

\* A rate is never that of another family that shares the beginning of its
\* name: a type whose own family has no rate is unpriced.
\* (The prefix rule of RateFor keeps this only where the own family of every
\* type has a rate.)
OwnFamily ==
  pc = "rate" /\ untried = {} /\ best # <<>> => IsPrefix(FamilyOf[gpuType], best)

RateOfType(t) ==
  GPURates[CHOOSE f \in Families : MostSpecific(f, t)]

\* The two limits, exceeded by the sums over the whole answer: above a limit
\* and not at it, and with nothing rounded.
OverHours == spec.hours # None /\ 25 * SumFunction(hours) > 3 * spec.hours

OverDollars ==
  /\ spec.dollars # None
  /\ SumFunction([t \in DOMAIN hours |-> hours[t] * RateOfType(t)]) > 12 * spec.dollars

\* What is in use can be charged, if it has to be.
Chargeable == spec.dollars # None => \A t \in DOMAIN hours : Priced(t)

\* The query was answered, and a verdict has come of it.
Answer == pc = "done" /\ at # 0

\* Both limits count: where everything in use has its price, the namespace is
\* over its budget exactly when a limit is exceeded, although the loops visit
\* their maps in any order; where something has none, it never passes as
\* within the budget.
Judged ==
  Answer => IF Chargeable
              THEN verdict = IF OverHours \/ OverDollars THEN "over" ELSE "within"
              ELSE verdict # "within"

\* Whichever limit is exceeded first triggers enforcement: hours above the
\* gpuHoursLimit are over the budget, whatever becomes of the prices.
HoursLimitEnforced == Answer /\ OverHours => verdict = "over"

Labels == {GPUTypeOf[p] : p \in Products} \ {<<>>}

\* What the loops will make of the answer: a prediction, and no claim that it
\* is what the limits ask for.
Outcome ==
  IF ~Chargeable THEN "Unknown"
  ELSE IF OverHours \/ OverDollars THEN "over" ELSE "within"

\* Two loops, a query under way while time goes on, and a rate table: all of
\* it amounts to one step, the moment the query is answered.
Atomic == INSTANCE Judgement WITH
  TypeOf  <- GPUTypeOf, NoType <- <<>>,
  PriceOf <- [t \in {l \in Labels : Priced(l)} |-> RateOfType(t)],
  StartOf <- PeriodStart,
  asked   <- IF pc = "idle" THEN None ELSE asOf,
  verdict <- IF pc \in {"usage", "rate"} THEN Outcome ELSE verdict

\* A verdict of over or within is a judgement of the reservations of the
\* current period as they were at one moment of the reconcile, complete but
\* for what the delay of the query took from the beginning of the period, and
\* only where all of them can be charged.
JudgedAtOnce == Atomic!Spec

==============================================================================
