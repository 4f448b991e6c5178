----------------------------- MODULE Judgement -----------------------------
(***************************************************************************)
(* What an evaluation of a GpuBudget amounts to, with none of its loops:   *)
(* a reconcile reads the time, and then at one moment judges all that is   *)
(* on record of the period this time is in, however long it takes to say   *)
(* so, or gives up.  For as long as it was on the way to that moment it    *)
(* may miss the beginning of the period.  What is judged is judged right;  *)
(* that a limit which is exceeded is judged at all is not promised here.   *)
(***************************************************************************)
EXTENDS Integers, FiniteSets, Functions

CONSTANTS
  Products,
  TypeOf,         \* the gpuType of a product, NoType if it has none
  NoType,
  PriceOf,        \* cents per hour of each gpuType that has a price
  StartOf(_, _),  \* the start of the period of a kind that an instant is in
  Instants,
  None

VARIABLES
  clock,    \* the time
  log,      \* log[p]: the instants at which product p was sampled reserved
  spec,     \* the period and the limits of the GpuBudget
  asked,    \* the time the reconcile has read, None when there is none
  verdict   \* what it has come to, "none" before the judgement

vars == <<clock, log, spec, asked, verdict>>

Init ==
  /\ log = [p \in Products |-> {}]
  /\ asked = None
  /\ verdict = "none"

Time ==
  /\ clock' > clock
  /\ \A p \in Products : log[p] \subseteq log'[p] /\ log'[p] \subseteq log[p] \union {clock'}
  /\ UNCHANGED <<spec, asked, verdict>>

Ask ==
  /\ asked = None
  /\ asked' = clock
  /\ UNCHANGED <<clock, log, spec, verdict>>

\* The samples on record since an instant, of what has a gpuType.
Since(i) ==
  {s \in Products \X Instants : TypeOf[s[1]] # NoType /\ s[2] \in log[s[1]] /\ i <= s[2]}

Start == StartOf(spec.period, asked)

Count(charged) ==
  [t \in {TypeOf[s[1]] : s \in charged} |-> Cardinality({s \in charged : TypeOf[s[1]] = t})]

\* A sample stands for five minutes.  The limits are exceeded by more than
\* they say, in hundredths of an hour and in cents.
VerdictOf(charged) ==
  LET count == Count(charged)
      sum   == SumFunction(count)
      bill  == SumFunction([t \in DOMAIN count |-> count[t] * PriceOf[t]])
  IN  IF \/ spec.hours # None /\ 25 * sum > 3 * spec.hours
         \/ spec.dollars # None /\ bill > 12 * spec.dollars
      THEN "over" ELSE "within"

\* Only what can be charged is judged.
Judge ==
  /\ asked # None /\ verdict = "none"
  /\ LET late == Start + (clock - asked)
     IN  \E missed \in SUBSET (Since(Start) \ Since(late + 1)) :
           LET charged == Since(Start) \ missed
           IN  /\ spec.dollars # None => DOMAIN Count(charged) \subseteq DOMAIN PriceOf
               /\ verdict' = VerdictOf(charged)
  /\ UNCHANGED <<clock, log, spec, asked>>

\* No judgement: Prometheus has no answer, or something in it has no price.
\* Not even the hours are judged then, however far they are over their limit.
GiveUp ==
  /\ asked # None /\ verdict = "none"
  /\ verdict' = "Unknown"
  /\ UNCHANGED <<clock, log, spec, asked>>

Finish ==
  /\ verdict # "none"
  /\ asked' = None
  /\ verdict' = "none"
  /\ UNCHANGED <<clock, log, spec>>

Next == Time \/ Ask \/ Judge \/ GiveUp \/ Finish

Spec == Init /\ [][Next]_vars

==============================================================================
