----------------------------- MODULE Reconciler -----------------------------
(***************************************************************************)
(* GpuBudgetReconciler.Reconcile (controllers/gpubudget-controller.go):    *)
(* the one worker of the controller, which takes one GpuBudget at a time   *)
(* and calls the Enforcer.                                                 *)
(*                                                                         *)
(* A reconcile is a chain of calls to the API server with the owners, the  *)
(* users of the GpuBudget, the caches and the failures in between: read    *)
(* the GpuBudget; under the reset annotation restore and write the object  *)
(* back; query the usage; enforce; read the object again and write its     *)
(* status.  What is carried from one call to the next is "base", the copy  *)
(* whose resourceVersion the next write uses, and "st", the status in      *)
(* memory.  The GpuBudgets all live in the namespace of the Enforcer.      *)
(***************************************************************************)
EXTENDS Enforcer, FiniteSets

CONSTANTS
  Budgets,   \* the GpuBudgets of the namespace
  Limits,    \* bound: the limits a spec may set
  Usages,    \* bound: the usages the query may report
  Steps,     \* retry.DefaultRetry.Steps: tries of persistStatus
  MaxEdits   \* bound: writes of users to GpuBudgets during one reconcile

ASSUME ReconcilerAssumption ==
  /\ Limits \subseteq Int /\ Usages \subseteq Int
  /\ Steps \in Nat \ {0}
  /\ MaxEdits \in Nat
  /\ None \notin Budgets

VARIABLES
  gb,       \* the GpuBudgets, as the API server stores them
  cached,   \* the GpuBudgets, as the informer cache has them
  usage,    \* what the query would report now, in the unit of the limits
  pc,       \* the point Reconcile has reached
  cur,      \* the GpuBudget under reconciliation
  base,     \* the copy of it the next write is based on
  st,       \* gb.Status in memory
  attempt,  \* the try of persistStatus in progress
  edits,    \* writes of users since the reconcile began
  cleared   \* history: this reconcile has removed the reset annotation

budgetVars == <<gb, cached>>
local == <<pc, cur, base, st, attempt, edits, cleared>>
vars == <<enforcerVars, budgetVars, usage, local>>

Phases == {"Compliant", "Enforced", "Unknown"}

GpuBudget == [limit: Limits, reset: BOOLEAN,
              enforced: SUBSET Workloads, phase: Phases \union {"none"}]

Status == [enforced: SUBSET Workloads, phase: Phases \union {"none"}]

NoStatus == [enforced |-> {}, phase |-> "none"]

\* computeUsage's totals against the limit: the strict comparison.
Exceeded(b) == usage > b.limit

LaggingBudgets == "lagBudgets" \in Faults

WriteBudget(b, r) ==
  /\ gb' = [gb EXCEPT ![b] = r]
  /\ cached' = IF LaggingBudgets THEN cached ELSE gb'

Idle ==
  /\ pc = "idle" /\ cur = None /\ base = None /\ st = NoStatus
  /\ attempt = 0 /\ edits = 0 /\ cleared = FALSE

Init ==
  /\ EnforcerInit
  /\ gb \in [Budgets -> [limit: Limits, reset: {FALSE}, enforced: {{}}, phase: {"none"}]]
  /\ cached = gb
  /\ usage \in Usages
  /\ Idle

\* Reconcile returns, with or without an error: the queue brings it back.
Finish ==
  /\ pc' = "idle" /\ cur' = None /\ base' = None /\ st' = NoStatus
  /\ attempt' = 0 /\ edits' = 0 /\ cleared' = FALSE

-----------------------------------------------------------------------------
(* Reconcile                                                               *)

\* The Get of the GpuBudget, and the test of its reset annotation.
Start(b) ==
  /\ pc = "idle"
  /\ cur' = b
  /\ base' = cached[b]
  /\ st' = [enforced |-> cached[b].enforced, phase |-> cached[b].phase]
  /\ \/ /\ cached[b].reset
        /\ pc' = "restore"
        /\ BeginRestore(cached[b].enforced)
     \/ /\ ~cached[b].reset
        /\ pc' = "query"
        /\ UNCHANGED enforcerVars
  /\ UNCHANGED <<budgetVars, usage, attempt, edits, cleared>>

\* handleManualReset returns the joined error before it touches the object.
ResetRefused ==
  /\ pc = "restore"
  /\ RestoreReturns /\ errs # {}
  /\ Finish
  /\ UNCHANGED <<budgetVars, usage>>

\* Mutant of ResetCleared: the status the Update brought back is kept.
ResetClearedStatusKept ==
  /\ pc = "restore"
  /\ RestoreReturns /\ errs = {}
  /\ gb[cur] = base
  /\ WriteBudget(cur, [base EXCEPT !.reset = FALSE])
  /\ base' = [base EXCEPT !.reset = FALSE]
  /\ pc' = "query"
  /\ cleared' = TRUE
  /\ UNCHANGED <<usage, cur, st, attempt, edits>>

\* Mutant of ResetCleared: the annotation is deleted after the Update.
ResetClearedInMemory ==
  /\ pc = "restore"
  /\ RestoreReturns /\ errs = {}
  /\ gb[cur] = base
  /\ st' = [enforced |-> {}, phase |-> "Compliant"]
  /\ pc' = "query"
  /\ cleared' = TRUE
  /\ UNCHANGED <<budgetVars, usage, cur, base, attempt, edits>>

\* The Update that removes the annotation; then the status in memory is set
\* afresh, over what the response of the Update brought back.
ResetCleared ==
  /\ pc = "restore"
  /\ RestoreReturns /\ errs = {}
  /\ gb[cur] = base
  /\ WriteBudget(cur, [base EXCEPT !.reset = FALSE])
  /\ base' = [base EXCEPT !.reset = FALSE]
  /\ st' = [enforced |-> {}, phase |-> "Compliant"]
  /\ pc' = "query"
  /\ cleared' = TRUE
  /\ UNCHANGED <<usage, cur, attempt, edits>>

ResetNotCleared ==
  /\ pc = "restore"
  /\ RestoreReturns /\ errs = {}
  /\ gb[cur] # base \/ Fault("budgetErr")
  /\ Finish
  /\ UNCHANGED <<budgetVars, usage>>

\* The query, the Prometheus client or the pricing fails.
QueryFails ==
  /\ pc = "query"
  /\ Fault("queryErr")
  /\ pc' = "failed"
  /\ st' = [st EXCEPT !.phase = "Unknown"]
  /\ UNCHANGED <<enforcerVars, budgetVars, usage, cur, base, attempt, edits, cleared>>

\* markFailed writes the status with the copy read at the start, once.
FailureMarked ==
  /\ pc = "failed"
  /\ gb[cur] = base
  /\ WriteBudget(cur, [base EXCEPT !.enforced = st.enforced, !.phase = st.phase])
  /\ Finish
  /\ UNCHANGED <<enforcerVars, usage>>

FailureNotMarked ==
  /\ pc = "failed"
  /\ gb[cur] # base \/ Fault("budgetErr")
  /\ Finish
  /\ UNCHANGED <<enforcerVars, budgetVars, usage>>

\* Mutant of MustEnforce: stickiness keyed off the phase.
MustEnforceByPhase == Exceeded(base) \/ st.phase = "Enforced"

\* The entries, not the phase, say whether something is enforced.
MustEnforce == Exceeded(base) \/ st.enforced # {}

UsageCompliant ==
  /\ pc = "query"
  /\ ~MustEnforce
  /\ st' = [st EXCEPT !.phase = "Compliant"]
  /\ pc' = "get" /\ base' = None /\ attempt' = 1
  /\ UNCHANGED <<enforcerVars, budgetVars, usage, cur, edits, cleared>>

StartEnforcing ==
  /\ pc = "query"
  /\ MustEnforce
  /\ BeginEnforce
  /\ pc' = "enforce" /\ base' = None
  /\ UNCHANGED <<budgetVars, usage, cur, st, attempt, edits, cleared>>

\* Mutant of Merge: what came back along with an error is dropped.
MergeUnlessFailed ==
  /\ pc = "enforce"
  /\ EnforceReturns
  /\ st' = [enforced |-> IF errs = {} THEN st.enforced \union acted ELSE st.enforced,
            phase |-> "Enforced"]
  /\ pc' = "get" /\ attempt' = 1
  /\ UNCHANGED <<budgetVars, usage, cur, base, edits, cleared>>

\* Mutant of Merge: the entries of this pass replace the earlier ones.
MergeReplacing ==
  /\ pc = "enforce"
  /\ EnforceReturns
  /\ st' = [enforced |-> acted, phase |-> "Enforced"]
  /\ pc' = "get" /\ attempt' = 1
  /\ UNCHANGED <<budgetVars, usage, cur, base, edits, cleared>>

\* mergeEnforced takes what came back, with or without an error.
Merge ==
  /\ pc = "enforce"
  /\ EnforceReturns
  /\ st' = [enforced |-> st.enforced \union acted, phase |-> "Enforced"]
  /\ pc' = "get" /\ attempt' = 1
  /\ UNCHANGED <<budgetVars, usage, cur, base, edits, cleared>>

\* persistStatus: the Get of one try ...
PersistGet ==
  /\ pc = "get"
  /\ base' = cached[cur]
  /\ pc' = "put"
  /\ UNCHANGED <<enforcerVars, budgetVars, usage, cur, st, attempt, edits, cleared>>

\* ... and its Status().Update, which replaces the whole status.
PersistPut ==
  /\ pc = "put"
  /\ gb[cur] = base
  /\ WriteBudget(cur, [base EXCEPT !.enforced = st.enforced, !.phase = st.phase])
  /\ Finish
  /\ UNCHANGED <<enforcerVars, usage>>

\* Mutant of PersistAgain: a conflict does not count as a try.
PersistAgainUncounted ==
  /\ pc = "put"
  /\ gb[cur] # base
  /\ attempt < Steps
  /\ pc' = "get" /\ base' = None
  /\ UNCHANGED <<enforcerVars, budgetVars, usage, cur, st, attempt, edits, cleared>>

PersistAgain ==
  /\ pc = "put"
  /\ gb[cur] # base
  /\ attempt < Steps
  /\ attempt' = attempt + 1
  /\ pc' = "get" /\ base' = None
  /\ UNCHANGED <<enforcerVars, budgetVars, usage, cur, st, edits, cleared>>

\* The last try conflicts too, or the error is no conflict.
PersistFails ==
  /\ pc = "put"
  /\ \/ gb[cur] # base /\ attempt >= Steps
     \/ Fault("budgetErr")
  /\ Finish
  /\ UNCHANGED <<enforcerVars, budgetVars, usage>>

\* The process dies, or loses its lease; what was in memory is gone.
Crash ==
  /\ pc # "idle"
  /\ Fault("crash")
  /\ Return
  /\ Finish
  /\ UNCHANGED <<budgetVars, usage>>

-----------------------------------------------------------------------------
(* Users, Prometheus, the cache of GpuBudgets                              *)

\* A user writes to a GpuBudget; what is written is in the caller.
Edit(b, r) ==
  /\ pc = "idle" \/ edits < MaxEdits
  /\ edits' = IF pc = "idle" THEN 0 ELSE edits + 1
  /\ WriteBudget(b, r)
  /\ UNCHANGED <<enforcerVars, usage, pc, cur, base, st, attempt, cleared>>

AskReset(b) == May("reset") /\ ~gb[b].reset /\ Edit(b, [gb[b] EXCEPT !.reset = TRUE])

WithdrawReset(b) == May("withdraw") /\ gb[b].reset /\ Edit(b, [gb[b] EXCEPT !.reset = FALSE])

SetLimit(b) ==
  /\ May("limit")
  /\ \E l \in Limits \ {gb[b].limit} : Edit(b, [gb[b] EXCEPT !.limit = l])

\* Usage grows with time and falls when a period begins.
UsageMoves ==
  /\ May("usage")
  /\ usage' \in Usages \ {usage}
  /\ UNCHANGED <<enforcerVars, budgetVars, local>>

DeliverBudget(b) ==
  /\ cached[b] # gb[b]
  /\ cached' = [cached EXCEPT ![b] = gb[b]]
  /\ UNCHANGED <<enforcerVars, gb, usage, local>>

-----------------------------------------------------------------------------
Outside == UNCHANGED <<budgetVars, usage, local>>

Call == (Enforcing \/ Restoring) /\ Outside

Reconcile ==
  \/ ResetRefused \/ ResetCleared \/ ResetNotCleared
  \/ QueryFails \/ FailureMarked \/ FailureNotMarked
  \/ UsageCompliant \/ StartEnforcing \/ Merge
  \/ PersistGet \/ PersistPut \/ PersistAgain \/ PersistFails

Users ==
  \/ \E b \in Budgets : AskReset(b) \/ WithdrawReset(b) \/ SetLimit(b)
  \/ UsageMoves

Next ==
  \/ \E b \in Budgets : Start(b)
  \/ Call
  \/ Reconcile
  \/ Crash
  \/ Cluster /\ Outside
  \/ Users
  \/ \E b \in Budgets : DeliverBudget(b)

Spec == Init /\ [][Next]_vars

\* The one worker goes on with what it has begun; the queue is first in first
\* out and every return requeues, after an interval or a back-off, so each
\* GpuBudget is taken again and again; the watch is delivered.  Nothing is
\* assumed of users, owners or failures.
FairSpec ==
  /\ Spec
  /\ WF_vars(Call)
  /\ WF_vars(Reconcile)
  /\ \A b \in Budgets : SF_vars(Start(b)) /\ WF_vars(DeliverBudget(b))
  /\ \A w \in Workloads : WF_vars(Deliver(w) /\ Outside)

-----------------------------------------------------------------------------
(* Properties                                                              *)

TypeOK ==
  /\ EnforcerTypeOK
  /\ gb \in [Budgets -> GpuBudget]
  /\ cached \in [Budgets -> GpuBudget]
  /\ usage \in Usages
  /\ pc \in {"idle", "restore", "query", "failed", "enforce", "get", "put"}
  /\ cur \in Budgets \union {None}
  /\ base \in GpuBudget \union {None}
  /\ st \in Status
  /\ attempt \in 0 .. Steps
  /\ edits \in 0 .. MaxEdits
  /\ cleared \in BOOLEAN

\* What status.enforcedResources is for: while no reconcile is running, every
\* object that carries an original of this operator is listed by a GpuBudget,
\* so that a reset can find it.
NoOrphan ==
  pc = "idle"
    => \A w \in Workloads :
         wl[w].saved # None => \E b \in Budgets : w \in gb[b].enforced

\* Enforcement is never lifted automatically: an entry leaves the stored list
\* only in a reconcile that has removed the reset annotation.
StickyEnforcement ==
  [][\A b \in Budgets :
       ~(gb[b].enforced \subseteq gb'[b].enforced) => cur = b /\ cleared]_vars

\* A GpuBudget that lists workloads never reads Compliant, not even after a
\* transient failure has left the phase Unknown.
PhaseTruth ==
  \A b \in Budgets : gb[b].enforced # {} => gb[b].phase # "Compliant"

\* The converse of NoOrphan, for a namespace whose objects are not deleted:
\* what a GpuBudget without a pending reset lists is really held down.
NoPhantom ==
  pc = "idle"
    => \A b \in Budgets : ~gb[b].reset
         => \A w \in gb[b].enforced :
              Reversible(KindOf[w]) /\ wl[w].live => wl[w].saved # None

\* An upper bound on the calls a reconcile still has before it: one for every
\* entry of a reset, then the Update of the GpuBudget and the query; for every
\* kind of a pass a List and an Update of each object; two for every try of
\* persistStatus.
ATurn == Cardinality(Workloads) + 1
APass == ATurn * Cardinality({KindOf[w] : w \in Workloads}) + 1
MaxTries == 2 * Steps

Ahead ==
  CASE pc = "idle"    -> 0
    [] pc = "restore" -> Cardinality(left) + 2 + APass + MaxTries
    [] pc = "query"   -> 1 + APass + MaxTries
    [] pc = "failed"  -> 1
    [] pc = "enforce" -> Cardinality(DOMAIN list) + ATurn * Cardinality(pending) + 1 + MaxTries
    [] pc = "get"     -> MaxTries - 2 * (attempt - 1)
    [] pc = "put"     -> MaxTries - 2 * (attempt - 1) - 1

\* A reconcile comes to its end: each of its steps leaves fewer calls before
\* it, and nothing that failures, conflicts, owners or users do adds one.
CallsRunOut ==
  [][/\ Call \/ Reconcile \/ Crash => Ahead' < Ahead
     /\ Ahead' > Ahead => \E b \in Budgets : Start(b)]_vars

\* Every workload the budget answers for is at zero.
Held == \A w \in Workloads : Eligible(KindOf[w], wl[w]) => wl[w].level = 0

\* A limit that stays exceeded is enforced: every eligible workload comes to
\* a stop and stays there, from whatever state failures and owners left.
OverBudgetStops ==
  \A b \in Budgets : (calm /\ Exceeded(gb[b])) ~> []Held

\* A reset is served: the annotation does not stay for ever.
ResetServed == \A b \in Budgets : (calm /\ gb[b].reset) ~> [](~gb[b].reset)

\* A reset gives back: once the usage is under every limit and every GpuBudget
\* is asked to reset, all that can ever be restored is, whatever failed before
\* and whatever fails for ever; and the lists are empty, unless one of those
\* that cannot be restored keeps the resets open.
GivesBack ==
  (calm /\ \A b \in Budgets : gb[b].reset /\ ~Exceeded(gb[b]))
    ~> [](/\ \A w \in Workloads \ Stuck : wl[w].saved = None
          /\ (\A w \in Stuck : wl[w].saved = None)
               => \A b \in Budgets : gb[b].enforced = {})

-----------------------------------------------------------------------------
(* The contract of the operator: its list is the one on record, or the one *)
(* in the hands of the reconcile in progress.                              *)

Contract == INSTANCE EnforcementContract WITH
  Perishable <- {w \in Workloads : ~Reversible(KindOf[w])},
  there  <- {w \in Workloads : wl[w].live},
  held   <- {w \in Workloads : wl[w].saved # None},
  listed <- [b \in Budgets |-> IF cur = b THEN st.enforced \union acted
                                         ELSE gb[b].enforced],
  asked  <- {b \in Budgets : gb[b].reset \/ (cur = b /\ pc = "restore")}

\* The reconciler keeps the contract of EnforcementContract: what it takes
\* down is recorded with it, nothing is given back that no one asked for, and
\* a reset closes only when all it lists is given back.
ImplementsContract == Contract!Spec

==============================================================================
