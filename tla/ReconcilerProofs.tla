-------------------------- MODULE ReconcilerProofs --------------------------
(***************************************************************************)
(* Theorems about Reconciler, for every set of workloads, kinds, budgets,  *)
(* limits and usages:                                                      *)
(*   - TypeOK and PhaseTruth, whatever fails or lags;                      *)
(*   - it implements EnforcerSpec, and so keeps what EnforcerProofs shows  *)
(*     for any caller: Recoverable, OnlyEligibleUpdated,                   *)
(*     RestoreAttemptsAll;                                                 *)
(*   - ClearedOnlyWhenBack, unless the cache of workloads lags;            *)
(*   - StickyEnforcement, unless the cache of GpuBudgets does;             *)
(*   - NoOrphan, and the same in every state (Contract!Recorded), under    *)
(*     the assumption NoLoss;                                              *)
(*   - OrphanedOnlyInHand, what failures and crashes can orphan at all,    *)
(*     unless a cache lags;                                                *)
(*   - CallsRunOut: every reconcile comes to its end;                      *)
(*   - NoPhantom, under the assumption Undisturbed.                        *)
(***************************************************************************)
EXTENDS Reconciler, EnforcerProofs, FiniteSetTheorems

USE ReconcilerAssumption DEF ReconcilerAssumption

-----------------------------------------------------------------------------
(* The invariants                                                          *)

\* Where Reconcile is, and what it holds in its hands there.
Control ==
  /\ (pc = "restore" <=> call = "restore") /\ (pc = "enforce" <=> call = "enforce")
  /\ pc # "idle" => cur \in Budgets
  /\ pc = "idle" => cur = None
  /\ pc \in {"restore", "query", "failed", "put"} => base \in GpuBudget
  /\ call # "enforce" => acted = {}

TypeInv == TypeOK /\ IInv /\ Control

\* A status that may be stored: no entries under a Compliant phase.
Truthful(s) == s.enforced # {} => s.phase # "Compliant"

PhaseInv ==
  /\ \A b \in Budgets : Truthful(gb[b]) /\ Truthful(cached[b])
  /\ pc \in {"restore", "query", "failed", "put"} => Truthful(base)
  /\ pc \in {"get", "put"} => Truthful(st)
  /\ pc = "failed" => st.phase = "Unknown"

\* Until the annotation is removed, what is stored is in hand.
StickyInv ==
  /\ cached = gb
  /\ cur \in Budgets /\ ~cleared => gb[cur].enforced \subseteq st.enforced

\* Nothing that is written or done is lost: no crash, no failing write of a
\* GpuBudget, fewer edits under a reconcile than persistStatus has tries, and
\* caches that answer with what is stored.
NoLoss ==
  /\ {"crash", "budgetErr", "lagObjects", "lagBudgets"} \intersect Faults = {}
  /\ MaxEdits < Steps

Listed(b) == IF cur = b THEN st.enforced ELSE gb[b].enforced

\* An original is on a live object that can be restored, and its entry is in
\* the running pass, in the status in memory, or stored.
Tracked ==
  \A w \in Workloads : wl[w].saved # None
    => /\ Reversible(KindOf[w]) /\ wl[w].live
       /\ w \in acted \/ \E b \in Budgets : w \in Listed(b)

\* What RestoreNamespace has visited without an error is given back.
Visited ==
  /\ call # "restore" => given = {}
  /\ \A w \in (given \ left) \ errs : wl[w].saved = None

\* Before anything is done the status in memory holds nothing that is not
\* stored, and a restore is given all of it.
InHand ==
  /\ pc \in {"restore", "query", "failed"} => st.enforced \subseteq gb[cur].enforced
  /\ pc = "restore" => given = st.enforced

\* Every conflict of persistStatus is the doing of an edit of its own.
Tries ==
  /\ pc = "get" => attempt <= edits + 1
  /\ pc = "put" => attempt <= IF base = gb[cur] THEN edits + 1 ELSE edits

OrphanInv ==
  /\ cached = gb
  /\ seen = wl
  /\ Tracked /\ Visited /\ InHand /\ Tries

-----------------------------------------------------------------------------
(* What the calls of the Enforcer leave alone                              *)

LEMMA EnforcingFrame ==
  ASSUME Enforcing
  PROVE  call = "enforce" /\ UNCHANGED <<call, given, left>>
BY DEF Enforcing, ListKind, ListFails, NextKind, ActOn, DeletePod, ActFails, Item

LEMMA RestoringFrame ==
  ASSUME Restoring
  PROVE  call = "restore" /\ UNCHANGED <<call, acted, given>>
BY DEF Restoring, SkipEntry, RestoreEntry, RestoreFails, Entry

LEMMA ClusterFrame == ASSUME Cluster PROVE UNCHANGED frame
BY DEF Cluster, Create, Remove, Scale, PodGone, Deliver, Calm

LEMMA EnforcerStepInv ==
  ASSUME IInv,
         \/ BeginEnforce \/ Return \/ Enforcing \/ Restoring \/ Cluster
         \/ \E entries \in SUBSET Workloads : BeginRestore(entries)
         \/ UNCHANGED enforcerVars
  PROVE  IInv'
<1>1. CASE Return
  BY <1>1, ReturnInv
<1>2. CASE UNCHANGED enforcerVars
  BY <1>2, NextInv
<1>3. CASE Cluster
  BY <1>3, ClusterInv
<1>4. CASE Enforcing
  BY <1>4, EnforcingInv
<1>5. CASE Restoring
  BY <1>5, RestoringInv
<1> QED
  BY <1>1, <1>2, <1>3, <1>4, <1>5, BeginInv

-----------------------------------------------------------------------------
(* Types and control                                                       *)

LEMMA IInvType == IInv => EnforcerTypeOK
BY DEF IInv

LEMMA NoStatusType == NoStatus \in Status
BY DEF NoStatus, Status, Phases

LEMMA InitTypeInv == Init => TypeInv
<1> SUFFICES ASSUME Init PROVE TypeInv
  OBVIOUS
<1>1. IInv
  BY InitInv DEF Init
<1>2. gb \in [Budgets -> GpuBudget] /\ cached = gb
  BY DEF Init, GpuBudget
<1>3. Idle /\ NoCall /\ usage \in Usages
  BY DEF Init, EnforcerInit
<1>4. TypeOK
  <2>1. EnforcerTypeOK
    BY <1>1, IInvType
  <2>2. st \in Status
    BY <1>3, NoStatusType DEF Idle
  <2>3. attempt \in 0 .. Steps /\ edits \in 0 .. MaxEdits
    BY <1>3 DEF Idle
  <2>4. pc = "idle" /\ cur = None /\ base = None /\ cleared \in BOOLEAN
    BY <1>3, Zenon DEF Idle
  <2> QED
    BY <1>2, <1>3, <2>1, <2>2, <2>3, <2>4 DEF TypeOK
<1>5. Control
  BY <1>3 DEF Control, Idle, NoCall
<1> QED
  BY <1>1, <1>4, <1>5 DEF TypeInv

LEMMA WriteBudgetType ==
  ASSUME TypeOK, NEW b \in Budgets, NEW r \in GpuBudget, WriteBudget(b, r)
  PROVE  /\ gb' \in [Budgets -> GpuBudget]
         /\ cached' \in [Budgets -> GpuBudget]
         /\ gb'[b] = r
         /\ \A c \in Budgets \ {b} : gb'[c] = gb[c]
         /\ ~LaggingBudgets => cached' = gb'
         /\ \A c \in Budgets : cached'[c] \in {cached[c], gb'[c]}
BY DEF TypeOK, WriteBudget

LEMMA FinishType ==
  ASSUME Finish PROVE /\ pc' = "idle" /\ cur' = None /\ base' = None
                      /\ st' = NoStatus /\ NoStatus \in Status
                      /\ attempt' \in 0 .. Steps /\ edits' \in 0 .. MaxEdits
                      /\ cleared' = FALSE
BY NoStatusType DEF Finish

\* The part of TypeOK and Control that the step of an action still owes when
\* the calls it makes are known to keep IInv.
LEMMA TypeInvStep ==
  ASSUME IInv', Control', gb' \in [Budgets -> GpuBudget],
         cached' \in [Budgets -> GpuBudget], usage' \in Usages,
         pc' \in {"idle", "restore", "query", "failed", "enforce", "get", "put"},
         cur' \in Budgets \union {None}, base' \in GpuBudget \union {None},
         st' \in Status, attempt' \in 0 .. Steps, edits' \in 0 .. MaxEdits,
         cleared' \in BOOLEAN
  PROVE  TypeInv'
<1>1. EnforcerTypeOK'
  BY DEF IInv
<1> QED
  BY <1>1 DEF TypeInv, TypeOK

LEMMA StartType == ASSUME TypeInv, NEW b \in Budgets, Start(b) PROVE TypeInv'
<1>1. cached[b] \in GpuBudget /\ cached[b].enforced \in SUBSET Workloads
  BY DEF TypeInv, TypeOK, GpuBudget
<1>2. st' \in Status
  BY <1>1 DEF Start, GpuBudget, Status
<1>3. IInv'
  <2>1. BeginRestore(cached[b].enforced) \/ UNCHANGED enforcerVars
    BY DEF Start
  <2> QED
    BY <1>1, <2>1, EnforcerStepInv DEF TypeInv
<1>4. Control'
  BY <1>1 DEF TypeInv, Control, Start, BeginRestore, enforcerVars, frame
<1> QED
  BY <1>1, <1>2, <1>3, <1>4, TypeInvStep
     DEF TypeInv, TypeOK, Start, budgetVars

\* The returns that give up: the next reconcile begins from what is stored.
GivingUp ==
  ResetRefused \/ ResetNotCleared \/ FailureNotMarked \/ PersistFails \/ Crash

LEMMA GivingUpType == ASSUME TypeInv, GivingUp PROVE TypeInv'
<1>1. Finish /\ UNCHANGED <<budgetVars, usage>>
  BY DEF GivingUp, ResetRefused, ResetNotCleared, FailureNotMarked,
         PersistFails, Crash
<1>2. Return \/ (UNCHANGED enforcerVars /\ pc \in {"failed", "put"})
  BY DEF GivingUp, ResetRefused, ResetNotCleared, FailureNotMarked,
         PersistFails, Crash, RestoreReturns
<1>3. IInv'
  BY <1>2, EnforcerStepInv DEF TypeInv
<1>4. Control'
  BY <1>1, <1>2, FinishType DEF TypeInv, Control, Return, enforcerVars, frame
<1> QED
  BY <1>1, <1>3, <1>4, FinishType, TypeInvStep DEF TypeInv, TypeOK, budgetVars

LEMMA ReconcileType == ASSUME TypeInv, Reconcile PROVE TypeInv'
<1> USE DEF TypeInv, TypeOK
<1>1. CASE ResetRefused \/ ResetNotCleared \/ FailureNotMarked \/ PersistFails
  BY <1>1, GivingUpType DEF GivingUp
<1>2. CASE ResetCleared
  <2> DEFINE r == [base EXCEPT !.reset = FALSE]
  <2>1. cur \in Budgets /\ base \in GpuBudget
    BY <1>2 DEF ResetCleared, Control
  <2>2. r \in GpuBudget
    BY <2>1 DEF GpuBudget
  <2>3. gb' \in [Budgets -> GpuBudget] /\ cached' \in [Budgets -> GpuBudget]
    BY <1>2, <2>1, <2>2, WriteBudgetType DEF ResetCleared
  <2>4. Return
    BY <1>2 DEF ResetCleared, RestoreReturns
  <2>5. IInv'
    BY <2>4, EnforcerStepInv
  <2>6. Control' /\ st' \in Status
    BY <1>2, <2>1, <2>2, <2>4 DEF ResetCleared, Return, Control, Status, Phases
  <2> QED
    BY <1>2, <2>1, <2>2, <2>3, <2>5, <2>6, TypeInvStep DEF ResetCleared
<1>3. CASE FailureMarked \/ PersistPut
  <2> DEFINE r == [base EXCEPT !.enforced = st.enforced, !.phase = st.phase]
  <2>1. cur \in Budgets /\ base \in GpuBudget
    BY <1>3 DEF FailureMarked, PersistPut, Control
  <2>2. r \in GpuBudget
    BY <2>1 DEF GpuBudget, Status
  <2>3. gb' \in [Budgets -> GpuBudget] /\ cached' \in [Budgets -> GpuBudget]
    BY <1>3, <2>1, <2>2, WriteBudgetType DEF FailureMarked, PersistPut
  <2>4. IInv'
    BY <1>3, EnforcerStepInv DEF FailureMarked, PersistPut
  <2>5. Control'
    BY <1>3, FinishType DEF FailureMarked, PersistPut, Control, enforcerVars, frame
  <2> QED
    BY <1>3, <2>3, <2>4, <2>5, FinishType, TypeInvStep DEF FailureMarked, PersistPut
<1>4. CASE QueryFails
  <2>1. st' \in Status
    BY <1>4 DEF QueryFails, Status, Phases
  <2>2. IInv' /\ Control'
    BY <1>4, EnforcerStepInv DEF QueryFails, Control, enforcerVars, frame
  <2> QED
    BY <1>4, <2>1, <2>2, TypeInvStep DEF QueryFails, budgetVars
<1>5. CASE UsageCompliant
  <2>1. st' \in Status
    BY <1>5 DEF UsageCompliant, Status, Phases
  <2>2. IInv' /\ Control'
    BY <1>5, EnforcerStepInv DEF UsageCompliant, Control, enforcerVars, frame
  <2> QED
    BY <1>5, <2>1, <2>2, TypeInvStep DEF UsageCompliant, budgetVars
<1>6. CASE StartEnforcing
  <2>1. IInv' /\ Control'
    BY <1>6, EnforcerStepInv DEF StartEnforcing, BeginEnforce, Control
  <2> QED
    BY <1>6, <2>1, TypeInvStep DEF StartEnforcing, budgetVars
<1>7. CASE Merge
  <2>1. acted \subseteq Workloads
    BY DEF EnforcerTypeOK
  <2>2. st' \in Status
    BY <1>7, <2>1 DEF Merge, Status, Phases
  <2>3. IInv' /\ Control'
    BY <1>7, EnforcerStepInv DEF Merge, EnforceReturns, Return, Control
  <2> QED
    BY <1>7, <2>2, <2>3, TypeInvStep DEF Merge, budgetVars
<1>8. CASE PersistGet
  <2>1. cached[cur] \in GpuBudget
    BY <1>8 DEF PersistGet, Control
  <2>2. IInv' /\ Control'
    BY <1>8, <2>1, EnforcerStepInv DEF PersistGet, Control, enforcerVars, frame
  <2> QED
    BY <1>8, <2>1, <2>2, TypeInvStep DEF PersistGet, budgetVars
<1>9. CASE PersistAgain
  <2>1. IInv' /\ Control'
    BY <1>9, EnforcerStepInv DEF PersistAgain, Control, enforcerVars, frame
  <2> QED
    BY <1>9, <2>1, TypeInvStep DEF PersistAgain, budgetVars
<1> QED
  BY <1>1, <1>2, <1>3, <1>4, <1>5, <1>6, <1>7, <1>8, <1>9 DEF Reconcile

\* A write of a user keeps what the operator has stored.
LEMMA EditEffect ==
  ASSUME TypeOK, NEW b \in Budgets, AskReset(b) \/ WithdrawReset(b) \/ SetLimit(b)
  PROVE  /\ \E r \in GpuBudget :
              Edit(b, r) /\ r.enforced = gb[b].enforced /\ r.phase = gb[b].phase
         /\ gb' \in [Budgets -> GpuBudget]
         /\ cached' \in [Budgets -> GpuBudget]
         /\ \A c \in Budgets : /\ gb'[c].enforced = gb[c].enforced
                               /\ gb'[c].phase = gb[c].phase
         /\ edits' \in 0 .. MaxEdits
         /\ UNCHANGED <<enforcerVars, usage, pc, cur, base, st, attempt, cleared>>
<1>1. gb[b] \in GpuBudget
  BY DEF TypeOK
<1>2. PICK r \in GpuBudget :
        Edit(b, r) /\ r.enforced = gb[b].enforced /\ r.phase = gb[b].phase
  <2>1. ASSUME NEW x \in BOOLEAN, Edit(b, [gb[b] EXCEPT !.reset = x])
        PROVE  \E r \in GpuBudget :
                 Edit(b, r) /\ r.enforced = gb[b].enforced /\ r.phase = gb[b].phase
    <3> DEFINE r == [gb[b] EXCEPT !.reset = x]
    <3>1. r \in GpuBudget /\ r.enforced = gb[b].enforced /\ r.phase = gb[b].phase
      BY <1>1 DEF GpuBudget
    <3> QED
      BY <2>1, <3>1
  <2>2. ASSUME NEW l \in Limits, Edit(b, [gb[b] EXCEPT !.limit = l])
        PROVE  \E r \in GpuBudget :
                 Edit(b, r) /\ r.enforced = gb[b].enforced /\ r.phase = gb[b].phase
    <3> DEFINE r == [gb[b] EXCEPT !.limit = l]
    <3>1. r \in GpuBudget /\ r.enforced = gb[b].enforced /\ r.phase = gb[b].phase
      BY <1>1 DEF GpuBudget
    <3> QED
      BY <2>2, <3>1
  <2> QED
    BY <2>1, <2>2 DEF AskReset, WithdrawReset, SetLimit
<1>3. WriteBudget(b, r)
  BY <1>2 DEF Edit
<1>4. /\ gb' \in [Budgets -> GpuBudget]
      /\ cached' \in [Budgets -> GpuBudget]
      /\ gb'[b] = r
      /\ \A c \in Budgets \ {b} : gb'[c] = gb[c]
  BY <1>3, WriteBudgetType
<1>5. edits' \in 0 .. MaxEdits
  BY <1>2 DEF Edit, TypeOK
<1> QED
  BY <1>2, <1>4, <1>5 DEF Edit

LEMMA UsersType == ASSUME TypeInv, Users PROVE TypeInv'
<1>1. ASSUME NEW b \in Budgets, AskReset(b) \/ WithdrawReset(b) \/ SetLimit(b)
      PROVE  TypeInv'
  <2>1. TypeOK
    BY DEF TypeInv
  <2>2. /\ gb' \in [Budgets -> GpuBudget]
        /\ cached' \in [Budgets -> GpuBudget]
        /\ edits' \in 0 .. MaxEdits
        /\ UNCHANGED <<enforcerVars, usage, pc, cur, base, st, attempt, cleared>>
    BY <1>1, <2>1, EditEffect
  <2>3. IInv' /\ Control'
    BY <2>2, EnforcerStepInv DEF TypeInv, Control, enforcerVars, frame
  <2> QED
    BY <2>2, <2>3, TypeInvStep DEF TypeInv, TypeOK
<1>2. CASE UsageMoves
  <2>1. IInv' /\ Control'
    BY <1>2, EnforcerStepInv DEF UsageMoves, TypeInv, Control, enforcerVars, frame, local
  <2> QED
    BY <1>2, <2>1, TypeInvStep DEF UsageMoves, TypeInv, TypeOK, budgetVars, local
<1> QED
  BY <1>1, <1>2 DEF Users

LEMMA NextTypeInv == TypeInv /\ [Next]_vars => TypeInv'
<1> SUFFICES ASSUME TypeInv, [Next]_vars PROVE TypeInv'
  OBVIOUS
<1>1. CASE \E b \in Budgets : Start(b)
  BY <1>1, StartType
<1>2. CASE Call
  <2>1. IInv'
    BY <1>2, EnforcerStepInv DEF Call, TypeInv
  <2>2. Control'
    BY <1>2, EnforcingFrame, RestoringFrame DEF Call, TypeInv, Control, Outside, local
  <2> QED
    BY <1>2, <2>1, <2>2, TypeInvStep
       DEF Call, TypeInv, TypeOK, Outside, budgetVars, local
<1>3. CASE Reconcile
  BY <1>3, ReconcileType
<1>4. CASE Crash
  BY <1>4, GivingUpType DEF GivingUp
<1>5. CASE Cluster /\ Outside
  <2>1. IInv'
    BY <1>5, EnforcerStepInv DEF TypeInv
  <2>2. Control'
    BY <1>5, ClusterFrame DEF TypeInv, Control, Outside, local, frame
  <2> QED
    BY <1>5, <2>1, <2>2, TypeInvStep DEF TypeInv, TypeOK, Outside, budgetVars, local
<1>6. CASE Users
  BY <1>6, UsersType
<1>7. ASSUME NEW b \in Budgets, DeliverBudget(b) PROVE TypeInv'
  <2>1. IInv' /\ Control'
    BY <1>7, EnforcerStepInv DEF DeliverBudget, TypeInv, Control, enforcerVars, frame, local
  <2> QED
    BY <1>7, <2>1, TypeInvStep DEF DeliverBudget, TypeInv, TypeOK, local
<1>8. CASE UNCHANGED vars
  <2>1. IInv' /\ Control'
    BY <1>8, EnforcerStepInv DEF vars, TypeInv, Control, enforcerVars, frame, local
  <2> QED
    BY <1>8, <2>1, TypeInvStep DEF vars, TypeInv, TypeOK, budgetVars, local
<1> QED
  BY <1>1, <1>2, <1>3, <1>4, <1>5, <1>6, <1>7, <1>8 DEF Next

LEMMA SpecTypeInv == Spec => []TypeInv
BY InitTypeInv, NextTypeInv, PTL DEF Spec

\* The variables keep their types, and the reconcile its shape.
THEOREM TypeCorrect == Spec => []TypeOK
<1>1. TypeInv => TypeOK
  BY DEF TypeInv
<1> QED
  BY <1>1, SpecTypeInv, PTL

-----------------------------------------------------------------------------
(* The Enforcer under its caller                                           *)

\* What the reconciler does is, for the objects and the call in progress, a
\* step of the Enforcer: it begins a call, goes on with it, takes what it
\* returns, or dies.
LEMMA EnforcerStep ==
  ASSUME TypeInv, Returned, [Next]_vars
  PROVE  [EnforcerNext]_enforcerVars
<1>1. ASSUME NEW b \in Budgets, Start(b) PROVE EnforcerNext \/ UNCHANGED enforcerVars
  <2>1. cached[b].enforced \in SUBSET Workloads
    BY DEF TypeInv, TypeOK, GpuBudget
  <2> QED
    BY <1>1, <2>1 DEF Start, EnforcerNext
<1>2. CASE Call \/ (Cluster /\ Outside)
  BY <1>2 DEF Call, EnforcerNext
<1>3. CASE Reconcile
  BY <1>3 DEF Reconcile, ResetRefused, ResetCleared, ResetNotCleared, QueryFails, FailureMarked,
     FailureNotMarked, UsageCompliant, StartEnforcing, Merge, PersistGet, PersistPut,
     PersistAgain, PersistFails, EnforcerNext
\* A process that dies between two calls leaves the Enforcer as it is.
<1>4. CASE Crash
  <2>1. CASE call # "none"
    BY <1>4, <2>1 DEF Crash, OperatorDies, EnforcerNext
  <2>2. CASE call = "none"
    BY <1>4, <2>2 DEF Crash, Return, Returned, NoCall, enforcerVars, frame
  <2> QED
    BY <2>1, <2>2
<1>5. CASE \/ Users \/ UNCHANGED vars
           \/ \E b \in Budgets : DeliverBudget(b)
  BY <1>5 DEF Users, AskReset, WithdrawReset, SetLimit, Edit, UsageMoves, DeliverBudget, vars
<1> QED
  BY <1>1, <1>2, <1>3, <1>4, <1>5 DEF Next

\* The reconciler calls the Enforcer as Enforcer supposes: one call at a time,
\* with a list of its workloads, and it dies at worst.  So whatever holds of
\* the two operations for any caller holds of them in the operator.
THEOREM CallsTheEnforcer == Spec => EnforcerSpec
<1>1. Init => EnforcerInit /\ Returned
  BY DEF Init, EnforcerInit, Returned
<1>2. TypeInv /\ Returned /\ [Next]_vars => Returned' /\ [EnforcerNext]_enforcerVars
  BY EnforcerStep, NextReturned
<1> QED
  BY <1>1, <1>2, SpecTypeInv, PTL DEF Spec, EnforcerSpec

\* In the whole operator, with the lists its GpuBudgets store and the crashes
\* that strike between any two of its calls, what it holds down can be given
\* back as the owner last asked.
THEOREM OperatorAlwaysRecoverable == Spec => []Recoverable
BY CallsTheEnforcer, AlwaysRecoverable, PTL

\* No reconcile turns down what does not request GPUs or is somebody else's.
THEOREM OperatorUpdatesOnlyEligible == Spec => OnlyEligibleUpdated
BY CallsTheEnforcer, OnlyEligibleEverUpdated, PTL

\* A restore in the operator tries every entry it was given, whatever fails
\* before, and forgets no error.
THEOREM OperatorAlwaysAttemptsAll == Spec => []RestoreAttemptsAll
BY CallsTheEnforcer, RestoreAlwaysAttemptsAll, PTL

-----------------------------------------------------------------------------
(* The reset annotation                                                    *)

\* The operator takes the reset annotation off only when everything the
\* stored GpuBudget lists has been given back.
ClearedOnlyWhenBack ==
  [][~cleared /\ cleared'
       => \A w \in gb[cur].enforced : wl[w].live => wl[w].saved = None]_vars

\* What a restore works through is what was listed in the copy in hand.
Given == pc = "restore" => given = base.enforced

LEMMA NextGiven == TypeInv /\ Given /\ [Next]_vars => Given'
<1> SUFFICES ASSUME TypeInv, Given, [Next]_vars, pc' = "restore"
             PROVE  given' = base'.enforced
  BY DEF Given
<1>1. CASE \E b \in Budgets : Start(b)
  BY <1>1 DEF Start, BeginRestore
<1>2. CASE Call
  BY <1>2, EnforcingFrame, RestoringFrame DEF Call, Outside, local, Given
<1>3. CASE Cluster /\ Outside
  BY <1>3, ClusterFrame DEF Outside, local, frame, Given
<1>4. CASE Users \/ UNCHANGED vars \/ \E b \in Budgets : DeliverBudget(b)
  BY <1>4 DEF Users, AskReset, WithdrawReset, SetLimit, Edit, UsageMoves, DeliverBudget, vars,
     enforcerVars, frame, local, Given
<1>5. ~Reconcile /\ ~Crash
  BY DEF Reconcile, ResetRefused, ResetCleared, ResetNotCleared, QueryFails, FailureMarked,
     FailureNotMarked, UsageCompliant, StartEnforcing, Merge, PersistGet, PersistPut,
     PersistAgain, PersistFails, Crash, Finish
<1> QED
  BY <1>1, <1>2, <1>3, <1>4, <1>5 DEF Next

LEMMA OnlyResetClears ==
  ASSUME TypeInv, [Next]_vars, ~cleared, cleared'
  PROVE  ResetCleared
<1>1. CASE \E b \in Budgets : Start(b)
  BY <1>1 DEF Start
<1>2. CASE Reconcile \/ Crash
  BY <1>2 DEF Reconcile, ResetRefused, ResetNotCleared, QueryFails, FailureMarked,
     FailureNotMarked, UsageCompliant, StartEnforcing, Merge, PersistGet, PersistPut,
     PersistAgain, PersistFails, Crash, Finish
<1>3. CASE \/ Call \/ (Cluster /\ Outside) \/ Users \/ UNCHANGED vars
           \/ \E b \in Budgets : DeliverBudget(b)
  BY <1>3 DEF Call, Outside, Users, AskReset, WithdrawReset, SetLimit, Edit, UsageMoves,
     DeliverBudget, vars, local
<1> QED
  BY <1>1, <1>2, <1>3 DEF Next

\* Whatever fails, crashes or is edited meanwhile, and also if the GpuBudget
\* was read from a cache that lags, the annotation goes only when nothing it
\* was set for is held any more: no failing restore is taken for a served one.
THEOREM ClearedWhenBack ==
  ASSUME "lagObjects" \notin Faults
  PROVE  Spec => ClearedOnlyWhenBack
<1>1. Init => Given
  BY DEF Init, Idle, Given
<1>2. TypeInv /\ Given /\ RestoreAttemptsAll /\ [Next]_vars
        => [~cleared /\ cleared'
              => \A w \in gb[cur].enforced : wl[w].live => wl[w].saved = None]_vars
  <2> SUFFICES ASSUME TypeInv, Given, RestoreAttemptsAll, [Next]_vars, ~cleared, cleared'
               PROVE  \A w \in gb[cur].enforced : wl[w].live => wl[w].saved = None
    OBVIOUS
  <2>1. ResetCleared
    BY OnlyResetClears
  <2>2. RestoreFinished /\ errs = {} /\ gb[cur].enforced = given
    BY <2>1 DEF ResetCleared, RestoreReturns, Given
  <2> QED
    BY <2>2 DEF RestoreAttemptsAll, Lagging
<1> QED
  BY <1>1, <1>2, NextGiven, SpecTypeInv, OperatorAlwaysAttemptsAll, PTL
     DEF Spec, ClearedOnlyWhenBack

-----------------------------------------------------------------------------
(* PhaseTruth                                                              *)

LEMMA InitPhaseInv == Init => PhaseInv
BY DEF Init, Idle, PhaseInv, Truthful

LEMMA NextPhaseInv == TypeInv /\ PhaseInv /\ [Next]_vars => PhaseInv'
<1> SUFFICES ASSUME TypeInv, PhaseInv, [Next]_vars PROVE PhaseInv'
  OBVIOUS
<1> USE DEF PhaseInv
<1>1. ASSUME UNCHANGED <<budgetVars, pc, base, st>> PROVE PhaseInv'
  BY <1>1 DEF budgetVars
<1>2. ASSUME NEW b \in Budgets, Start(b) PROVE PhaseInv'
  BY <1>2 DEF Start, budgetVars, Truthful
<1>3. ASSUME Finish, UNCHANGED budgetVars PROVE PhaseInv'
  BY <1>3 DEF Finish, budgetVars
<1>4. ASSUME NEW b \in Budgets, NEW r \in GpuBudget, Truthful(r), WriteBudget(b, r)
      PROVE  \A c \in Budgets : Truthful(gb'[c]) /\ Truthful(cached'[c])
  <2>1. TypeOK
    BY DEF TypeInv
  <2> QED
    BY <1>4, <2>1, WriteBudgetType
<1>5. CASE ResetCleared
  <2> DEFINE r == [base EXCEPT !.reset = FALSE]
  <2>1. cur \in Budgets /\ base \in GpuBudget
    BY <1>5 DEF ResetCleared, TypeInv, Control
  <2>2. Truthful(base)
    BY <1>5 DEF ResetCleared
  <2>3. r \in GpuBudget /\ Truthful(r)
    BY <2>1, <2>2 DEF GpuBudget, Truthful
  <2> QED
    BY <1>4, <1>5, <2>1, <2>3 DEF ResetCleared, Truthful
<1>6. CASE FailureMarked \/ PersistPut
  <2> DEFINE r == [base EXCEPT !.enforced = st.enforced, !.phase = st.phase]
  <2>1. cur \in Budgets /\ base \in GpuBudget /\ st \in Status
    BY <1>6 DEF FailureMarked, PersistPut, TypeInv, TypeOK, Control
  <2>2. r \in GpuBudget /\ r.enforced = st.enforced /\ r.phase = st.phase
    BY <2>1 DEF GpuBudget, Status
  <2>3. Truthful(r)
    BY <1>6, <2>2 DEF FailureMarked, PersistPut, Truthful
  <2> QED
    BY <1>4, <1>6, <2>1, <2>2, <2>3 DEF FailureMarked, PersistPut, Finish
<1>7. CASE QueryFails
  <2>1. st \in Status
    BY DEF TypeInv, TypeOK
  <2> QED
    BY <1>7, <2>1 DEF QueryFails, budgetVars, Status
<1>8. CASE UsageCompliant
  <2>1. st \in Status
    BY DEF TypeInv, TypeOK
  <2> QED
    BY <1>8, <2>1 DEF UsageCompliant, MustEnforce, Truthful, budgetVars, Status
<1>9. CASE Merge
  BY <1>9 DEF Merge, Truthful, budgetVars
<1>10. CASE PersistGet
  BY <1>10 DEF PersistGet, TypeInv, Control, budgetVars
<1>11. CASE StartEnforcing \/ PersistAgain
  BY <1>11 DEF StartEnforcing, PersistAgain, budgetVars
<1>12. CASE GivingUp
  BY <1>3, <1>12 DEF GivingUp, ResetRefused, ResetNotCleared, FailureNotMarked,
                     PersistFails, Crash, budgetVars
<1>13. CASE Users
  <2>1. ASSUME NEW b \in Budgets, AskReset(b) \/ WithdrawReset(b) \/ SetLimit(b)
        PROVE  PhaseInv'
    <3>1. TypeOK
      BY DEF TypeInv
    <3>2. PICK r \in GpuBudget :
            Edit(b, r) /\ r.enforced = gb[b].enforced /\ r.phase = gb[b].phase
      BY <2>1, <3>1, EditEffect
    <3>3. Truthful(r)
      BY <3>2 DEF Truthful
    <3>4. WriteBudget(b, r) /\ UNCHANGED <<pc, base, st>>
      BY <3>2 DEF Edit
    <3> QED
      BY <1>4, <3>3, <3>4
  <2>2. CASE UsageMoves
    BY <1>1, <2>2 DEF UsageMoves, local
  <2> QED
    BY <1>13, <2>1, <2>2 DEF Users
<1>14. ASSUME NEW b \in Budgets, DeliverBudget(b) PROVE PhaseInv'
  <2>1. \A c \in Budgets : cached'[c] \in {cached[c], gb[c]}
    BY <1>14 DEF DeliverBudget, TypeInv, TypeOK
  <2> QED
    BY <1>14, <2>1 DEF DeliverBudget, local
<1>15. CASE Call \/ (Cluster /\ Outside) \/ UNCHANGED vars
  BY <1>1, <1>15 DEF Call, Outside, vars, local
<1> QED
  BY <1>2, <1>5, <1>6, <1>7, <1>8, <1>9, <1>10, <1>11, <1>12, <1>13, <1>14, <1>15
     DEF Next, Reconcile, GivingUp

\* A GpuBudget that lists workloads never reads Compliant: whatever fails,
\* dies or lags, and whatever users write.
THEOREM PhaseAlwaysTrue == Spec => []PhaseTruth
<1>1. PhaseInv => PhaseTruth
  BY DEF PhaseInv, Truthful, PhaseTruth
<1>2. Spec => []PhaseInv
  BY InitPhaseInv, NextPhaseInv, SpecTypeInv, PTL DEF Spec
<1> QED
  BY <1>1, <1>2, PTL

-----------------------------------------------------------------------------
(* StickyEnforcement                                                       *)

LEMMA InitStickyInv == Init => StickyInv
BY DEF Init, Idle, StickyInv

LEMMA NextStickyInv ==
  ASSUME "lagBudgets" \notin Faults
  PROVE  TypeInv /\ StickyInv /\ [Next]_vars => StickyInv'
<1> SUFFICES ASSUME TypeInv, StickyInv, [Next]_vars PROVE StickyInv'
  OBVIOUS
<1> USE DEF StickyInv
<1>1. ASSUME UNCHANGED <<budgetVars, cur, st, cleared>> PROVE StickyInv'
  BY <1>1 DEF budgetVars
<1>2. ASSUME Finish, cached' = gb' PROVE StickyInv'
  BY <1>2 DEF Finish
<1>3. ASSUME NEW b \in Budgets, Start(b) PROVE StickyInv'
  BY <1>3 DEF Start, budgetVars
<1>4. ASSUME NEW b, NEW r, WriteBudget(b, r) PROVE cached' = gb'
  BY <1>4 DEF WriteBudget, LaggingBudgets
<1>5. CASE ResetCleared
  BY <1>4, <1>5 DEF ResetCleared
<1>6. CASE FailureMarked \/ PersistPut
  BY <1>2, <1>4, <1>6 DEF FailureMarked, PersistPut
<1>7. CASE QueryFails \/ UsageCompliant \/ Merge
  <2>1. st \in Status
    BY DEF TypeInv, TypeOK
  <2>2. st.enforced \subseteq st'.enforced
    BY <1>7, <2>1 DEF QueryFails, UsageCompliant, Merge, Status
  <2>3. UNCHANGED <<budgetVars, cur, cleared>>
    BY <1>7 DEF QueryFails, UsageCompliant, Merge
  <2> QED
    BY <2>2, <2>3 DEF budgetVars
<1>8. CASE StartEnforcing \/ PersistGet \/ PersistAgain
  BY <1>1, <1>8 DEF StartEnforcing, PersistGet, PersistAgain
<1>9. CASE GivingUp
  BY <1>2, <1>9 DEF GivingUp, ResetRefused, ResetNotCleared, FailureNotMarked,
                    PersistFails, Crash, budgetVars
<1>10. CASE Users
  <2>1. ASSUME NEW b \in Budgets, AskReset(b) \/ WithdrawReset(b) \/ SetLimit(b)
        PROVE  StickyInv'
    <3>1. TypeOK
      BY DEF TypeInv
    <3>2. /\ \A c \in Budgets : gb'[c].enforced = gb[c].enforced
          /\ UNCHANGED <<cur, st, cleared>>
      BY <2>1, <3>1, EditEffect
    <3>3. cached' = gb'
      BY <1>4, <2>1 DEF AskReset, WithdrawReset, SetLimit, Edit
    <3> QED
      BY <3>2, <3>3
  <2>2. CASE UsageMoves
    BY <1>1, <2>2 DEF UsageMoves, local
  <2> QED
    BY <1>10, <2>1, <2>2 DEF Users
<1>11. ASSUME NEW b \in Budgets, DeliverBudget(b) PROVE StickyInv'
  BY <1>11 DEF DeliverBudget
<1>12. CASE Call \/ (Cluster /\ Outside) \/ UNCHANGED vars
  BY <1>1, <1>12 DEF Call, Outside, vars, local
<1> QED
  BY <1>3, <1>5, <1>6, <1>7, <1>8, <1>9, <1>10, <1>11, <1>12
     DEF Next, Reconcile, GivingUp

\* One step of the reconciler takes an entry off a stored list only where
\* the annotation has been removed before.
LEMMA StickyStep ==
  ASSUME TypeInv, StickyInv, [Next]_vars, NEW b \in Budgets,
         ~(gb[b].enforced \subseteq gb'[b].enforced)
  PROVE  cur = b /\ cleared
<1> SUFFICES ASSUME ~(cur = b /\ cleared)
             PROVE  gb[b].enforced \subseteq gb'[b].enforced
  OBVIOUS
<1>1. TypeOK
  BY DEF TypeInv
<1>2. CASE ResetCleared
  <2> DEFINE r == [base EXCEPT !.reset = FALSE]
  <2>1. /\ cur \in Budgets /\ base \in GpuBudget
        /\ gb[cur] = base /\ WriteBudget(cur, r)
    BY <1>2 DEF ResetCleared, TypeInv, Control
  <2>2. r \in GpuBudget /\ r.enforced = base.enforced
    BY <2>1 DEF GpuBudget
  <2> QED
    BY <1>1, <2>1, <2>2, WriteBudgetType
<1>3. CASE FailureMarked \/ PersistPut
  <2> DEFINE r == [base EXCEPT !.enforced = st.enforced, !.phase = st.phase]
  <2>1. /\ cur \in Budgets /\ base \in GpuBudget /\ st \in Status
        /\ WriteBudget(cur, r)
    BY <1>1, <1>3 DEF FailureMarked, PersistPut, TypeInv, TypeOK, Control
  <2>2. r \in GpuBudget /\ r.enforced = st.enforced
    BY <2>1 DEF GpuBudget, Status
  <2>3. CASE cur = b
    BY <1>1, <2>1, <2>2, <2>3, WriteBudgetType DEF StickyInv
  <2>4. CASE cur # b
    BY <1>1, <2>1, <2>2, <2>4, WriteBudgetType
  <2> QED
    BY <2>3, <2>4
<1>4. CASE Users
  <2>1. CASE UsageMoves
    BY <2>1 DEF UsageMoves, budgetVars
  <2>2. ASSUME NEW c \in Budgets, AskReset(c) \/ WithdrawReset(c) \/ SetLimit(c)
        PROVE  gb'[b].enforced = gb[b].enforced
    BY <1>1, <2>2, EditEffect
  <2> QED
    BY <1>4, <2>1, <2>2 DEF Users
<1>5. CASE ~(ResetCleared \/ FailureMarked \/ PersistPut \/ Users)
  <2>1. gb' = gb
    BY <1>5 DEF Next, Reconcile, Start, Call, Outside, Crash, DeliverBudget, vars,
                budgetVars, ResetRefused, ResetNotCleared, QueryFails,
                FailureNotMarked, UsageCompliant, StartEnforcing, Merge,
                PersistGet, PersistAgain, PersistFails
  <2> QED
    BY <2>1
<1> QED
  BY <1>2, <1>3, <1>4, <1>5

\* Enforcement is never lifted automatically, provided a reconcile starts
\* from the GpuBudget that is stored: not by a crash, not by a failing call,
\* not by a lagging cache of workloads, not by what users write.
THEOREM EnforcementIsSticky ==
  ASSUME "lagBudgets" \notin Faults
  PROVE  Spec => StickyEnforcement
<1>1. TypeInv /\ StickyInv /\ [Next]_vars => StickyInv'
  BY NextStickyInv
<1>2. TypeInv /\ StickyInv /\ [Next]_vars
        => [\A b \in Budgets :
              ~(gb[b].enforced \subseteq gb'[b].enforced) => cur = b /\ cleared]_vars
  BY StickyStep
<1> QED
  BY <1>1, <1>2, InitStickyInv, SpecTypeInv, PTL DEF Spec, StickyEnforcement

-----------------------------------------------------------------------------
(* NoOrphan                                                                *)

\* A created object carries no original.
LEMMA FreshUnsaved ==
  ASSUME NEW k \in Kinds, NEW o \in FreshObjects(k)
  PROVE  o.saved = None
<1>1. CASE o = Absent
  BY <1>1 DEF Absent
<1>2. ASSUME NEW s \in Shapes, NEW n \in Initials(k), o = Created(s, n)
      PROVE  o.saved = None
  BY <1>2 DEF Created
<1> QED
  BY <1>1, <1>2 DEF FreshObjects

LEMMA InitOrphanInv == Init => OrphanInv
<1> SUFFICES ASSUME Init PROVE OrphanInv
  OBVIOUS
<1>1. \A w \in Workloads : wl[w] \in FreshObjects(KindOf[w])
  BY DEF Init, EnforcerInit
<1>2. \A w \in Workloads : wl[w].saved = None
  BY <1>1, FreshUnsaved, WorkloadsAssumption
<1>3. cached = gb /\ seen = wl /\ given = {} /\ pc = "idle"
  BY DEF Init, EnforcerInit, NoCall, Idle
<1> QED
  BY <1>2, <1>3 DEF OrphanInv, Tracked, Visited, InHand, Tries

\* A step that leaves every original where it is, or takes it off, and keeps
\* its object alive and listed.
LEMMA TrackedKept ==
  ASSUME Tracked,
         \A w \in Workloads : wl'[w].saved # None
           => /\ wl[w].saved # None
              /\ wl'[w].live = wl[w].live
              /\ w \in acted => w \in acted' \/ \E b \in Budgets : w \in Listed(b)'
              /\ \A b \in Budgets : w \in Listed(b)
                   => w \in acted' \/ \E c \in Budgets : w \in Listed(c)'
  PROVE  Tracked'
BY DEF Tracked

LEMMA ListedKept ==
  ASSUME UNCHANGED <<cur, st>>, \A b \in Budgets : gb'[b].enforced = gb[b].enforced
  PROVE  \A b \in Budgets : Listed(b)' = Listed(b)
BY DEF Listed

\* The steps of the Enforcer and of the owners: nothing of the reconcile moves.
LEMMA InHandOutside ==
  ASSUME InHand, Tries, Outside, given' = given PROVE InHand' /\ Tries'
BY DEF InHand, Tries, Outside, budgetVars, local

LEMMA EnforcingOrphanInv ==
  ASSUME NoLoss, TypeInv, OrphanInv, Enforcing, Outside
  PROVE  OrphanInv'
<1> USE DEF OrphanInv
<1>1. call = "enforce" /\ UNCHANGED <<call, given, left>>
  BY EnforcingFrame
<1>2. given = {}
  BY <1>1 DEF Visited
<1>3. Visited' /\ InHand' /\ Tries' /\ cached' = gb'
  BY <1>1, <1>2, InHandOutside DEF Visited, Outside, budgetVars
<1>4. \A b \in Budgets : Listed(b)' = Listed(b)
  BY ListedKept DEF Outside, budgetVars, local
<1>5. EnforcerTypeOK /\ ListedActionable
  BY DEF TypeInv, IInv
<1>6. ASSUME UNCHANGED <<wl, seen>>, acted \subseteq acted' PROVE OrphanInv'
  BY <1>3, <1>4, <1>6, TrackedKept
<1>7. ASSUME NEW w \in Workloads, ActOn(w) PROVE OrphanInv'
  <2>1. /\ w \in DOMAIN list /\ wl[w] = list[w] /\ Reversible(KindOf[w])
        /\ Write(w, Stopped(KindOf[w], wl[w]))
        /\ acted' = IF Reported(KindOf[w], wl[w]) THEN acted \union {w} ELSE acted
    BY <1>7 DEF ActOn, Item
  <2>2. wl[w].live /\ wl[w] \in Object
    BY <1>5, <2>1 DEF ListedActionable, NeedsAction, Eligible, EnforcerTypeOK
  <2>3. Stopped(KindOf[w], wl[w]) \in Object /\ Stopped(KindOf[w], wl[w]).live
    BY <2>2, StoppedType DEF Stopped, Object
  <2>4. wl'[w].live /\ \A v \in Workloads \ {w} : wl'[v] = wl[v]
    BY <1>5, <2>1, <2>3, WriteEffect
  <2>5. w \in acted' \/ \E b \in Budgets : w \in Listed(b)'
    <3>1. CASE Reported(KindOf[w], wl[w])
      BY <2>1, <3>1
    <3>2. CASE ~Reported(KindOf[w], wl[w])
      <4>1. wl[w].saved # None
        BY <3>2 DEF Reported
      <4> QED
        BY <1>4, <2>1, <4>1 DEF Tracked
    <3> QED
      BY <3>1, <3>2
  <2>6. acted \subseteq acted'
    BY <2>1
  <2>7. Tracked'
    BY <1>4, <2>1, <2>4, <2>5, <2>6 DEF Tracked
  <2>8. seen' = wl'
    BY <2>1 DEF Write, NoLoss, Lagging
  <2> QED
    BY <1>3, <2>7, <2>8
<1>8. ASSUME NEW w \in Workloads, DeletePod(w) PROVE OrphanInv'
  <2>1. CASE UNCHANGED <<wl, seen, acted>>
    BY <1>6, <2>1
  <2>2. CASE Write(w, [wl[w] EXCEPT !.level = 0]) /\ acted' = acted \union {w}
    <3> DEFINE o == [wl[w] EXCEPT !.level = 0]
    <3>a. wl[w] \in Object
      BY <1>5 DEF EnforcerTypeOK
    <3>b. 0 \in Levels
      BY WorkloadsAssumption DEF Levels
    <3>1. o \in Object /\ o.saved = wl[w].saved /\ o.live = wl[w].live
      BY <3>a, <3>b DEF Object
    <3>2. wl'[w] = o /\ \A v \in Workloads \ {w} : wl'[v] = wl[v]
      BY <1>5, <2>2, <3>1, WriteEffect
    <3>3. Tracked'
      BY <1>4, <2>2, <3>1, <3>2, TrackedKept
    <3>4. seen' = wl'
      BY <2>2 DEF Write, NoLoss, Lagging
    <3> QED
      BY <1>3, <3>3, <3>4
  <2> QED
    BY <1>8, <2>1, <2>2 DEF DeletePod
<1> QED
  BY <1>6, <1>7, <1>8
     DEF Enforcing, ListKind, ListFails, ActFails, objects

LEMMA RestoringOrphanInv ==
  ASSUME NoLoss, TypeInv, OrphanInv, Restoring, Outside
  PROVE  OrphanInv'
<1> USE DEF OrphanInv
<1>1. call = "restore" /\ UNCHANGED <<call, acted, given>>
  BY RestoringFrame
<1>2. InHand' /\ Tries' /\ cached' = gb'
  BY <1>1, InHandOutside DEF Outside, budgetVars
<1>3. \A b \in Budgets : Listed(b)' = Listed(b)
  BY ListedKept DEF Outside, budgetVars, local
<1>4. EnforcerTypeOK
  BY DEF TypeInv, IInv
<1>5. ASSUME UNCHANGED <<wl, seen>> PROVE Tracked' /\ seen' = wl'
  BY <1>1, <1>3, <1>5, TrackedKept
<1>6. ASSUME NEW w \in Workloads, SkipEntry(w) PROVE OrphanInv'
  <2>1. UNCHANGED <<wl, seen, errs>> /\ left' = left \ {w}
    BY <1>6 DEF SkipEntry, Entry, objects
  <2>2. ~Restorable(KindOf[w], wl[w])
    BY <1>6 DEF SkipEntry, View
  <2>3. wl[w].saved = None
    BY <2>2 DEF Tracked, Restorable
  <2> QED
    BY <1>1, <1>2, <1>5, <2>1, <2>3 DEF Visited
<1>7. ASSUME NEW w \in Workloads, RestoreFails(w) PROVE OrphanInv'
  <2>1. UNCHANGED <<wl, seen>> /\ left' = left \ {w} /\ errs' = errs \union {w}
    BY <1>7 DEF RestoreFails, Entry, objects
  <2> QED
    BY <1>1, <1>2, <1>5, <2>1 DEF Visited
<1>8. ASSUME NEW w \in Workloads, RestoreEntry(w) PROVE OrphanInv'
  <2>1. /\ Write(w, Restored(wl[w])) /\ Restorable(KindOf[w], wl[w])
        /\ left' = left \ {w} /\ errs' = errs
    BY <1>8 DEF RestoreEntry, Entry
  <2>2. wl[w] \in Object
    BY <1>4 DEF EnforcerTypeOK
  <2>3. Restored(wl[w]) \in Object /\ Restored(wl[w]).saved = None
    BY <2>1, <2>2 DEF Restored, Restorable, Object
  <2>4. wl'[w].saved = None /\ \A v \in Workloads \ {w} : wl'[v] = wl[v]
    BY <1>4, <2>1, <2>3, WriteEffect
  <2>5. Tracked'
    BY <1>1, <1>3, <2>4, TrackedKept
  <2>6. seen' = wl'
    BY <2>1 DEF Write, NoLoss, Lagging
  <2>7. given \subseteq Workloads
    BY <1>4 DEF EnforcerTypeOK
  <2>8. Visited'
    BY <1>1, <2>1, <2>4, <2>7 DEF Visited
  <2> QED
    BY <1>2, <2>5, <2>6, <2>8
<1> QED
  BY <1>6, <1>7, <1>8 DEF Restoring

LEMMA ClusterOrphanInv ==
  ASSUME NoLoss, TypeInv, OrphanInv, Cluster, Outside
  PROVE  OrphanInv'
<1> USE DEF OrphanInv
<1>1. UNCHANGED frame
  BY ClusterFrame
<1>2. InHand' /\ Tries' /\ cached' = gb'
  BY <1>1, InHandOutside DEF Outside, budgetVars, frame
<1>3. \A b \in Budgets : Listed(b)' = Listed(b)
  BY ListedKept DEF Outside, budgetVars, local
<1>4. EnforcerTypeOK
  BY DEF TypeInv, IInv
<1>5. ASSUME NEW w \in Workloads, NEW o \in Object, Write(w, o),
             \/ o.saved = None
             \/ o.saved = wl[w].saved /\ o.live = wl[w].live
      PROVE  OrphanInv'
  <2>1. wl'[w] = o /\ \A v \in Workloads \ {w} : wl'[v] = wl[v]
    BY <1>4, <1>5, WriteEffect
  <2>2. Tracked'
    BY <1>1, <1>3, <1>5, <2>1, TrackedKept DEF frame
  <2>3. given \subseteq Workloads
    BY <1>4 DEF EnforcerTypeOK
  <2>4. Visited'
    BY <1>1, <1>5, <2>1, <2>3 DEF Visited, frame
  <2>5. seen' = wl'
    BY <1>5 DEF Write, NoLoss, Lagging
  <2> QED
    BY <1>2, <2>2, <2>4, <2>5
<1>6. Absent \in Object /\ Absent.saved = None
  BY FreshType DEF Absent, FreshObjects
<1>7. ASSUME NEW w \in Workloads, Create(w) PROVE OrphanInv'
  <2>1. PICK s \in Shapes, n \in Initials(KindOf[w]) : Write(w, Created(s, n))
    BY <1>7 DEF Create
  <2>2. Created(s, n) \in FreshObjects(KindOf[w])
    BY SMT DEF FreshObjects
  <2>3. Created(s, n) \in Object /\ Created(s, n).saved = None
    BY <2>2, FreshType DEF Created
  <2> QED
    BY <1>5, <2>1, <2>3
<1>8. ASSUME NEW w \in Workloads, Remove(w) \/ PodGone(w) PROVE OrphanInv'
  BY <1>5, <1>6, <1>8 DEF Remove, PodGone
<1>9. ASSUME NEW w \in Workloads, Scale(w) PROVE OrphanInv'
  <2>1. PICK n \in LevelsOf(KindOf[w]) : Write(w, [wl[w] EXCEPT !.level = n])
    BY <1>9 DEF Scale
  <2> DEFINE o == [wl[w] EXCEPT !.level = n]
  <2>2. o \in Object /\ o.saved = wl[w].saved /\ o.live = wl[w].live
    BY <1>4, LevelsOfType DEF EnforcerTypeOK, Object
  <2> QED
    BY <1>5, <2>1, <2>2
<1>10. ASSUME NEW w \in Workloads, Deliver(w) PROVE OrphanInv'
  BY <1>10 DEF Deliver
<1>11. CASE Calm
  <2>1. UNCHANGED <<wl, seen>>
    BY <1>11 DEF Calm, objects
  <2>2. Tracked'
    BY <1>1, <1>3, <2>1, TrackedKept DEF frame
  <2> QED
    BY <1>1, <1>2, <2>1, <2>2 DEF Visited, frame
<1> QED
  BY <1>7, <1>8, <1>9, <1>10, <1>11 DEF Cluster

LEMMA ReconcileOrphanInv ==
  ASSUME NoLoss, TypeInv, OrphanInv, Reconcile
  PROVE  OrphanInv'
<1> USE DEF OrphanInv
<1>1. TypeOK /\ Control
  BY DEF TypeInv
<1>2. NoStatus.enforced = {}
  BY DEF NoStatus
\* What is in hand is dropped where it holds nothing that is not stored.
<1>3. ASSUME Finish, UNCHANGED budgetVars, UNCHANGED <<wl, seen>>, acted = {},
             given' = {}, st.enforced \subseteq gb[cur].enforced, cur \in Budgets
      PROVE  OrphanInv'
  <2>1. \A b \in Budgets : Listed(b) \subseteq Listed(b)'
    BY <1>3 DEF Listed, Finish, budgetVars
  <2>2. Tracked'
    BY <1>3, <2>1, TrackedKept
  <2> QED
    BY <1>3, <2>2 DEF budgetVars, Visited, InHand, Tries, Finish
<1>4. CASE ResetRefused \/ ResetNotCleared
  BY <1>1, <1>3, <1>4
     DEF ResetRefused, ResetNotCleared, RestoreReturns, Return, objects, Control, InHand
<1>5. CASE ResetCleared
  <2> DEFINE r == [base EXCEPT !.reset = FALSE]
  <2>1. /\ cur \in Budgets /\ base \in GpuBudget
        /\ gb[cur] = base /\ WriteBudget(cur, r)
        /\ acted = {} /\ given = st.enforced /\ cur' = cur
        /\ st' = [enforced |-> {}, phase |-> "Compliant"]
        /\ left = {} /\ errs = {} /\ given' = {}
        /\ UNCHANGED <<wl, seen>> /\ pc' = "query"
    BY <1>1, <1>5 DEF ResetCleared, RestoreReturns, RestoreFinished, Return, objects,
                      Control, InHand
  <2>2. r \in GpuBudget /\ r.enforced = base.enforced
    BY <2>1 DEF GpuBudget
  <2>3. /\ \A b \in Budgets : gb'[b].enforced = gb[b].enforced
        /\ cached' = gb'
    BY <1>1, <2>1, <2>2, WriteBudgetType DEF NoLoss, LaggingBudgets
  <2>4. \A w \in given : wl[w].saved = None
    BY <2>1 DEF Visited
  <2>5. \A b \in Budgets : b # cur => Listed(b)' = Listed(b)
    BY <2>1, <2>3 DEF Listed
  <2>6. Listed(cur) = given
    BY <2>1 DEF Listed
  <2>7. Tracked'
    BY <2>1, <2>4, <2>5, <2>6 DEF Tracked
  <2>8. Visited' /\ InHand' /\ Tries'
    BY <2>1 DEF Visited, InHand, Tries
  <2> QED
    BY <2>1, <2>3, <2>7, <2>8
<1>6. CASE FailureMarked \/ PersistPut
  <2> DEFINE r == [base EXCEPT !.enforced = st.enforced, !.phase = st.phase]
  <2>1. /\ cur \in Budgets /\ base \in GpuBudget /\ st \in Status
        /\ WriteBudget(cur, r) /\ Finish
        /\ UNCHANGED enforcerVars
        /\ call # "restore"
    BY <1>1, <1>6 DEF FailureMarked, PersistPut, TypeOK, Control
  <2>2. r \in GpuBudget /\ r.enforced = st.enforced
    BY <2>1 DEF GpuBudget, Status
  <2>3. /\ gb'[cur].enforced = st.enforced
        /\ \A b \in Budgets \ {cur} : gb'[b] = gb[b]
        /\ cached' = gb'
    BY <1>1, <2>1, <2>2, WriteBudgetType DEF NoLoss, LaggingBudgets
  <2>4. \A b \in Budgets : Listed(b)' = Listed(b)
    BY <2>1, <2>3 DEF Listed, Finish
  <2>5. Tracked'
    BY <2>1, <2>4, TrackedKept DEF enforcerVars, objects, frame
  <2> QED
    BY <2>1, <2>3, <2>5
       DEF Visited, InHand, Tries, Finish, enforcerVars, objects, frame
<1>7. CASE FailureNotMarked
  BY <1>1, <1>3, <1>7 DEF FailureNotMarked, Control, InHand, Visited,
                          enforcerVars, objects, frame
<1>8. CASE PersistFails
  <2>1. attempt <= edits /\ edits \in 0 .. MaxEdits /\ attempt >= Steps
    BY <1>1, <1>8 DEF PersistFails, Tries, TypeOK, NoLoss, Fault
  <2>2. MaxEdits < Steps /\ MaxEdits \in Nat /\ Steps \in Nat
    BY ReconcilerAssumption DEF NoLoss
  <2>3. attempt \in Nat
    BY <1>1, <2>2 DEF TypeOK
  <2> QED
    BY <2>1, <2>2, <2>3
\* The steps that only move on: the budgets and the objects stay.
<1>9. ASSUME UNCHANGED <<budgetVars, objects, cur>>, InHand', Tries', Visited',
             \A w \in acted : w \in acted' \/ (cur \in Budgets /\ w \in st'.enforced),
             st.enforced \subseteq st'.enforced
      PROVE  OrphanInv'
  <2>1. \A b \in Budgets : Listed(b) \subseteq Listed(b)'
    BY <1>9 DEF Listed, budgetVars
  <2>2. \A w \in acted : w \in acted' \/ \E b \in Budgets : w \in Listed(b)'
    BY <1>9 DEF Listed
  <2>3. Tracked'
    BY <1>9, <2>1, <2>2, TrackedKept DEF objects
  <2> QED
    BY <1>9, <2>3 DEF budgetVars, objects
<1>10. CASE QueryFails \/ UsageCompliant
  <2>1. st' = [st EXCEPT !.phase = "Unknown"] \/ st' = [st EXCEPT !.phase = "Compliant"]
    BY <1>10 DEF QueryFails, UsageCompliant
  <2>2. st'.enforced = st.enforced
    BY <1>1, <2>1 DEF TypeOK, Status
  <2>3. edits \in Nat
    BY <1>1 DEF TypeOK
  <2> QED
    BY <1>9, <1>10, <2>2, <2>3
       DEF QueryFails, UsageCompliant, InHand, Tries, Visited, enforcerVars,
           objects, frame, budgetVars
<1>11. CASE StartEnforcing
  BY <1>9, <1>11 DEF StartEnforcing, BeginEnforce, InHand, Tries, Visited
<1>12. CASE Merge
  <2>1. edits \in Nat /\ cur \in Budgets
    BY <1>1, <1>12 DEF TypeOK, Control, Merge
  <2> QED
    BY <1>9, <1>12, <2>1
       DEF Merge, EnforceReturns, Return, InHand, Tries, Visited
<1>13. CASE PersistGet
  <2>1. cur' = cur /\ base' = gb[cur] /\ pc' = "put"
    BY <1>13 DEF PersistGet
  <2> QED
    BY <1>9, <1>13, <2>1
       DEF PersistGet, InHand, Tries, Visited, enforcerVars, objects, frame, budgetVars
<1>14. CASE PersistAgain
  <2>1. edits \in Nat /\ attempt \in Nat
    BY <1>1 DEF TypeOK
  <2> QED
    BY <1>9, <1>14, <2>1
       DEF PersistAgain, InHand, Tries, Visited, enforcerVars, objects, frame, budgetVars
<1> QED
  BY <1>4, <1>5, <1>6, <1>7, <1>8, <1>10, <1>11, <1>12, <1>13, <1>14 DEF Reconcile

LEMMA StartOrphanInv ==
  ASSUME NoLoss, TypeInv, OrphanInv, NEW b \in Budgets, Start(b)
  PROVE  OrphanInv'
<1> USE DEF OrphanInv
<1>1. TypeOK /\ Control
  BY DEF TypeInv
<1>2. /\ pc = "idle" /\ cur = None /\ cur' = b
      /\ st'.enforced = gb[b].enforced
      /\ UNCHANGED <<wl, seen, acted, budgetVars>>
      /\ pc' \in {"restore", "query"}
      /\ cached' = gb'
  BY <1>1 DEF Start, Control, BeginRestore, enforcerVars, objects, frame, budgetVars
<1>3. \A c \in Budgets : Listed(c)' = Listed(c)
  BY <1>2 DEF Listed, budgetVars
<1>4. Tracked'
  BY <1>2, <1>3, TrackedKept
<1>5. Visited'
  BY DEF Visited, Start, BeginRestore, enforcerVars, objects, frame
<1>6. InHand' /\ Tries'
  BY <1>2 DEF InHand, Tries, Start, BeginRestore, budgetVars
<1> QED
  BY <1>2, <1>4, <1>5, <1>6

LEMMA UsersOrphanInv ==
  ASSUME NoLoss, TypeInv, OrphanInv, Users
  PROVE  OrphanInv'
<1> USE DEF OrphanInv
<1>1. CASE UsageMoves
  <2>1. UNCHANGED <<enforcerVars, budgetVars, local>>
    BY <1>1 DEF UsageMoves
  <2> QED
    BY <2>1 DEF enforcerVars, objects, frame, budgetVars, local,
                Tracked, Listed, Visited, InHand, Tries
<1>2. ASSUME NEW b \in Budgets, AskReset(b) \/ WithdrawReset(b) \/ SetLimit(b)
      PROVE  OrphanInv'
  <2>1. TypeOK /\ Control
    BY DEF TypeInv
  <2>2. /\ \A c \in Budgets : gb'[c].enforced = gb[c].enforced
        /\ UNCHANGED <<enforcerVars, pc, cur, base, st, attempt>>
        /\ \E r \in GpuBudget : Edit(b, r)
    BY <1>2, <2>1, EditEffect
  <2>3. cached' = gb' /\ (pc # "idle" => edits' = edits + 1)
    BY <2>2 DEF Edit, WriteBudget, NoLoss, LaggingBudgets
  <2>4. \A c \in Budgets : Listed(c)' = Listed(c)
    BY <2>2, ListedKept
  <2>5. Tracked'
    BY <2>2, <2>4, TrackedKept DEF enforcerVars, objects, frame
  <2>6. Visited' /\ InHand'
    BY <2>1, <2>2 DEF Visited, InHand, Control, enforcerVars, objects, frame
  <2>7. edits \in Nat /\ attempt \in Nat
    BY <2>1 DEF TypeOK
  <2>8. Tries'
    BY <2>2, <2>3, <2>7 DEF Tries
  <2> QED
    BY <2>2, <2>3, <2>5, <2>6, <2>8 DEF enforcerVars, objects
<1> QED
  BY <1>1, <1>2 DEF Users

LEMMA NextOrphanInv ==
  ASSUME NoLoss
  PROVE  TypeInv /\ OrphanInv /\ [Next]_vars => OrphanInv'
<1> SUFFICES ASSUME TypeInv, OrphanInv, [Next]_vars PROVE OrphanInv'
  OBVIOUS
<1>1. CASE \E b \in Budgets : Start(b)
  BY <1>1, StartOrphanInv
<1>2. CASE Call
  BY <1>2, EnforcingOrphanInv, RestoringOrphanInv DEF Call
<1>3. CASE Reconcile
  BY <1>3, ReconcileOrphanInv
<1>4. CASE Crash
  BY <1>4 DEF Crash, Fault, NoLoss
<1>5. CASE Cluster /\ Outside
  BY <1>5, ClusterOrphanInv
<1>6. CASE Users
  BY <1>6, UsersOrphanInv
<1>7. CASE \E b \in Budgets : DeliverBudget(b)
  BY <1>7 DEF DeliverBudget, OrphanInv
<1>8. CASE UNCHANGED vars
  BY <1>8 DEF vars, enforcerVars, objects, frame, budgetVars, local, OrphanInv,
              Tracked, Listed, Visited, InHand, Tries
<1> QED
  BY <1>1, <1>2, <1>3, <1>4, <1>5, <1>6, <1>7, <1>8 DEF Next

\* As long as no write of a GpuBudget is lost and the caches keep up, every
\* object the operator holds down is listed where a reset will find it: for
\* any failing List, Update, Delete, restore or query, with conflicts forced
\* by users, and with several GpuBudgets in the namespace.
THEOREM NothingOrphaned ==
  ASSUME NoLoss
  PROVE  Spec => []NoOrphan
<1>1. TypeInv /\ OrphanInv /\ [Next]_vars => OrphanInv'
  BY NextOrphanInv
<1>2. TypeInv /\ OrphanInv => NoOrphan
  <2> SUFFICES ASSUME TypeInv, OrphanInv, pc = "idle",
                      NEW w \in Workloads, wl[w].saved # None
               PROVE  \E b \in Budgets : w \in gb[b].enforced
    BY DEF NoOrphan
  <2>1. acted = {} /\ cur = None
    BY DEF TypeInv, Control
  <2> QED
    BY <2>1 DEF OrphanInv, Tracked, Listed
<1> QED
  BY <1>1, <1>2, InitOrphanInv, SpecTypeInv, PTL DEF Spec

\* The same in the middle of a reconcile, in every state: what is held down can
\* be given back, and is stored in a GpuBudget, in the status in the hands of
\* the reconcile, or in what the pass in progress will return.  It is the
\* record the contract speaks of.
THEOREM HeldAlwaysOnRecord ==
  ASSUME NoLoss
  PROVE  Spec => []Contract!Recorded
<1>1. TypeInv /\ OrphanInv /\ [Next]_vars => OrphanInv'
  BY NextOrphanInv
<1>2. TypeInv /\ OrphanInv => Contract!Recorded
  <2> SUFFICES ASSUME TypeInv, OrphanInv, NEW w \in Workloads, wl[w].saved # None
               PROVE  /\ wl[w].live /\ Reversible(KindOf[w])
                      /\ \E b \in Budgets :
                           w \in IF cur = b THEN st.enforced \union acted ELSE gb[b].enforced
    BY DEF Contract!Recorded
  <2>1. /\ wl[w].live /\ Reversible(KindOf[w])
        /\ w \in acted \/ \E b \in Budgets : w \in Listed(b)
    BY DEF OrphanInv, Tracked
  <2>2. CASE w \in acted
    <3>1. cur \in Budgets
      BY <2>2 DEF TypeInv, Control
    <3> QED
      BY <2>1, <2>2, <3>1
  <2>3. CASE \E b \in Budgets : w \in Listed(b)
    BY <2>1, <2>3 DEF Listed
  <2> QED
    BY <2>1, <2>2, <2>3
<1> QED
  BY <1>1, <1>2, InitOrphanInv, SpecTypeInv, PTL DEF Spec

-----------------------------------------------------------------------------
(* What can orphan a workload at all                                       *)

Down(w) == wl[w].live /\ wl[w].saved # None

\* What the reconcile in progress has in its hands: the status in memory and
\* what the running pass will return.
Carried == st.enforced \union acted

OnRecord(w) == w \in Carried \/ \E b \in Budgets : w \in gb[b].enforced

Orphans == {w \in Workloads : Down(w) /\ ~OnRecord(w)}

\* Two steps can take the last record of a workload that is held down: the
\* process dies, or persistStatus gives up; and then it is a record that was
\* only in the hands of that reconcile.
OrphanedOnlyInHand ==
  [][\/ Orphans' \subseteq Orphans
     \/ (Crash \/ PersistFails) /\ Orphans' \ Orphans \subseteq Carried]_vars

\* What is held down and stored for the GpuBudget in progress is in hand too;
\* before the query it is the other way round as well.
Carrying ==
  /\ cached = gb
  /\ pc = "idle" => st.enforced = {}
  /\ pc \in {"restore", "query", "failed"} => st.enforced \subseteq gb[cur].enforced
  /\ cur \in Budgets => \A w \in gb[cur].enforced : Down(w) => w \in Carried

\* Only a pass of EnforceNamespace takes down, and it returns an entry for it.
LEMMA NewlyDown ==
  ASSUME IInv, Enforcing \/ Restoring \/ Cluster
  PROVE  /\ acted \subseteq acted'
         /\ \A w \in Workloads : Down(w)' => Down(w) \/ w \in acted'
<1>0. wl \in [Workloads -> Object] /\ ListedActionable
  BY DEF IInv, EnforcerTypeOK
<1>1. CASE Enforcing
  <2>1. acted \subseteq acted'
    BY <1>1 DEF Enforcing, ListKind, ListFails, ActOn, DeletePod, ActFails
  <2>2. ASSUME NEW v \in Workloads, ActOn(v), NEW w \in Workloads, Down(w)'
        PROVE  Down(w) \/ w \in acted'
    <3>1. CASE w # v
      BY <1>0, <2>2, <3>1 DEF ActOn, Write, Down
    <3>2. CASE w = v
      <4>1. /\ wl[v] = list[v] /\ v \in DOMAIN list
            /\ acted' = IF Reported(KindOf[v], list[v]) THEN acted \union {v} ELSE acted
        BY <2>2 DEF ActOn, Item
      <4>2. wl[v].live
        BY <1>0, <4>1 DEF ListedActionable, NeedsAction, Eligible
      <4> QED
        BY <3>2, <4>1, <4>2 DEF Reported, Down
    <3> QED
      BY <3>1, <3>2
  <2>3. ASSUME NEW v \in Workloads, DeletePod(v), NEW w \in Workloads, Down(w)'
        PROVE  Down(w)
    BY <1>0, <2>3 DEF DeletePod, Write, Down, Object
  <2> QED
    BY <1>1, <2>1, <2>2, <2>3 DEF Enforcing, ListKind, ListFails, ActFails, objects, Down
<1>2. CASE Restoring
  <2>1. ASSUME NEW v \in Workloads, RestoreEntry(v), NEW w \in Workloads, Down(w)'
        PROVE  Down(w)
    BY <1>0, <2>1 DEF RestoreEntry, Write, Restored, Object, Down
  <2> QED
    BY <1>2, <2>1, RestoringFrame DEF Restoring, SkipEntry, RestoreFails, objects, Down
<1>3. CASE Cluster
  <2>1. ASSUME NEW v \in Workloads, Create(v) \/ Remove(v) \/ Scale(v) \/ PodGone(v),
               NEW w \in Workloads, Down(w)'
        PROVE  Down(w)
    BY <1>0, <2>1 DEF Create, Created, Remove, Scale, PodGone, Absent, Write, Object, Down
  <2> QED
    BY <1>3, <2>1, ClusterFrame DEF Cluster, Deliver, Calm, objects, frame, Down
<1> QED
  BY <1>1, <1>2, <1>3

\* The steps of the calls and of the cluster.
LEMMA OutsideCarrying ==
  ASSUME TypeInv, Carrying, Outside, Enforcing \/ Restoring \/ Cluster
  PROVE  Carrying' /\ Orphans' \subseteq Orphans
<1>1. UNCHANGED <<gb, cached, pc, cur, st>>
  BY DEF Outside, budgetVars, local
<1>2. acted \subseteq acted' /\ \A w \in Workloads : Down(w)' => Down(w) \/ w \in acted'
  BY NewlyDown DEF TypeInv
<1>3. Carried \subseteq Carried' /\ acted' \subseteq Carried'
  BY <1>1, <1>2 DEF Carried
<1>4. cur \in Budgets => gb[cur].enforced \subseteq Workloads
  BY DEF TypeInv, TypeOK, GpuBudget
<1> QED
  BY <1>1, <1>2, <1>3, <1>4 DEF Carrying, Orphans, OnRecord

\* The steps that leave the objects and the stored lists as they are.
LEMMA StoredCarrying ==
  ASSUME UNCHANGED wl, \A b \in Budgets : gb'[b].enforced = gb[b].enforced
  PROVE  /\ \A w \in Workloads : Down(w)' <=> Down(w)
         /\ Carried \subseteq Carried' \union UNION {gb[b].enforced : b \in Budgets}
              => Orphans' \subseteq Orphans
         /\ Orphans' \ Orphans \subseteq Carried
BY DEF Down, Orphans, OnRecord

\* A reconcile that stores its status stores all that is held of the old one.
LEMMA WriteCarrying ==
  ASSUME "lagBudgets" \notin Faults, TypeInv, Carrying, FailureMarked \/ PersistPut
  PROVE  Carrying' /\ Orphans' \subseteq Orphans
<1> DEFINE r == [base EXCEPT !.enforced = st.enforced, !.phase = st.phase]
<1>1. /\ cur \in Budgets /\ base \in GpuBudget /\ st \in Status
      /\ WriteBudget(cur, r) /\ Finish
      /\ UNCHANGED enforcerVars
      /\ acted = {}
  BY DEF FailureMarked, PersistPut, TypeInv, TypeOK, Control
<1>2. r \in GpuBudget /\ r.enforced = st.enforced
  BY <1>1 DEF GpuBudget, Status
<1>3. /\ gb'[cur].enforced = st.enforced
      /\ \A b \in Budgets \ {cur} : gb'[b] = gb[b]
      /\ cached' = gb'
  BY <1>1, <1>2, WriteBudgetType DEF TypeInv, WriteBudget, LaggingBudgets
<1>4. UNCHANGED wl
  BY <1>1 DEF enforcerVars, objects
<1>5. ASSUME NEW w \in Workloads, Down(w), OnRecord(w)
      PROVE  \E b \in Budgets : w \in gb'[b].enforced
  BY <1>1, <1>3, <1>5 DEF OnRecord, Carrying, Carried
<1>6. Orphans' \subseteq Orphans
  BY <1>4, <1>5 DEF Orphans, OnRecord, Down
<1>7. Carrying'
  BY <1>1, <1>3 DEF Carrying, Finish, NoStatus
<1> QED
  BY <1>6, <1>7

\* Every step of a reconcile but the two.
LEMMA ReconcileCarrying ==
  ASSUME {"lagBudgets", "lagObjects"} \intersect Faults = {},
         TypeInv, Given, RestoreAttemptsAll, Carrying, Reconcile, ~PersistFails
  PROVE  Carrying' /\ Orphans' \subseteq Orphans
<1>1. TypeOK /\ Control
  BY DEF TypeInv
<1>2. ASSUME Finish, UNCHANGED <<budgetVars, wl>>, acted = {}, cur \in Budgets,
             st.enforced \subseteq gb[cur].enforced
      PROVE  Carrying' /\ Orphans' \subseteq Orphans
  <2>1. Orphans' \subseteq Orphans
    BY <1>2, StoredCarrying DEF budgetVars, Carried
  <2>2. Carrying'
    BY <1>2 DEF Carrying, Finish, NoStatus, budgetVars
  <2> QED
    BY <2>1, <2>2
<1>3. CASE ResetRefused \/ ResetNotCleared \/ FailureNotMarked
  BY <1>1, <1>2, <1>3 DEF ResetRefused, ResetNotCleared, FailureNotMarked, RestoreReturns,
     Return, enforcerVars, objects, Control, Carrying
<1>4. CASE ResetCleared
  <2> DEFINE r == [base EXCEPT !.reset = FALSE]
  <2>1. /\ cur \in Budgets /\ base \in GpuBudget /\ gb[cur] = base
        /\ WriteBudget(cur, r) /\ cur' = cur /\ pc' = "query" /\ pc = "restore"
        /\ st'.enforced = {} /\ RestoreFinished /\ errs = {}
        /\ acted = {} /\ acted' = {} /\ UNCHANGED wl
    BY <1>1, <1>4 DEF ResetCleared, RestoreReturns, Return, objects, Control
  <2>2. r \in GpuBudget /\ r.enforced = base.enforced
    BY <2>1 DEF GpuBudget
  <2>3. (\A b \in Budgets : gb'[b].enforced = gb[b].enforced) /\ cached' = gb'
    BY <1>1, <2>1, <2>2, WriteBudgetType DEF WriteBudget, LaggingBudgets
  <2>4. \A w \in gb[cur].enforced : ~Down(w)
    BY <2>1 DEF Given, RestoreAttemptsAll, Lagging, Down
  <2>5. Carrying'
    BY <2>1, <2>3, <2>4 DEF Carrying, Down
  <2>6. st.enforced \subseteq gb[cur].enforced
    BY <2>1 DEF Carrying
  <2> QED
    BY <2>1, <2>3, <2>5, <2>6, StoredCarrying DEF Carried
<1>5. CASE FailureMarked \/ PersistPut
  BY <1>5, WriteCarrying
<1>6. ASSUME UNCHANGED <<budgetVars, wl, cur>>, Carried \subseteq Carried', pc' # "idle",
             pc' = "failed" => pc = "query" /\ st'.enforced = st.enforced,
             pc' \notin {"restore", "query"}
      PROVE  Carrying' /\ Orphans' \subseteq Orphans
  <2>1. Orphans' \subseteq Orphans
    BY <1>6, StoredCarrying DEF budgetVars
  <2>2. Carrying'
    BY <1>6 DEF Carrying, budgetVars, Down
  <2> QED
    BY <2>1, <2>2
<1>7. CASE QueryFails \/ UsageCompliant
  <2>1. st' = [st EXCEPT !.phase = "Unknown"] \/ st' = [st EXCEPT !.phase = "Compliant"]
    BY <1>7 DEF QueryFails, UsageCompliant
  <2>2. st'.enforced = st.enforced
    BY <1>1, <2>1 DEF TypeOK, Status
  <2> QED
    BY <1>6, <1>7, <2>2 DEF QueryFails, UsageCompliant, enforcerVars, objects, frame, Carried
<1>8. CASE StartEnforcing \/ PersistGet \/ PersistAgain
  BY <1>6, <1>8 DEF StartEnforcing, BeginEnforce, PersistGet, PersistAgain, enforcerVars,
     objects, frame, Carried
<1>9. CASE Merge
  BY <1>6, <1>9 DEF Merge, EnforceReturns, Return, objects, Carried
<1> QED
  BY <1>3, <1>4, <1>5, <1>7, <1>8, <1>9 DEF Reconcile

\* The two that lose what is in hand leave what is stored.
LEMMA LossCarrying ==
  ASSUME Carrying, Crash \/ PersistFails
  PROVE  Carrying' /\ Orphans' \ Orphans \subseteq Carried
<1>1. Finish /\ UNCHANGED <<budgetVars, wl>>
  BY DEF Crash, PersistFails, Return, enforcerVars, objects
<1>2. Orphans' \ Orphans \subseteq Carried
  BY <1>1, StoredCarrying DEF budgetVars
<1>3. None \notin Budgets
  BY ReconcilerAssumption
<1>4. Carrying'
  BY <1>1, <1>3 DEF Carrying, Finish, NoStatus, budgetVars
<1> QED
  BY <1>2, <1>4

LEMMA NextCarrying ==
  ASSUME {"lagBudgets", "lagObjects"} \intersect Faults = {},
         TypeInv, Given, RestoreAttemptsAll, Carrying, [Next]_vars
  PROVE  /\ Carrying'
         /\ \/ Orphans' \subseteq Orphans
            \/ (Crash \/ PersistFails) /\ Orphans' \ Orphans \subseteq Carried
<1>1. CASE Crash \/ PersistFails
  BY <1>1, LossCarrying
<1>2. CASE Reconcile /\ ~PersistFails
  BY <1>2, ReconcileCarrying
<1>3. CASE Call \/ (Cluster /\ Outside)
  BY <1>3, OutsideCarrying DEF Call
<1>4. ASSUME NEW b \in Budgets, Start(b)
      PROVE  Carrying' /\ Orphans' \subseteq Orphans
  <2>1. /\ pc = "idle" /\ cur' = b /\ st'.enforced = gb[b].enforced
        /\ pc' # "idle" /\ UNCHANGED <<wl, acted, budgetVars>>
    BY <1>4 DEF Start, BeginRestore, enforcerVars, objects, frame, Carrying
  <2>2. Carried \subseteq Carried'
    BY <2>1 DEF Carried, Carrying
  <2>3. Carrying'
    BY <2>1 DEF Carrying, Carried, budgetVars
  <2> QED
    BY <2>1, <2>2, <2>3, StoredCarrying DEF budgetVars
<1>5. ASSUME NEW b \in Budgets, AskReset(b) \/ WithdrawReset(b) \/ SetLimit(b)
      PROVE  Carrying' /\ Orphans' \subseteq Orphans
  <2>1. /\ \A c \in Budgets : gb'[c].enforced = gb[c].enforced
        /\ UNCHANGED <<enforcerVars, pc, cur, st>>
        /\ \E r : Edit(b, r)
    BY <1>5, EditEffect DEF TypeInv
  <2>2. cached' = gb' /\ UNCHANGED <<wl, acted>>
    BY <2>1 DEF Edit, WriteBudget, LaggingBudgets, enforcerVars, objects, frame
  <2>3. Carried' = Carried
    BY <2>1, <2>2 DEF Carried
  <2>4. pc # "idle" => cur \in Budgets
    BY DEF TypeInv, Control
  <2>5. Carrying'
    BY <2>1, <2>2, <2>3, <2>4 DEF Carrying, Down
  <2> QED
    BY <2>1, <2>2, <2>3, <2>5, StoredCarrying
<1>6. CASE UsageMoves \/ (\E b \in Budgets : DeliverBudget(b)) \/ UNCHANGED vars
  <2>1. UNCHANGED <<wl, acted, gb, pc, cur, st>> /\ cached' = gb'
    BY <1>6 DEF UsageMoves, DeliverBudget, vars, enforcerVars, objects, frame, budgetVars,
       local, Carrying
  <2>2. Carried' = Carried
    BY <2>1 DEF Carried
  <2> QED
    BY <2>1, <2>2, StoredCarrying DEF Carrying, Down
<1> QED
  BY <1>1, <1>2, <1>3, <1>4, <1>5, <1>6 DEF Next, Users

\* While the caches keep up, nothing else orphans a workload, whatever fails
\* and however often: not a failing List, Update, Delete or restore, not a
\* query without an answer, not a refused reset or a failing write after one,
\* not a conflict, not another GpuBudget of the namespace, not the owners.
THEOREM OrphansComeFromTheHand ==
  ASSUME {"lagBudgets", "lagObjects"} \intersect Faults = {}
  PROVE  Spec => OrphanedOnlyInHand
<1>1. Init => Given /\ Carrying
  BY DEF Init, Idle, NoStatus, Given, Carrying
<1>2. TypeInv /\ Given /\ RestoreAttemptsAll /\ Carrying /\ [Next]_vars
        => /\ Carrying'
           /\ [\/ Orphans' \subseteq Orphans
               \/ (Crash \/ PersistFails) /\ Orphans' \ Orphans \subseteq Carried]_vars
  BY NextCarrying
<1> QED
  BY <1>1, <1>2, NextGiven, SpecTypeInv, OperatorAlwaysAttemptsAll, PTL
     DEF Spec, OrphanedOnlyInHand

-----------------------------------------------------------------------------
(* Every reconcile ends                                                    *)

KindsHere == {KindOf[w] : w \in Workloads}

\* What a call leaves behind is cleared; the kinds a pass has yet to visit are
\* kinds of the namespace; a status is written in a counted try.
Working ==
  /\ Returned
  /\ pending \subseteq KindsHere
  /\ pc \in {"get", "put"} => attempt # 0

LEMMA InitWorking == Init => Working
BY DEF Init, EnforcerInit, NoCall, Idle, Working, Returned

LEMMA PendingKept ==
  ASSUME pending \subseteq KindsHere, [EnforcerNext]_enforcerVars
  PROVE  (pending \subseteq KindsHere)'
<1>1. CASE BeginEnforce
  BY <1>1 DEF BeginEnforce, KindsHere
<1>2. CASE \E entries \in SUBSET Workloads : BeginRestore(entries)
  BY <1>2 DEF BeginRestore, KindsHere
<1>3. CASE EnforceReturns \/ RestoreReturns \/ OperatorDies
  BY <1>3 DEF EnforceReturns, RestoreReturns, OperatorDies, Return, KindsHere
<1>4. CASE Enforcing
  BY <1>4 DEF Enforcing, ListKind, ListFails, NextKind, ActOn, DeletePod, ActFails, KindsHere
<1>5. CASE Restoring
  BY <1>5 DEF Restoring, SkipEntry, RestoreEntry, RestoreFails, KindsHere
<1>6. CASE Cluster \/ UNCHANGED enforcerVars
  BY <1>6, ClusterFrame DEF enforcerVars, frame, KindsHere
<1> QED
  BY <1>1, <1>2, <1>3, <1>4, <1>5, <1>6 DEF EnforcerNext

LEMMA NextWorking ==
  ASSUME TypeInv, Working, [Next]_vars
  PROVE  Working'
<1>1. [EnforcerNext]_enforcerVars
  BY EnforcerStep DEF Working
<1>2. Returned' /\ (pending \subseteq KindsHere)'
  BY <1>1, NextReturned, PendingKept DEF Working
<1>3. (pc \in {"get", "put"} => attempt # 0)'
  <2>1. attempt \in Nat
    BY DEF TypeInv, TypeOK
  <2>2. CASE \E b \in Budgets : Start(b)
    BY <2>2 DEF Start
  <2>3. CASE Reconcile \/ Crash
    BY <2>1, <2>3 DEF Reconcile, ResetRefused, ResetCleared, ResetNotCleared, QueryFails,
       FailureMarked, FailureNotMarked, UsageCompliant, StartEnforcing, Merge, PersistGet,
       PersistPut, PersistAgain, PersistFails, Crash, Finish, Working
  <2>4. CASE \/ Call \/ (Cluster /\ Outside) \/ Users \/ UNCHANGED vars
             \/ \E b \in Budgets : DeliverBudget(b)
    BY <2>4 DEF Call, Outside, Users, AskReset, WithdrawReset, SetLimit, Edit, UsageMoves,
       DeliverBudget, vars, local, Working
  <2> QED
    BY <2>2, <2>3, <2>4 DEF Next
<1> QED
  BY <1>2, <1>3 DEF Working

LEMMA SpecWorking == Spec => []Working
BY InitWorking, NextWorking, SpecTypeInv, PTL DEF Spec

\* The sets that are counted are finite, and empty when the call is over.
LEMMA Counts ==
  ASSUME IsFiniteSet(Workloads), TypeInv, Working
  PROVE  /\ IsFiniteSet(KindsHere) /\ Cardinality(KindsHere) \in Nat
         /\ IsFiniteSet(pending) /\ Cardinality(pending) \in Nat
         /\ IsFiniteSet(DOMAIN list) /\ Cardinality(DOMAIN list) \in Nat
         /\ IsFiniteSet(left) /\ Cardinality(left) \in Nat
         /\ ATurn \in Nat \ {0}
<1> USE DEF TypeInv, TypeOK, EnforcerTypeOK, Working
<1>1. IsFiniteSet(KindsHere)
  <2> DEFINE f == [w \in Workloads |-> KindOf[w]]
  <2>1. f \in Surjection(Workloads, KindsHere)
    BY DEF KindsHere, Surjection
  <2> HIDE DEF f
  <2> QED
    BY <2>1, FS_Surjection
<1>2. left \subseteq Workloads
  OBVIOUS
<1>3. IsFiniteSet(pending) /\ IsFiniteSet(DOMAIN list) /\ IsFiniteSet(left)
  BY <1>1, <1>2, FS_Subset
<1>4. Cardinality(Workloads) \in Nat
  BY FS_CardinalityType
<1> QED
  BY <1>1, <1>3, <1>4, FS_CardinalityType DEF ATurn

\* A turn of a pass less: what a List finds is paid for by its turn.
LEMMA TurnLess ==
  ASSUME NEW t \in Nat, NEW p \in Nat, NEW n \in Nat, n < t
  PROVE  n + t * (p - 1) < t * p
<1>1. t * (p - 1) = t * p - t
  OBVIOUS
<1>2. t * p \in Int
  OBVIOUS
<1> QED
  BY <1>1, <1>2

LEMMA EnforcingAhead ==
  ASSUME IsFiniteSet(Workloads), TypeInv, Working, Enforcing, Outside
  PROVE  Ahead' < Ahead
<1>1. pc = "enforce" /\ pc' = "enforce"
  BY EnforcingFrame DEF TypeInv, Control, Outside, local
<1> DEFINE A(n, p) == n + ATurn * p + 1 + MaxTries
<1>2. /\ Ahead = A(Cardinality(DOMAIN list), Cardinality(pending))
      /\ Ahead' = A(Cardinality(DOMAIN list'), Cardinality(pending'))
  BY <1>1 DEF Ahead, ATurn, MaxTries
<1>3. MaxTries \in Nat
  BY DEF MaxTries
<1>4. ATurn * Cardinality(pending) \in Int
  BY Counts
<1>5. ASSUME NEW k \in Kinds, ListKind(k) \/ ListFails(k) PROVE Ahead' < Ahead
  <2>1. list = NoItems /\ k \in pending /\ pending' = pending \ {k}
    BY <1>5 DEF ListKind, ListFails, NextKind
  <2>2. DOMAIN list = {} /\ Cardinality(DOMAIN list) = 0
    BY <2>1, FS_EmptySet DEF NoItems
  <2>3. DOMAIN list' \subseteq Workloads
    BY <1>5, <2>2 DEF ListKind, ListFails, Restrict
  <2>4. /\ Cardinality(DOMAIN list') \in Nat
        /\ Cardinality(DOMAIN list') < ATurn
    BY <2>3, FS_Subset, FS_CardinalityType DEF ATurn
  <2>5. Cardinality(pending') = Cardinality(pending) - 1
    BY <2>1, Counts, FS_RemoveElement
  <2>6. Cardinality(DOMAIN list') + ATurn * Cardinality(pending')
          < ATurn * Cardinality(pending)
    BY <2>4, <2>5, Counts, TurnLess
  <2>7. ATurn * Cardinality(pending') \in Int
    BY <2>5, Counts
  <2> QED
    BY <1>2, <1>3, <1>4, <2>2, <2>4, <2>6, <2>7
<1>6. ASSUME NEW w \in Workloads, ActOn(w) \/ DeletePod(w) \/ ActFails(w)
      PROVE  Ahead' < Ahead
  <2>1. w \in DOMAIN list /\ pending' = pending
    BY <1>6 DEF ActOn, DeletePod, ActFails, Item
  <2>2. DOMAIN list' \subseteq DOMAIN list \ {w}
    BY <1>6 DEF ActOn, DeletePod, ActFails, Unlist, Restrict, NoItems
  <2>3. /\ IsFiniteSet(DOMAIN list \ {w})
        /\ Cardinality(DOMAIN list \ {w}) = Cardinality(DOMAIN list) - 1
    BY <2>1, Counts, FS_RemoveElement
  <2>4. /\ Cardinality(DOMAIN list') <= Cardinality(DOMAIN list) - 1
        /\ Cardinality(DOMAIN list') \in Nat
    BY <2>2, <2>3, FS_Subset, FS_CardinalityType
  <2>5. Ahead' = A(Cardinality(DOMAIN list'), Cardinality(pending))
    BY <1>2, <2>1
  <2> QED
    BY <1>2, <1>3, <1>4, <2>4, <2>5, Counts
<1> QED
  BY <1>5, <1>6 DEF Enforcing

LEMMA RestoringAhead ==
  ASSUME IsFiniteSet(Workloads), TypeInv, Working, Restoring, Outside
  PROVE  Ahead' < Ahead
<1>1. pc = "restore" /\ pc' = "restore"
  BY RestoringFrame DEF TypeInv, Control, Outside, local
<1>2. PICK w \in left : left' = left \ {w}
  BY DEF Restoring, SkipEntry, RestoreEntry, RestoreFails, Entry
<1>3. Cardinality(left') = Cardinality(left) - 1 /\ Cardinality(left) \in Nat
  BY <1>2, Counts, FS_RemoveElement
<1>4. APass \in Int /\ MaxTries \in Int
  BY Counts DEF APass, MaxTries, KindsHere
<1>5. /\ Ahead = Cardinality(left) + 2 + APass + MaxTries
      /\ Ahead' = Cardinality(left') + 2 + APass + MaxTries
  BY <1>1 DEF Ahead, APass, ATurn, MaxTries
<1> QED
  BY <1>3, <1>4, <1>5

\* Where there is something to return from, something was still ahead.
LEMMA AheadPositive ==
  ASSUME IsFiniteSet(Workloads), TypeInv, Working, pc # "idle"
  PROVE  Ahead \in Nat \ {0}
<1>1. APass \in Nat /\ MaxTries \in Nat
  BY Counts DEF APass, MaxTries, KindsHere
<1>2. ATurn * Cardinality(pending) \in Nat
  BY Counts
<1>3. attempt \in 0 .. Steps /\ (pc \in {"get", "put"} => attempt # 0)
  BY DEF TypeInv, TypeOK, Working
<1>4. CASE pc = "restore"
  BY <1>1, <1>4, Counts DEF Ahead
<1>5. CASE pc = "query"
  BY <1>1, <1>5 DEF Ahead
<1>6. CASE pc = "failed"
  BY <1>6 DEF Ahead
<1>7. CASE pc = "enforce"
  BY <1>1, <1>2, <1>7, Counts DEF Ahead
<1>8. CASE pc = "get"
  BY <1>3, <1>8 DEF Ahead, MaxTries
<1>9. CASE pc = "put"
  BY <1>3, <1>9 DEF Ahead, MaxTries
<1> QED
  BY <1>4, <1>5, <1>6, <1>7, <1>8, <1>9 DEF TypeInv, TypeOK

LEMMA ReconcileAhead ==
  ASSUME IsFiniteSet(Workloads), TypeInv, Working, Reconcile \/ Crash
  PROVE  Ahead' < Ahead
<1>1. APass \in Nat /\ MaxTries \in Nat /\ MaxTries = 2 * Steps
  BY Counts DEF APass, MaxTries, KindsHere
<1>2. attempt \in 0 .. Steps /\ (pc \in {"get", "put"} => attempt # 0)
  BY DEF TypeInv, TypeOK, Working
<1>3. CASE pc' = "idle"
  <2>1. pc # "idle"
    BY <1>3 DEF Reconcile, ResetRefused, ResetCleared, ResetNotCleared, QueryFails,
       FailureMarked, FailureNotMarked, UsageCompliant, StartEnforcing, Merge, PersistGet,
       PersistPut, PersistAgain, PersistFails, Crash
  <2>2. Ahead' = 0
    BY <1>3 DEF Ahead
  <2> QED
    BY <2>1, <2>2, AheadPositive
<1>4. CASE ResetCleared
  <2>1. /\ Ahead = Cardinality(left) + 2 + APass + MaxTries
        /\ Ahead' = 1 + APass + MaxTries
    BY <1>4 DEF ResetCleared, Ahead, APass, ATurn, MaxTries
  <2> QED
    BY <1>1, <2>1, Counts
<1>5. CASE QueryFails
  <2>1. Ahead = 1 + APass + MaxTries /\ Ahead' = 1
    BY <1>5 DEF QueryFails, Ahead
  <2> QED
    BY <1>1, <2>1 DEF MaxTries
<1>6. CASE UsageCompliant
  <2>1. Ahead = 1 + APass + MaxTries /\ Ahead' = MaxTries - 2 * (1 - 1)
    BY <1>6 DEF UsageCompliant, Ahead, MaxTries
  <2> QED
    BY <1>1, <2>1
<1>7. CASE StartEnforcing
  <2>1. Ahead = 1 + APass + MaxTries
    BY <1>7 DEF StartEnforcing, Ahead
  <2>2. /\ pc' = "enforce" /\ pending' = KindsHere
        /\ list' = NoItems
    BY <1>7 DEF StartEnforcing, BeginEnforce, KindsHere, Working, Returned, NoCall
  <2>3. Cardinality(DOMAIN list') = 0
    BY <2>2, FS_EmptySet DEF NoItems
  <2>4. Ahead' = Cardinality(DOMAIN list') + ATurn * Cardinality(pending') + 1 + MaxTries
    BY <2>2 DEF Ahead, ATurn, MaxTries
  <2>5. Cardinality(pending') = Cardinality(KindsHere)
    BY <2>2
  <2>6. APass = ATurn * Cardinality(KindsHere) + 1
    BY DEF APass, KindsHere
  <2>7. ATurn * Cardinality(KindsHere) \in Int
    BY Counts
  <2>8. Ahead' = APass + MaxTries
    BY <1>1, <2>3, <2>4, <2>5, <2>6, <2>7
  <2> QED
    BY <1>1, <2>1, <2>8
<1>8. CASE Merge
  <2>1. /\ Ahead = Cardinality(DOMAIN list) + ATurn * Cardinality(pending) + 1 + MaxTries
        /\ Ahead' = MaxTries - 2 * (1 - 1)
    BY <1>8 DEF Merge, Ahead, MaxTries
  <2>2. ATurn * Cardinality(pending) \in Nat
    BY Counts
  <2> QED
    BY <1>1, <2>1, <2>2, Counts
<1>9. CASE PersistGet
  <2>1. Ahead = MaxTries - 2 * (attempt - 1) /\ Ahead' = MaxTries - 2 * (attempt - 1) - 1
    BY <1>9 DEF PersistGet, Ahead, MaxTries
  <2> QED
    BY <1>1, <1>2, <2>1
<1>10. CASE PersistAgain
  <2>1. pc = "put" /\ pc' = "get" /\ attempt' = attempt + 1
    BY <1>10 DEF PersistAgain
  <2>2. Ahead = MaxTries - 2 * (attempt - 1) - 1
    BY <2>1 DEF Ahead
  <2>3. Ahead' = MaxTries - 2 * (attempt' - 1)
    BY <2>1 DEF Ahead, MaxTries
  <2> QED
    BY <1>1, <1>2, <2>1, <2>2, <2>3
<1> QED
  BY <1>3, <1>4, <1>5, <1>6, <1>7, <1>8, <1>9, <1>10
     DEF Reconcile, ResetRefused, ResetNotCleared, FailureMarked, FailureNotMarked, PersistPut,
         PersistFails, Crash, Finish

\* Nothing outside the reconcile changes what it has before it.
LEMMA OutsideAhead ==
  ASSUME \/ (Cluster /\ Outside) \/ Users \/ UNCHANGED vars
         \/ \E b \in Budgets : DeliverBudget(b)
  PROVE  Ahead' = Ahead
<1>1. UNCHANGED <<pc, attempt, list, pending, left>>
  BY ClusterFrame DEF Outside, Users, AskReset, WithdrawReset, SetLimit, Edit, UsageMoves,
     DeliverBudget, vars, enforcerVars, frame, local
<1> QED
  BY <1>1 DEF Ahead, ATurn, APass, MaxTries

\* Whatever fails, conflicts, lags or moves, and however many workloads there
\* are: a reconcile that has begun has a bounded number of calls before it,
\* every step of its own leaves fewer, and no step of any other adds one.
THEOREM ReconcilesEnd ==
  ASSUME IsFiniteSet(Workloads)
  PROVE  Spec => CallsRunOut
<1> DEFINE Counted == Ahead \in Nat
<1>1. TypeInv /\ Working => Counted
  <2>1. CASE pc = "idle"
    BY <2>1 DEF Ahead
  <2> QED
    BY <2>1, AheadPositive
<1>2. TypeInv /\ Working /\ Counted /\ Counted' /\ [Next]_vars
        => [/\ Call \/ Reconcile \/ Crash => Ahead' < Ahead
            /\ Ahead' > Ahead => \E b \in Budgets : Start(b)]_vars
  <2> SUFFICES ASSUME TypeInv, Working, Ahead \in Nat, Ahead' \in Nat, [Next]_vars
               PROVE  /\ Call \/ Reconcile \/ Crash => Ahead' < Ahead
                      /\ Ahead' > Ahead => \E b \in Budgets : Start(b)
    OBVIOUS
  <2>1. Call \/ Reconcile \/ Crash => Ahead' < Ahead
    BY EnforcingAhead, RestoringAhead, ReconcileAhead DEF Call
  <2>2. CASE Call \/ Reconcile \/ Crash
    BY <2>1, <2>2
  <2>3. CASE \E b \in Budgets : Start(b)
    BY <2>1, <2>3
  <2>4. CASE \/ (Cluster /\ Outside) \/ Users \/ UNCHANGED vars
             \/ \E b \in Budgets : DeliverBudget(b)
    BY <2>1, <2>4, OutsideAhead
  <2> QED
    BY <2>2, <2>3, <2>4 DEF Next
<1> HIDE DEF Counted
<1> QED
  BY <1>1, <1>2, SpecTypeInv, SpecWorking, PTL DEF Spec, CallsRunOut

-----------------------------------------------------------------------------
(* NoPhantom                                                               *)

\* NoLoss, and nobody takes away what a list relies on: one GpuBudget, no
\* edit of it under a reconcile, no reset withdrawn halfway, no object deleted.
Undisturbed ==
  /\ NoLoss
  /\ MaxEdits = 0 /\ {"remove", "withdraw"} \intersect Moves = {}
  /\ \E b \in Budgets : Budgets = {b}

\* Whatever of S can be given back is there and held down.
AllDown(S) == \A w \in S : Reversible(KindOf[w]) => wl[w].live /\ wl[w].saved # None

PhantomInv ==
  /\ pc = "idle" => \A b \in Budgets : ~gb[b].reset => AllDown(gb[b].enforced)
  /\ pc = "restore" => gb[cur].reset
  /\ pc \in {"query", "failed", "enforce", "get", "put"} => AllDown(st.enforced \union acted)
  /\ pc \in {"restore", "query", "failed", "put"} => base = gb[cur]

LEMMA InitPhantomInv == Init => PhantomInv
BY DEF Init, Idle, PhantomInv, AllDown

\* A reconcile begins with what is stored, all down unless a reset is asked for.
LEMMA StartPhantomInv ==
  ASSUME TypeInv, OrphanInv, PhantomInv, NEW b \in Budgets, Start(b)
  PROVE  PhantomInv'
<1>1. /\ cached = gb /\ acted = {} /\ UNCHANGED <<wl, gb, acted>>
      /\ cur' = b /\ base' = gb[b] /\ st'.enforced = gb[b].enforced /\ pc = "idle"
  BY DEF OrphanInv, TypeInv, Control, Start, BeginRestore, enforcerVars, objects, frame, budgetVars
<1>2. CASE gb[b].reset
  <2>1. pc' = "restore"
    BY <1>1, <1>2 DEF Start
  <2> QED
    BY <1>1, <1>2, <2>1 DEF PhantomInv
<1>3. CASE ~gb[b].reset
  <2>1. pc' = "query" /\ AllDown(gb[b].enforced)
    BY <1>1, <1>3 DEF Start, PhantomInv
  <2> QED
    BY <1>1, <2>1 DEF PhantomInv, AllDown
<1> QED
  BY <1>2, <1>3

\* What a pass acts on is held down by it.
LEMMA EnforcingPhantomInv ==
  ASSUME TypeInv, PhantomInv, Enforcing, Outside
  PROVE  PhantomInv'
<1>0. /\ wl \in [Workloads -> Object] /\ pc = "enforce" /\ ListedActionable
      /\ st.enforced \subseteq Workloads /\ acted \subseteq Workloads
      /\ UNCHANGED <<gb, pc, cur, st>>
  BY EnforcingFrame DEF TypeInv, TypeOK, IInv, EnforcerTypeOK, Control, Status,
     Outside, budgetVars, local
<1>1. AllDown(st.enforced \union acted)
  BY <1>0 DEF PhantomInv
<1>2. ASSUME NEW w \in Workloads, ActOn(w)
      PROVE  AllDown(st.enforced \union acted)'
  <2>1. /\ wl' = [wl EXCEPT ![w] = Stopped(KindOf[w], wl[w])] /\ list[w] = wl[w]
        /\ Reversible(KindOf[w]) /\ NeedsAction(KindOf[w], wl[w])
        /\ acted' \subseteq acted \union {w}
    BY <1>0, <1>2 DEF ActOn, Write, Item, ListedActionable
  <2>2. wl[w] \in Object /\ None \notin Levels
    BY <1>0, WorkloadsAssumption DEF WorkloadsAssumption, Levels
  <2>3. Stopped(KindOf[w], wl[w]).live /\ Stopped(KindOf[w], wl[w]).saved # None
    BY <2>1, <2>2 DEF NeedsAction, Eligible, Stopped, Captures, Object
  <2>4. /\ wl'[w].live /\ wl'[w].saved # None
        /\ \A v \in Workloads \ {w} : wl'[v] = wl[v]
    BY <1>0, <2>1, <2>3
  <2> QED
    BY <1>0, <1>1, <2>1, <2>4 DEF AllDown
<1>3. ASSUME NEW w \in Workloads, DeletePod(w)
      PROVE  AllDown(st.enforced \union acted)'
  <2>1. /\ ~Reversible(KindOf[w]) /\ acted' \subseteq acted \union {w}
        /\ \A v \in Workloads \ {w} : wl'[v] = wl[v]
    BY <1>0, <1>3 DEF DeletePod, Reversible, Write
  <2> QED
    BY <1>0, <1>1, <2>1 DEF AllDown
<1>4. ASSUME UNCHANGED <<wl, acted>>
      PROVE  AllDown(st.enforced \union acted)'
  <2>1. wl' = wl /\ acted' = acted /\ st' = st
    BY <1>0, <1>4
  <2> QED
    BY <1>1, <2>1 DEF AllDown
<1>5. \/ UNCHANGED <<wl, acted>>
      \/ \E w \in Workloads : ActOn(w) \/ DeletePod(w)
  BY DEF Enforcing, ListKind, ListFails, ActFails, objects
<1>6. AllDown(st.enforced \union acted)'
  BY <1>2, <1>3, <1>4, <1>5
<1>7. pc' = "enforce"
  BY <1>0
<1> QED
  BY <1>6, <1>7 DEF PhantomInv

\* Nobody deletes an object, so no listed name is free to be used again.
LEMMA ClusterPhantomInv ==
  ASSUME Undisturbed, TypeInv, PhantomInv, Cluster, Outside
  PROVE  PhantomInv'
<1>0. /\ wl \in [Workloads -> Object] /\ acted \subseteq Workloads
      /\ st.enforced \subseteq Workloads /\ \A b \in Budgets : gb[b].enforced \subseteq Workloads
      /\ UNCHANGED <<gb, pc, cur, base, st, acted>>
  BY ClusterFrame DEF TypeInv, TypeOK, EnforcerTypeOK, Status, GpuBudget, Outside, budgetVars,
     local, frame
<1>1. ASSUME NEW v \in Workloads, Reversible(KindOf[v]), wl[v].live, wl[v].saved # None
      PROVE  wl'[v].live /\ wl'[v].saved # None
  <2>1. ASSUME NEW w \in Workloads, Create(w) PROVE wl'[v] = wl[v]
    BY <1>0, <1>1, <2>1 DEF Create, Write
  <2>2. ASSUME NEW w \in Workloads PROVE ~Remove(w)
    BY DEF Remove, May, Undisturbed
  <2>3. ASSUME NEW w \in Workloads, PodGone(w) PROVE wl'[v] = wl[v]
    BY <1>0, <1>1, <2>3 DEF PodGone, Write, Reversible
  <2>4. ASSUME NEW w \in Workloads, Scale(w)
        PROVE  wl'[v].live = wl[v].live /\ wl'[v].saved = wl[v].saved
    BY <1>0, <2>4 DEF Scale, Write, Object
  <2> QED
    BY <1>1, <2>1, <2>2, <2>3, <2>4 DEF Cluster, Deliver, Calm, objects
<1>2. ASSUME NEW S \in SUBSET Workloads, AllDown(S)
      PROVE  \A w \in S : Reversible(KindOf[w]) => wl'[w].live /\ wl'[w].saved # None
  BY <1>1, <1>2 DEF AllDown
<1>3. ASSUME NEW b \in Budgets, AllDown(gb[b].enforced)
      PROVE  AllDown(gb[b].enforced)'
  <2>1. \A w \in gb[b].enforced : Reversible(KindOf[w]) => wl'[w].live /\ wl'[w].saved # None
    BY <1>0, <1>2, <1>3
  <2> QED
    BY <1>0, <2>1 DEF AllDown
<1>4. ASSUME AllDown(st.enforced \union acted)
      PROVE  AllDown(st.enforced \union acted)'
  <2>1. \A w \in st.enforced \union acted :
           Reversible(KindOf[w]) => wl'[w].live /\ wl'[w].saved # None
    BY <1>0, <1>2, <1>4
  <2> QED
    BY <1>0, <2>1 DEF AllDown
<1> QED
  BY <1>0, <1>3, <1>4 DEF PhantomInv

\* The list in hand is the one stored, and what is stored was in hand.
LEMMA ReconcilePhantomInv ==
  ASSUME Undisturbed, TypeInv, OrphanInv, PhantomInv, Reconcile
  PROVE  PhantomInv'
<1>0. /\ UNCHANGED wl /\ cached = gb /\ gb \in [Budgets -> GpuBudget] /\ st \in Status
      /\ \E b \in Budgets : Budgets = {b}
      /\ "budgetErr" \notin Faults /\ (call # "enforce" => acted = {})
  BY DEF Reconcile, ResetRefused, ResetCleared, ResetNotCleared, QueryFails, FailureMarked,
     FailureNotMarked, UsageCompliant, StartEnforcing, Merge, PersistGet, PersistPut,
     PersistAgain, PersistFails, RestoreReturns, EnforceReturns, Return, BeginEnforce,
     enforcerVars, objects, OrphanInv, TypeInv, TypeOK, Control, Undisturbed, NoLoss
<1>1. CASE ResetRefused
  <2>1. gb' = gb /\ pc' = "idle" /\ gb[cur].reset /\ cur \in Budgets
    BY <1>1 DEF ResetRefused, Finish, budgetVars, PhantomInv, TypeInv, Control
  <2> QED
    BY <1>0, <2>1 DEF PhantomInv
<1>2. CASE ResetCleared
  <2>1. /\ pc' = "query" /\ st'.enforced = {} /\ acted' = {} /\ cur' = cur /\ cur \in Budgets
        /\ base' = [base EXCEPT !.reset = FALSE] /\ gb' = [gb EXCEPT ![cur] = base']
    BY <1>2 DEF ResetCleared, WriteBudget, RestoreReturns, Return, TypeInv, Control
  <2>2. base' = gb'[cur]
    BY <1>0, <2>1
  <2> QED
    BY <2>1, <2>2 DEF PhantomInv, AllDown
<1>3. ~ResetNotCleared /\ ~FailureNotMarked
  BY <1>0 DEF ResetNotCleared, FailureNotMarked, Fault, PhantomInv
<1>4. CASE QueryFails
  <2>1. /\ pc = "query" /\ pc' = "failed" /\ st'.enforced = st.enforced
        /\ UNCHANGED <<gb, cur, base, acted>>
    BY <1>0, <1>4 DEF QueryFails, enforcerVars, frame, budgetVars, Status
  <2> QED
    BY <1>0, <2>1 DEF PhantomInv, AllDown
<1>5. CASE FailureMarked \/ PersistPut
  <2>1. /\ pc \in {"failed", "put"} /\ pc' = "idle" /\ cur \in Budgets /\ base = gb[cur]
        /\ gb' = [gb EXCEPT ![cur] = [base EXCEPT !.enforced = st.enforced, !.phase = st.phase]]
    BY <1>5 DEF FailureMarked, PersistPut, WriteBudget, Finish, TypeInv, Control
  <2>2. gb'[cur].enforced = st.enforced
    BY <1>0, <2>1 DEF GpuBudget
  <2>3. AllDown(st.enforced)
    BY <2>1 DEF PhantomInv, AllDown
  <2>4. \A b \in Budgets : b = cur
    BY <1>0, <2>1
  <2> QED
    BY <1>0, <2>1, <2>2, <2>3, <2>4 DEF PhantomInv, AllDown
<1>6. CASE UsageCompliant \/ StartEnforcing
  <2>1. /\ pc = "query" /\ pc' \in {"get", "enforce"} /\ st'.enforced = st.enforced
        /\ UNCHANGED acted
    BY <1>0, <1>6 DEF UsageCompliant, StartEnforcing, BeginEnforce, enforcerVars, frame, Status
  <2> QED
    BY <1>0, <2>1 DEF PhantomInv, AllDown
<1>7. CASE Merge
  <2>1. /\ pc = "enforce" /\ pc' = "get" /\ acted' = {}
        /\ st'.enforced = st.enforced \union acted
    BY <1>7 DEF Merge, EnforceReturns, Return
  <2> QED
    BY <1>0, <2>1 DEF PhantomInv, AllDown
<1>8. CASE PersistGet \/ PersistAgain
  <2>1. /\ pc \in {"get", "put"} /\ pc' \in {"get", "put"} /\ UNCHANGED <<gb, cur, st, acted>>
        /\ pc' = "put" => base' = gb[cur]
    BY <1>0, <1>8 DEF PersistGet, PersistAgain, enforcerVars, frame, budgetVars
  <2> QED
    BY <1>0, <2>1 DEF PhantomInv, AllDown
<1>9. CASE PersistFails
  BY <1>0, <1>9 DEF PersistFails, Fault, PhantomInv
<1> QED
  BY <1>1, <1>2, <1>3, <1>4, <1>5, <1>6, <1>7, <1>8, <1>9 DEF Reconcile

LEMMA UsersPhantomInv ==
  ASSUME Undisturbed, TypeInv, PhantomInv, Users
  PROVE  PhantomInv'
<1>1. ASSUME NEW b \in Budgets, AskReset(b) \/ WithdrawReset(b) \/ SetLimit(b)
      PROVE  PhantomInv'
  <2>1. /\ \A c \in Budgets : gb'[c].enforced = gb[c].enforced
        /\ UNCHANGED <<enforcerVars, pc, cur, st>>
    BY <1>1, EditEffect DEF TypeInv
  <2>2. pc = "idle"
    <3>1. pc = "idle" \/ edits < MaxEdits
      BY <1>1 DEF AskReset, WithdrawReset, SetLimit, Edit
    <3> QED
      BY <3>1 DEF Undisturbed, TypeInv, TypeOK
  <2>3. ~WithdrawReset(b)
    BY DEF WithdrawReset, May, Undisturbed
  <2>4. \A c \in Budgets : ~gb'[c].reset => ~gb[c].reset
    <3>1. gb \in [Budgets -> GpuBudget]
      BY DEF TypeInv, TypeOK
    <3>2. CASE AskReset(b)
      BY <3>1, <3>2 DEF AskReset, Edit, WriteBudget, GpuBudget
    <3>3. CASE SetLimit(b)
      BY <3>1, <3>3 DEF SetLimit, Edit, WriteBudget, GpuBudget
    <3> QED
      BY <1>1, <2>3, <3>2, <3>3
  <2> QED
    BY <2>1, <2>2, <2>4 DEF PhantomInv, AllDown, enforcerVars, objects
<1>2. CASE UsageMoves
  BY <1>2 DEF UsageMoves, PhantomInv, AllDown, enforcerVars, objects, frame, budgetVars, local
<1> QED
  BY <1>1, <1>2 DEF Users

LEMMA NextPhantomInv ==
  ASSUME Undisturbed
  PROVE  TypeInv /\ OrphanInv /\ PhantomInv /\ [Next]_vars => PhantomInv'
<1> SUFFICES ASSUME TypeInv, OrphanInv, PhantomInv, [Next]_vars PROVE PhantomInv'
  OBVIOUS
<1>1. CASE \E b \in Budgets : Start(b)
  BY <1>1, StartPhantomInv
<1>2. CASE Enforcing /\ Outside
  BY <1>2, EnforcingPhantomInv
<1>3. CASE Restoring /\ Outside
  BY <1>3, RestoringFrame
     DEF PhantomInv, TypeInv, Control, Outside, budgetVars, local
<1>4. CASE Reconcile
  BY <1>4, ReconcilePhantomInv
<1>5. CASE Cluster /\ Outside
  BY <1>5, ClusterPhantomInv
<1>6. CASE Users
  BY <1>6, UsersPhantomInv
<1>7. ~Crash
  BY DEF Crash, Fault, Undisturbed, NoLoss
<1>8. CASE UNCHANGED vars \/ \E b \in Budgets : DeliverBudget(b)
  BY <1>8 DEF vars, DeliverBudget, enforcerVars, objects, frame, budgetVars, local,
     PhantomInv, AllDown
<1> QED
  BY <1>1, <1>2, <1>3, <1>4, <1>5, <1>6, <1>7, <1>8 DEF Next, Call

\* A list does not claim what is not held down: as long as nobody disturbs a
\* reconcile, what a GpuBudget without a pending reset lists is really at
\* zero with its original on it, however many calls and queries fail.
THEOREM NothingPhantom ==
  ASSUME Undisturbed
  PROVE  Spec => []NoPhantom
<1>1. TypeInv /\ OrphanInv /\ [Next]_vars => OrphanInv'
  BY NextOrphanInv DEF Undisturbed
<1>2. TypeInv /\ OrphanInv /\ PhantomInv /\ [Next]_vars => PhantomInv'
  BY NextPhantomInv
<1>3. PhantomInv => NoPhantom
  BY DEF PhantomInv, AllDown, NoPhantom
<1> QED
  BY <1>1, <1>2, <1>3, InitOrphanInv, InitPhantomInv, SpecTypeInv, PTL DEF Spec

=============================================================================
