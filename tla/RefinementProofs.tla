-------------------------- MODULE RefinementProofs --------------------------
(***************************************************************************)
(* Reconciler implements EnforcementContract, for any workloads, kinds and *)
(* GpuBudgets, under Lossless: every step is a step of the contract or     *)
(* changes none of its variables.                                          *)
(*                                                                         *)
(* On top of the invariants of NothingOrphaned it takes that a reset       *)
(* works through all that is stored: st is the stored list as long as      *)
(* restores are under way; and that a failing query finds the stored       *)
(* object as it was read (both in Answering).                              *)
(***************************************************************************)
EXTENDS ReconcilerProofs

USE ReconcilerAssumption DEF ReconcilerAssumption

\* NoLoss, and a failing query is written down: no query fails, or nobody
\* edits a GpuBudget while it is reconciled, for markFailed tries only once.
Lossless == NoLoss /\ ("queryErr" \notin Faults \/ MaxEdits = 0)

\* A reset works through all that is stored, and a status that says why the
\* query failed will not meet a conflict.
Answering ==
  /\ pc = "restore" => st.enforced = gb[cur].enforced
  /\ MaxEdits = 0 /\ pc \in {"restore", "query", "failed"} => gb[cur] = base
  /\ MaxEdits # 0 => pc # "failed"

RefinementInv == TypeInv /\ OrphanInv /\ Answering

\* The variables of the contract, as the refinement mapping has them.
ThereNow == {w \in Workloads : wl[w].live}

HeldNow == {w \in Workloads : wl[w].saved # None}

ListedNow == [b \in Budgets |-> IF cur = b THEN st.enforced \union acted ELSE gb[b].enforced]

AskedNow == {b \in Budgets : gb[b].reset \/ (cur = b /\ pc = "restore")}

-----------------------------------------------------------------------------
(* The steps of the contract                                               *)

LEMMA ContractTakeDown ==
  ASSUME NEW b \in Budgets, NEW w \in Workloads,
         Reversible(KindOf[w]), w \in ThereNow,
         ThereNow' = ThereNow, HeldNow' = HeldNow \union {w},
         ListedNow' = [ListedNow EXCEPT ![b] = @ \union {w}], AskedNow' = AskedNow
  PROVE  Contract!Next
<1>1. Contract!TakeDown(b, w)
  BY DEF Contract!TakeDown, Contract!Record, ThereNow, HeldNow, ListedNow, AskedNow
<1> QED
  BY <1>1 DEF Contract!Next

LEMMA ContractDelete ==
  ASSUME NEW b \in Budgets, NEW w \in Workloads,
         ~Reversible(KindOf[w]), w \in ThereNow,
         ThereNow' = ThereNow, HeldNow' = HeldNow,
         ListedNow' = [ListedNow EXCEPT ![b] = @ \union {w}], AskedNow' = AskedNow
  PROVE  Contract!Next
<1>1. Contract!Delete(b, w)
  BY DEF Contract!Delete, Contract!Record, ThereNow, HeldNow, ListedNow, AskedNow
<1> QED
  BY <1>1 DEF Contract!Next

LEMMA ContractGiveBack ==
  ASSUME NEW b \in AskedNow, NEW w \in ListedNow[b], w \in Workloads,
         ThereNow' = ThereNow, HeldNow' = HeldNow \ {w},
         ListedNow' = ListedNow, AskedNow' = AskedNow
  PROVE  Contract!Next
<1>1. Contract!GiveBack(w)
  BY DEF Contract!GiveBack, ThereNow, HeldNow, ListedNow, AskedNow
<1> QED
  BY <1>1 DEF Contract!Next

LEMMA ContractVanish ==
  ASSUME NEW w \in Workloads,
         ThereNow' = ThereNow \ {w}, HeldNow' = HeldNow \ {w},
         ListedNow' = ListedNow, AskedNow' = AskedNow
  PROVE  Contract!Next
<1>1. Contract!Vanish(w)
  BY DEF Contract!Vanish, ThereNow, HeldNow, ListedNow, AskedNow
<1> QED
  BY <1>1 DEF Contract!Next

LEMMA ContractAppear ==
  ASSUME NEW w \in Workloads,
         ThereNow' = ThereNow \union {w}, HeldNow' = HeldNow,
         ListedNow' = ListedNow, AskedNow' = AskedNow
  PROVE  Contract!Next
<1>1. Contract!Appear(w)
  BY DEF Contract!Appear, ThereNow, HeldNow, ListedNow, AskedNow
<1> QED
  BY <1>1 DEF Contract!Next

LEMMA ContractAsk ==
  ASSUME NEW b \in Budgets,
         ThereNow' = ThereNow, HeldNow' = HeldNow,
         ListedNow' = ListedNow, AskedNow' = AskedNow \union {b}
  PROVE  Contract!Next
<1>1. Contract!Ask(b)
  BY DEF Contract!Ask, ThereNow, HeldNow, ListedNow, AskedNow
<1> QED
  BY <1>1 DEF Contract!Next

LEMMA ContractWithdraw ==
  ASSUME NEW b \in Budgets,
         ThereNow' = ThereNow, HeldNow' = HeldNow,
         ListedNow' = ListedNow, AskedNow' = AskedNow \ {b}
  PROVE  Contract!Next
<1>1. Contract!Withdraw(b)
  BY DEF Contract!Withdraw, ThereNow, HeldNow, ListedNow, AskedNow
<1> QED
  BY <1>1 DEF Contract!Next

LEMMA ContractServe ==
  ASSUME NEW b \in Budgets, b \in AskedNow,
         ListedNow[b] \intersect HeldNow = {},
         ThereNow' = ThereNow, HeldNow' = HeldNow,
         ListedNow' = [ListedNow EXCEPT ![b] = {}], AskedNow' = AskedNow \ {b}
  PROVE  Contract!Next
<1>1. Contract!Serve(b)
  BY DEF Contract!Serve, ThereNow, HeldNow, ListedNow, AskedNow
<1> QED
  BY <1>1 DEF Contract!Next

LEMMA ContractStutter ==
  ASSUME UNCHANGED <<ThereNow, HeldNow, ListedNow, AskedNow>>
  PROVE  UNCHANGED Contract!vars
BY DEF Contract!vars, ThereNow, HeldNow, ListedNow, AskedNow

LEMMA ContractInit == Init => Contract!Init
<1> SUFFICES ASSUME Init PROVE Contract!Init
  OBVIOUS
<1>1. \A w \in Workloads : wl[w].saved = None
  BY FreshUnsaved, WorkloadsAssumption DEF Init, EnforcerInit
<1>2. /\ \A b \in Budgets : gb[b].enforced = {} /\ gb[b].reset = FALSE
      /\ cur = None /\ pc = "idle" /\ acted = {}
  BY DEF Init, Idle, EnforcerInit, NoCall
<1>3. HeldNow = {} /\ ListedNow = [b \in Budgets |-> {}] /\ AskedNow = {}
  BY <1>1, <1>2 DEF HeldNow, ListedNow, AskedNow
<1> QED
  BY <1>3 DEF Contract!Init, HeldNow, ListedNow, AskedNow

-----------------------------------------------------------------------------
(* The invariant                                                           *)

LEMMA NextAnswering ==
  ASSUME Lossless, TypeInv, OrphanInv, Answering, [Next]_vars
  PROVE  Answering'
<1>1. CASE \E b \in Budgets : Start(b)
  BY <1>1 DEF Start, Answering, budgetVars, OrphanInv, TypeInv, TypeOK
<1>2. CASE Call \/ (Cluster /\ Outside)
  BY <1>2 DEF Call, Outside, budgetVars, local, Answering
<1>3. CASE ResetCleared
  <2>1. /\ gb \in [Budgets -> GpuBudget] /\ cur \in Budgets
        /\ gb' = [gb EXCEPT ![cur] = base'] /\ cur' = cur /\ pc' = "query"
    BY <1>3 DEF ResetCleared, WriteBudget, TypeInv, TypeOK, Control
  <2> QED
    BY <2>1 DEF Answering
<1>4. CASE QueryFails
  <2>1. /\ UNCHANGED <<gb, cur, base>> /\ pc = "query" /\ pc' = "failed"
        /\ "queryErr" \in Faults
    BY <1>4 DEF QueryFails, Fault, budgetVars
  <2> QED
    BY <2>1 DEF Lossless, Answering
<1>5. CASE \/ ResetRefused \/ ResetNotCleared \/ FailureMarked \/ FailureNotMarked
           \/ UsageCompliant \/ StartEnforcing \/ Merge
           \/ PersistGet \/ PersistPut \/ PersistAgain \/ PersistFails \/ Crash
  <2>1. pc' \notin {"restore", "query", "failed"}
    BY <1>5 DEF ResetRefused, ResetNotCleared, FailureMarked, FailureNotMarked, UsageCompliant,
       StartEnforcing, Merge, PersistGet, PersistPut, PersistAgain, PersistFails, Crash, Finish
  <2> QED
    BY <2>1 DEF Answering
<1>6. ASSUME NEW b \in Budgets, AskReset(b) \/ WithdrawReset(b) \/ SetLimit(b)
      PROVE  Answering'
  <2>1. /\ \A c \in Budgets : gb'[c].enforced = gb[c].enforced
        /\ UNCHANGED <<pc, cur, st>>
    BY <1>6, EditEffect DEF TypeInv
  <2>2. MaxEdits = 0 => pc = "idle"
    <3>1. edits \in 0 .. MaxEdits
      BY DEF TypeInv, TypeOK
    <3>2. pc = "idle" \/ edits < MaxEdits
      BY <1>6 DEF AskReset, WithdrawReset, SetLimit, Edit
    <3> QED
      BY <3>1, <3>2
  <2> QED
    BY <2>1, <2>2 DEF Answering, TypeInv, Control
<1>7. CASE UsageMoves \/ UNCHANGED vars \/ \E b \in Budgets : DeliverBudget(b)
  BY <1>7 DEF UsageMoves, DeliverBudget, vars, budgetVars, local, Answering
<1> QED
  BY <1>1, <1>2, <1>3, <1>4, <1>5, <1>6, <1>7 DEF Next, Users, Reconcile

LEMMA NextRefinementInv ==
  ASSUME Lossless
  PROVE  RefinementInv /\ [Next]_vars => RefinementInv'
<1>1. TypeInv /\ [Next]_vars => TypeInv'
  BY NextTypeInv
<1>2. TypeInv /\ OrphanInv /\ [Next]_vars => OrphanInv'
  BY NextOrphanInv DEF Lossless
<1>3. TypeInv /\ OrphanInv /\ Answering /\ [Next]_vars => Answering'
  BY NextAnswering
<1> QED
  BY <1>1, <1>2, <1>3 DEF RefinementInv

LEMMA InitRefinementInv == Init => RefinementInv
<1>1. Init => TypeInv
  BY InitTypeInv
<1>2. Init => OrphanInv
  BY InitOrphanInv
<1>3. Init => Answering
  BY DEF Init, Idle, Answering
<1> QED
  BY <1>1, <1>2, <1>3 DEF RefinementInv

-----------------------------------------------------------------------------
(* The steps of the reconcile                                              *)

\* A step that moves none of what the contract looks at.
LEMMA NothingSeen ==
  ASSUME UNCHANGED <<wl, gb, cur, st, acted>>,
         pc = "restore" <=> pc' = "restore"
  PROVE  UNCHANGED Contract!vars
<1>1. UNCHANGED <<ThereNow, HeldNow, ListedNow, AskedNow>>
  BY DEF ThereNow, HeldNow, ListedNow, AskedNow
<1> QED
  BY <1>1, ContractStutter

\* A reconcile begins with the list that is stored.
LEMMA StartRefines ==
  ASSUME RefinementInv, NEW b \in Budgets, Start(b)
  PROVE  UNCHANGED Contract!vars
<1>1. /\ cached = gb /\ cur = None /\ pc = "idle" /\ acted = {}
      /\ None \notin Budgets
  BY DEF RefinementInv, OrphanInv, TypeInv, Control, Start
<1>2. /\ UNCHANGED <<wl, gb, acted>> /\ cur' = b /\ st'.enforced = gb[b].enforced
      /\ pc' = "restore" => gb[b].reset
  BY <1>1 DEF Start, BeginRestore, enforcerVars, objects, frame, budgetVars
<1>3. ThereNow' = ThereNow /\ HeldNow' = HeldNow
  BY <1>2 DEF ThereNow, HeldNow
<1>4. ListedNow' = ListedNow
  BY <1>1, <1>2 DEF ListedNow
<1>5. AskedNow' = AskedNow
  BY <1>1, <1>2 DEF AskedNow
<1> QED
  BY <1>3, <1>4, <1>5, ContractStutter

\* A reset that is given up leaves all on record; it may have been withdrawn.
LEMMA ResetGivenUpRefines ==
  ASSUME RefinementInv, ResetRefused \/ ResetNotCleared
  PROVE  Contract!Next \/ UNCHANGED Contract!vars
<1>1. /\ pc = "restore" /\ pc' = "idle" /\ cur \in Budgets /\ cur' = None
      /\ None \notin Budgets
      /\ acted = {} /\ acted' = {} /\ UNCHANGED <<wl, gb>>
      /\ st.enforced = gb[cur].enforced
  BY DEF ResetRefused, ResetNotCleared, RestoreReturns, Return, Finish, objects, budgetVars,
     RefinementInv, TypeInv, Control, Answering
<1>2. ThereNow' = ThereNow /\ HeldNow' = HeldNow
  BY <1>1 DEF ThereNow, HeldNow
<1>3. ListedNow' = ListedNow
  BY <1>1 DEF ListedNow
<1>4. CASE gb[cur].reset
  <2>1. AskedNow' = AskedNow
    BY <1>1, <1>4 DEF AskedNow
  <2> QED
    BY <1>2, <1>3, <2>1, ContractStutter
<1>5. CASE ~gb[cur].reset
  <2>1. AskedNow' = AskedNow \ {cur}
    BY <1>1, <1>5 DEF AskedNow
  <2> QED
    BY <1>1, <1>2, <1>3, <2>1, ContractWithdraw
<1> QED
  BY <1>4, <1>5

\* A reset is closed when all its entries have been visited without an error.
LEMMA ResetClearedRefines ==
  ASSUME RefinementInv, ResetCleared
  PROVE  Contract!Next
<1>1. /\ pc = "restore" /\ pc' = "query" /\ cur \in Budgets /\ cur' = cur
      /\ acted = {} /\ acted' = {} /\ UNCHANGED wl /\ st'.enforced = {}
      /\ given = st.enforced /\ left = {} /\ errs = {}
      /\ gb \in [Budgets -> GpuBudget] /\ gb[cur] = base
  BY DEF ResetCleared, RestoreReturns, RestoreFinished, Return, objects,
     RefinementInv, TypeInv, TypeOK, Control, OrphanInv, InHand
<1>2. gb' = [gb EXCEPT ![cur] = [base EXCEPT !.reset = FALSE]]
  BY DEF ResetCleared, WriteBudget
<1>3. gb'[cur].reset = FALSE /\ \A b \in Budgets \ {cur} : gb'[b] = gb[b]
  BY <1>1, <1>2 DEF GpuBudget
<1>4. \A w \in st.enforced : wl[w].saved = None
  BY <1>1 DEF RefinementInv, OrphanInv, Visited
<1>5. ThereNow' = ThereNow /\ HeldNow' = HeldNow
  BY <1>1 DEF ThereNow, HeldNow
<1>6. ListedNow' = [ListedNow EXCEPT ![cur] = {}]
  BY <1>1, <1>3 DEF ListedNow
<1>7. AskedNow' = AskedNow \ {cur}
  BY <1>1, <1>3 DEF AskedNow
<1>8. cur \in AskedNow /\ ListedNow[cur] \intersect HeldNow = {}
  BY <1>1, <1>4 DEF AskedNow, ListedNow, HeldNow
<1> QED
  BY <1>1, <1>5, <1>6, <1>7, <1>8, ContractServe

\* What the running pass has acted on is in memory before the pass is over.
LEMMA MergeRefines ==
  ASSUME RefinementInv, Merge
  PROVE  UNCHANGED Contract!vars
<1>1. /\ st'.enforced = st.enforced \union acted /\ acted' = {}
      /\ UNCHANGED <<wl, gb, cur>> /\ pc = "enforce" /\ pc' = "get"
  BY DEF Merge, EnforceReturns, Return, objects, budgetVars
<1>2. UNCHANGED <<ThereNow, HeldNow, ListedNow, AskedNow>>
  BY <1>1 DEF ThereNow, HeldNow, ListedNow, AskedNow
<1> QED
  BY <1>2, ContractStutter

\* What is in memory is stored; persistStatus does not run out of tries.
LEMMA PersistRefines ==
  ASSUME Lossless, RefinementInv, PersistPut \/ PersistFails
  PROVE  UNCHANGED Contract!vars
<1>1. CASE PersistPut
  <2>1. /\ pc = "put" /\ pc' = "idle" /\ cur \in Budgets /\ cur' = None /\ None \notin Budgets
        /\ UNCHANGED <<wl, acted>> /\ acted = {}
        /\ gb \in [Budgets -> GpuBudget] /\ gb[cur] = base
    BY <1>1 DEF PersistPut, Finish, enforcerVars, objects, frame,
       RefinementInv, TypeInv, TypeOK, Control
  <2>2. gb' = [gb EXCEPT ![cur] = [base EXCEPT !.enforced = st.enforced, !.phase = st.phase]]
    BY <1>1 DEF PersistPut, WriteBudget
  <2>3. /\ gb'[cur].enforced = st.enforced /\ gb'[cur].reset = gb[cur].reset
        /\ \A b \in Budgets \ {cur} : gb'[b] = gb[b]
    BY <2>1, <2>2 DEF GpuBudget
  <2>4. UNCHANGED <<ThereNow, HeldNow, ListedNow, AskedNow>>
    BY <2>1, <2>3 DEF ThereNow, HeldNow, ListedNow, AskedNow
  <2> QED
    BY <2>4, ContractStutter
<1>2. CASE PersistFails
  <2>1. pc = "put" /\ gb[cur] # base /\ attempt >= Steps
    BY <1>2 DEF PersistFails, Fault, Lossless, NoLoss
  <2>2. attempt <= edits /\ edits \in 0 .. MaxEdits /\ attempt \in 0 .. Steps
    BY <2>1 DEF RefinementInv, OrphanInv, Tries, TypeInv, TypeOK
  <2> QED
    BY <2>1, <2>2 DEF Lossless, NoLoss
<1> QED
  BY <1>1, <1>2

\* A failing query changes no list: what markFailed writes is in hand.
LEMMA FailureRefines ==
  ASSUME Lossless, RefinementInv, QueryFails \/ FailureMarked \/ FailureNotMarked
  PROVE  UNCHANGED Contract!vars
<1>1. CASE QueryFails
  <2>1. /\ UNCHANGED <<wl, gb, cur, acted>> /\ st'.enforced = st.enforced
        /\ pc = "query" /\ pc' = "failed"
    BY <1>1 DEF QueryFails, enforcerVars, objects, frame, budgetVars,
       RefinementInv, TypeInv, TypeOK, Status
  <2>2. UNCHANGED <<ThereNow, HeldNow, ListedNow, AskedNow>>
    BY <2>1 DEF ThereNow, HeldNow, ListedNow, AskedNow
  <2> QED
    BY <2>2, ContractStutter
<1>2. CASE FailureMarked
  <2>1. /\ pc = "failed" /\ pc' = "idle" /\ cur \in Budgets /\ cur' = None /\ None \notin Budgets
        /\ UNCHANGED <<wl, acted>> /\ acted = {}
        /\ gb \in [Budgets -> GpuBudget] /\ gb[cur] = base
    BY <1>2 DEF FailureMarked, Finish, enforcerVars, objects, frame,
       RefinementInv, TypeInv, TypeOK, Control
  <2>2. gb' = [gb EXCEPT ![cur] = [base EXCEPT !.enforced = st.enforced, !.phase = st.phase]]
    BY <1>2 DEF FailureMarked, WriteBudget
  <2>3. /\ gb'[cur].enforced = st.enforced /\ gb'[cur].reset = gb[cur].reset
        /\ \A b \in Budgets \ {cur} : gb'[b] = gb[b]
    BY <2>1, <2>2 DEF GpuBudget
  <2>4. UNCHANGED <<ThereNow, HeldNow, ListedNow, AskedNow>>
    BY <2>1, <2>3 DEF ThereNow, HeldNow, ListedNow, AskedNow
  <2> QED
    BY <2>4, ContractStutter
<1>3. ~FailureNotMarked
  BY DEF FailureNotMarked, Fault, Lossless, NoLoss, RefinementInv, Answering
<1> QED
  BY <1>1, <1>2, <1>3

LEMMA ReconcileRefines ==
  ASSUME Lossless, RefinementInv, Reconcile
  PROVE  Contract!Next \/ UNCHANGED Contract!vars
<1>1. CASE UsageCompliant
  <2>1. /\ UNCHANGED <<wl, gb, cur, acted>> /\ st'.enforced = st.enforced
        /\ pc = "query" /\ pc' = "get"
    BY <1>1 DEF UsageCompliant, enforcerVars, objects, frame, budgetVars,
       RefinementInv, TypeInv, TypeOK, Status
  <2>2. UNCHANGED <<ThereNow, HeldNow, ListedNow, AskedNow>>
    BY <2>1 DEF ThereNow, HeldNow, ListedNow, AskedNow
  <2> QED
    BY <2>2, ContractStutter
<1>2. CASE StartEnforcing \/ PersistGet \/ PersistAgain
  BY <1>2, NothingSeen DEF StartEnforcing, BeginEnforce, PersistGet, PersistAgain,
     enforcerVars, objects, frame, budgetVars
<1>3. CASE QueryFails \/ FailureMarked \/ FailureNotMarked
  BY <1>3, FailureRefines
<1> QED
  BY <1>1, <1>2, <1>3, ResetGivenUpRefines, ResetClearedRefines, MergeRefines, PersistRefines
     DEF Reconcile

-----------------------------------------------------------------------------
(* The steps of the Enforcer, the owners and the users                     *)

\* A step that takes the originals of some objects and touches no list.
LEMMA HeldStep ==
  ASSUME Outside, UNCHANGED acted
  PROVE  ListedNow' = ListedNow /\ AskedNow' = AskedNow
BY DEF Outside, budgetVars, local, ListedNow, AskedNow

LEMMA EnforcingRefines ==
  ASSUME Lossless, RefinementInv, Enforcing, Outside
  PROVE  Contract!Next \/ UNCHANGED Contract!vars
<1>0. /\ wl \in [Workloads -> Object] /\ cur \in Budgets
      /\ WorkloadsAssumption /\ ListedActionable
  BY EnforcingFrame, WorkloadsAssumption
     DEF RefinementInv, TypeInv, TypeOK, IInv, EnforcerTypeOK, Control
<1>1. UNCHANGED <<gb, cur, st, pc>>
  BY DEF Outside, budgetVars, local
<1>2. ASSUME NEW w \in Workloads, acted' = acted \union {w}
      PROVE  ListedNow' = [ListedNow EXCEPT ![cur] = @ \union {w}] /\ AskedNow' = AskedNow
  BY <1>0, <1>1, <1>2 DEF ListedNow, AskedNow
<1>3. ASSUME NEW w \in Workloads, ActOn(w)
      PROVE  Contract!Next \/ UNCHANGED Contract!vars
  <2>1. /\ wl' = [wl EXCEPT ![w] = Stopped(KindOf[w], wl[w])] /\ list[w] = wl[w]
        /\ Reversible(KindOf[w]) /\ NeedsAction(KindOf[w], wl[w])
        /\ acted' = IF Reported(KindOf[w], wl[w]) THEN acted \union {w} ELSE acted
    BY <1>0, <1>3 DEF ActOn, Write, Item, ListedActionable
  <2>2. wl[w] \in Object /\ None \notin Levels /\ w \in ThereNow
    BY <1>0, <2>1 DEF WorkloadsAssumption, Levels, ThereNow, NeedsAction, Eligible
  <2>3. CASE Reported(KindOf[w], wl[w])
    <3>1. Stopped(KindOf[w], wl[w]).saved # None
      BY <2>1, <2>2, <2>3 DEF Reported, Stopped, Captures, Object
    <3>2. ThereNow' = ThereNow /\ HeldNow' = HeldNow \union {w}
      BY <1>0, <2>1, <2>2, <3>1 DEF ThereNow, HeldNow, Stopped, Object
    <3> QED
      BY <1>0, <1>2, <2>1, <2>2, <2>3, <3>2, ContractTakeDown
  <2>4. CASE ~Reported(KindOf[w], wl[w])
    <3>1. wl[w].saved # None /\ Stopped(KindOf[w], wl[w]).saved = wl[w].saved
      BY <2>2, <2>4 DEF Reported, Stopped, Captures, Object
    <3>2. ThereNow' = ThereNow /\ HeldNow' = HeldNow
      BY <1>0, <2>1, <2>2, <3>1 DEF ThereNow, HeldNow, Stopped, Object
    <3> QED
      BY <2>1, <2>4, <3>2, HeldStep, ContractStutter
  <2> QED
    BY <2>3, <2>4
<1>4. ASSUME NEW w \in Workloads, DeletePod(w)
      PROVE  Contract!Next \/ UNCHANGED Contract!vars
  <2>1. CASE UNCHANGED <<wl, acted>>
    BY <1>1, <2>1, NothingSeen
  <2>2. CASE /\ wl' = [wl EXCEPT ![w] = [wl[w] EXCEPT !.level = 0]]
             /\ wl[w].live /\ acted' = acted \union {w}
    <3>1. ThereNow' = ThereNow /\ HeldNow' = HeldNow
      BY <1>0, <2>2 DEF ThereNow, HeldNow, Object
    <3>2. w \in ThereNow /\ ~Reversible(KindOf[w])
      BY <1>4, <2>2 DEF ThereNow, DeletePod, Reversible
    <3> QED
      BY <1>0, <1>2, <2>2, <3>1, <3>2, ContractDelete
  <2> QED
    BY <1>4, <2>1, <2>2 DEF DeletePod, Write
<1>5. CASE UNCHANGED <<wl, acted>>
  BY <1>1, <1>5, NothingSeen
<1> QED
  BY <1>3, <1>4, <1>5 DEF Enforcing, ListKind, ListFails, ActFails, objects

\* An original goes back only under a reset that lists the object.
LEMMA RestoringRefines ==
  ASSUME RefinementInv, Restoring, Outside
  PROVE  Contract!Next \/ UNCHANGED Contract!vars
<1>1. /\ call = "restore" /\ pc = "restore" /\ cur \in Budgets /\ UNCHANGED acted
      /\ UNCHANGED <<gb, cur, st, pc>> /\ given = st.enforced /\ left \subseteq given
      /\ wl \in [Workloads -> Object]
  BY RestoringFrame DEF Outside, budgetVars, local, RefinementInv, TypeInv, TypeOK,
     EnforcerTypeOK, Control, OrphanInv, InHand
<1>2. ASSUME NEW w \in Workloads, RestoreEntry(w)
      PROVE  Contract!Next
  <2>1. wl' = [wl EXCEPT ![w] = Restored(wl[w])] /\ w \in left
    BY <1>2 DEF RestoreEntry, Write, Entry
  <2>2. Restored(wl[w]).saved = None
    BY <1>1 DEF Restored, Object
  <2>3. ThereNow' = ThereNow /\ HeldNow' = HeldNow \ {w}
    BY <1>1, <2>1, <2>2 DEF ThereNow, HeldNow, Restored, Object
  <2>4. cur \in AskedNow /\ w \in ListedNow[cur]
    BY <1>1, <2>1 DEF AskedNow, ListedNow
  <2>5. ListedNow' = ListedNow /\ AskedNow' = AskedNow
    BY <1>1, HeldStep
  <2> QED
    BY <2>3, <2>4, <2>5, ContractGiveBack
<1>3. CASE UNCHANGED wl
  BY <1>1, <1>3, NothingSeen
<1> QED
  BY <1>2, <1>3 DEF Restoring, SkipEntry, RestoreFails, objects

LEMMA ClusterRefines ==
  ASSUME RefinementInv, Cluster, Outside
  PROVE  Contract!Next \/ UNCHANGED Contract!vars
<1>0. wl \in [Workloads -> Object] /\ Tracked
  BY DEF RefinementInv, TypeInv, TypeOK, EnforcerTypeOK, OrphanInv
<1>1. ListedNow' = ListedNow /\ AskedNow' = AskedNow
  BY ClusterFrame, HeldStep DEF frame
<1>2. ASSUME NEW w \in Workloads, Create(w)
      PROVE  Contract!Next
  <2>1. /\ wl'[w].saved = None /\ wl'[w].live /\ ~wl[w].live
        /\ \A v \in Workloads \ {w} : wl'[v] = wl[v]
    BY <1>0, <1>2 DEF Create, Write, Created
  <2>2. wl[w].saved = None
    BY <2>1, <1>0 DEF Tracked
  <2>3. ThereNow' = ThereNow \union {w} /\ HeldNow' = HeldNow
    BY <2>1, <2>2 DEF ThereNow, HeldNow
  <2> QED
    BY <1>1, <2>3, ContractAppear
<1>5. ASSUME NEW w \in Workloads, Remove(w) \/ PodGone(w)
      PROVE  Contract!Next
  <2>1. wl'[w] = Absent /\ \A v \in Workloads \ {w} : wl'[v] = wl[v]
    BY <1>0, <1>5 DEF Remove, PodGone, Write
  <2>2. ThereNow' = ThereNow \ {w} /\ HeldNow' = HeldNow \ {w}
    BY <2>1 DEF ThereNow, HeldNow, Absent
  <2> QED
    BY <1>1, <2>2, ContractVanish
<1>3. ASSUME NEW w \in Workloads, Scale(w)
      PROVE  UNCHANGED Contract!vars
  <2>1. \A v \in Workloads : wl'[v].saved = wl[v].saved /\ wl'[v].live = wl[v].live
    BY <1>0, <1>3 DEF Scale, Write, Object
  <2>2. ThereNow' = ThereNow /\ HeldNow' = HeldNow
    BY <2>1 DEF ThereNow, HeldNow
  <2> QED
    BY <1>1, <2>2, ContractStutter
<1>4. CASE UNCHANGED wl
  <2>1. ThereNow' = ThereNow /\ HeldNow' = HeldNow
    BY <1>4 DEF ThereNow, HeldNow
  <2> QED
    BY <1>1, <2>1, ContractStutter
<1> QED
  BY <1>2, <1>3, <1>4, <1>5 DEF Cluster, Deliver, Calm, objects

LEMMA UsersRefine ==
  ASSUME RefinementInv, Users
  PROVE  Contract!Next \/ UNCHANGED Contract!vars
<1>0. gb \in [Budgets -> GpuBudget] /\ TypeOK
  BY DEF RefinementInv, TypeInv, TypeOK
<1>1. ASSUME NEW b \in Budgets, AskReset(b) \/ WithdrawReset(b) \/ SetLimit(b)
      PROVE  Contract!Next \/ UNCHANGED Contract!vars
  <2>1. /\ \A c \in Budgets : gb'[c].enforced = gb[c].enforced
        /\ UNCHANGED <<enforcerVars, pc, cur, st>>
    BY <1>0, <1>1, EditEffect
  <2>2. ThereNow' = ThereNow /\ HeldNow' = HeldNow /\ ListedNow' = ListedNow
    BY <2>1 DEF enforcerVars, objects, frame, ThereNow, HeldNow, ListedNow
  <2>3. \A c \in Budgets \ {b} : gb'[c] = gb[c]
    BY <1>0, <1>1 DEF AskReset, WithdrawReset, SetLimit, Edit, WriteBudget
  <2>4. CASE AskReset(b)
    <3>1. gb'[b].reset = TRUE
      BY <1>0, <2>4 DEF AskReset, Edit, WriteBudget, GpuBudget
    <3>2. AskedNow' = AskedNow \union {b}
      BY <2>1, <2>3, <3>1 DEF AskedNow
    <3> QED
      BY <2>2, <3>2, ContractAsk
  <2>5. CASE WithdrawReset(b)
    <3>1. gb[b].reset /\ gb'[b].reset = FALSE
      BY <1>0, <2>5 DEF WithdrawReset, Edit, WriteBudget, GpuBudget
    <3>2. CASE cur = b /\ pc = "restore"
      <4>1. AskedNow' = AskedNow
        BY <2>1, <2>3, <3>1, <3>2 DEF AskedNow
      <4> QED
        BY <2>2, <4>1, ContractStutter
    <3>3. CASE ~(cur = b /\ pc = "restore")
      <4>1. AskedNow' = AskedNow \ {b}
        BY <2>1, <2>3, <3>1, <3>3 DEF AskedNow
      <4> QED
        BY <2>2, <4>1, ContractWithdraw
    <3> QED
      BY <3>2, <3>3
  <2>6. CASE SetLimit(b)
    <3>1. gb'[b].reset = gb[b].reset
      BY <1>0, <2>6 DEF SetLimit, Edit, WriteBudget, GpuBudget
    <3>2. AskedNow' = AskedNow
      BY <2>1, <2>3, <3>1 DEF AskedNow
    <3> QED
      BY <2>2, <3>2, ContractStutter
  <2> QED
    BY <1>1, <2>4, <2>5, <2>6
<1>2. CASE UsageMoves
  BY <1>2, NothingSeen DEF UsageMoves, enforcerVars, objects, frame, budgetVars, local
<1> QED
  BY <1>1, <1>2 DEF Users

LEMMA NextRefines ==
  ASSUME Lossless
  PROVE  RefinementInv /\ [Next]_vars => [Contract!Next]_Contract!vars
<1> SUFFICES ASSUME RefinementInv, [Next]_vars
             PROVE  Contract!Next \/ UNCHANGED Contract!vars
  OBVIOUS
<1>1. CASE \E b \in Budgets : Start(b)
  BY <1>1, StartRefines
<1>2. CASE Call
  BY <1>2, EnforcingRefines, RestoringRefines DEF Call
<1>3. CASE Reconcile
  BY <1>3, ReconcileRefines
<1>4. ~Crash
  BY DEF Crash, Fault, Lossless, NoLoss
<1>5. CASE Cluster /\ Outside
  BY <1>5, ClusterRefines
<1>6. CASE Users
  BY <1>6, UsersRefine
<1>7. CASE UNCHANGED vars \/ \E b \in Budgets : DeliverBudget(b)
  BY <1>7, NothingSeen DEF vars, DeliverBudget, enforcerVars, objects, frame, budgetVars, local
<1> QED
  BY <1>1, <1>2, <1>3, <1>4, <1>5, <1>6, <1>7 DEF Next

\* As long as no write of a GpuBudget and no query is lost and the caches
\* keep up, the dozen calls of a reconcile amount to the contract: what is
\* taken down is recorded in the same step, nothing is given back that no
\* pending reset lists, a reset closes when all it lists is given back.
THEOREM ContractImplemented ==
  ASSUME Lossless
  PROVE  Spec => ImplementsContract
<1>1. RefinementInv /\ [Next]_vars => RefinementInv'
  BY NextRefinementInv
<1>2. RefinementInv /\ [Next]_vars => [Contract!Next]_Contract!vars
  BY NextRefines
<1> QED
  BY <1>1, <1>2, InitRefinementInv, ContractInit, PTL DEF Spec, ImplementsContract, Contract!Spec

=============================================================================
