------------------------------ MODULE Enforcer ------------------------------
(***************************************************************************)
(* EnforceNamespace and RestoreNamespace of enforce/enforce.go, one step   *)
(* per call to the API server, against the objects of one namespace that   *)
(* their owners go on creating, scaling and deleting meanwhile.            *)
(*                                                                         *)
(* The client is the manager's: List and Get of the typed kinds answer     *)
(* from an informer cache ("seen") that may lag behind the API server      *)
(* ("wl"), those of the unstructured kinds (JobSet, InferenceService) go   *)
(* to the API server.  An Update carries the resourceVersion it was read   *)
(* with, so it succeeds only on an object that is still what was read; a   *)
(* Delete carries none.  The Spec of this module calls the two operations  *)
(* at any time with any arguments; Reconciler is the caller of the code.   *)
(***************************************************************************)
EXTENDS Workloads, Functions

CONSTANTS
  Shapes,  \* the [gpu, owned] pairs of the objects users create
  Stuck,   \* the objects an admission webhook never lets be restored
  Moves,   \* what happens beside the operator in a run: see MoveNames
  Faults   \* what fails in a run: see FaultNames

MoveNames == {"create", "remove", "scale", "reset", "withdraw", "limit",
              "usage", "calm"}

FaultNames == {"enforceErr", "restoreErr", "queryErr", "budgetErr", "crash",
               "lagObjects", "lagBudgets"}

ASSUME EnforcerAssumption ==
  /\ Shapes \subseteq [gpu : BOOLEAN, owned : BOOLEAN]
  /\ Stuck \subseteq Workloads
  /\ Moves \subseteq MoveNames
  /\ Faults \subseteq FaultNames

VARIABLES
  wl,       \* the objects, as the API server stores them
  seen,     \* the objects, as the informer cache of the operator has them
  want,     \* history: the level each object's owner last asked for
  calm,     \* from here on nothing moves and nothing fails but the operator
  call,     \* the operation in progress: "none", "enforce" or "restore"
  pending,  \* EnforceNamespace: kinds whose step has not run yet
  list,     \* EnforceNamespace: items of the current kind still to act on
  acted,    \* EnforceNamespace: the slice it will return
  given,    \* RestoreNamespace: its argument enforcedResources
  left,     \* RestoreNamespace: entries of "given" not yet visited
  errs      \* either: the kinds, or the entries, whose error is joined

objects == <<wl, seen, want>>
frame == <<call, pending, list, acted, given, left, errs>>
enforcerVars == <<objects, calm, frame>>

Lagging == "lagObjects" \in Faults

May(m) == m \in Moves /\ ~calm
Fault(f) == f \in Faults /\ ~calm

NoItems == [w \in {} |-> Absent]

\* What a List or a Get of the operator returns for w.
View(w) == IF KindOf[w] \in {"JobSet", "InferenceService"} THEN wl[w] ELSE seen[w]

Write(w, o) ==
  /\ wl' = [wl EXCEPT ![w] = o]
  /\ seen' = IF Lagging THEN seen ELSE wl'

\* The levels an object can be created with.
Initials(k) == IF k = "Pod" THEN {1} ELSE LevelsOf(k)

Created(s, n) == [live |-> TRUE, gpu |-> s.gpu, owned |-> s.owned,
                  level |-> n, saved |-> None]

FreshObjects(k) == {Absent} \union {Created(s, n) : s \in Shapes, n \in Initials(k)}

NoCall ==
  /\ call = "none"  /\ pending = {}  /\ list = NoItems  /\ acted = {}
  /\ given = {}     /\ left = {}     /\ errs = {}

EnforcerInit ==
  /\ wl \in [Workloads -> UNION {FreshObjects(k) : k \in Kinds}]
  /\ \A w \in Workloads : wl[w] \in FreshObjects(KindOf[w])
  /\ seen = wl
  /\ want = [w \in Workloads |-> wl[w].level]
  /\ calm = FALSE
  /\ NoCall

-----------------------------------------------------------------------------
(* EnforceNamespace                                                        *)

\* Kinds without an object in the instance are not visited.
BeginEnforce ==
  /\ call = "none"
  /\ call' = "enforce"
  /\ pending' = {KindOf[w] : w \in Workloads}
  /\ UNCHANGED <<objects, calm, list, acted, given, left, errs>>

NextKind(k) ==
  /\ call = "enforce" /\ list = NoItems
  /\ k \in pending
  /\ \A j \in pending : EnforceOrder[k] <= EnforceOrder[j]
  /\ pending' = pending \ {k}

\* The List of one kind, and the checks that skip an item without a call.
ListKind(k) ==
  /\ NextKind(k)
  /\ list' = Restrict([w \in Workloads |-> View(w)],
                      {w \in Workloads : KindOf[w] = k /\ NeedsAction(k, View(w))})
  /\ UNCHANGED <<objects, calm, call, acted, given, left, errs>>

ListFails(k) ==
  /\ Fault("enforceErr")
  /\ NextKind(k)
  /\ errs' = errs \union {k}
  /\ UNCHANGED <<objects, calm, call, list, acted, given, left>>

\* The items follow in the order of the cache's map: in any order.
Item(w) == call = "enforce" /\ w \in DOMAIN list

Unlist(w) == list' = Restrict(list, DOMAIN list \ {w})

\* Mutant of ActOn: an update that carries no resourceVersion.
ActOnWhateverIsThere(w) ==
  /\ Item(w) /\ Reversible(KindOf[w])
  /\ Write(w, Stopped(KindOf[w], list[w]))
  /\ Unlist(w)
  /\ acted' = IF Reported(KindOf[w], list[w]) THEN acted \union {w} ELSE acted
  /\ UNCHANGED <<want, calm, call, pending, given, left, errs>>

\* Annotate and turn down a listed object, in one Update.
ActOn(w) ==
  /\ Item(w) /\ Reversible(KindOf[w])
  /\ wl[w] = list[w]
  /\ Write(w, Stopped(KindOf[w], list[w]))
  /\ Unlist(w)
  /\ acted' = IF Reported(KindOf[w], list[w]) THEN acted \union {w} ELSE acted
  /\ UNCHANGED <<want, calm, call, pending, given, left, errs>>

\* Delete a listed Pod by its name; a Pod that is gone is skipped.
DeletePod(w) ==
  /\ Item(w) /\ KindOf[w] = "Pod"
  /\ \/ /\ wl[w].live
        /\ Write(w, [wl[w] EXCEPT !.level = 0])
        /\ acted' = acted \union {w}
     \/ /\ ~wl[w].live
        /\ UNCHANGED <<wl, seen, acted>>
  /\ Unlist(w)
  /\ UNCHANGED <<want, calm, call, pending, given, left, errs>>

\* Mutant of ActFails: the first failure ends the whole pass.
ActFailsAndStops(w) ==
  /\ Item(w)
  /\ \/ Fault("enforceErr")
     \/ Reversible(KindOf[w]) /\ wl[w] # list[w]
  /\ errs' = errs \union {KindOf[w]}
  /\ list' = NoItems
  /\ pending' = {}
  /\ UNCHANGED <<objects, calm, call, acted, given, left>>

\* A conflict, or any other error, ends the step of the kind: the items after
\* the failed one are dropped, the entries before it are kept.
ActFails(w) ==
  /\ Item(w)
  /\ \/ Fault("enforceErr")
     \/ Reversible(KindOf[w]) /\ wl[w] # list[w]
  /\ errs' = errs \union {KindOf[w]}
  /\ list' = NoItems
  /\ UNCHANGED <<objects, calm, call, pending, acted, given, left>>

EnforceFinished == call = "enforce" /\ pending = {} /\ list = NoItems

Return ==
  /\ call' = "none"  /\ pending' = {}  /\ list' = NoItems  /\ acted' = {}
  /\ given' = {}     /\ left' = {}     /\ errs' = {}
  /\ UNCHANGED <<objects, calm>>

EnforceReturns == EnforceFinished /\ Return

-----------------------------------------------------------------------------
(* RestoreNamespace                                                        *)

BeginRestore(entries) ==
  /\ call = "none"
  /\ call' = "restore"
  /\ given' = entries
  /\ left' = entries
  /\ UNCHANGED <<objects, calm, pending, list, acted, errs>>

Entry(w) == call = "restore" /\ w \in left /\ left' = left \ {w}

\* A Pod, an object that is gone, one that bears no annotation.
SkipEntry(w) ==
  /\ Entry(w)
  /\ ~Restorable(KindOf[w], View(w))
  /\ UNCHANGED <<objects, calm, call, pending, list, acted, given, errs>>

\* The Get and the Update of one restore function, as one step: what another
\* writer does between the two is a conflict, that is RestoreFails.
RestoreEntry(w) ==
  /\ Entry(w)
  /\ Restorable(KindOf[w], View(w)) /\ w \notin Stuck
  /\ wl[w] = View(w)
  /\ Write(w, Restored(wl[w]))
  /\ want' = [want EXCEPT ![w] = wl[w].saved]
  /\ UNCHANGED <<calm, call, pending, list, acted, given, errs>>

\* Mutant of RestoreFails: the first failure ends the loop.
RestoreFailsAndStops(w) ==
  /\ call = "restore" /\ w \in left /\ Reversible(KindOf[w])
  /\ \/ Fault("restoreErr")
     \/ Restorable(KindOf[w], View(w)) /\ (wl[w] # View(w) \/ w \in Stuck)
  /\ left' = {}
  /\ errs' = errs \union {w}
  /\ UNCHANGED <<objects, calm, call, pending, list, acted, given>>

\* Mutant of RestoreFails: the error is logged and forgotten.
RestoreFailsSilently(w) ==
  /\ Entry(w) /\ Reversible(KindOf[w])
  /\ \/ Fault("restoreErr")
     \/ Restorable(KindOf[w], View(w)) /\ (wl[w] # View(w) \/ w \in Stuck)
  /\ UNCHANGED <<objects, calm, call, pending, list, acted, given, errs>>

\* The error is kept for the join and the loop goes on.
RestoreFails(w) ==
  /\ Entry(w) /\ Reversible(KindOf[w])
  /\ \/ Fault("restoreErr")
     \/ Restorable(KindOf[w], View(w)) /\ (wl[w] # View(w) \/ w \in Stuck)
  /\ errs' = errs \union {w}
  /\ UNCHANGED <<objects, calm, call, pending, list, acted, given>>

RestoreFinished == call = "restore" /\ left = {}

RestoreReturns == RestoreFinished /\ Return

-----------------------------------------------------------------------------
(* The rest of the cluster                                                 *)

\* An owner creates an object, under a name that may have been used before.
Create(w) ==
  /\ May("create")
  /\ ~wl[w].live
  /\ \E s \in Shapes, n \in Initials(KindOf[w]) :
       /\ Write(w, Created(s, n))
       /\ want' = [want EXCEPT ![w] = n]
  /\ UNCHANGED <<calm, frame>>

Remove(w) ==
  /\ May("remove")
  /\ wl[w].live
  /\ Write(w, Absent)
  /\ want' = [want EXCEPT ![w] = 0]
  /\ UNCHANGED <<calm, frame>>

\* An owner scales, suspends or resumes an object, enforced or not; the
\* annotation, which is not theirs, stays.
Scale(w) ==
  /\ May("scale")
  /\ wl[w].live /\ Reversible(KindOf[w])
  /\ \E n \in LevelsOf(KindOf[w]) \ {wl[w].level} :
       /\ Write(w, [wl[w] EXCEPT !.level = n])
       /\ want' = [want EXCEPT ![w] = n]
  /\ UNCHANGED <<calm, frame>>

\* The kubelet finishes the deletion of a Pod.
PodGone(w) ==
  /\ wl[w].live /\ KindOf[w] = "Pod" /\ wl[w].level = 0
  /\ Write(w, Absent)
  /\ UNCHANGED <<want, calm, frame>>

\* A watch event brings the cache up to date with one object.
Deliver(w) ==
  /\ seen[w] # wl[w]
  /\ seen' = [seen EXCEPT ![w] = wl[w]]
  /\ UNCHANGED <<wl, want, calm, frame>>

Calm ==
  /\ May("calm")
  /\ calm' = TRUE
  /\ UNCHANGED <<objects, frame>>

\* The operator's process dies; its next one starts with no call in progress.
OperatorDies == Fault("crash") /\ call # "none" /\ Return

-----------------------------------------------------------------------------
Enforcing ==
  \/ \E k \in Kinds : ListKind(k) \/ ListFails(k)
  \/ \E w \in Workloads : ActOn(w) \/ DeletePod(w) \/ ActFails(w)

Restoring == \E w \in Workloads : SkipEntry(w) \/ RestoreEntry(w) \/ RestoreFails(w)

Cluster ==
  \/ \E w \in Workloads : Create(w) \/ Remove(w) \/ Scale(w) \/ PodGone(w) \/ Deliver(w)
  \/ Calm

EnforcerNext ==
  \/ BeginEnforce
  \/ \E entries \in SUBSET Workloads : BeginRestore(entries)
  \/ Enforcing \/ EnforceReturns
  \/ Restoring \/ RestoreReturns
  \/ OperatorDies
  \/ Cluster

EnforcerSpec == EnforcerInit /\ [][EnforcerNext]_enforcerVars

-----------------------------------------------------------------------------
(* Properties                                                              *)

EnforcerTypeOK ==
  /\ wl \in [Workloads -> Object]
  /\ seen \in [Workloads -> Object]
  /\ want \in [Workloads -> Levels]
  /\ calm \in BOOLEAN
  /\ call \in {"none", "enforce", "restore"}
  /\ pending \subseteq Kinds
  /\ DOMAIN list \subseteq Workloads
  /\ \A w \in DOMAIN list : list[w] \in Object
  /\ acted \subseteq Workloads
  /\ given \subseteq Workloads
  /\ left \subseteq given
  /\ errs \subseteq Kinds \union Workloads

\* Whatever fails, lags or dies, and whatever the owners do meanwhile, an
\* object the operator turned down carries a level to give back: never zero,
\* and the one its owner last asked for.  (An InferenceService keeps the
\* first one captured, a later wish of its owner is not recorded.)
Recoverable ==
  \A w \in Workloads :
    Reversible(KindOf[w]) /\ wl[w].live /\ wl[w].level = 0 /\ want[w] # 0
      => /\ wl[w].saved \in Levels \ {0}
         /\ KindOf[w] # "InferenceService" => wl[w].saved = want[w]

\* RestoreNamespace stops at nothing: when it is through its list, every
\* entry is given back unless its own restore failed.
RestoreAttemptsAll ==
  RestoreFinished /\ ~Lagging
    => \A w \in given \ errs : wl[w].live => wl[w].saved = None

Touched == {w \in DOMAIN list \ DOMAIN list' : wl'[w] # wl[w]}

\* Only workloads that request GPUs, and are nobody else's, are touched: the
\* object a call of EnforceNamespace updates is eligible when it is updated,
\* not only when it was listed, in a cache that may lag.
OnlyEligibleUpdated ==
  [][\A w \in Touched :
       Reversible(KindOf[w]) => Eligible(KindOf[w], wl[w])]_enforcerVars

\* The same of the Pods it deletes: workloads without GPUs are left running.
OnlyEligibleDeleted ==
  [][\A w \in Touched :
       ~Reversible(KindOf[w]) => Eligible(KindOf[w], wl[w])]_enforcerVars

==============================================================================
