------------------------------ MODULE Workloads ------------------------------
(***************************************************************************)
(* The GPU workloads of one namespace, as enforce/enforce.go reads and     *)
(* writes them: pure operators on one object, no state.                    *)
(*                                                                         *)
(* An object is what the enforcement of its kind looks at.  "level" stands *)
(* for the one field the operator turns down: spec.replicas, the replica   *)
(* bounds of an InferenceService (one component here), NOT spec.suspend    *)
(* (0 suspended, 1 running), and for a Pod 1 alive, 0 deletionTimestamp    *)
(* set.  An unset pointer reads as level 1, as in the code ("original :=   *)
(* int32(1)", "found && suspended").  "saved" is the gpubudget.io/         *)
(* original-* annotation, None when the object does not carry it.          *)
(***************************************************************************)
EXTENDS Integers

CONSTANTS
  Workloads,    \* names of the workload objects of the namespace
  KindOf,       \* KindOf[w] is the kind of the object named w
  MaxReplicas,  \* bound: the largest replica count a user asks for
  None          \* no annotation

\* The place of each kind in the loop of EnforceNamespace.
EnforceOrder == [Deployment |-> 1, StatefulSet |-> 2, ReplicaSet |-> 3,
                 JobSet |-> 4, Job |-> 5, InferenceService |-> 6, Pod |-> 7]

Kinds == DOMAIN EnforceOrder

ASSUME WorkloadsAssumption ==
  /\ KindOf \in [Workloads -> Kinds]
  /\ MaxReplicas \in Nat \ {0}
  /\ None \notin Nat

Levels == 0 .. MaxReplicas

\* A suspend switch and a Pod have two positions only.
LevelsOf(k) == IF k \in {"JobSet", "Job", "Pod"} THEN {0, 1} ELSE Levels

Object == [live: BOOLEAN, gpu: BOOLEAN, owned: BOOLEAN,
           level: Levels, saved: Levels \union {None}]

Absent == [live |-> FALSE, gpu |-> FALSE, owned |-> FALSE,
           level |-> 0, saved |-> None]

\* A Pod is deleted for good; every other kind can be given back.
Reversible(k) == k # "Pod"

\* The kinds whose enforcement skips an object with an ownerReference.
OwnerChecked == {"ReplicaSet", "Job", "Pod"}

\* The object requests nvidia.com/gpu and nobody else answers for it.
Eligible(k, o) == o.live /\ o.gpu /\ (k \in OwnerChecked => ~o.owned)

\* Mutant of NeedsAction: what bears the annotation counts as enforced.
NeedsActionUnlessMarked(k, o) == Eligible(k, o) /\ o.level # 0 /\ o.saved = None

\* The checks an enforce function makes on a listed item before it acts: an
\* InferenceService that carries the annotation is re-affirmed even at zero.
NeedsAction(k, o) ==
  /\ Eligible(k, o)
  /\ \/ o.level # 0
     \/ k = "InferenceService" /\ o.saved # None

\* Mutant of Captures: every pass records what it finds.
CapturesAlways(k, o) == Reversible(k)

\* An InferenceService keeps the original captured first; the other kinds
\* overwrite the annotation with the level they are about to take down.
Captures(k, o) == Reversible(k) /\ (k = "InferenceService" => o.saved = None)

Stopped(k, o) ==
  [o EXCEPT !.level = 0, !.saved = IF Captures(k, o) THEN o.level ELSE @]

\* Whether acting on the object yields an EnforcedResource entry: a
\* re-affirmed InferenceService (newlyCaptured = false) yields none.
Reported(k, o) == k = "InferenceService" => o.saved = None

\* Mutant of Restorable: the annotation is taken for granted.
RestorableUnmarked(k, o) == Reversible(k) /\ o.live

\* What a restore function does to the object it has read: nothing at all
\* to one that is gone or bears no annotation.
Restorable(k, o) == Reversible(k) /\ o.live /\ o.saved # None

Restored(o) == [o EXCEPT !.level = o.saved, !.saved = None]

==============================================================================
