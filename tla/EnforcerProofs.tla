--------------------------- MODULE EnforcerProofs ---------------------------
(***************************************************************************)
(* Type correctness, Recoverable, OnlyEligibleUpdated and                  *)
(* RestoreAttemptsAll, for every set of workloads, every assignment of     *)
(* kinds and every choice of moves and faults: a cache that lags, calls    *)
(* that fail and an operator that dies at any point included; and          *)
(* OnlyEligibleDeleted, as long as the names of Pods are not used again    *)
(* too soon (FreshPodNames).                                               *)
(***************************************************************************)
EXTENDS Enforcer, TLAPS

\* One object and the level its owner wants: a recorded original is worth
\* restoring; a running object runs as wanted, since only the operator takes
\* one where nobody asked for, and that is zero; one it took there has the
\* original on it.
Sound(k, o, n) ==
  /\ o.saved # None => o.saved \in Levels \ {0}
  /\ Reversible(k) /\ o.live
       => /\ o.level # 0 => o.level = n
          /\ o.level = 0 /\ n # 0
               => /\ o.saved \in Levels \ {0}
                  /\ k # "InferenceService" => o.saved = n

ObjectsSound == \A w \in Workloads : Sound(KindOf[w], wl[w], want[w])

\* What waits in the list passed the checks of its kind when it was read.
ListedActionable ==
  \A w \in DOMAIN list : NeedsAction(KindOf[w], list[w])

IInv == EnforcerTypeOK /\ ObjectsSound /\ ListedActionable

USE WorkloadsAssumption, EnforcerAssumption
    DEF WorkloadsAssumption, EnforcerAssumption

-----------------------------------------------------------------------------
(* The objects                                                             *)

LEMMA LevelsOfType ==
  ASSUME NEW k PROVE LevelsOf(k) \subseteq Levels /\ Initials(k) \subseteq Levels
BY DEF LevelsOf, Levels, Initials

\* An object of the pure operators is an object, and a turned down one can
\* be told from one with nothing to give back.
LEMMA FreshType ==
  ASSUME NEW k PROVE FreshObjects(k) \subseteq Object
<1>1. Absent \in Object
  BY DEF Absent, Object, Levels
<1>2. ASSUME NEW s \in Shapes, NEW n \in Initials(k)
      PROVE  Created(s, n) \in Object
  BY <1>2, LevelsOfType DEF Created, Object
<1> QED
  BY <1>1, <1>2 DEF FreshObjects

LEMMA StoppedType ==
  ASSUME NEW k, NEW o \in Object
  PROVE  Stopped(k, o) \in Object
<1>1. ASSUME NEW n \in Levels, NEW s \in Levels \union {None}
      PROVE  [o EXCEPT !.level = n, !.saved = s] \in Object
  BY <1>1 DEF Object
<1>2. o.level \in Levels /\ o.saved \in Levels \union {None} /\ 0 \in Levels
  BY DEF Object, Levels
<1>3. CASE Captures(k, o)
  BY <1>1, <1>2, <1>3 DEF Stopped
<1>4. CASE ~Captures(k, o)
  BY <1>1, <1>2, <1>4 DEF Stopped
<1> QED
  BY <1>3, <1>4

\* What a restore gives back is the object as it was before it was stopped.
LEMMA RoundTrip ==
  ASSUME NEW k \in Kinds \ {"Pod"}, NEW o \in Object, o.saved = None
  PROVE  Restored(Stopped(k, o)) = o
BY DEF Restored, Stopped, Captures, Reversible, Object

LEMMA FreshSound ==
  ASSUME NEW k, NEW o \in FreshObjects(k) PROVE Sound(k, o, o.level)
BY DEF FreshObjects, Created, Absent, Sound

\* Acting on an object that passes the checks of its kind keeps it sound: it
\* ran as its owner wanted, and that is the original it gets.
LEMMA StoppedSound ==
  ASSUME NEW k \in Kinds \ {"Pod"}, NEW o \in Object, NEW n \in Levels,
         NeedsAction(k, o), Sound(k, o, n)
  PROVE  Sound(k, Stopped(k, o), n)
<1>1. o.level \in Levels /\ o.live
  BY DEF Object, NeedsAction, Eligible
<1>2. Reversible(k)
  BY DEF Reversible
<1>3. /\ Stopped(k, o).live = o.live
      /\ Stopped(k, o).level = 0
      /\ Stopped(k, o).saved = IF Captures(k, o) THEN o.level ELSE o.saved
  BY DEF Stopped, Object
<1>4. CASE Captures(k, o)
  <2>1. o.level # 0
    BY <1>4 DEF NeedsAction, Captures
  <2> QED
    BY <1>1, <1>2, <1>3, <1>4, <2>1 DEF Sound
<1>5. CASE ~Captures(k, o)
  <2>1. k = "InferenceService" /\ o.saved # None
    BY <1>2, <1>5 DEF Captures
  <2> QED
    BY <1>1, <1>2, <1>3, <1>5, <2>1 DEF Sound
<1> QED
  BY <1>4, <1>5

LEMMA RestoredSound ==
  ASSUME NEW k, NEW o \in Object, NEW n, Restorable(k, o), Sound(k, o, n)
  PROVE  Restored(o) \in Object /\ Sound(k, Restored(o), o.saved) /\ o.saved \in Levels
BY DEF Restored, Restorable, Sound, Object

LEMMA WriteEffect ==
  ASSUME EnforcerTypeOK, NEW w \in Workloads, NEW o \in Object, Write(w, o)
  PROVE  /\ wl' \in [Workloads -> Object]
         /\ seen' \in [Workloads -> Object]
         /\ wl'[w] = o
         /\ \A v \in Workloads \ {w} : wl'[v] = wl[v]
BY DEF EnforcerTypeOK, Write

LEMMA ViewType ==
  ASSUME EnforcerTypeOK, NEW w \in Workloads
  PROVE  View(w) \in Object
BY DEF EnforcerTypeOK, View

\* The step of every action that changes one object.
LEMMA OneObject ==
  ASSUME IInv, NEW w \in Workloads, NEW o \in Object, NEW n \in Levels,
         Write(w, o), want' = [want EXCEPT ![w] = n], Sound(KindOf[w], o, n)
  PROVE  /\ wl' \in [Workloads -> Object]
         /\ seen' \in [Workloads -> Object]
         /\ want' \in [Workloads -> Levels]
         /\ ObjectsSound'
<1>1. /\ wl' \in [Workloads -> Object]
      /\ seen' \in [Workloads -> Object]
      /\ wl'[w] = o
      /\ \A v \in Workloads \ {w} : wl'[v] = wl[v]
  BY WriteEffect DEF IInv
<1>2. /\ want' \in [Workloads -> Levels]
      /\ want'[w] = n
      /\ \A v \in Workloads \ {w} : want'[v] = want[v]
  BY DEF IInv, EnforcerTypeOK
<1>3. ASSUME NEW v \in Workloads PROVE Sound(KindOf[v], wl'[v], want'[v])
  <2>1. CASE v = w
    BY <2>1, <1>1, <1>2
  <2>2. CASE v # w
    BY <2>2, <1>1, <1>2 DEF IInv, ObjectsSound
  <2> QED
    BY <2>1, <2>2
<1> QED
  BY <1>1, <1>2, <1>3 DEF ObjectsSound

\* The same, where the owner has nothing to do with it.
LEMMA OneObjectAsWanted ==
  ASSUME IInv, NEW w \in Workloads, NEW o \in Object,
         Write(w, o), UNCHANGED want, Sound(KindOf[w], o, want[w])
  PROVE  /\ wl' \in [Workloads -> Object]
         /\ seen' \in [Workloads -> Object]
         /\ want' \in [Workloads -> Levels]
         /\ ObjectsSound'
<1>1. want \in [Workloads -> Levels]
  BY DEF IInv, EnforcerTypeOK
<1>2. want[w] \in Levels /\ want' = [want EXCEPT ![w] = want[w]]
  BY <1>1
<1> QED
  BY <1>2, OneObject

-----------------------------------------------------------------------------
(* The inductive invariant                                                 *)

LEMMA InitInv == EnforcerInit => IInv
<1> SUFFICES ASSUME EnforcerInit PROVE IInv
  OBVIOUS
<1>1. \A w \in Workloads : wl[w] \in Object /\ wl[w] \in FreshObjects(KindOf[w])
  BY FreshType DEF EnforcerInit
<1>2. wl \in [Workloads -> Object]
  BY <1>1 DEF EnforcerInit
<1>3. want \in [Workloads -> Levels]
  BY <1>1 DEF EnforcerInit, Object
<1>4. EnforcerTypeOK
  BY <1>2, <1>3 DEF EnforcerInit, NoCall, NoItems, EnforcerTypeOK
<1>5. ObjectsSound
  BY <1>1, FreshSound DEF EnforcerInit, ObjectsSound
<1> QED
  BY <1>4, <1>5 DEF IInv, EnforcerInit, NoCall, NoItems, ListedActionable

\* A step that leaves the objects alone, but for the cache.
LEMMA ObjectsSame ==
  ASSUME IInv, UNCHANGED <<wl, want>> PROVE ObjectsSound'
BY DEF IInv, ObjectsSound

LEMMA ReturnInv == ASSUME IInv, Return PROVE IInv'
<1>1. ObjectsSound'
  BY ObjectsSame DEF Return, objects
<1>2. EnforcerTypeOK' /\ ListedActionable'
  BY DEF IInv, EnforcerTypeOK, ListedActionable, Return, NoItems, objects
<1> QED
  BY <1>1, <1>2 DEF IInv

LEMMA EnforcingInv == ASSUME IInv, Enforcing PROVE IInv'
<1> USE DEF IInv, EnforcerTypeOK
<1>1. ASSUME NEW k \in Kinds, ListKind(k) PROVE IInv'
  <2>1. \A w \in Workloads : View(w) \in Object
    BY ViewType
  <2>2. /\ DOMAIN list' \subseteq Workloads
        /\ \A w \in DOMAIN list' : list'[w] = View(w) /\ NeedsAction(KindOf[w], View(w))
    BY <1>1 DEF ListKind, Restrict
  <2>3. ListedActionable'
    BY <2>2 DEF ListedActionable
  <2>4. EnforcerTypeOK'
    BY <1>1, <2>1, <2>2 DEF ListKind, NextKind, objects
  <2>5. ObjectsSound'
    BY <1>1, ObjectsSame DEF ListKind, objects
  <2> QED
    BY <2>3, <2>4, <2>5
<1>2. ASSUME NEW k \in Kinds, ListFails(k) PROVE IInv'
  <2>1. EnforcerTypeOK' /\ ListedActionable'
    BY <1>2 DEF ListFails, NextKind, objects, ListedActionable
  <2>2. ObjectsSound'
    BY <1>2, ObjectsSame DEF ListFails, objects
  <2> QED
    BY <2>1, <2>2
<1>3. ASSUME NEW w \in Workloads, Item(w), Unlist(w)
      PROVE  /\ DOMAIN list' \subseteq Workloads
             /\ \A v \in DOMAIN list' : list'[v] \in Object
             /\ ListedActionable'
  BY <1>3 DEF Item, Unlist, Restrict, ListedActionable
<1>4. ASSUME NEW w \in Workloads, ActOn(w) PROVE IInv'
  <2>1. Item(w) /\ Unlist(w) /\ KindOf[w] \in Kinds \ {"Pod"} /\ list[w] = wl[w]
    BY <1>4 DEF ActOn, Reversible
  <2>2. Sound(KindOf[w], wl[w], want[w]) /\ NeedsAction(KindOf[w], list[w])
    BY <2>1 DEF ObjectsSound, ListedActionable, Item
  <2> DEFINE o == Stopped(KindOf[w], wl[w])
  <2>3. o \in Object
    BY StoppedType
  <2>4. want[w] \in Levels /\ wl[w] \in Object
    OBVIOUS
  <2>5. Sound(KindOf[w], o, want[w])
    BY <2>1, <2>2, <2>4, StoppedSound
  <2>6. Write(w, o) /\ UNCHANGED want
    BY <1>4, <2>1 DEF ActOn
  <2>7. /\ wl' \in [Workloads -> Object]
        /\ seen' \in [Workloads -> Object]
        /\ want' \in [Workloads -> Levels]
        /\ ObjectsSound'
    <3> HIDE DEF IInv, EnforcerTypeOK, o
    <3> QED
      BY <2>3, <2>5, <2>6, OneObjectAsWanted
  <2>8. acted' \subseteq Workloads
    BY <1>4 DEF ActOn
  <2> QED
    BY <1>3, <1>4, <2>1, <2>7, <2>8 DEF ActOn
<1>5. ASSUME NEW w \in Workloads, DeletePod(w) PROVE IInv'
  <2>1. Item(w) /\ Unlist(w) /\ ~Reversible(KindOf[w])
    BY <1>5 DEF DeletePod, Reversible
  <2>2. acted' \subseteq Workloads /\ UNCHANGED want
    BY <1>5 DEF DeletePod
  <2>3. CASE UNCHANGED <<wl, seen>>
    <3>1. ObjectsSound'
      BY <2>2, <2>3, ObjectsSame
    <3> QED
      BY <1>3, <1>5, <2>1, <2>2, <2>3, <3>1 DEF DeletePod
  <2>4. CASE Write(w, [wl[w] EXCEPT !.level = 0])
    <3> DEFINE o == [wl[w] EXCEPT !.level = 0]
    <3>1. o \in Object /\ o.saved = wl[w].saved
      BY DEF Object, Levels
    <3>2. Sound(KindOf[w], o, want[w])
      BY <2>1, <3>1 DEF ObjectsSound, Sound
    <3>3. /\ wl' \in [Workloads -> Object]
          /\ seen' \in [Workloads -> Object]
          /\ want' \in [Workloads -> Levels]
          /\ ObjectsSound'
      <4> HIDE DEF IInv, EnforcerTypeOK
      <4> QED
        BY <2>2, <2>4, <3>1, <3>2, OneObjectAsWanted
    <3> QED
      BY <1>3, <1>5, <2>1, <2>2, <3>3 DEF DeletePod
  <2> QED
    BY <1>5, <2>3, <2>4 DEF DeletePod
<1>6. ASSUME NEW w \in Workloads, ActFails(w) PROVE IInv'
  <2>1. EnforcerTypeOK' /\ ListedActionable'
    BY <1>6 DEF ActFails, Item, NoItems, objects, ListedActionable
  <2>2. ObjectsSound'
    BY <1>6, ObjectsSame DEF ActFails, objects
  <2> QED
    BY <2>1, <2>2
<1> QED
  BY <1>1, <1>2, <1>4, <1>5, <1>6 DEF Enforcing

LEMMA RestoringInv == ASSUME IInv, Restoring PROVE IInv'
<1> USE DEF IInv, EnforcerTypeOK
<1>1. ASSUME NEW w \in Workloads, SkipEntry(w) \/ RestoreFails(w) PROVE IInv'
  <2>1. EnforcerTypeOK' /\ ListedActionable'
    BY <1>1 DEF SkipEntry, RestoreFails, Entry, objects, ListedActionable
  <2>2. ObjectsSound'
    BY <1>1, ObjectsSame DEF SkipEntry, RestoreFails, objects
  <2> QED
    BY <2>1, <2>2
<1>2. ASSUME NEW w \in Workloads, RestoreEntry(w) PROVE IInv'
  <2>1. wl[w] \in Object /\ Restorable(KindOf[w], wl[w])
    BY <1>2 DEF RestoreEntry
  <2>2. Sound(KindOf[w], wl[w], want[w])
    BY DEF ObjectsSound
  <2>3. /\ Restored(wl[w]) \in Object
        /\ Sound(KindOf[w], Restored(wl[w]), wl[w].saved)
        /\ wl[w].saved \in Levels
    BY <2>1, <2>2, RestoredSound
  <2>4. Write(w, Restored(wl[w])) /\ want' = [want EXCEPT ![w] = wl[w].saved]
    BY <1>2 DEF RestoreEntry
  <2>5. /\ wl' \in [Workloads -> Object]
        /\ seen' \in [Workloads -> Object]
        /\ want' \in [Workloads -> Levels]
        /\ ObjectsSound'
    <3> HIDE DEF IInv, EnforcerTypeOK
    <3> QED
      BY <2>3, <2>4, OneObject
  <2>6. ListedActionable'
    BY <1>2 DEF RestoreEntry, ListedActionable
  <2> QED
    BY <1>2, <2>5, <2>6 DEF RestoreEntry, Entry
<1> QED
  BY <1>1, <1>2 DEF Restoring

LEMMA ClusterInv == ASSUME IInv, Cluster PROVE IInv'
<1> USE DEF IInv, EnforcerTypeOK
<1>1. ASSUME UNCHANGED <<calm, frame>>, ObjectsSound',
             wl' \in [Workloads -> Object],
             seen' \in [Workloads -> Object],
             want' \in [Workloads -> Levels]
      PROVE  IInv'
  BY <1>1 DEF frame, ListedActionable
<1>2. ASSUME NEW w \in Workloads, NEW o \in Object, NEW n \in Levels,
             Write(w, o), want' = [want EXCEPT ![w] = n],
             Sound(KindOf[w], o, n), UNCHANGED <<calm, frame>>
      PROVE  IInv'
  <2>1. /\ wl' \in [Workloads -> Object]
        /\ seen' \in [Workloads -> Object]
        /\ want' \in [Workloads -> Levels]
        /\ ObjectsSound'
    <3> HIDE DEF IInv, EnforcerTypeOK
    <3> QED
      BY <1>2, OneObject
  <2> QED
    BY <1>1, <1>2, <2>1
<1>3. ASSUME NEW w \in Workloads, Create(w) PROVE IInv'
  <2>1. PICK s \in Shapes, n \in Initials(KindOf[w]) :
          Write(w, Created(s, n)) /\ want' = [want EXCEPT ![w] = n]
    BY <1>3 DEF Create
  <2>2. Created(s, n) \in FreshObjects(KindOf[w])
    BY SMT DEF FreshObjects
  <2>3. /\ Created(s, n) \in Object
        /\ Created(s, n).level = n
        /\ n \in Levels
    BY <2>2, FreshType, LevelsOfType DEF Created
  <2>4. Sound(KindOf[w], Created(s, n), n)
    BY <2>2, <2>3, FreshSound
  <2>5. UNCHANGED <<calm, frame>>
    BY <1>3 DEF Create
  <2> QED
    BY <1>2, <2>1, <2>3, <2>4, <2>5
<1>4. ASSUME NEW w \in Workloads, Remove(w) PROVE IInv'
  <2>1. Absent \in FreshObjects(KindOf[w]) /\ Absent.level = 0
    BY DEF FreshObjects, Absent
  <2>2. Absent \in Object /\ 0 \in Levels
    BY <2>1, FreshType DEF Levels
  <2>3. Sound(KindOf[w], Absent, 0)
    BY <2>1, FreshSound
  <2>4. /\ Write(w, Absent)
        /\ want' = [want EXCEPT ![w] = 0]
        /\ UNCHANGED <<calm, frame>>
    BY <1>4 DEF Remove
  <2> QED
    BY <1>2, <2>2, <2>3, <2>4
<1>5. ASSUME NEW w \in Workloads, Scale(w) PROVE IInv'
  <2>1. PICK n \in LevelsOf(KindOf[w]) :
          /\ Write(w, [wl[w] EXCEPT !.level = n])
          /\ want' = [want EXCEPT ![w] = n]
    BY <1>5 DEF Scale
  <2> DEFINE o == [wl[w] EXCEPT !.level = n]
  <2>2. n \in Levels
    BY LevelsOfType
  <2>3. o \in Object /\ o.level = n /\ o.saved = wl[w].saved
    BY <2>2 DEF Object
  <2>4. Sound(KindOf[w], o, n)
    BY <2>3 DEF ObjectsSound, Sound
  <2>5. UNCHANGED <<calm, frame>>
    BY <1>5 DEF Scale
  <2> QED
    BY <1>2, <2>1, <2>2, <2>3, <2>4, <2>5
<1>6. ASSUME NEW w \in Workloads, PodGone(w) PROVE IInv'
  <2>1. Absent \in FreshObjects(KindOf[w]) /\ ~Absent.live /\ Absent.saved = None
    BY DEF FreshObjects, Absent
  <2>2. Absent \in Object /\ Sound(KindOf[w], Absent, want[w])
    BY <2>1, FreshType DEF Sound
  <2>3. want[w] \in Levels /\ want' = [want EXCEPT ![w] = want[w]]
    BY <1>6 DEF PodGone
  <2>4. Write(w, Absent) /\ UNCHANGED <<calm, frame>>
    BY <1>6 DEF PodGone
  <2> QED
    BY <1>2, <2>2, <2>3, <2>4
<1>7. ASSUME NEW w \in Workloads, Deliver(w) PROVE IInv'
  <2>1. ObjectsSound'
    BY <1>7, ObjectsSame DEF Deliver
  <2> QED
    BY <1>1, <1>7, <2>1 DEF Deliver
<1>8. CASE Calm
  <2>1. ObjectsSound'
    BY <1>8, ObjectsSame DEF Calm, objects
  <2> QED
    BY <1>8, <2>1 DEF Calm, objects, frame, ListedActionable
<1> QED
  BY <1>3, <1>4, <1>5, <1>6, <1>7, <1>8 DEF Cluster

\* The beginnings of the two operations.
LEMMA BeginInv ==
  ASSUME IInv, NEW entries \in SUBSET Workloads, BeginEnforce \/ BeginRestore(entries)
  PROVE  IInv'
<1>1. ObjectsSound'
  BY ObjectsSame DEF BeginEnforce, BeginRestore, objects
<1>2. EnforcerTypeOK' /\ ListedActionable'
  BY DEF IInv, EnforcerTypeOK, ListedActionable, BeginEnforce, BeginRestore, objects
<1> QED
  BY <1>1, <1>2 DEF IInv

LEMMA NextInv == IInv /\ [EnforcerNext]_enforcerVars => IInv'
<1> SUFFICES ASSUME IInv, [EnforcerNext]_enforcerVars PROVE IInv'
  OBVIOUS
<1>1. CASE BeginEnforce
  BY <1>1, BeginInv
<1>2. CASE \E entries \in SUBSET Workloads : BeginRestore(entries)
  BY <1>2, BeginInv
<1>3. CASE Enforcing
  BY <1>3, EnforcingInv
<1>4. CASE Restoring
  BY <1>4, RestoringInv
<1>5. CASE EnforceReturns \/ RestoreReturns \/ OperatorDies
  BY <1>5, ReturnInv DEF EnforceReturns, RestoreReturns, OperatorDies
<1>6. CASE Cluster
  BY <1>6, ClusterInv
<1>7. CASE UNCHANGED enforcerVars
  BY <1>7 DEF IInv, EnforcerTypeOK, ObjectsSound, ListedActionable,
              enforcerVars, objects, frame
<1> QED
  BY <1>1, <1>2, <1>3, <1>4, <1>5, <1>6, <1>7 DEF EnforcerNext

LEMMA InvImpliesRecoverable == IInv => Recoverable
BY DEF IInv, ObjectsSound, Sound, Recoverable

-----------------------------------------------------------------------------
\* The variables keep their types, whoever calls the two operations.
THEOREM EnforcerTypeCorrect == EnforcerSpec => []EnforcerTypeOK
<1>1. EnforcerSpec => []IInv
  BY InitInv, NextInv, PTL DEF EnforcerSpec
<1>2. IInv => EnforcerTypeOK
  BY DEF IInv
<1> QED
  BY <1>1, <1>2, PTL

\* Every object the operator holds down can be given back at the level its
\* owner last asked for, through any failure, crash or lag of the cache.
THEOREM AlwaysRecoverable == EnforcerSpec => []Recoverable
<1>1. EnforcerSpec => []IInv
  BY InitInv, NextInv, PTL DEF EnforcerSpec
<1> QED
  BY <1>1, InvImpliesRecoverable, PTL

-----------------------------------------------------------------------------
(* What is touched                                                         *)

\* A Pod comes under a name that neither the cache nor the pass in progress
\* still has for an earlier one, as a name made by generateName does.
FreshPodName ==
  \A w \in Workloads :
    ~Reversible(KindOf[w]) /\ ~wl[w].live /\ wl'[w].live
      => ~seen[w].live /\ w \notin DOMAIN list

FreshPodNames == [][FreshPodName]_enforcerVars

\* The object o was read under the name w of one that is now there.
SamePod(w, o) == wl[w].live /\ o.live => o.gpu = wl[w].gpu /\ o.owned = wl[w].owned

\* What the operator has read of a Pod that is there is about that Pod.
PodsKnown ==
  \A w \in Workloads :
    ~Reversible(KindOf[w])
      => SamePod(w, seen[w]) /\ (w \in DOMAIN list => SamePod(w, list[w]))

\* A write that leaves the Pod at w what it was, or ends it, or comes when
\* nothing else is known by its name.
LEMMA WritePodsKnown ==
  ASSUME EnforcerTypeOK, PodsKnown, NEW w \in Workloads, NEW o \in Object, Write(w, o),
         DOMAIN list' \subseteq DOMAIN list,
         \A v \in DOMAIN list' : list'[v] = list[v],
         ~Reversible(KindOf[w]) /\ o.live =>
           \/ wl[w].live /\ o.gpu = wl[w].gpu /\ o.owned = wl[w].owned
           \/ ~seen[w].live /\ w \notin DOMAIN list
  PROVE  PodsKnown'
<1>1. /\ wl'[w] = o /\ \A v \in Workloads \ {w} : wl'[v] = wl[v]
      /\ seen' = seen \/ seen' = wl'
  BY WriteEffect DEF Write
<1> SUFFICES ASSUME NEW v \in Workloads, ~Reversible(KindOf[v]), wl'[v].live
             PROVE  /\ seen'[v].live
                        => seen'[v].gpu = wl'[v].gpu /\ seen'[v].owned = wl'[v].owned
                    /\ v \in DOMAIN list' /\ list'[v].live
                        => list'[v].gpu = wl'[v].gpu /\ list'[v].owned = wl'[v].owned
  BY DEF PodsKnown, SamePod
<1>2. CASE v # w
  <2>1. wl'[v] = wl[v]
    BY <1>1, <1>2
  <2> QED
    BY <1>1, <2>1 DEF PodsKnown, SamePod
<1>3. CASE v = w
  BY <1>1, <1>3 DEF PodsKnown, SamePod
<1> QED
  BY <1>2, <1>3

LEMMA NextPodsKnown ==
  ASSUME IInv, PodsKnown, FreshPodName, [EnforcerNext]_enforcerVars
  PROVE  PodsKnown'
<1>0. /\ EnforcerTypeOK /\ wl \in [Workloads -> Object] /\ seen \in [Workloads -> Object]
      /\ DOMAIN list \subseteq Workloads
  BY DEF IInv, EnforcerTypeOK
<1>1. ASSUME UNCHANGED wl, seen' = seen \/ \E w \in Workloads : seen' = [seen EXCEPT ![w] = wl[w]],
             \A v \in DOMAIN list' : \/ list'[v] = seen[v]
                                     \/ v \in DOMAIN list /\ list'[v] = list[v]
                                     \/ Reversible(KindOf[v])
      PROVE  PodsKnown'
  BY <1>0, <1>1 DEF PodsKnown, SamePod
<1>2. CASE Enforcing
  <2>1. ASSUME NEW k \in Kinds, ListKind(k) \/ ListFails(k) PROVE PodsKnown'
    <3>1. CASE ListKind(k)
      <4>1. \A v \in DOMAIN list' : v \in Workloads /\ list'[v] = View(v)
        BY <3>1 DEF ListKind, Restrict
      <4>2. \A v \in DOMAIN list' : list'[v] = seen[v] \/ Reversible(KindOf[v])
        BY <4>1 DEF View, Reversible
      <4> QED
        BY <1>1, <3>1, <4>2 DEF ListKind, objects
    <3>2. CASE ListFails(k)
      BY <1>1, <3>2 DEF ListFails, objects
    <3> QED
      BY <2>1, <3>1, <3>2
  <2>2. ASSUME NEW w \in Workloads, Item(w), Unlist(w)
        PROVE  /\ DOMAIN list' \subseteq DOMAIN list
               /\ \A v \in DOMAIN list' : list'[v] = list[v]
    BY <2>2 DEF Unlist, Restrict
  <2>3. ASSUME NEW w \in Workloads, ActOn(w) PROVE PodsKnown'
    <3>1. Item(w) /\ Unlist(w) /\ Reversible(KindOf[w]) /\ wl[w] = list[w]
      BY <2>3 DEF ActOn
    <3>2. Stopped(KindOf[w], wl[w]) \in Object
      BY <1>0, StoppedType
    <3>3. Write(w, Stopped(KindOf[w], wl[w]))
      BY <2>3, <3>1 DEF ActOn
    <3> QED
      BY <1>0, <2>2, <3>1, <3>2, <3>3, WritePodsKnown
  <2>4. ASSUME NEW w \in Workloads, DeletePod(w) PROVE PodsKnown'
    <3>1. Item(w) /\ Unlist(w)
      BY <2>4 DEF DeletePod
    <3>2. CASE UNCHANGED <<wl, seen>>
      BY <1>0, <1>1, <2>2, <3>1, <3>2
    <3>3. CASE Write(w, [wl[w] EXCEPT !.level = 0]) /\ wl[w].live
      <4> DEFINE o == [wl[w] EXCEPT !.level = 0]
      <4>1. o \in Object /\ o.gpu = wl[w].gpu /\ o.owned = wl[w].owned
        BY <1>0 DEF Object, Levels
      <4>2. Write(w, o)
        BY <3>3
      <4> HIDE DEF o
      <4> QED
        BY <1>0, <2>2, <3>1, <3>3, <4>1, <4>2, WritePodsKnown
    <3> QED
      BY <2>4, <3>2, <3>3 DEF DeletePod
  <2>5. ASSUME NEW w \in Workloads, ActFails(w) PROVE PodsKnown'
    BY <1>1, <2>5 DEF ActFails, NoItems, objects
  <2> QED
    BY <1>2, <2>1, <2>3, <2>4, <2>5 DEF Enforcing
<1>3. CASE Restoring
  <2>1. ASSUME NEW w \in Workloads, RestoreEntry(w) PROVE PodsKnown'
    <3>1. /\ Write(w, Restored(wl[w])) /\ UNCHANGED list
          /\ Reversible(KindOf[w]) /\ Restorable(KindOf[w], wl[w])
      BY <2>1 DEF RestoreEntry, Restorable
    <3>2. Restored(wl[w]) \in Object
      BY <1>0, <3>1, RestoredSound DEF IInv, ObjectsSound
    <3> QED
      BY <1>0, <3>1, <3>2, WritePodsKnown
  <2> QED
    BY <1>1, <1>3, <2>1 DEF Restoring, SkipEntry, RestoreFails, objects
<1>4. CASE Cluster
  <2>0. UNCHANGED list
    BY <1>4 DEF Cluster, Create, Remove, Scale, PodGone, Deliver, Calm, frame
  <2>1. ASSUME NEW w \in Workloads, Create(w) PROVE PodsKnown'
    <3>1. PICK s \in Shapes, n \in Initials(KindOf[w]) : Write(w, Created(s, n))
      BY <2>1 DEF Create
    <3>2. Created(s, n) \in FreshObjects(KindOf[w])
      BY SMT DEF FreshObjects
    <3>3. Created(s, n) \in Object /\ Created(s, n).live
      BY <3>2, FreshType DEF Created
    <3>4. ~wl[w].live /\ wl'[w].live
      BY <1>0, <2>1, <3>1, <3>3, WriteEffect DEF Create
    <3>5. ~Reversible(KindOf[w]) => ~seen[w].live /\ w \notin DOMAIN list
      BY <3>4 DEF FreshPodName
    <3> QED
      BY <1>0, <2>0, <3>1, <3>3, <3>5, WritePodsKnown
  <2>2. ASSUME NEW w \in Workloads, Remove(w) \/ PodGone(w) PROVE PodsKnown'
    <3>1. Write(w, Absent) /\ ~Absent.live
      BY <2>2 DEF Remove, PodGone, Absent
    <3>2. Absent \in Object
      BY FreshType DEF FreshObjects
    <3> QED
      BY <1>0, <2>0, <3>1, <3>2, WritePodsKnown
  <2>3. ASSUME NEW w \in Workloads, Scale(w) PROVE PodsKnown'
    <3>1. PICK n \in LevelsOf(KindOf[w]) : Write(w, [wl[w] EXCEPT !.level = n])
      BY <2>3 DEF Scale
    <3>2. [wl[w] EXCEPT !.level = n] \in Object /\ Reversible(KindOf[w])
      BY <1>0, <2>3, LevelsOfType DEF Object, Scale
    <3> QED
      BY <1>0, <2>0, <3>1, <3>2, WritePodsKnown
  <2>4. ASSUME NEW w \in Workloads, Deliver(w) PROVE PodsKnown'
    BY <1>1, <2>0, <2>4 DEF Deliver
  <2>5. CASE Calm
    BY <1>1, <2>0, <2>5 DEF Calm, objects
  <2> QED
    BY <1>4, <2>1, <2>2, <2>3, <2>4, <2>5 DEF Cluster
<1>5. CASE \/ BeginEnforce \/ EnforceReturns \/ RestoreReturns \/ OperatorDies
           \/ \E entries \in SUBSET Workloads : BeginRestore(entries)
  BY <1>1, <1>5 DEF BeginEnforce, BeginRestore, EnforceReturns, RestoreReturns,
                    OperatorDies, Return, NoItems, objects
<1>6. CASE UNCHANGED enforcerVars
  BY <1>1, <1>6 DEF enforcerVars, objects, frame
<1> QED
  BY <1>2, <1>3, <1>4, <1>5, <1>6 DEF EnforcerNext

\* A step of EnforceNamespace that changes a listed object finds it eligible:
\* an update has read it as it is, a deletion if it knows the Pod.
LEMMA TouchedEligible ==
  ASSUME IInv, [EnforcerNext]_enforcerVars, NEW w \in Touched,
         Reversible(KindOf[w]) \/ PodsKnown
  PROVE  Eligible(KindOf[w], wl[w])
<1>1. w \in DOMAIN list \ DOMAIN list' /\ wl'[w] # wl[w] /\ w \in Workloads
  BY DEF Touched, IInv, EnforcerTypeOK
<1>2. NeedsAction(KindOf[w], list[w])
  BY <1>1 DEF IInv, ListedActionable
<1>3. ASSUME NEW v \in Workloads, NEW o \in Object, Write(v, o) PROVE w = v
  BY <1>1, <1>3, WriteEffect DEF IInv
<1>4. CASE Enforcing
  <2>1. ASSUME NEW k \in Kinds, ListKind(k) \/ ListFails(k) PROVE FALSE
    BY <1>1, <2>1 DEF ListKind, ListFails, objects
  <2>2. ASSUME NEW v \in Workloads, ActOn(v) PROVE Eligible(KindOf[w], wl[w])
    <3>1. wl[v] \in Object /\ wl[v] = list[v] /\ Write(v, Stopped(KindOf[v], list[v]))
      BY <2>2 DEF ActOn, IInv, EnforcerTypeOK
    <3>2. w = v
      BY <1>3, <3>1, StoppedType
    <3> QED
      BY <1>2, <3>1, <3>2 DEF NeedsAction
  <2>3. ASSUME NEW v \in Workloads, DeletePod(v) PROVE Eligible(KindOf[w], wl[w])
    <3>1. wl[v] \in Object
      BY DEF IInv, EnforcerTypeOK
    <3>2. [wl[v] EXCEPT !.level = 0] \in Object
      BY <3>1 DEF Object, Levels
    <3>3. Write(v, [wl[v] EXCEPT !.level = 0]) /\ wl[v].live
      BY <1>1, <2>3 DEF DeletePod
    <3>4. w = v
      BY <1>3, <3>2, <3>3
    <3>5. SamePod(w, list[w])
      BY <1>1, <2>3, <3>4 DEF DeletePod, Reversible, PodsKnown
    <3> QED
      BY <1>2, <3>3, <3>4, <3>5 DEF SamePod, NeedsAction, Eligible
  <2>4. ASSUME NEW v \in Workloads, ActFails(v) PROVE FALSE
    BY <1>1, <2>4 DEF ActFails, objects
  <2> QED
    BY <1>4, <2>1, <2>2, <2>3, <2>4 DEF Enforcing
<1>5. ASSUME UNCHANGED list \/ UNCHANGED wl PROVE FALSE
  BY <1>1, <1>5
<1>6. CASE Restoring
  BY <1>5, <1>6 DEF Restoring, SkipEntry, RestoreEntry, RestoreFails
<1>7. CASE Cluster
  BY <1>5, <1>7 DEF Cluster, Create, Remove, Scale, PodGone, Deliver, Calm, frame
<1>8. CASE \/ BeginEnforce \/ EnforceReturns \/ RestoreReturns \/ OperatorDies
           \/ \E entries \in SUBSET Workloads : BeginRestore(entries)
  BY <1>5, <1>8 DEF BeginEnforce, BeginRestore, EnforceReturns, RestoreReturns,
                    OperatorDies, Return, objects
<1>9. CASE UNCHANGED enforcerVars
  BY <1>5, <1>9 DEF enforcerVars, frame
<1> QED
  BY <1>4, <1>6, <1>7, <1>8, <1>9 DEF EnforcerNext

\* Nothing is turned down that does not request GPUs or is somebody else's,
\* however far the cache it was listed from lags behind.
THEOREM OnlyEligibleEverUpdated == EnforcerSpec => OnlyEligibleUpdated
<1>1. EnforcerSpec => []IInv
  BY InitInv, NextInv, PTL DEF EnforcerSpec
<1>2. IInv /\ [EnforcerNext]_enforcerVars
        => [\A w \in Touched :
              Reversible(KindOf[w]) => Eligible(KindOf[w], wl[w])]_enforcerVars
  BY TouchedEligible
<1> QED
  BY <1>1, <1>2, PTL DEF EnforcerSpec, OnlyEligibleUpdated

\* No Pod without GPUs, and none that is somebody else's, is deleted, under
\* every fault and however far the cache lags behind, as long as a name comes
\* back only when the operator has forgotten the Pod that had it: where the
\* code goes wrong, in a Delete without a precondition, is nowhere else.
THEOREM OnlyEligibleEverDeleted == EnforcerSpec /\ FreshPodNames => OnlyEligibleDeleted
<1>1. EnforcerInit => PodsKnown
  BY DEF EnforcerInit, NoCall, NoItems, PodsKnown, SamePod
<1>2. EnforcerSpec => []IInv
  BY InitInv, NextInv, PTL DEF EnforcerSpec
<1>3. IInv /\ PodsKnown /\ [EnforcerNext]_enforcerVars /\ [FreshPodName]_enforcerVars
        => PodsKnown'
  <2>1. CASE UNCHANGED enforcerVars
    BY <2>1 DEF enforcerVars, objects, frame, PodsKnown, SamePod
  <2>2. CASE FreshPodName
    BY <2>2, NextPodsKnown
  <2> QED
    BY <2>1, <2>2
<1>4. IInv /\ PodsKnown /\ [EnforcerNext]_enforcerVars
        => [\A w \in Touched :
              ~Reversible(KindOf[w]) => Eligible(KindOf[w], wl[w])]_enforcerVars
  BY TouchedEligible
<1> QED
  BY <1>1, <1>2, <1>3, <1>4, PTL DEF EnforcerSpec, FreshPodNames, OnlyEligibleDeleted

-----------------------------------------------------------------------------
(* Between two calls                                                       *)

\* Nothing of a call is left when it is over.
Returned == call = "none" => NoCall

LEMMA NextReturned == Returned /\ [EnforcerNext]_enforcerVars => Returned'
<1> SUFFICES ASSUME Returned, [EnforcerNext]_enforcerVars PROVE Returned'
  OBVIOUS
<1>1. CASE BeginEnforce \/ \E entries \in SUBSET Workloads : BeginRestore(entries)
  BY <1>1 DEF BeginEnforce, BeginRestore, Returned
<1>2. CASE EnforceReturns \/ RestoreReturns \/ OperatorDies
  BY <1>2 DEF EnforceReturns, RestoreReturns, OperatorDies, Return, Returned, NoCall
<1>3. CASE Enforcing
  BY <1>3 DEF Enforcing, ListKind, ListFails, NextKind, ActOn, DeletePod, ActFails, Item, Returned
<1>4. CASE Restoring
  BY <1>4 DEF Restoring, SkipEntry, RestoreEntry, RestoreFails, Entry, Returned
<1>5. CASE Cluster \/ UNCHANGED enforcerVars
  BY <1>5 DEF Cluster, Create, Remove, Scale, PodGone, Deliver, Calm, enforcerVars, frame,
              Returned, NoCall
<1> QED
  BY <1>1, <1>2, <1>3, <1>4, <1>5 DEF EnforcerNext

-----------------------------------------------------------------------------
(* RestoreNamespace                                                        *)
(*                                                                         *)
(* An entry that is neither given back nor failed has not been visited.    *)
(* "Given back" is read off the API server, which is what the operator has *)
(* read only if the cache keeps up (Synced).                               *)

Synced == ~Lagging => seen = wl

\* A Pod has nothing to give back.
PodsPlain == \A w \in Workloads : KindOf[w] = "Pod" => wl[w].saved = None

\* An entry that was visited without an error is given back.
GoneBack ==
  call = "restore" /\ ~Lagging
    => \A w \in given \ (left \union errs) : wl[w].live => wl[w].saved = None

RestoreInv == IInv /\ Synced /\ PodsPlain /\ GoneBack

LEMMA WriteSynced ==
  ASSUME NEW w, NEW o, Write(w, o)
  PROVE  Synced'
BY DEF Write, Synced

\* Synced is kept by every step.
LEMMA StepSynced == IInv /\ Synced /\ [EnforcerNext]_enforcerVars => Synced'
<1> SUFFICES ASSUME IInv, Synced, [EnforcerNext]_enforcerVars
             PROVE  Synced'
  OBVIOUS
<1>1. CASE UNCHANGED <<wl, seen>>
  BY <1>1 DEF Synced
<1>2. CASE \E w \in Workloads : ActOn(w) \/ DeletePod(w) \/ RestoreEntry(w)
  BY <1>2, WriteSynced DEF ActOn, DeletePod, RestoreEntry, Synced
<1>3. CASE \E w \in Workloads : Create(w) \/ Remove(w) \/ Scale(w) \/ PodGone(w)
  BY <1>3, WriteSynced DEF Create, Remove, Scale, PodGone
<1>4. CASE \E w \in Workloads : Deliver(w)
  BY <1>4 DEF Deliver, Synced
<1> QED
  BY <1>1, <1>2, <1>3, <1>4 DEF EnforcerNext, Enforcing, Restoring, Cluster, BeginEnforce,
     BeginRestore, EnforceReturns, RestoreReturns, OperatorDies, Return, ListKind, ListFails,
     ActFails, SkipEntry, RestoreFails, Calm, objects, enforcerVars

\* What the operator reads is what is stored.
LEMMA SyncedView ==
  ASSUME IInv, Synced, ~Lagging, NEW w \in Workloads
  PROVE  View(w) = wl[w]
BY DEF Synced, View

\* Whoever is created bears nothing, under a used name too.
LEMMA CreatedUnsaved ==
  ASSUME NEW s, NEW n
  PROVE  Created(s, n).saved = None
BY DEF Created

\* A step of the cluster leaves an original on its live object, or takes it
\* away.
LEMMA ClusterSaved ==
  ASSUME IInv, Cluster, NEW v \in Workloads
  PROVE  wl'[v].saved = None \/ (wl'[v].saved = wl[v].saved /\ wl'[v].live = wl[v].live)
<1>0. wl \in [Workloads -> Object]
  BY DEF IInv, EnforcerTypeOK
<1>1. ASSUME NEW w \in Workloads, Create(w)
      PROVE  wl'[v].saved = None \/ wl'[v] = wl[v]
  BY <1>0, <1>1, CreatedUnsaved DEF Create, Write
<1>2. ASSUME NEW w \in Workloads, Remove(w) \/ PodGone(w)
      PROVE  wl'[v].saved = None \/ wl'[v] = wl[v]
  BY <1>0, <1>2 DEF Remove, PodGone, Write, Absent
<1>3. ASSUME NEW w \in Workloads, Scale(w)
      PROVE  wl'[v].saved = wl[v].saved /\ wl'[v].live = wl[v].live
  BY <1>0, <1>3 DEF Scale, Write, Object
<1>4. CASE UNCHANGED wl
  BY <1>4
<1> QED
  BY <1>1, <1>2, <1>3, <1>4 DEF Cluster, Deliver, Calm, objects

LEMMA InitRestoreInv == EnforcerInit => RestoreInv
<1> SUFFICES ASSUME EnforcerInit PROVE RestoreInv
  OBVIOUS
<1>1. \A w \in Workloads : wl[w].saved = None
  <2> SUFFICES ASSUME NEW w \in Workloads PROVE wl[w].saved = None
    OBVIOUS
  <2>1. wl[w] \in FreshObjects(KindOf[w])
    BY DEF EnforcerInit
  <2> QED
    BY <2>1, CreatedUnsaved DEF FreshObjects, Absent
<1> QED
  BY <1>1, InitInv DEF RestoreInv, EnforcerInit, NoCall, Synced, PodsPlain, GoneBack

\* What a call of EnforceNamespace writes to a Pod is no original.
LEMMA EnforcingPodsPlain ==
  ASSUME IInv, PodsPlain, Enforcing
  PROVE  PodsPlain'
<1>0. wl \in [Workloads -> Object]
  BY DEF IInv, EnforcerTypeOK
<1>1. ASSUME NEW w \in Workloads, ActOn(w) PROVE PodsPlain'
  BY <1>0, <1>1 DEF ActOn, Reversible, Write, PodsPlain
<1>2. ASSUME NEW w \in Workloads, DeletePod(w) PROVE PodsPlain'
  BY <1>0, <1>2 DEF DeletePod, Write, PodsPlain, Object
<1>3. CASE UNCHANGED wl
  BY <1>3 DEF PodsPlain
<1> QED
  BY <1>1, <1>2, <1>3 DEF Enforcing, ListKind, ListFails, ActFails, objects

\* An entry is visited once, and then given back or among the errors.
LEMMA RestoringRestoreInv ==
  ASSUME RestoreInv, Restoring
  PROVE  PodsPlain' /\ GoneBack'
<1>0. wl \in [Workloads -> Object] /\ given \subseteq Workloads
  BY DEF RestoreInv, IInv, EnforcerTypeOK
<1>1. ASSUME NEW w \in Workloads, SkipEntry(w) PROVE PodsPlain' /\ GoneBack'
  <2>1. UNCHANGED <<wl, call, given, errs>> /\ left' = left \ {w}
    BY <1>1 DEF SkipEntry, Entry, objects
  <2>2. ~Lagging => ~(wl[w].live /\ wl[w].saved # None)
    BY <1>1, SyncedView DEF SkipEntry, Restorable, Reversible, RestoreInv, PodsPlain
  <2> QED
    BY <2>1, <2>2 DEF RestoreInv, PodsPlain, GoneBack
<1>2. ASSUME NEW w \in Workloads, RestoreFails(w) PROVE PodsPlain' /\ GoneBack'
  <2>1. UNCHANGED <<wl, call, given>> /\ left' = left \ {w} /\ errs' = errs \union {w}
    BY <1>2 DEF RestoreFails, Entry, objects
  <2> QED
    BY <2>1 DEF RestoreInv, PodsPlain, GoneBack
<1>3. ASSUME NEW w \in Workloads, RestoreEntry(w) PROVE PodsPlain' /\ GoneBack'
  <2>1. UNCHANGED <<call, given, errs>> /\ left' = left \ {w}
    BY <1>3 DEF RestoreEntry, Entry
  <2>2. wl'[w].saved = None /\ \A v \in Workloads \ {w} : wl'[v] = wl[v]
    BY <1>0, <1>3 DEF RestoreEntry, Write, Restored, Object
  <2> QED
    BY <1>0, <2>1, <2>2 DEF RestoreInv, PodsPlain, GoneBack
<1> QED
  BY <1>1, <1>2, <1>3 DEF Restoring

LEMMA NextRestoreInv == RestoreInv /\ [EnforcerNext]_enforcerVars => RestoreInv'
<1> SUFFICES ASSUME RestoreInv, [EnforcerNext]_enforcerVars
             PROVE  PodsPlain' /\ GoneBack'
  BY NextInv, StepSynced DEF RestoreInv
<1>0. given \subseteq Workloads
  BY DEF RestoreInv, IInv, EnforcerTypeOK
<1>1. CASE Enforcing
  <2>1. call' # "restore"
    BY <1>1 DEF Enforcing, ListKind, ListFails, NextKind, ActOn, DeletePod, ActFails, Item
  <2> QED
    BY <1>1, <2>1, EnforcingPodsPlain DEF RestoreInv, GoneBack
<1>2. CASE Restoring
  BY <1>2, RestoringRestoreInv
<1>3. CASE Cluster
  <2>1. UNCHANGED frame
    BY <1>3 DEF Cluster, Create, Remove, Scale, PodGone, Deliver, Calm
  <2>2. \A v \in Workloads :
          wl'[v].saved = None \/ (wl'[v].saved = wl[v].saved /\ wl'[v].live = wl[v].live)
    BY <1>3, ClusterSaved DEF RestoreInv
  <2> QED
    BY <1>0, <2>1, <2>2 DEF RestoreInv, PodsPlain, GoneBack, frame
<1>4. ASSUME NEW entries \in SUBSET Workloads, BeginRestore(entries)
      PROVE  PodsPlain' /\ GoneBack'
  BY <1>4 DEF BeginRestore, RestoreInv, PodsPlain, GoneBack, objects
<1>5. CASE BeginEnforce \/ Return \/ UNCHANGED enforcerVars
  BY <1>5 DEF BeginEnforce, Return, enforcerVars, frame, objects, RestoreInv, PodsPlain, GoneBack
<1> QED
  BY <1>1, <1>2, <1>3, <1>4, <1>5 DEF EnforcerNext, EnforceReturns, RestoreReturns, OperatorDies

\* RestoreNamespace goes on after an error, whichever entries fail and
\* whatever owners do meanwhile: it leaves out nothing without an error.
THEOREM RestoreAlwaysAttemptsAll == EnforcerSpec => []RestoreAttemptsAll
<1>1. RestoreInv => RestoreAttemptsAll
  BY DEF RestoreInv, GoneBack, RestoreAttemptsAll, RestoreFinished
<1> QED
  BY InitRestoreInv, NextRestoreInv, <1>1, PTL DEF EnforcerSpec

=============================================================================
