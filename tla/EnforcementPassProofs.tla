----------------------- MODULE EnforcementPassProofs -----------------------
(***************************************************************************)
(* EveryKindAttempted: what a pass has done when it is through, for any    *)
(* objects, kinds and failures.                                            *)
(*                                                                         *)
(* The invariant says what is still to come when a pass is under way: an   *)
(* object that is neither done nor failed is in the kinds or the items not *)
(* visited yet.  "Done" is read off the API server, which is what the      *)
(* operator has read only if the cache keeps up (Synced).                  *)
(***************************************************************************)
EXTENDS EnforcementPass, EnforcerProofs

\* The items of one step are of one kind.
SameKind == \A v, w \in DOMAIN list : KindOf[v] = KindOf[w]

\* What the pass has not stopped is still to come, or the error is kept.
Attended ==
  call = "enforce" /\ ~Lagging
    => \A w \in Workloads \ touched :
         Eligible(KindOf[w], wl[w]) /\ wl[w].level # 0
           => KindOf[w] \in pending \/ w \in DOMAIN list \/ KindOf[w] \in errs

PassInv == IInv /\ Synced /\ SameKind /\ Attended

\* Every step of a pass with its history is a step of the Enforcer.
LEMMA PassStep == [PassNext]_passVars => [EnforcerNext]_enforcerVars
BY DEF PassNext, passVars, EnforcerNext, Cluster

LEMMA InitPassInv == PassInit => PassInv
BY InitInv DEF PassInit, EnforcerInit, NoCall, NoItems, PassInv, Synced, SameKind, Attended

\* The steps of a pass: a kind is listed, stopped, or its error kept.
LEMMA EnforcingPassInv ==
  ASSUME PassInv, Enforcing, UNCHANGED touched
  PROVE  SameKind' /\ Attended'
<1>0. /\ wl \in [Workloads -> Object] /\ DOMAIN list \subseteq Workloads
      /\ \A w \in Workloads : KindOf[w] \in Kinds
  BY WorkloadsAssumption DEF PassInv, IInv, EnforcerTypeOK
<1>1. ASSUME NEW k \in Kinds, ListKind(k) PROVE SameKind' /\ Attended'
  <2>1. /\ DOMAIN list' = {w \in Workloads : KindOf[w] = k /\ NeedsAction(k, View(w))}
        /\ UNCHANGED <<wl, call, errs>> /\ pending' = pending \ {k} /\ list = NoItems
    BY <1>1 DEF ListKind, NextKind, Restrict, objects
  <2>2. ASSUME ~Lagging, NEW w \in Workloads, KindOf[w] = k,
               Eligible(k, wl[w]), wl[w].level # 0
        PROVE  w \in DOMAIN list'
    BY <2>1, <2>2, SyncedView DEF PassInv, NeedsAction
  <2>3. DOMAIN list = {}
    BY <2>1 DEF NoItems
  <2> QED
    BY <2>1, <2>2, <2>3 DEF PassInv, SameKind, Attended
<1>2. ASSUME NEW k \in Kinds, ListFails(k) PROVE SameKind' /\ Attended'
  <2>1. UNCHANGED <<wl, call, list>> /\ pending' = pending \ {k} /\ errs' = errs \union {k}
    BY <1>2 DEF ListFails, NextKind, objects
  <2> QED
    BY <2>1 DEF PassInv, SameKind, Attended
<1>3. ASSUME NEW w \in Workloads, ActOn(w) \/ DeletePod(w) PROVE SameKind' /\ Attended'
  <2>1. UNCHANGED <<call, pending, errs>> /\ DOMAIN list' = DOMAIN list \ {w}
    BY <1>3 DEF ActOn, DeletePod, Unlist, Restrict
  <2>2. /\ \A v \in Workloads \ {w} : wl'[v] = wl[v]
        /\ ~Eligible(KindOf[w], wl'[w]) \/ wl'[w].level = 0
    <3>1. CASE ActOn(w)
      <4>1. wl' = [wl EXCEPT ![w] = Stopped(KindOf[w], wl[w])] /\ wl[w] \in Object
        BY <1>0, <3>1 DEF ActOn, Write
      <4>2. Stopped(KindOf[w], wl[w]).level = 0
        BY <4>1 DEF Stopped, Object
      <4> QED
        BY <1>0, <4>1, <4>2
    <3>2. CASE DeletePod(w)
      BY <1>0, <3>2 DEF DeletePod, Write, Object, Eligible
    <3> QED
      BY <1>3, <3>1, <3>2
  <2> QED
    BY <2>1, <2>2 DEF PassInv, SameKind, Attended
<1>4. ASSUME NEW w \in Workloads, ActFails(w) PROVE SameKind' /\ Attended'
  <2>1. /\ UNCHANGED <<wl, call, pending>> /\ errs' = errs \union {KindOf[w]}
        /\ DOMAIN list' = {} /\ w \in DOMAIN list
    BY <1>4 DEF ActFails, Item, NoItems, objects
  <2>2. \A v \in DOMAIN list : KindOf[v] \in errs'
    BY <2>1 DEF PassInv, SameKind
  <2> QED
    BY <2>1, <2>2 DEF PassInv, SameKind, Attended
<1> QED
  BY <1>1, <1>2, <1>3, <1>4 DEF Enforcing

LEMMA NextPassInv == PassInv /\ [PassNext]_passVars => PassInv'
<1> SUFFICES ASSUME PassInv, [PassNext]_passVars PROVE SameKind' /\ Attended'
  BY PassStep, NextInv, StepSynced DEF PassInv
<1>0. wl \in [Workloads -> Object] /\ \A w \in Workloads : KindOf[w] \in Kinds
  BY WorkloadsAssumption DEF PassInv, IInv, EnforcerTypeOK
<1>1. CASE BeginEnforce
  BY <1>1 DEF BeginEnforce, PassInv, SameKind, Attended
<1>2. CASE Return \/ \E entries \in SUBSET Workloads : BeginRestore(entries)
  BY <1>2 DEF Return, BeginRestore, NoItems, PassInv, SameKind, Attended
<1>3. CASE Enforcing /\ UNCHANGED touched
  BY <1>3, EnforcingPassInv
<1>4. CASE Restoring
  BY <1>4 DEF Restoring, SkipEntry, RestoreEntry, RestoreFails, Entry, PassInv, SameKind, Attended
<1>5. ASSUME NEW w \in Workloads, Create(w) \/ Remove(w) \/ Scale(w), Touch(w)
      PROVE  SameKind' /\ Attended'
  <2>1. UNCHANGED frame /\ \A v \in Workloads \ {w} : wl'[v] = wl[v]
    BY <1>0, <1>5 DEF Create, Remove, Scale, Write
  <2> QED
    BY <1>5, <2>1 DEF Touch, frame, PassInv, SameKind, Attended
<1>6. ASSUME NEW w \in Workloads, PodGone(w), UNCHANGED touched
      PROVE  SameKind' /\ Attended'
  <2>1. UNCHANGED frame /\ wl'[w] = Absent /\ \A v \in Workloads \ {w} : wl'[v] = wl[v]
    BY <1>0, <1>6 DEF PodGone, Write
  <2> QED
    BY <1>6, <2>1 DEF Absent, frame, PassInv, SameKind, Attended
<1>7. CASE UNCHANGED passVars
  BY <1>7 DEF passVars, enforcerVars, frame, objects, PassInv, SameKind, Attended
<1> QED
  BY <1>1, <1>2, <1>3, <1>4, <1>5, <1>6, <1>7 DEF PassNext, EnforceReturns, RestoreReturns,
     OperatorDies

\* A failing List or item ends the step of its kind and no other: no kind is
\* left out without its error, in whatever order failures strike.
THEOREM EveryKindAlwaysAttempted == PassSpec => []EveryKindAttempted
<1>1. PassInv => EveryKindAttempted
  BY DEF PassInv, Attended, EveryKindAttempted, EnforceFinished, NoItems
<1> QED
  BY InitPassInv, NextPassInv, <1>1, PTL DEF PassSpec

=============================================================================
