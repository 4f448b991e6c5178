----------------------------- MODULE Inference -----------------------------
(***************************************************************************)
(* enforceInferenceServices and restoreInferenceService of                 *)
(* enforce/enforce.go: the one kind with several fields to turn down, an   *)
(* original per component, and a controller of its own (KServe) that       *)
(* writes to the same fields.  Enforcer has it with one component and one  *)
(* number; here are the components, the bounds that may be unset, and the  *)
(* order of the List.                                                      *)
(*                                                                         *)
(* InferenceServices are unstructured: List and Get go to the API server,  *)
(* which lists by name.  An Update succeeds only on an object that is      *)
(* still what was read.  The callers are Reconciler's: a pass at any time, *)
(* a reset at any time, and the list of what was enforced in between.      *)
(***************************************************************************)
EXTENDS Integers, Sequences, FiniteSets, SequencesExt

CONSTANTS
  Services,    \* the InferenceServices, in the order of their names
  Components,  \* components a service may have: predictor, transformer, ...
  Asked,       \* bound: the replica bounds owners ask for
  Rejected,    \* the services whose every Update an admission webhook rejects
  Moves,       \* what owners, users and failures do in a run: see MoveNames
  None,        \* no such component, no original
  Unset,       \* a replica bound that is not in the object
  Garbled      \* an annotation that is no JSON object

Bounds == [min : Nat \union {Unset}, max : Nat \union {Unset}]

MoveNames == {"create", "remove", "edit", "gpu", "reset", "garble", "fail", "calm"}

ASSUME InferenceAssumption ==
  /\ Services \in Seq(Range(Services)) /\ IsInjective(Services)
  /\ Rejected \subseteq Range(Services)
  /\ Asked \subseteq Bounds
  /\ Moves \subseteq MoveNames
  /\ None \notin Bounds
  /\ Garbled \notin [Components -> Bounds \union {None}]

Names == Range(Services)

NoOriginals == [c \in Components |-> None]

PerComponent == [Components -> Asked \union {None}]

Absent == [live |-> FALSE, gpu |-> FALSE, spec |-> NoOriginals, saved |-> NoOriginals]

VARIABLES
  svc,     \* the objects: spec[c] the bounds of a component, saved[c] its
           \* original in the annotation
  wish,    \* history: the bounds the owner last asked for, of each component
  edited,  \* history: components the owner wrote to after they were captured
  calm,    \* from here on only the operator and KServe write
  call,    \* "none", "enforce" or "restore"
  list,    \* enforce: the listed items still to be visited
  left,    \* restore: the entries still to be visited
  failed,  \* the call in progress will return an error
  listed   \* status.enforcedResources

owners == <<wish, edited>>
frame == <<call, list, left, failed>>
vars == <<svc, owners, calm, frame, listed>>

May(m) == m \in Moves /\ ~calm

Created(spec, g) == [live |-> TRUE, gpu |-> g, spec |-> spec, saved |-> NoOriginals]

Init ==
  /\ svc \in [Names -> {Absent} \union {Created(spec, TRUE) : spec \in PerComponent}]
  /\ wish = [s \in Names |-> svc[s].spec]
  /\ edited = [s \in Names |-> {}]
  /\ calm = FALSE
  /\ call = "none" /\ list = <<>> /\ left = {} /\ failed = FALSE
  /\ listed = {}

-----------------------------------------------------------------------------
(* What a pass does to one object                                          *)

Zero == [min |-> 0, max |-> 0]

Captured(o) == {c \in Components : o.saved[c] # None}

\* Mutant of ToCapture: idempotency keyed off the live spec.
ToCaptureByLiveSpec(o) == {c \in Components : o.spec[c] \notin {None, Zero}}

\* The components whose original is read from the spec in this pass: present,
\* not on record, and not exactly zero in both bounds (isZeroed).
ToCapture(o) == {c \in Components \ Captured(o) : o.spec[c] \notin {None, Zero}}

NeedsUpdate(o) == Captured(o) \union ToCapture(o) # {}

\* Mutant of Zeroed: what is on record is not zeroed again.
ZeroedOnce(o) ==
  [o EXCEPT !.spec  = [c \in Components |-> IF c \in ToCapture(o) THEN Zero ELSE @[c]],
            !.saved = [c \in Components |-> IF c \in ToCapture(o) THEN o.spec[c] ELSE @[c]]]

\* Every component on record is zeroed again, even one that is gone from the
\* spec: SetNestedField makes it anew.
Zeroed(o) ==
  [o EXCEPT !.spec  = [c \in Components |->
                         IF c \in Captured(o) \union ToCapture(o) THEN Zero ELSE @[c]],
            !.saved = [c \in Components |-> IF c \in ToCapture(o) THEN o.spec[c] ELSE @[c]]]

\* Mutant of GivenBack: a bound that was unset is left as it is.
GivenBackWhereSet(o) ==
  [o EXCEPT !.spec  = [c \in Components |->
                         IF c \notin Captured(o) THEN @[c]
                         ELSE [b \in {"min", "max"} |->
                                IF o.saved[c][b] = Unset /\ @[c] # None THEN @[c][b]
                                ELSE o.saved[c][b]]],
            !.saved = NoOriginals]

\* Restore sets the bounds that were set and removes those that were not; a
\* component that is gone is made anew, unless it had neither bound.
GivenBack(o) ==
  [o EXCEPT !.spec  = [c \in Components |->
                         IF c \notin Captured(o) THEN @[c]
                         ELSE IF @[c] = None /\ o.saved[c] = [min |-> Unset, max |-> Unset]
                                THEN None
                                ELSE o.saved[c]],
            !.saved = NoOriginals]

-----------------------------------------------------------------------------
(* enforceInferenceServices                                                *)

BeginPass ==
  /\ call = "none"
  /\ call' = "enforce"
  /\ list' = [i \in DOMAIN Services |-> [name |-> Services[i], obj |-> svc[Services[i]]]]
  /\ UNCHANGED <<svc, owners, calm, left, failed, listed>>

Listed == call = "enforce" /\ list # <<>>

Item == Head(list)

\* No GPU request, or nothing to do.  (A name without an object is in no List:
\* it is among the items without a GPU request.)
SkipItem ==
  /\ Listed
  /\ \/ ~Item.obj.gpu
     \/ Item.obj.saved # Garbled /\ ~NeedsUpdate(Item.obj)
  /\ list' = Tail(list)
  /\ UNCHANGED <<svc, owners, calm, call, left, failed, listed>>

\* One Update for all components; an entry is returned, and recorded by the
\* caller, when a component was captured for the first time.
ZeroItem ==
  /\ Listed
  /\ Item.obj.gpu /\ Item.obj.saved # Garbled /\ NeedsUpdate(Item.obj)
  /\ Item.name \notin Rejected
  /\ svc[Item.name] = Item.obj
  /\ svc' = [svc EXCEPT ![Item.name] = Zeroed(Item.obj)]
  /\ listed' = IF ToCapture(Item.obj) # {} THEN listed \union {Item.name} ELSE listed
  /\ list' = Tail(list)
  /\ UNCHANGED <<owners, calm, call, left, failed>>

\* An annotation that cannot be read, a conflict, a rejection or any other
\* error of the Update: the step returns, whatever is left in the list.
ItemFails ==
  /\ Listed /\ Item.obj.gpu
  /\ \/ Item.obj.saved = Garbled
     \/ Item.obj.saved # Garbled /\ NeedsUpdate(Item.obj)
        /\ (svc[Item.name] # Item.obj \/ Item.name \in Rejected \/ May("fail"))
  /\ list' = <<>>
  /\ failed' = TRUE
  /\ UNCHANGED <<svc, owners, calm, call, left, listed>>

EndPass ==
  /\ call = "enforce" /\ list = <<>>
  /\ call' = "none" /\ failed' = FALSE
  /\ UNCHANGED <<svc, owners, calm, list, left, listed>>

-----------------------------------------------------------------------------
(* restoreInferenceService, for the entries of a reset                     *)

BeginReset ==
  /\ May("reset")
  /\ call = "none"
  /\ call' = "restore"
  /\ left' = listed
  /\ UNCHANGED <<svc, owners, calm, list, failed, listed>>

Visit(s) == call = "restore" /\ s \in left /\ left' = left \ {s}

Bears(o) == o.live /\ o.saved # NoOriginals

SkipEntry(s) ==
  /\ Visit(s)
  /\ ~Bears(svc[s])
  /\ UNCHANGED <<svc, owners, calm, call, list, failed, listed>>

\* The wish of an owner who wrote to a captured component is discarded.
RestoreEntry(s) ==
  /\ Visit(s)
  /\ Bears(svc[s]) /\ svc[s].saved # Garbled /\ s \notin Rejected
  /\ svc' = [svc EXCEPT ![s] = GivenBack(@)]
  /\ wish' = [wish EXCEPT ![s] =
                [c \in Components |-> IF c \in edited[s] THEN svc'[s].spec[c] ELSE @[c]]]
  /\ edited' = [edited EXCEPT ![s] = {}]
  /\ UNCHANGED <<calm, call, list, failed, listed>>

\* Mutant of RestoreFails: the error is lost on the way to the caller.
RestoreFailsUnheard(s) ==
  /\ Visit(s)
  /\ Bears(svc[s])
  /\ svc[s].saved = Garbled \/ s \in Rejected \/ May("fail")
  /\ UNCHANGED <<svc, owners, calm, call, list, failed, listed>>

RestoreFails(s) ==
  /\ Visit(s)
  /\ Bears(svc[s])
  /\ svc[s].saved = Garbled \/ s \in Rejected \/ May("fail")
  /\ failed' = TRUE
  /\ UNCHANGED <<svc, owners, calm, call, list, listed>>

\* Mutant of EndReset: the list is cleared whatever came back.
EndResetRegardless ==
  /\ call = "restore" /\ left = {}
  /\ listed' = {}
  /\ call' = "none" /\ failed' = FALSE
  /\ UNCHANGED <<svc, owners, calm, list, left>>

\* The caller clears its list when every restore has succeeded.
EndReset ==
  /\ call = "restore" /\ left = {}
  /\ listed' = IF failed THEN listed ELSE {}
  /\ call' = "none" /\ failed' = FALSE
  /\ UNCHANGED <<svc, owners, calm, list, left>>

-----------------------------------------------------------------------------
(* KServe and the owners                                                   *)

\* KServe takes an upper bound of zero for one that is unset, and removes it.
Normal(b) == IF b # None /\ b.max = 0 THEN [b EXCEPT !.max = Unset] ELSE b

KServeStrips(s) ==
  /\ \E c \in Components : Normal(svc[s].spec[c]) # svc[s].spec[c]
  /\ svc' = [svc EXCEPT ![s].spec = [c \in Components |-> Normal(@[c])]]
  /\ UNCHANGED <<owners, calm, frame, listed>>

Deploy(s) ==
  /\ May("create")
  /\ ~svc[s].live
  /\ \E spec \in PerComponent :
       /\ svc' = [svc EXCEPT ![s] = Created(spec, TRUE)]
       /\ wish' = [wish EXCEPT ![s] = spec]
  /\ edited' = [edited EXCEPT ![s] = {}]
  /\ UNCHANGED <<calm, frame, listed>>

Undeploy(s) ==
  /\ May("remove")
  /\ svc[s].live
  /\ svc' = [svc EXCEPT ![s] = Absent]
  /\ wish' = [wish EXCEPT ![s] = NoOriginals]
  /\ edited' = [edited EXCEPT ![s] = {}]
  /\ UNCHANGED <<calm, frame, listed>>

\* An owner changes, adds or removes a component.
EditComponent(s, c) ==
  /\ May("edit")
  /\ svc[s].live
  /\ \E b \in (Asked \union {None}) \ {svc[s].spec[c]} :
       /\ svc' = [svc EXCEPT ![s].spec[c] = b]
       /\ wish' = [wish EXCEPT ![s][c] = b]
  /\ edited' = [edited EXCEPT ![s] =
                  IF svc[s].saved # Garbled /\ svc[s].saved[c] # None THEN @ \union {c} ELSE @]
  /\ UNCHANGED <<calm, frame, listed>>

\* An owner adds or removes the GPU request.
EditGPU(s) ==
  /\ May("gpu")
  /\ svc[s].live
  /\ svc' = [svc EXCEPT ![s].gpu = ~@]
  /\ UNCHANGED <<owners, calm, frame, listed>>

\* Somebody writes to the annotation of an enforced service.
Garble(s) ==
  /\ May("garble")
  /\ Bears(svc[s])
  /\ svc' = [svc EXCEPT ![s].saved = Garbled]
  /\ UNCHANGED <<owners, calm, frame, listed>>

Calm ==
  /\ May("calm")
  /\ calm' = TRUE
  /\ UNCHANGED <<svc, owners, frame, listed>>

-----------------------------------------------------------------------------
Pass == BeginPass \/ SkipItem \/ ZeroItem \/ ItemFails \/ EndPass

Reset ==
  \/ EndReset
  \/ \E s \in Names : SkipEntry(s) \/ RestoreEntry(s) \/ RestoreFails(s)

Next ==
  \/ Pass
  \/ BeginReset \/ Reset
  \/ \E s \in Names : KServeStrips(s) \/ Deploy(s) \/ Undeploy(s) \/ EditGPU(s) \/ Garble(s)
  \/ \E s \in Names, c \in Components : EditComponent(s, c)
  \/ Calm

Spec == Init /\ [][Next]_vars

\* While its namespace is over budget the pass is run again and again, and a
\* call that has begun goes on.
FairSpec == Spec /\ WF_vars(Pass) /\ WF_vars(Reset)

-----------------------------------------------------------------------------
(* Properties                                                              *)

AnyBounds == Asked \union {Normal(b) : b \in Asked} \union {Zero, Normal(Zero)}

PerComponentAny == [Components -> AnyBounds \union {None}]

Objects ==
  [live : BOOLEAN, gpu : BOOLEAN, spec : PerComponentAny, saved : PerComponentAny \union {Garbled}]

TypeOK ==
  /\ svc \in [Names -> Objects]
  /\ wish \in [Names -> PerComponentAny]
  /\ edited \in [Names -> SUBSET Components]
  /\ calm \in BOOLEAN /\ failed \in BOOLEAN
  /\ call \in {"none", "enforce", "restore"}
  /\ list \in Seq([name : Names, obj : Objects])
  /\ left \subseteq listed /\ listed \subseteq Names

\* The original on record of a component is what its owner asked for, not the
\* zero the operator has put there, in whatever shape KServe has left it.
OriginalIsOwners ==
  \A s \in Names :
    svc[s].live /\ svc[s].saved # Garbled
      => \A c \in Components \ edited[s] :
           svc[s].saved[c] # None => Normal(svc[s].saved[c]) = Normal(wish[s][c])

\* A service without the annotation runs with the bounds its owner asked for:
\* it was never turned down, or all of it has been given back.
FreeAsAsked ==
  \A s \in Names :
    svc[s].live /\ svc[s].saved = NoOriginals
      => \A c \in Components : Normal(svc[s].spec[c]) = Normal(wish[s][c])

\* An original, once on record, stays as it is until the annotation goes, all
\* of it, in a restore or with the object.
OriginalKept ==
  [][\A s \in Names, c \in Components :
       svc[s].saved \notin {Garbled, NoOriginals} /\ svc[s].saved[c] # None
         => \/ svc'[s].saved \in {Garbled, NoOriginals}
            \/ svc'[s].saved[c] = svc[s].saved[c]]_vars

\* What carries an original is on the list a reset works through.
EnforcedIsListed ==
  \A s \in Names : Bears(svc[s]) => s \in listed

TheBudget == "budget"

\* The contract with the owners, over this kind: who bears an original is
\* held, and the one GpuBudget is asked while a reset runs.
Contract == INSTANCE EnforcementContract WITH
  Workloads <- Names, Perishable <- {}, Budgets <- {TheBudget},
  there  <- {s \in Names : svc[s].live},
  held   <- {s \in Names : Bears(svc[s])},
  listed <- [b \in {TheBudget} |-> listed],
  asked  <- IF call = "restore" THEN {TheBudget} ELSE {}

\* The calls on InferenceServices keep the contract of EnforcementContract: a
\* service is recorded when it is first turned down, in however many components
\* and passes, comes back whole and only in a reset that lists it, and a reset
\* that could not bring one back leaves all of them on record.
KeepsContract == Contract!Spec

IsDown(s) ==
  \A c \in Components : svc[s].spec[c] # None => Normal(svc[s].spec[c]) = Normal(Zero)

\* Nothing before s in the order of the names stops every pass.
Blocks(r) == svc[r].gpu /\ (svc[r].saved = Garbled \/ r \in Rejected)

Reached(s) ==
  \E j \in DOMAIN Services :
    Services[j] = s /\ \A i \in 1 .. j : ~Blocks(Services[i])

\* A namespace that stays over budget has its services zeroed for good, in
\* whatever state the owners have left them and however often KServe writes
\* to the same fields.
ServicesComeDown ==
  \A s \in Names :
    (calm /\ svc[s].live /\ svc[s].gpu /\ Reached(s)) ~> []IsDown(s)

\* The same of every service that can be written to, in any order.
EveryServiceComesDown ==
  \A s \in Names :
    (calm /\ svc[s].live /\ svc[s].gpu /\ svc[s].saved # Garbled /\ s \notin Rejected)
      ~> []IsDown(s)

==============================================================================
