-------------------------- MODULE InferenceProofs --------------------------
(***************************************************************************)
(* Type correctness, OriginalIsOwners, FreeAsAsked, EnforcedIsListed,      *)
(* OriginalKept and KeepsContract, for any services, components and        *)
(* bounds, with every move of owners, users, KServe and failures.          *)
(*                                                                         *)
(* OriginalIsOwners is not inductive: that what is captured is the owner's *)
(* wish needs that a component not on record is at it (FreeComponents),    *)
(* and that all comes back needs that a captured component is still there  *)
(* (StillThere).  EnforcedIsListed needs that a reset which is about to    *)
(* succeed has visited every entry (ToVisit).  KeepsContract adds that     *)
(* what requests GPUs exists (NothingInert).                               *)
(***************************************************************************)
EXTENDS Inference, SequenceTheorems, TLAPS

-----------------------------------------------------------------------------
(* Bounds and objects                                                      *)

\* No bounds that occur are those of a missing component, and KServe's
\* rewriting of them is done after one step.
LEMMA NormalFacts ==
  /\ None \notin AnyBounds
  /\ AnyBounds \subseteq Bounds
  /\ \A b \in AnyBounds \union {None} :
       /\ Normal(b) \in AnyBounds \union {None}
       /\ Normal(Normal(b)) = Normal(b)
       /\ b # None => Normal(b) # None
<1>1. Asked \subseteq Bounds /\ Zero \in Bounds /\ None \notin Bounds
  BY InferenceAssumption DEF Bounds, Zero
<1>2. ASSUME NEW b \in Bounds
      PROVE  Normal(b) \in Bounds /\ Normal(Normal(b)) = Normal(b)
  <2>1. b # None
    BY <1>1
  <2>2. CASE b.max = 0
    <3>1. Normal(b) = [b EXCEPT !.max = Unset]
      BY <2>1, <2>2 DEF Normal
    <3>2. Normal(b) \in Bounds /\ Normal(b).max = Unset /\ Normal(b) # None
      BY <1>1, <3>1 DEF Bounds
    <3>3. [Normal(b) EXCEPT !.max = Unset] = Normal(b)
      BY <3>1, <3>2 DEF Bounds
    <3> QED
      BY <3>2, <3>3 DEF Normal
  <2>3. CASE b.max # 0
    BY <2>3 DEF Normal
  <2> QED
    BY <2>2, <2>3
<1>3. AnyBounds \subseteq Bounds
  BY <1>1, <1>2 DEF AnyBounds
<1>4. \A b \in AnyBounds : Normal(b) \in AnyBounds
  BY <1>1, <1>2 DEF AnyBounds
<1>5. Normal(None) = None
  BY DEF Normal
<1> QED
  BY <1>1, <1>2, <1>3, <1>4, <1>5

\* An annotation that can be read is one original or none per component.
LEMMA SavedFacts ==
  /\ NoOriginals \in PerComponentAny
  /\ Garbled \notin PerComponentAny
  /\ Absent \in Objects
  /\ \A spec \in PerComponentAny, g \in BOOLEAN : Created(spec, g) \in Objects
<1>1. NoOriginals \in PerComponentAny
  BY DEF NoOriginals, PerComponentAny
<1>2. Garbled \notin PerComponentAny
  BY NormalFacts, InferenceAssumption DEF PerComponentAny
<1> QED
  BY <1>1, <1>2 DEF Absent, Created, Objects

\* What a pass makes of an object: originals are added from the spec, those
\* on record stay, and every component on record is at zero.
LEMMA ZeroedFacts ==
  ASSUME NEW o \in Objects, o.saved # Garbled
  PROVE  LET n == Zeroed(o)
         IN  /\ n \in Objects /\ n.live = o.live /\ n.gpu = o.gpu /\ n.saved # Garbled
             /\ \A c \in Components :
                  /\ n.saved[c] = IF c \in ToCapture(o) THEN o.spec[c] ELSE o.saved[c]
                  /\ n.saved[c] # None => n.spec[c] = Zero
                  /\ n.saved[c] = None => n.spec[c] = o.spec[c]
<1> DEFINE n == Zeroed(o)
           sp == [c \in Components |->
                    IF c \in Captured(o) \union ToCapture(o) THEN Zero ELSE o.spec[c]]
           sv == [c \in Components |-> IF c \in ToCapture(o) THEN o.spec[c] ELSE o.saved[c]]
<1>1. n = [o EXCEPT !.spec = sp, !.saved = sv]
  BY DEF Zeroed
<1>2. /\ o.spec \in PerComponentAny /\ o.saved \in PerComponentAny
      /\ o.live \in BOOLEAN /\ o.gpu \in BOOLEAN
  BY DEF Objects
<1>3. sp \in PerComponentAny /\ sv \in PerComponentAny
  BY <1>2 DEF PerComponentAny, AnyBounds
<1>4. n \in Objects /\ n.live = o.live /\ n.gpu = o.gpu /\ n.spec = sp /\ n.saved = sv
  BY <1>1, <1>2, <1>3 DEF Objects
<1>5. \A c \in ToCapture(o) : o.spec[c] # None
  BY DEF ToCapture
<1>6. \A c \in Components : /\ sv[c] # None => c \in Captured(o) \union ToCapture(o)
                            /\ sv[c] = None => c \notin Captured(o) \union ToCapture(o)
  BY <1>5 DEF Captured, ToCapture
<1>7. n.saved # Garbled
  BY <1>3, <1>4, SavedFacts
<1>8. \A c \in Components :
         /\ sv[c] = IF c \in ToCapture(o) THEN o.spec[c] ELSE o.saved[c]
         /\ sv[c] # None => sp[c] = Zero
         /\ sv[c] = None => sp[c] = o.spec[c]
  BY <1>6
<1> HIDE DEF n, sp, sv
<1>9. /\ n \in Objects /\ n.live = o.live /\ n.gpu = o.gpu /\ n.saved # Garbled
      /\ \A c \in Components :
            /\ n.saved[c] = IF c \in ToCapture(o) THEN o.spec[c] ELSE o.saved[c]
            /\ n.saved[c] # None => n.spec[c] = Zero
            /\ n.saved[c] = None => n.spec[c] = o.spec[c]
  BY <1>4, <1>7, <1>8
<1> QED
  BY <1>9 DEF n

\* What a restore makes of an object: no annotation, the originals where
\* there were any, the rest as it was.
LEMMA GivenBackFacts ==
  ASSUME NEW o \in Objects, o.saved # Garbled
  PROVE  LET n == GivenBack(o)
         IN  /\ n \in Objects /\ n.live = o.live /\ n.saved = NoOriginals
             /\ \A c \in Components :
                  /\ o.saved[c] = None => n.spec[c] = o.spec[c]
                  /\ o.saved[c] # None /\ o.spec[c] # None => n.spec[c] = o.saved[c]
<1> DEFINE sp == [c \in Components |->
                    IF c \notin Captured(o) THEN o.spec[c]
                    ELSE IF o.spec[c] = None /\ o.saved[c] = [min |-> Unset, max |-> Unset]
                           THEN None
                           ELSE o.saved[c]]
<1>1. GivenBack(o) = [o EXCEPT !.spec = sp, !.saved = NoOriginals]
  BY DEF GivenBack
<1>2. /\ o.spec \in PerComponentAny /\ o.saved \in PerComponentAny
      /\ o.live \in BOOLEAN /\ o.gpu \in BOOLEAN
  BY DEF Objects
<1>3. sp \in PerComponentAny
  BY <1>2 DEF PerComponentAny
<1>4. \A c \in Components :
         /\ o.saved[c] = None => sp[c] = o.spec[c]
         /\ o.saved[c] # None /\ o.spec[c] # None => sp[c] = o.saved[c]
  BY DEF Captured
<1> HIDE DEF sp
<1>5. /\ GivenBack(o) \in Objects /\ GivenBack(o).live = o.live
      /\ GivenBack(o).spec = sp /\ GivenBack(o).saved = NoOriginals
  BY <1>1, <1>2, <1>3, SavedFacts DEF Objects
<1> QED
  BY <1>4, <1>5

-----------------------------------------------------------------------------
(* The invariant                                                           *)

\* A component that is not on record is as its owner asked.
FreeComponents ==
  \A s \in Names :
    svc[s].live /\ svc[s].saved # Garbled
      => \A c \in Components :
           svc[s].saved[c] = None => Normal(svc[s].spec[c]) = Normal(wish[s][c])

\* A component on record is there, unless its owner has taken it away.
StillThere ==
  \A s \in Names :
    svc[s].live /\ svc[s].saved # Garbled
      => \A c \in Components \ edited[s] :
           svc[s].saved[c] # None => svc[s].spec[c] # None

\* A reset without an error so far still has to visit what bears an original.
ToVisit ==
  call = "restore" /\ ~failed => \A s \in Names : Bears(svc[s]) => s \in left

IInv ==
  /\ TypeOK
  /\ OriginalIsOwners /\ FreeComponents /\ StillThere
  /\ EnforcedIsListed /\ ToVisit

\* The three facts about one object, its wish and its edited components.
Sound(o, w, e) ==
  o.live /\ o.saved # Garbled =>
    \A c \in Components :
      /\ o.saved[c] = None => Normal(o.spec[c]) = Normal(w[c])
      /\ o.saved[c] # None /\ c \notin e
           => Normal(o.saved[c]) = Normal(w[c]) /\ o.spec[c] # None

\* They are the three parts of the invariant that concern single objects.
LEMMA AllSound ==
  (OriginalIsOwners /\ FreeComponents /\ StillThere)
    <=> \A s \in Names : Sound(svc[s], wish[s], edited[s])
BY DEF OriginalIsOwners, FreeComponents, StillThere, Sound

\* The objects that are as they were are as sound as they were.
LEMMA SoundStep ==
  ASSUME OriginalIsOwners /\ FreeComponents /\ StillThere,
         NEW t,
         \A s \in Names \ {t} : /\ svc'[s] = svc[s] /\ wish'[s] = wish[s]
                                /\ edited'[s] = edited[s],
         t \in Names => Sound(svc'[t], wish'[t], edited'[t])
  PROVE  (OriginalIsOwners /\ FreeComponents /\ StillThere)'
<1>1. \A s \in Names : Sound(svc[s], wish[s], edited[s])
  BY AllSound
<1>2. ASSUME NEW s \in Names
      PROVE  Sound(svc'[s], wish'[s], edited'[s])
  <2>1. CASE s = t
    BY <2>1
  <2>2. CASE s # t
    <3>1. Sound(svc[s], wish[s], edited[s])
      BY <1>1
    <3>2. svc'[s] = svc[s] /\ wish'[s] = wish[s] /\ edited'[s] = edited[s]
      BY <2>2
    <3> QED
      BY <3>1, <3>2
  <2> QED
    BY <2>1, <2>2
<1> QED
  BY <1>2 DEF OriginalIsOwners, FreeComponents, StillThere, Sound

LEMMA InitIInv == Init => IInv
<1> SUFFICES ASSUME Init PROVE IInv
  OBVIOUS
<1>1. PerComponent \subseteq PerComponentAny
  BY DEF PerComponent, PerComponentAny, AnyBounds
<1>2. ASSUME NEW s \in Names
      PROVE  /\ svc[s] \in Objects /\ svc[s].saved = NoOriginals
             /\ svc[s].spec \in PerComponentAny
  <2>1. CASE svc[s] = Absent
    BY <2>1, SavedFacts DEF Absent
  <2>2. CASE svc[s] # Absent
    <3>0. svc[s] \in {Absent} \union {Created(spec, TRUE) : spec \in PerComponent}
      BY DEF Init
    <3>1. PICK spec \in PerComponent : svc[s] = Created(spec, TRUE)
      BY <2>2, <3>0
    <3>2. spec \in PerComponentAny /\ Created(spec, TRUE) \in Objects
      BY <1>1, SavedFacts
    <3> QED
      BY <3>1, <3>2 DEF Created
  <2> QED
    BY <2>1, <2>2
<1>3. TypeOK
  <2>1. svc \in [Names -> Objects]
    BY <1>2 DEF Init
  <2>2. wish \in [Names -> PerComponentAny]
    BY <1>2 DEF Init
  <2>3. edited \in [Names -> SUBSET Components]
    BY DEF Init
  <2>4. list \in Seq([name : Names, obj : Objects])
    BY DEF Init
  <2> QED
    BY <2>1, <2>2, <2>3, <2>4 DEF Init, TypeOK
<1>4. OriginalIsOwners /\ FreeComponents /\ StillThere
  BY <1>2 DEF Init, OriginalIsOwners, FreeComponents, StillThere, NoOriginals
<1>5. EnforcedIsListed /\ ToVisit
  BY <1>2 DEF Init, EnforcedIsListed, ToVisit, Bears
<1> QED
  BY <1>3, <1>4, <1>5 DEF IInv

-----------------------------------------------------------------------------
(* The operator                                                            *)

\* The items of a pass are services as they were read.
LEMMA ItemFacts ==
  ASSUME TypeOK, Listed
  PROVE  /\ Item.name \in Names /\ Item.obj \in Objects
         /\ Tail(list) \in Seq([name : Names, obj : Objects])
<1> DEFINE S == [name : Names, obj : Objects]
<1>1. list \in Seq(S) /\ list # <<>>
  BY DEF TypeOK, Listed
<1> HIDE DEF S
<1>2. Head(list) \in S /\ Tail(list) \in Seq(S)
  BY <1>1, HeadTailProperties
<1> QED
  BY <1>2 DEF S, Item

\* A pass that begins has the services as they are.
LEMMA BeginPassKeepsIInv == IInv /\ BeginPass => IInv'
<1> SUFFICES ASSUME IInv, BeginPass PROVE IInv'
  OBVIOUS
<1> DEFINE S == [name : Names, obj : Objects]
<1>1. Services \in Seq(Names)
  BY InferenceAssumption DEF Names
<1>2. list' \in Seq(S)
  <2>1. DOMAIN Services = 1 .. Len(Services) /\ Len(Services) \in Nat
    BY <1>1
  <2>2. \A i \in DOMAIN Services : Services[i] \in Names
    BY <1>1
  <2>3. \A i \in 1 .. Len(Services) : [name |-> Services[i], obj |-> svc[Services[i]]] \in S
    BY <2>1, <2>2 DEF IInv, TypeOK
  <2>4. list' = [i \in 1 .. Len(Services) |-> [name |-> Services[i], obj |-> svc[Services[i]]]]
    BY <2>1 DEF BeginPass
  <2> HIDE DEF S
  <2> QED
    BY <2>1, <2>3, <2>4
<1>3. TypeOK'
  BY <1>2 DEF BeginPass, IInv, TypeOK, owners
<1>4. (OriginalIsOwners /\ FreeComponents /\ StillThere)'
  BY DEF BeginPass, IInv, OriginalIsOwners, FreeComponents, StillThere, owners
<1>5. EnforcedIsListed' /\ ToVisit'
  BY DEF BeginPass, IInv, EnforcedIsListed, ToVisit
<1> QED
  BY <1>3, <1>4, <1>5 DEF IInv

\* The steps of a pass that write to no object.
LEMMA PassKeepsIInv == IInv /\ (SkipItem \/ ItemFails \/ EndPass) => IInv'
<1> SUFFICES ASSUME IInv, SkipItem \/ ItemFails \/ EndPass PROVE IInv'
  OBVIOUS
<1>1. /\ UNCHANGED <<svc, wish, edited, calm, left, listed>>
      /\ call # "restore" /\ call' # "restore" /\ call' \in {"none", "enforce", "restore"}
      /\ failed' \in BOOLEAN
  BY DEF SkipItem, ItemFails, EndPass, Listed, owners, IInv, TypeOK
<1>2. list' \in Seq([name : Names, obj : Objects])
  <2>1. CASE SkipItem
    BY <2>1, ItemFacts DEF SkipItem, IInv
  <2>2. CASE ItemFails
    BY <2>2 DEF ItemFails
  <2>3. CASE EndPass
    BY <2>3 DEF EndPass, IInv, TypeOK
  <2> QED
    BY <2>1, <2>2, <2>3
<1>3. TypeOK'
  BY <1>1, <1>2 DEF IInv, TypeOK
<1>4. (OriginalIsOwners /\ FreeComponents /\ StillThere)'
  BY <1>1 DEF IInv, OriginalIsOwners, FreeComponents, StillThere
<1>5. EnforcedIsListed' /\ ToVisit'
  BY <1>1 DEF IInv, EnforcedIsListed, ToVisit
<1> QED
  BY <1>3, <1>4, <1>5 DEF IInv

\* What is captured is the wish; what is on record stays; a service that
\* bears its first original is recorded by the caller.
LEMMA ZeroItemKeepsIInv == IInv /\ ZeroItem => IInv'
<1> SUFFICES ASSUME IInv, ZeroItem PROVE IInv'
  OBVIOUS
<1> DEFINE t == Item.name
           o == Item.obj
           n == Zeroed(o)
<1>1. /\ t \in Names /\ o \in Objects /\ o.saved # Garbled /\ svc[t] = o
      /\ NeedsUpdate(o) /\ svc' = [svc EXCEPT ![t] = n]
      /\ Tail(list) \in Seq([name : Names, obj : Objects])
  BY ItemFacts DEF ZeroItem, IInv
<1>2. /\ n \in Objects /\ n.live = o.live /\ n.gpu = o.gpu /\ n.saved # Garbled
      /\ \A c \in Components :
           /\ n.saved[c] = IF c \in ToCapture(o) THEN o.spec[c] ELSE o.saved[c]
           /\ n.saved[c] # None => n.spec[c] = Zero
           /\ n.saved[c] = None => n.spec[c] = o.spec[c]
  BY <1>1, ZeroedFacts
<1> HIDE DEF t, o, n
<1>3. svc'[t] = n /\ \A s \in Names \ {t} : svc'[s] = svc[s]
  BY <1>1 DEF IInv, TypeOK
<1>4. UNCHANGED <<wish, edited, calm, call, left, failed>> /\ list' = Tail(list)
  BY DEF ZeroItem, owners
<1>5. listed' = IF ToCapture(o) # {} THEN listed \union {t} ELSE listed
  BY DEF ZeroItem, t, o
<1>6. TypeOK'
  BY <1>1, <1>2, <1>4, <1>5 DEF IInv, TypeOK
<1>7. Zero # None
  BY NormalFacts DEF AnyBounds
<1>8. \A c \in ToCapture(o) : o.saved[c] = None /\ o.spec[c] # None /\ c \in Components
  BY DEF ToCapture, Captured
<1>9. Sound(o, wish[t], edited[t])
  BY <1>1, AllSound DEF IInv
<1>10. Sound(n, wish[t], edited[t])
  BY <1>1, <1>2, <1>7, <1>8, <1>9 DEF Sound
<1>11. (OriginalIsOwners /\ FreeComponents /\ StillThere)'
  BY <1>3, <1>4, <1>10, SoundStep DEF IInv
<1>12. EnforcedIsListed'
  <2> SUFFICES ASSUME NEW s \in Names, Bears(svc'[s])
               PROVE  s \in listed'
    BY DEF EnforcedIsListed, Bears
  <2>1. CASE s # t
    BY <1>3, <1>5, <2>1 DEF IInv, EnforcedIsListed
  <2>2. CASE s = t /\ ToCapture(o) # {}
    BY <1>5, <2>2
  <2>3. CASE s = t /\ ToCapture(o) = {}
    <3>1. Captured(o) # {}
      BY <1>1, <2>3 DEF NeedsUpdate
    <3>2. o.live /\ o.saved # NoOriginals
      BY <1>2, <1>3, <2>3, <3>1 DEF Bears, Captured, NoOriginals
    <3> QED
      BY <1>1, <1>5, <2>3, <3>2 DEF IInv, EnforcedIsListed, Bears
  <2> QED
    BY <2>1, <2>2, <2>3
<1>13. ToVisit'
  BY <1>4 DEF ZeroItem, Listed, ToVisit
<1> QED
  BY <1>6, <1>11, <1>12, <1>13 DEF IInv

\* A reset that begins has every entry of the list before it.
LEMMA BeginResetKeepsIInv == IInv /\ BeginReset => IInv'
<1> SUFFICES ASSUME IInv, BeginReset PROVE IInv'
  OBVIOUS
<1> USE DEF BeginReset, IInv, owners
<1>1. TypeOK'
  BY DEF TypeOK
<1>2. (OriginalIsOwners /\ FreeComponents /\ StillThere)'
  BY DEF OriginalIsOwners, FreeComponents, StillThere
<1>3. EnforcedIsListed' /\ ToVisit'
  BY DEF EnforcedIsListed, ToVisit
<1> QED
  BY <1>1, <1>2, <1>3

\* An entry passed over bears nothing; an error keeps the list.
LEMMA NotRestoredKeepsIInv ==
  ASSUME IInv, NEW s \in Names, SkipEntry(s) \/ RestoreFails(s)
  PROVE  IInv'
<1>1. /\ UNCHANGED <<svc, wish, edited, calm, call, list, listed>>
      /\ left' = left \ {s} /\ call = "restore"
  BY DEF SkipEntry, RestoreFails, Visit, owners
<1>2. failed' \in BOOLEAN /\ (~failed' => ~failed /\ ~Bears(svc[s]))
  BY DEF SkipEntry, RestoreFails, IInv, TypeOK
<1>3. TypeOK'
  BY <1>1, <1>2 DEF IInv, TypeOK
<1>4. (OriginalIsOwners /\ FreeComponents /\ StillThere)'
  BY <1>1 DEF IInv, OriginalIsOwners, FreeComponents, StillThere
<1>5. EnforcedIsListed'
  BY <1>1 DEF IInv, EnforcedIsListed
<1>6. ToVisit'
  BY <1>1, <1>2 DEF IInv, ToVisit
<1> QED
  BY <1>3, <1>4, <1>5, <1>6 DEF IInv

\* What is given back is what was asked for, and it bears nothing any more.
LEMMA RestoreEntryKeepsIInv ==
  ASSUME IInv, NEW t \in Names, RestoreEntry(t)
  PROVE  IInv'
<1> DEFINE o == svc[t]
           n == GivenBack(o)
           w == [c \in Components |-> IF c \in edited[t] THEN n.spec[c] ELSE wish[t][c]]
<1>1. o \in Objects /\ o.live /\ o.saved # Garbled /\ call = "restore"
  BY DEF RestoreEntry, Bears, Visit, IInv, TypeOK
<1>2. /\ n \in Objects /\ n.live = o.live /\ n.saved = NoOriginals
      /\ \A c \in Components :
           /\ o.saved[c] = None => n.spec[c] = o.spec[c]
           /\ o.saved[c] # None /\ o.spec[c] # None => n.spec[c] = o.saved[c]
  BY <1>1, GivenBackFacts
<1>3. svc' = [svc EXCEPT ![t] = n] /\ svc'[t] = n
  BY DEF RestoreEntry, IInv, TypeOK
<1>4. wish' = [wish EXCEPT ![t] = w] /\ edited' = [edited EXCEPT ![t] = {}]
  BY <1>3 DEF RestoreEntry
<1>5. w \in PerComponentAny
  BY <1>2 DEF IInv, TypeOK, PerComponentAny, Objects
<1> HIDE DEF n, w
<1>6. UNCHANGED <<calm, call, list, failed, listed>> /\ left' = left \ {t}
  BY DEF RestoreEntry, Visit
<1>7. TypeOK'
  BY <1>2, <1>3, <1>4, <1>5, <1>6 DEF IInv, TypeOK
<1>8. Sound(o, wish[t], edited[t])
  BY AllSound DEF IInv
<1>9. \A c \in Components : Normal(n.spec[c]) = Normal(w[c])
  <2> SUFFICES ASSUME NEW c \in Components
               PROVE  Normal(n.spec[c]) = Normal(w[c])
    OBVIOUS
  <2>1. CASE c \in edited[t]
    BY <2>1 DEF w
  <2>2. CASE c \notin edited[t]
    <3>1. w[c] = wish[t][c]
      BY <2>2 DEF w
    <3>2. CASE o.saved[c] = None
      BY <1>1, <1>2, <1>8, <3>1, <3>2 DEF Sound
    <3>3. CASE o.saved[c] # None
      BY <1>1, <1>2, <1>8, <2>2, <3>1, <3>3 DEF Sound
    <3> QED
      BY <3>2, <3>3
  <2> QED
    BY <2>1, <2>2
<1>10. Sound(n, w, {})
  BY <1>2, <1>9 DEF Sound, NoOriginals
<1>11. /\ svc'[t] = n /\ wish'[t] = w /\ edited'[t] = {}
       /\ \A s \in Names \ {t} : svc'[s] = svc[s] /\ wish'[s] = wish[s] /\ edited'[s] = edited[s]
  BY <1>3, <1>4 DEF IInv, TypeOK
<1>12. (OriginalIsOwners /\ FreeComponents /\ StillThere)'
  BY <1>10, <1>11, SoundStep DEF IInv
<1>13. \A s \in Names : Bears(svc'[s]) => s # t /\ Bears(svc[s])
  BY <1>2, <1>11 DEF Bears
<1>14. EnforcedIsListed' /\ ToVisit'
  BY <1>6, <1>13 DEF IInv, EnforcedIsListed, ToVisit, Bears
<1> QED
  BY <1>7, <1>12, <1>14 DEF IInv

\* The list is cleared only when nothing bears an original any more.
LEMMA EndResetKeepsIInv == IInv /\ EndReset => IInv'
<1> SUFFICES ASSUME IInv, EndReset PROVE IInv'
  OBVIOUS
<1>1. /\ UNCHANGED <<svc, wish, edited, calm, list, left>>
      /\ call = "restore" /\ left = {} /\ call' = "none" /\ failed' = FALSE
      /\ listed' = IF failed THEN listed ELSE {}
  BY DEF EndReset, owners
<1>2. TypeOK'
  BY <1>1 DEF IInv, TypeOK
<1>3. (OriginalIsOwners /\ FreeComponents /\ StillThere)'
  BY <1>1 DEF IInv, OriginalIsOwners, FreeComponents, StillThere
<1>4. EnforcedIsListed' /\ ToVisit'
  BY <1>1 DEF IInv, TypeOK, EnforcedIsListed, ToVisit
<1> QED
  BY <1>2, <1>3, <1>4 DEF IInv

-----------------------------------------------------------------------------
(* KServe and the owners                                                   *)

\* Who writes to a single object and puts no original on it keeps the
\* invariant, if the object stays sound.
LEMMA OwnerStep ==
  ASSUME IInv,
         NEW t \in Names, NEW n \in Objects,
         NEW w \in PerComponentAny, NEW e \in SUBSET Components,
         svc' = [svc EXCEPT ![t] = n],
         wish' = [wish EXCEPT ![t] = w],
         edited' = [edited EXCEPT ![t] = e],
         UNCHANGED <<calm, frame, listed>>,
         Sound(n, w, e),
         Bears(n) => Bears(svc[t])
  PROVE  IInv'
<1>1. /\ svc'[t] = n /\ wish'[t] = w /\ edited'[t] = e
      /\ \A s \in Names \ {t} : svc'[s] = svc[s] /\ wish'[s] = wish[s] /\ edited'[s] = edited[s]
  BY DEF IInv, TypeOK
<1>2. TypeOK'
  BY DEF IInv, TypeOK, frame
<1>3. (OriginalIsOwners /\ FreeComponents /\ StillThere)'
  BY <1>1, SoundStep DEF IInv
<1>4. \A s \in Names : Bears(svc'[s]) => Bears(svc[s])
  BY <1>1
<1>5. EnforcedIsListed' /\ ToVisit'
  BY <1>4 DEF IInv, EnforcedIsListed, ToVisit, Bears, frame
<1> QED
  BY <1>2, <1>3, <1>5 DEF IInv

\* KServe changes how the bounds are written and not what they are.
LEMMA KServeKeepsIInv ==
  ASSUME IInv, NEW t \in Names, KServeStrips(t)
  PROVE  IInv'
<1> DEFINE o == svc[t]
           sp == [c \in Components |-> Normal(o.spec[c])]
           n == [o EXCEPT !.spec = sp]
<1>1. o \in Objects /\ wish[t] \in PerComponentAny /\ edited[t] \in SUBSET Components
  BY DEF IInv, TypeOK
<1>2. \A c \in Components : o.spec[c] \in AnyBounds \union {None}
  BY <1>1 DEF Objects, PerComponentAny
<1>3. sp \in PerComponentAny
  BY <1>2, NormalFacts DEF PerComponentAny
<1>4. n \in Objects /\ n.spec = sp /\ n.live = o.live /\ n.saved = o.saved
  BY <1>1, <1>3 DEF Objects
<1>5. Sound(o, wish[t], edited[t])
  BY AllSound DEF IInv
<1>6. \A c \in Components : /\ Normal(sp[c]) = Normal(o.spec[c])
                            /\ o.spec[c] # None => sp[c] # None
  BY <1>2, NormalFacts
<1>7. svc' = [svc EXCEPT ![t] = n] /\ UNCHANGED <<wish, edited, calm, frame, listed>>
  BY <1>1 DEF KServeStrips, owners, IInv, TypeOK
<1> HIDE DEF sp, n
<1>8. Sound(n, wish[t], edited[t])
  BY <1>4, <1>5, <1>6 DEF Sound
<1>9. wish' = [wish EXCEPT ![t] = wish[t]] /\ edited' = [edited EXCEPT ![t] = edited[t]]
  BY <1>7 DEF IInv, TypeOK
<1>10. Bears(n) => Bears(o)
  BY <1>4 DEF Bears
<1> QED
  BY <1>1, <1>4, <1>7, <1>8, <1>9, <1>10, OwnerStep

\* A new object is as its owner wishes, and one that is gone bears nothing.
LEMMA LifeKeepsIInv ==
  ASSUME IInv, NEW t \in Names, Deploy(t) \/ Undeploy(t)
  PROVE  IInv'
<1>1. PICK n \in Objects, w \in PerComponentAny :
        /\ svc' = [svc EXCEPT ![t] = n] /\ wish' = [wish EXCEPT ![t] = w]
        /\ n.saved = NoOriginals /\ (n.live => n.spec = w)
  <2>1. CASE Deploy(t)
    <3>1. PICK spec \in PerComponent : /\ svc' = [svc EXCEPT ![t] = Created(spec, TRUE)]
                                       /\ wish' = [wish EXCEPT ![t] = spec]
      BY <2>1 DEF Deploy
    <3>2. spec \in PerComponentAny
      BY DEF PerComponent, PerComponentAny, AnyBounds
    <3>3. /\ Created(spec, TRUE) \in Objects
          /\ Created(spec, TRUE).saved = NoOriginals /\ Created(spec, TRUE).spec = spec
      BY <3>2, SavedFacts DEF Created
    <3> QED
      BY <3>1, <3>2, <3>3
  <2>2. CASE Undeploy(t)
    <3>1. Absent.saved = NoOriginals /\ Absent.live = FALSE
      BY DEF Absent
    <3> QED
      BY <2>2, <3>1, SavedFacts DEF Undeploy
  <2> QED
    BY <2>1, <2>2
<1>2. edited' = [edited EXCEPT ![t] = {}] /\ UNCHANGED <<calm, frame, listed>>
  BY DEF Deploy, Undeploy
<1>3. Sound(n, w, {}) /\ ~Bears(n)
  BY <1>1 DEF Sound, NoOriginals, Bears
<1> QED
  BY <1>1, <1>2, <1>3, OwnerStep

\* An edit of a component on record is remembered as one.
LEMMA EditKeepsIInv ==
  ASSUME IInv, NEW t \in Names, NEW d \in Components, EditComponent(t, d)
  PROVE  IInv'
<1> DEFINE o == svc[t]
           e == IF o.saved # Garbled /\ o.saved[d] # None THEN edited[t] \union {d} ELSE edited[t]
<1>1. PICK b \in Asked \union {None} : /\ svc' = [svc EXCEPT ![t].spec[d] = b]
                                       /\ wish' = [wish EXCEPT ![t][d] = b]
  BY DEF EditComponent
<1> DEFINE sp == [o.spec EXCEPT ![d] = b]
           n == [o EXCEPT !.spec = sp]
           w == [wish[t] EXCEPT ![d] = b]
<1>2. o \in Objects /\ wish[t] \in PerComponentAny /\ edited[t] \in SUBSET Components
  BY DEF IInv, TypeOK
<1>3. b \in AnyBounds \union {None}
  BY DEF AnyBounds
<1>4. sp \in PerComponentAny /\ w \in PerComponentAny
  BY <1>2, <1>3 DEF Objects, PerComponentAny
<1>5. /\ sp[d] = b /\ w[d] = b
      /\ \A c \in Components \ {d} : sp[c] = o.spec[c] /\ w[c] = wish[t][c]
  BY <1>2 DEF Objects, PerComponentAny
<1>6. n \in Objects /\ n.spec = sp /\ n.live = o.live /\ n.saved = o.saved
  BY <1>2, <1>4 DEF Objects
<1>7. /\ svc' = [svc EXCEPT ![t] = n] /\ wish' = [wish EXCEPT ![t] = w]
      /\ edited' = [edited EXCEPT ![t] = e] /\ UNCHANGED <<calm, frame, listed>>
  BY <1>1, <1>2 DEF EditComponent, IInv, TypeOK
<1>8. Sound(o, wish[t], edited[t])
  BY AllSound DEF IInv
<1>9. e \in SUBSET Components
  BY <1>2
<1>10. \A c \in Components : /\ c \notin e => c \notin edited[t]
                             /\ o.saved # Garbled /\ o.saved[d] # None => d \in e
  OBVIOUS
<1> HIDE DEF sp, n, w, e
<1>11. Sound(n, w, e)
  <2> SUFFICES ASSUME n.live, n.saved # Garbled, NEW c \in Components
               PROVE  /\ n.saved[c] = None => Normal(n.spec[c]) = Normal(w[c])
                      /\ n.saved[c] # None /\ c \notin e
                           => Normal(n.saved[c]) = Normal(w[c]) /\ n.spec[c] # None
    BY DEF Sound
  <2>1. CASE c = d
    BY <1>5, <1>6, <1>10, <2>1
  <2>2. CASE c # d
    BY <1>5, <1>6, <1>8, <1>10, <2>2 DEF Sound
  <2> QED
    BY <2>1, <2>2
<1>12. Bears(n) => Bears(o)
  BY <1>6 DEF Bears
<1> QED
  BY <1>4, <1>6, <1>7, <1>9, <1>11, <1>12, OwnerStep

\* A change of the GPU request, or of the annotation of a service that has it.
LEMMA MarkKeepsIInv ==
  ASSUME IInv, NEW t \in Names, EditGPU(t) \/ Garble(t)
  PROVE  IInv'
<1> DEFINE o == svc[t]
<1>1. o \in Objects /\ wish[t] \in PerComponentAny /\ edited[t] \in SUBSET Components
  BY DEF IInv, TypeOK
<1>2. Sound(o, wish[t], edited[t])
  BY AllSound DEF IInv
<1>3. /\ wish' = [wish EXCEPT ![t] = wish[t]] /\ edited' = [edited EXCEPT ![t] = edited[t]]
      /\ UNCHANGED <<calm, frame, listed>>
  BY DEF EditGPU, Garble, owners, IInv, TypeOK
<1>4. CASE EditGPU(t)
  <2> DEFINE n == [o EXCEPT !.gpu = ~@]
  <2>1. n \in Objects /\ n.live = o.live /\ n.spec = o.spec /\ n.saved = o.saved
    BY <1>1 DEF Objects
  <2>2. svc' = [svc EXCEPT ![t] = n]
    BY <1>4 DEF EditGPU
  <2> HIDE DEF n
  <2>3. Sound(n, wish[t], edited[t]) /\ (Bears(n) => Bears(o))
    BY <1>2, <2>1 DEF Sound, Bears
  <2> QED
    BY <1>1, <1>3, <2>1, <2>2, <2>3, OwnerStep
<1>5. CASE Garble(t)
  <2> DEFINE n == [o EXCEPT !.saved = Garbled]
  <2>1. n \in Objects /\ n.saved = Garbled
    BY <1>1 DEF Objects
  <2>2. svc' = [svc EXCEPT ![t] = n] /\ Bears(o)
    BY <1>5 DEF Garble
  <2> HIDE DEF n
  <2>3. Sound(n, wish[t], edited[t])
    BY <2>1 DEF Sound
  <2> QED
    BY <1>1, <1>3, <2>1, <2>2, <2>3, OwnerStep
<1> QED
  BY <1>4, <1>5

LEMMA NextIInv == IInv /\ [Next]_vars => IInv'
<1> SUFFICES ASSUME IInv, [Next]_vars PROVE IInv'
  OBVIOUS
<1>1. CASE Pass
  BY <1>1, BeginPassKeepsIInv, PassKeepsIInv, ZeroItemKeepsIInv DEF Pass
<1>2. CASE BeginReset
  BY <1>2, BeginResetKeepsIInv
<1>3. CASE Reset
  BY <1>3, EndResetKeepsIInv, NotRestoredKeepsIInv, RestoreEntryKeepsIInv DEF Reset
<1>4. CASE \E s \in Names : KServeStrips(s) \/ Deploy(s) \/ Undeploy(s) \/ EditGPU(s) \/ Garble(s)
  BY <1>4, KServeKeepsIInv, LifeKeepsIInv, MarkKeepsIInv
<1>5. CASE \E s \in Names, c \in Components : EditComponent(s, c)
  BY <1>5, EditKeepsIInv
<1>6. CASE Calm \/ UNCHANGED vars
  <2>1. UNCHANGED <<svc, wish, edited, call, list, left, failed, listed>> /\ calm' \in BOOLEAN
    BY <1>6 DEF Calm, vars, owners, frame, IInv, TypeOK
  <2>2. TypeOK'
    BY <2>1 DEF IInv, TypeOK
  <2>3. (OriginalIsOwners /\ FreeComponents /\ StillThere)'
    BY <2>1 DEF IInv, OriginalIsOwners, FreeComponents, StillThere
  <2>4. EnforcedIsListed' /\ ToVisit'
    BY <2>1 DEF IInv, EnforcedIsListed, ToVisit
  <2> QED
    BY <2>2, <2>3, <2>4 DEF IInv
<1> QED
  BY <1>1, <1>2, <1>3, <1>4, <1>5, <1>6 DEF Next

LEMMA Invariance == Spec => []IInv
BY InitIInv, NextIInv, PTL DEF Spec

-----------------------------------------------------------------------------
(* The theorems                                                            *)

\* Every step keeps every object, wish, item and list in its range.
THEOREM TypeCorrect == Spec => []TypeOK
BY Invariance, PTL DEF IInv

\* Whatever owners, KServe and failures do, the original on record is the
\* owner's and never the operator's zero.
THEOREM OriginalAlwaysOwners == Spec => []OriginalIsOwners
BY Invariance, PTL DEF IInv

\* A service without the annotation is as its owner asked, in every component.
THEOREM FreeAlwaysAsAsked == Spec => []FreeAsAsked
<1>1. IInv => FreeAsAsked
  BY SavedFacts DEF IInv, FreeComponents, FreeAsAsked, NoOriginals
<1> QED
  BY Invariance, <1>1, PTL

\* A reset finds on its list whatever carries an original.
THEOREM EnforcedAlwaysListed == Spec => []EnforcedIsListed
BY Invariance, PTL DEF IInv

\* No pass, however often repeated, replaces an original on record.
THEOREM OriginalEverKept == Spec => OriginalKept
<1> DEFINE Kept ==
      \A s \in Names, c \in Components :
        svc[s].saved \notin {Garbled, NoOriginals} /\ svc[s].saved[c] # None
          => \/ svc'[s].saved \in {Garbled, NoOriginals}
             \/ svc'[s].saved[c] = svc[s].saved[c]
<1>1. IInv /\ [Next]_vars => [Kept]_vars
  <2> SUFFICES ASSUME IInv, [Next]_vars,
                      NEW s \in Names, NEW c \in Components,
                      svc[s].saved \notin {Garbled, NoOriginals}, svc[s].saved[c] # None,
                      svc'[s].saved \notin {Garbled, NoOriginals}
               PROVE  svc'[s].saved[c] = svc[s].saved[c]
    OBVIOUS
  <2>0. svc \in [Names -> Objects]
    BY DEF IInv, TypeOK
  <2>1. CASE ZeroItem
    <3>1. /\ Item.name \in Names /\ Item.obj \in Objects /\ Item.obj.saved # Garbled
          /\ svc[Item.name] = Item.obj /\ svc' = [svc EXCEPT ![Item.name] = Zeroed(Item.obj)]
      BY <2>1, ItemFacts DEF ZeroItem, IInv
    <3>2. CASE s = Item.name
      <4>1. svc'[s] = Zeroed(svc[s])
        BY <2>0, <3>1, <3>2
      <4>2. c \notin ToCapture(svc[s])
        BY DEF ToCapture, Captured
      <4> QED
        BY <3>1, <3>2, <4>1, <4>2, ZeroedFacts
    <3>3. CASE s # Item.name
      BY <2>0, <3>1, <3>3
    <3> QED
      BY <3>2, <3>3
  <2>2. ASSUME NEW t \in Names, RestoreEntry(t)
        PROVE  svc'[s].saved[c] = svc[s].saved[c]
    <3>1. svc[t] \in Objects /\ svc[t].saved # Garbled /\ svc' = [svc EXCEPT ![t] = GivenBack(svc[t])]
      BY <2>0, <2>2 DEF RestoreEntry
    <3>2. GivenBack(svc[t]).saved = NoOriginals
      BY <3>1, GivenBackFacts
    <3> QED
      BY <2>0, <3>1, <3>2
  <2>3. ASSUME NEW t \in Names, Deploy(t) \/ Undeploy(t) \/ Garble(t)
        PROVE  svc'[s].saved[c] = svc[s].saved[c]
    <3>1. t # s
      BY <2>0, <2>3 DEF Deploy, Undeploy, Garble, Created, Absent, Objects
    <3> QED
      BY <2>0, <2>3, <3>1 DEF Deploy, Undeploy, Garble
  <2>4. ASSUME NEW t \in Names,
               KServeStrips(t) \/ EditGPU(t) \/ \E d \in Components : EditComponent(t, d)
        PROVE  svc'[s].saved[c] = svc[s].saved[c]
    BY <2>0, <2>4 DEF KServeStrips, EditGPU, EditComponent, Objects
  <2>5. CASE UNCHANGED svc
    BY <2>5
  <2> QED
    BY <2>1, <2>2, <2>3, <2>4, <2>5 DEF Next, Pass, Reset, BeginPass, SkipItem, ItemFails,
       EndPass, BeginReset, EndReset, SkipEntry, RestoreFails, Calm, vars
<1> QED
  BY Invariance, <1>1, PTL DEF Spec, OriginalKept

-----------------------------------------------------------------------------
(* The contract                                                            *)

\* Only objects that are there request GPUs.
NothingInert == \A s \in Names : svc[s].gpu => svc[s].live

\* Its variables, as the calls have them.
ThereNow == {s \in Names : svc[s].live}

HeldNow == {s \in Names : Bears(svc[s])}

ListedNow == [b \in {TheBudget} |-> listed]

AskedNow == IF call = "restore" THEN {TheBudget} ELSE {}

LEMMA InitNothingInert == Init => NothingInert
BY DEF Init, NothingInert, Absent, Created

LEMMA NextNothingInert == IInv /\ NothingInert /\ [Next]_vars => NothingInert'
<1> SUFFICES ASSUME IInv, NothingInert, [Next]_vars PROVE NothingInert'
  OBVIOUS
<1>0. svc \in [Names -> Objects]
  BY DEF IInv, TypeOK
<1>1. CASE ZeroItem
  <2>1. /\ Item.obj \in Objects /\ Item.obj.saved # Garbled /\ svc[Item.name] = Item.obj
        /\ svc' = [svc EXCEPT ![Item.name] = Zeroed(Item.obj)]
    BY <1>1, ItemFacts DEF ZeroItem, IInv
  <2>2. Zeroed(Item.obj).live = Item.obj.live /\ Zeroed(Item.obj).gpu = Item.obj.gpu
    BY <2>1, ZeroedFacts
  <2> QED
    BY <1>0, <2>1, <2>2 DEF NothingInert
<1>2. ASSUME NEW t \in Names, RestoreEntry(t) PROVE NothingInert'
  <2>1. svc[t].live /\ svc[t].saved # Garbled /\ svc' = [svc EXCEPT ![t] = GivenBack(svc[t])]
    BY <1>2 DEF RestoreEntry, Bears
  <2>2. GivenBack(svc[t]).live = svc[t].live
    BY <1>0, <2>1, GivenBackFacts
  <2> QED
    BY <1>0, <2>1, <2>2 DEF NothingInert
<1>3. ASSUME NEW t \in Names,
             \/ KServeStrips(t) \/ Deploy(t) \/ Undeploy(t) \/ EditGPU(t) \/ Garble(t)
             \/ \E c \in Components : EditComponent(t, c)
      PROVE  NothingInert'
  BY <1>0, <1>3 DEF KServeStrips, Deploy, Undeploy, EditGPU, Garble, EditComponent, Created,
     Absent, Objects, NothingInert
<1>4. CASE UNCHANGED svc
  BY <1>4 DEF NothingInert
<1> QED
  BY <1>1, <1>2, <1>3, <1>4 DEF Next, Pass, Reset, BeginPass, SkipItem, ItemFails, EndPass,
     BeginReset, EndReset, SkipEntry, RestoreFails, Calm, vars

LEMMA ContractStutter ==
  ASSUME UNCHANGED <<ThereNow, HeldNow, listed, AskedNow>>
  PROVE  UNCHANGED Contract!vars
BY DEF Contract!vars, ThereNow, HeldNow, ListedNow, AskedNow

\* A step that changes no object but t, and not whether t is there or bears an
\* original.
LEMMA SameHeld ==
  ASSUME NEW t, \A s \in Names \ {t} : svc'[s] = svc[s],
         t \in Names => /\ svc'[t].live <=> svc[t].live
                        /\ Bears(svc'[t]) <=> Bears(svc[t])
  PROVE  ThereNow' = ThereNow /\ HeldNow' = HeldNow
BY DEF ThereNow, HeldNow, Bears

\* The first capture of a service is the contract's TakeDown; zeroing one
\* again is none of its steps.
LEMMA ZeroItemKeepsContract ==
  ASSUME IInv, NothingInert, ZeroItem
  PROVE  Contract!Next \/ UNCHANGED Contract!vars
<1> DEFINE t == Item.name
           o == Item.obj
           n == Zeroed(o)
<1>1. /\ t \in Names /\ o \in Objects /\ o.saved # Garbled /\ svc[t] = o
      /\ NeedsUpdate(o) /\ svc' = [svc EXCEPT ![t] = n] /\ o.live
  BY ItemFacts DEF ZeroItem, IInv, NothingInert
<1>2. /\ n.live = o.live
      /\ \A c \in Components :
           n.saved[c] = IF c \in ToCapture(o) THEN o.spec[c] ELSE o.saved[c]
  BY <1>1, ZeroedFacts
<1>3. /\ listed' = IF ToCapture(o) # {} THEN listed \union {t} ELSE listed
      /\ UNCHANGED call
  BY DEF ZeroItem
<1> HIDE DEF t, o, n
<1>4. svc'[t] = n /\ \A s \in Names \ {t} : svc'[s] = svc[s]
  BY <1>1 DEF IInv, TypeOK
<1>5. AskedNow' = AskedNow
  BY <1>3 DEF AskedNow
<1>6. \A c \in Captured(o) \union ToCapture(o) : c \in Components /\ n.saved[c] # None
  BY <1>2 DEF Captured, ToCapture
<1>7. n.saved # NoOriginals
  BY <1>1, <1>6 DEF NeedsUpdate, NoOriginals
<1>8. ThereNow' = ThereNow /\ t \in ThereNow
  BY <1>1, <1>2, <1>4 DEF ThereNow
<1>9. CASE ToCapture(o) # {}
  <2>1. Bears(n)
    BY <1>1, <1>2, <1>7 DEF Bears
  <2>2. HeldNow' = HeldNow \union {t}
    BY <1>1, <1>4, <2>1 DEF HeldNow, Bears
  <2>3. ListedNow' = [ListedNow EXCEPT ![TheBudget] = @ \union {t}]
    BY <1>3, <1>9 DEF ListedNow
  <2>4. Contract!TakeDown(TheBudget, t)
    BY <1>5, <1>8, <2>2, <2>3
       DEF Contract!TakeDown, Contract!Record, ThereNow, HeldNow, ListedNow, AskedNow
  <2> QED
    BY <1>1, <2>4 DEF Contract!Next
<1>10. CASE ToCapture(o) = {}
  <2>1. PICK c \in Captured(o) : c \in Components /\ o.saved[c] # None
    BY <1>1, <1>10 DEF NeedsUpdate, Captured
  <2>2. o.saved # NoOriginals
    BY <2>1 DEF NoOriginals
  <2>3. HeldNow' = HeldNow
    BY <1>1, <1>2, <1>4, <1>7, <2>2, SameHeld DEF Bears
  <2> QED
    BY <1>3, <1>5, <1>8, <1>10, <2>3, ContractStutter
<1> QED
  BY <1>9, <1>10

\* An original goes back only while a reset runs that has it on its list.
LEMMA RestoreEntryKeepsContract ==
  ASSUME IInv, NEW t \in Names, RestoreEntry(t)
  PROVE  Contract!Next
<1>1. /\ svc[t] \in Objects /\ svc[t].saved # Garbled
      /\ svc' = [svc EXCEPT ![t] = GivenBack(svc[t])]
      /\ call = "restore" /\ t \in listed /\ UNCHANGED <<call, listed>>
  BY DEF RestoreEntry, Visit, IInv, TypeOK
<1>2. GivenBack(svc[t]).saved = NoOriginals
  BY <1>1, GivenBackFacts
<1>3. /\ ~Bears(svc'[t]) /\ svc'[t].live = svc[t].live
      /\ \A s \in Names \ {t} : svc'[s] = svc[s]
  BY <1>1, <1>2, GivenBackFacts DEF IInv, TypeOK, Bears
<1>4. ThereNow' = ThereNow /\ HeldNow' = HeldNow \ {t}
  BY <1>3 DEF ThereNow, HeldNow, Bears
<1>5. ListedNow' = ListedNow /\ AskedNow' = AskedNow
  BY <1>1 DEF ListedNow, AskedNow
<1>6. TheBudget \in AskedNow /\ t \in ListedNow[TheBudget]
  BY <1>1 DEF ListedNow, AskedNow
<1>7. Contract!GiveBack(t)
  BY <1>4, <1>5, <1>6 DEF Contract!GiveBack, ThereNow, HeldNow, ListedNow, AskedNow
<1> QED
  BY <1>7 DEF Contract!Next

\* A reset closes the request only when nothing on its list is held.
LEMMA EndResetKeepsContract ==
  ASSUME IInv, EndReset
  PROVE  Contract!Next
<1>1. /\ call = "restore" /\ left = {} /\ call' = "none" /\ UNCHANGED svc
      /\ listed' = IF failed THEN listed ELSE {}
  BY DEF EndReset
<1>2. /\ ThereNow' = ThereNow /\ HeldNow' = HeldNow
      /\ AskedNow' = AskedNow \ {TheBudget} /\ TheBudget \in AskedNow
  BY <1>1 DEF ThereNow, HeldNow, AskedNow
<1>3. CASE failed
  <2>1. ListedNow' = ListedNow
    BY <1>1, <1>3 DEF ListedNow
  <2>2. Contract!Withdraw(TheBudget)
    BY <1>2, <2>1 DEF Contract!Withdraw, ThereNow, HeldNow, ListedNow, AskedNow
  <2> QED
    BY <2>2 DEF Contract!Next
<1>4. CASE ~failed
  <2>1. ListedNow' = [ListedNow EXCEPT ![TheBudget] = {}]
    BY <1>1, <1>4 DEF ListedNow
  <2>2. ListedNow[TheBudget] \intersect HeldNow = {}
    BY <1>1, <1>4 DEF HeldNow, IInv, ToVisit
  <2>3. Contract!Serve(TheBudget)
    BY <1>2, <2>1, <2>2 DEF Contract!Serve, ThereNow, HeldNow, ListedNow, AskedNow
  <2> QED
    BY <2>3 DEF Contract!Next
<1> QED
  BY <1>3, <1>4

\* Owners and KServe hold nothing; what they may do is create and delete.
LEMMA OwnersKeepContract ==
  ASSUME IInv, NEW t \in Names,
         \/ KServeStrips(t) \/ Deploy(t) \/ Undeploy(t) \/ EditGPU(t) \/ Garble(t)
         \/ \E c \in Components : EditComponent(t, c)
  PROVE  Contract!Next \/ UNCHANGED Contract!vars
<1>0. svc \in [Names -> Objects] /\ Garbled # NoOriginals
  BY SavedFacts DEF IInv, TypeOK
<1>1. UNCHANGED <<call, listed>> /\ \A s \in Names \ {t} : svc'[s] = svc[s]
  BY <1>0 DEF KServeStrips, Deploy, Undeploy, EditGPU, Garble, EditComponent, frame
<1>2. ListedNow' = ListedNow /\ AskedNow' = AskedNow
  BY <1>1 DEF ListedNow, AskedNow
<1>3. CASE Deploy(t)
  <2>1. svc'[t].live /\ ~Bears(svc'[t]) /\ ~Bears(svc[t])
    BY <1>0, <1>3 DEF Deploy, Created, Bears
  <2>2. ThereNow' = ThereNow \union {t} /\ HeldNow' = HeldNow
    BY <1>1, <2>1 DEF ThereNow, HeldNow, Bears
  <2>3. Contract!Appear(t)
    BY <1>2, <2>2 DEF Contract!Appear, ThereNow, HeldNow, ListedNow, AskedNow
  <2> QED
    BY <2>3 DEF Contract!Next
<1>4. CASE Undeploy(t)
  <2>1. ~svc'[t].live /\ ~Bears(svc'[t])
    BY <1>0, <1>4 DEF Undeploy, Absent, Bears
  <2>2. ThereNow' = ThereNow \ {t} /\ HeldNow' = HeldNow \ {t}
    BY <1>1, <2>1 DEF ThereNow, HeldNow, Bears
  <2>3. Contract!Vanish(t)
    BY <1>2, <2>2 DEF Contract!Vanish, ThereNow, HeldNow, ListedNow, AskedNow
  <2> QED
    BY <2>3 DEF Contract!Next
<1>5. CASE \/ KServeStrips(t) \/ EditGPU(t) \/ Garble(t)
           \/ \E c \in Components : EditComponent(t, c)
  <2>1. svc'[t].live = svc[t].live /\ (Bears(svc'[t]) <=> Bears(svc[t]))
    BY <1>0, <1>5 DEF KServeStrips, EditGPU, Garble, EditComponent, Bears, Objects
  <2>2. ThereNow' = ThereNow /\ HeldNow' = HeldNow
    BY <1>1, <2>1, SameHeld
  <2> QED
    BY <1>1, <1>2, <2>2, ContractStutter
<1> QED
  BY <1>3, <1>4, <1>5

LEMMA NextKeepsContract ==
  IInv /\ NothingInert /\ [Next]_vars => [Contract!Next]_Contract!vars
<1> SUFFICES ASSUME IInv, NothingInert, [Next]_vars
             PROVE  Contract!Next \/ UNCHANGED Contract!vars
  OBVIOUS
<1>1. CASE UNCHANGED <<svc, call, listed>>
  BY <1>1, ContractStutter DEF ThereNow, HeldNow, AskedNow
<1>2. CASE BeginPass \/ EndPass
  <2>1. UNCHANGED <<svc, listed>> /\ call # "restore" /\ call' # "restore"
    BY <1>2 DEF BeginPass, EndPass
  <2> QED
    BY <2>1, ContractStutter DEF ThereNow, HeldNow, AskedNow
<1>3. CASE BeginReset
  <2>1. /\ ThereNow' = ThereNow /\ HeldNow' = HeldNow /\ ListedNow' = ListedNow
        /\ AskedNow' = AskedNow \union {TheBudget}
    BY <1>3 DEF BeginReset, ThereNow, HeldNow, ListedNow, AskedNow
  <2>2. Contract!Ask(TheBudget)
    BY <2>1 DEF Contract!Ask, ThereNow, HeldNow, ListedNow, AskedNow
  <2> QED
    BY <2>2 DEF Contract!Next
<1>4. CASE ZeroItem
  BY <1>4, ZeroItemKeepsContract
<1>5. CASE EndReset
  BY <1>5, EndResetKeepsContract
<1>6. CASE \E s \in Names : RestoreEntry(s)
  BY <1>6, RestoreEntryKeepsContract
<1>7. CASE \/ \E s \in Names :
                KServeStrips(s) \/ Deploy(s) \/ Undeploy(s) \/ EditGPU(s) \/ Garble(s)
           \/ \E s \in Names, c \in Components : EditComponent(s, c)
  BY <1>7, OwnersKeepContract
<1> QED
  BY <1>1, <1>2, <1>3, <1>4, <1>5, <1>6, <1>7 DEF Next, Pass, Reset, SkipItem, ItemFails,
     SkipEntry, RestoreFails, Calm, vars, frame

LEMMA InitKeepsContract == Init => Contract!Init
<1> SUFFICES ASSUME Init PROVE Contract!Init
  OBVIOUS
<1>1. \A s \in Names : svc[s].saved = NoOriginals
  BY DEF Init, Absent, Created
<1>2. HeldNow = {} /\ AskedNow = {} /\ listed = {}
  BY <1>1 DEF Init, HeldNow, AskedNow, Bears
<1> QED
  BY <1>2 DEF Contract!Init, HeldNow, AskedNow

\* For any services, components and bounds the calls on InferenceServices
\* keep the contract with the owners: the second implementation of it, with
\* originals of many fields, annotations that cannot be read, and a reset
\* that any of its entries can make fail.
THEOREM ContractKept == Spec => KeepsContract
BY Invariance, InitNothingInert, NextNothingInert, InitKeepsContract, NextKeepsContract, PTL
   DEF Spec, KeepsContract, Contract!Spec

=============================================================================
