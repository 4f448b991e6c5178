--------------------------- MODULE EnforcementPass ---------------------------
(***************************************************************************)
(* Enforcer with the memory of which objects their owners have touched     *)
(* since the call in progress began: what one pass of EnforceNamespace     *)
(* must have done to the others, with a cache that keeps up.               *)
(***************************************************************************)
EXTENDS Enforcer

VARIABLE touched

passVars == <<enforcerVars, touched>>

PassInit == EnforcerInit /\ touched = {}

Touch(w) == touched' = IF call = "enforce" THEN touched \union {w} ELSE touched

PassNext ==
  \/ /\ \/ BeginEnforce \/ EnforceReturns
        \/ \E entries \in SUBSET Workloads : BeginRestore(entries)
        \/ RestoreReturns \/ OperatorDies
     /\ touched' = {}
  \/ (Enforcing \/ Restoring) /\ UNCHANGED touched
  \/ \E w \in Workloads : (Create(w) \/ Remove(w) \/ Scale(w)) /\ Touch(w)
  \/ \E w \in Workloads : PodGone(w) /\ UNCHANGED touched

PassSpec == PassInit /\ [][PassNext]_passVars

\* EnforceNamespace attempts every kind, whatever fails before: when it is
\* through, an eligible object that its owner has left alone is stopped, or
\* the error of its kind is in what is returned.
EveryKindAttempted ==
  EnforceFinished /\ ~Lagging
    => \A w \in Workloads \ touched :
         Eligible(KindOf[w], wl[w]) /\ wl[w].level # 0 => KindOf[w] \in errs

==============================================================================
