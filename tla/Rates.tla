------------------------------- MODULE Rates -------------------------------
(***************************************************************************)
(* The GPU rate table: the --gpu-rate flags of main.go and GPURates of     *)
(* controllers/rates.go.  Pure operators, no state.                        *)
(*                                                                         *)
(* A name, of a GPU family or of a GPU type, is the sequence of the pieces *)
(* that tell the names of an instance apart: with "A10", "A100" and        *)
(* "A100-SXM4" these are <<"A10">>, <<"A10", "0">> and <<"A10", "0",       *)
(* "-SXM4">>.  Both sides are upper-cased by the code before they meet, so *)
(* a name stands for all its spellings.  Rates are cents per GPU-hour.     *)
(***************************************************************************)
EXTENDS Integers, Sequences, SequencesExt

CONSTANT Flags  \* the --gpu-rate flags in the order given: [family, rate]

Names == Seq(STRING)

\* gpuRatesFlag.Set refuses a flag that names no family.
ASSUME FlagsAssumption ==
  Flags \in Seq([family : Names \ {<<>>}, rate : Int])

Families == {Flags[i].family : i \in DOMAIN Flags}

\* Set overwrites: the flag given last for a family counts.
LastFlag(family) ==
  CHOOSE i \in DOMAIN Flags :
    /\ Flags[i].family = family
    /\ \A j \in DOMAIN Flags : Flags[j].family = family => j <= i

GPURates == [family \in Families |-> Flags[LastFlag(family)].rate]

\* Mutant of Matches: an explicit zero is a price.
MatchesAtAnyRate(family, gpuType) == IsPrefix(family, gpuType)

\* The tests the loop of RateFor makes on one entry of the table.
Matches(family, gpuType) == GPURates[family] > 0 /\ IsPrefix(family, gpuType)

\* Mutant of Better: the entry visited last wins.
BetterWhenLater(best, family, gpuType) ==
  IF Matches(family, gpuType) THEN family ELSE best

\* One turn of the loop of RateFor; no best family yet is the empty name.
Better(best, family, gpuType) ==
  IF Matches(family, gpuType) /\ Len(family) > Len(best) THEN family ELSE best

\* What RateFor promises, in no order: the most specific family that begins
\* the name of the type and has a rate, an explicit zero being none.
Candidates(gpuType) == {f \in Families : GPURates[f] > 0 /\ IsPrefix(f, gpuType)}

MostSpecific(family, gpuType) ==
  /\ family \in Candidates(gpuType)
  /\ \A f \in Candidates(gpuType) : Len(f) <= Len(family)

Priced(gpuType) == Candidates(gpuType) # {}

==============================================================================
