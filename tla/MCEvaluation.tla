---------------------------- MODULE MCEvaluation ----------------------------
(* Small instances of Evaluation. *)
EXTENDS Evaluation

\* NVIDIA-A100-SXM4, NVIDIA-H100, and a product the query cannot label.
ThreeTypes == [a100 |-> <<"A10", "0", "-SXM4">>, h100 |-> <<"H100">>, t4 |-> <<>>]

TheirFamilies == (<<"A10", "0", "-SXM4">> :> <<"A10", "0">>)
                 @@ (<<"H100">> :> <<"H100">>) @@ (<<>> :> <<>>)

\* Families of which one is the beginning of another, one is given twice, and
\* one is given no price.
ManyFlags ==
  << [family |-> <<"A10", "0">>, rate |-> 5], [family |-> <<"A10">>, rate |-> 1],
     [family |-> <<"H100">>, rate |-> 0], [family |-> <<"A10", "0">>, rate |-> 12] >>

\* Monday, 1 March 2027: a day, a week and a month begin.
Midnight == 20878 * Day

\* Friday, 1 January 2027, shortly after midnight: a month has begun, in a
\* week of the year before.
NewYear == Midnight - 59 * Day + 601

SomeInstants == {NewYear} \union {Midnight + i : i \in {-300, 0, 30, 300}}

AtNewYear == {NewYear}

==============================================================================
