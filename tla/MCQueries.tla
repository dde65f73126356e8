------------------------------ MODULE MCQueries ------------------------------
(* Instances of Queries for TLC. *)
EXTENDS Queries

Card(t, i, o, e) == [tier |-> t, input |-> i, output |-> o, evidence |-> e, expires |-> None,
                    context |-> 8, accepts |-> {"text"}, has |-> {}]

(* Free and priced models, prices that swap order with the weights,        *)
(* evidence that contradicts price, one model that expires; weights that   *)
(* are partial, negative, or sum to nothing.                               *)
SomeCards ==
  { Card(0, 0, 0, 0), Card(1, 0, 0, 0), Card(1, 1, 9, 1), Card(1, 4, 2, 0),
    Card(2, 4, 2, 0), Card(2, 1, 9, 1), Card(2, 1, 9, 0), Card(5, 9, 9, 0),
    [Card(5, 0, 1, 1) EXCEPT !.expires = 1] }

SomeWeights ==
  { [side \in {} |-> 0], [input |-> -4, output |-> 12], [side \in {"output"} |-> 12],
    [input |-> -1, output |-> 1] }
=============================================================================
