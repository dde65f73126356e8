------------------------------ MODULE MCPager ------------------------------
(* Instances of Pager for TLC. *)
EXTENDS Pager, SequencesExt

Good(m) == [object |-> TRUE, id |-> m, context |-> 8, prompt |-> 1, completion |-> 2,
            accepts |-> {"image", "smell"}, has |-> {"tools"}, expires |-> None]
Priced(m, p, c) == [Good(m) EXCEPT !.prompt = p, !.completion = c]

All(S) == LET ids == SetToSortSeq(S, LAMBDA m, n : m > n)
          IN  [i \in DOMAIN ids |-> Good(ids[i])]

Own(m) == [Good(m) EXCEPT !.accepts = {"text", "image"}]

(* Listings that grow and shrink at either end, in whatever order; dynamic *)
(* and missing prices, too little context or none, a model listed twice,   *)
(* one that expires, one too dear for the query, modalities nobody knows,  *)
(* an entry that is no object.                                             *)
SomePayloads ==
  { <<>>, All({1, 3, 4}), All({2, 4}),
    <<Priced(2, -1, 2), Good(3), Priced(1, None, 2), Priced(4, None, None)>>,
    <<Priced(2, 4, 4), Good(2), Priced(3, 1, -1), [Good(1) EXCEPT !.expires = 1], Good(4)>>,
    <<[Good(1) EXCEPT !.context = 0], Priced(2, 9, 0), Good(3),
      [Good(4) EXCEPT !.context = 2]>>,
    <<[Good(1) EXCEPT !.accepts = {"smell"}], Good(2), [Good(3) EXCEPT !.has = {}]>>,
    <<Good(1), [Good(2) EXCEPT !.object = FALSE]>> }

SomeFolders == { <<>>, <<Own(1)>>, <<Priced(2, 1, 1), [Own(2) EXCEPT !.prompt = 9]>> }

Affordable == [Q!Anything EXCEPT !.maxInput = 5, !.minContext = 4,
                                 !.modalities = {"image"}, !.needs = {"tools"}]
=============================================================================
