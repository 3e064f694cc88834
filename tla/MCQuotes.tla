------------------------------- MODULE MCQuotes -------------------------------
(* One file that is uploaded, late and again, with the right and the wrong *)
(* bytes; an offer with a budget of 0.1, and a prepare and a commit with   *)
(* it.                                                                     *)
EXTENDS Quotes, TLC

CONSTANTS f1, u1, u2, get1, neg1, pre1, com1, ann, bob, right, wrong, USD

M(units, scale) == [currency |-> USD, units |-> units, scale |-> scale]

MCDeclared == f1 :> [owner |-> ann, digest |-> right, expiresAt |-> 3]

MCPut(who, body) == [file |-> f1, who |-> who, header |-> right, token |-> TRUE, body |-> body]
MCPutRequests == {MCPut(ann, right), MCPut(ann, wrong), MCPut(bob, right)}

MCAsked == get1 :> [file |-> f1, who |-> ann]

MCNegotiationOf == neg1 :> [who |-> ann, budget |-> {M(1, 1)}]

Ask(refs, contextUntil, maxPrice, deadline) ==
  [who |-> ann, offer |-> neg1, refs |-> refs, contextUntil |-> contextUntil,
   maxPrice |-> maxPrice, deadline |-> deadline]
Ref(digest, copied) == [file |-> f1, digest |-> digest, copied |-> copied]

MCPrepareRequests ==
  {Ask({Ref(right, TRUE)}, 0, {}, 0), Ask({Ref(wrong, TRUE)}, 3, {}, 0),
   Ask({}, 0, {M(5, 2)}, 2)}
Omitted == {Ask({Ref(right, FALSE)}, 0, {}, 0)}

Offer(price, ceiling, breakdown, lifetime) ==
  [price |-> price, ceiling |-> ceiling, variable |-> price # ceiling, free |-> FALSE,
   breakdown |-> breakdown, lifetime |-> lifetime, complete |-> TRUE]

(* Prices of 0.05, 0.06, 0.10, 0.15 and 6, fixed or with a ceiling of 0.1, *)
(* with and without a breakdown, one of which adds up only when the points *)
(* are ignored, and a free one.                                            *)
MCContracts ==
  {Offer(M(5, 2), M(5, 2), <<>>, 1), Offer(M(5, 2), M(1, 1), <<M(3, 2), M(2, 2)>>, 2),
   Offer(M(15, 2), M(15, 2), <<M(5, 2), M(1, 1)>>, 2), Offer(M(6, 0), M(6, 0), <<>>, 2),
   Offer(M(1, 1), M(1, 1), <<M(10, 2)>>, 2), Offer(M(6, 2), M(1, 1), <<M(1, 1), M(5, 2)>>, 1),
   [Offer(M(0, 2), M(0, 0), <<>>, 2) EXCEPT !.free = TRUE, !.variable = FALSE]}

PutsAreAlike == Permutations({u1, u2})

MCCommitOf == com1 :> [who |-> ann, quote |-> pre1]

=============================================================================
