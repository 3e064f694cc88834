------------------------- MODULE MCDirectInvocation -------------------------
(* An invocation i1 and i2, its retry under the same key, with the same    *)
(* body or another, or without a key.  The body d1 presents a single-use   *)
(* authorization, d2 none: it is billed to a standing arrangement.         *)
EXTENDS DirectInvocation, TLC

CONSTANTS i1, i2, k1, d1, d2, m1

Presents(m) == [auth |-> [ref |-> m, usage |-> "single_use", maximum |-> MaxAmount, bound |-> TRUE],
                approvedUntil |-> 2]
MCBody == d1 :> Presents(m1) @@ d2 :> Presents(None)

Call(k, d) == [key |-> k, digest |-> d]

OneInvoke == i1 :> {Call(k1, d1), Call(k1, d2)}
MCInvoke == i1 :> {Call(k1, d1)} @@ i2 :> {Call(k1, d1), Call(k1, d2), Call(NoKey, d1)}

MCPlan(price, ceiling, variable, free, needs) ==
  [eligible |-> TRUE, needsKey |-> needs, needsApproval |-> needs, price |-> price,
   ceiling |-> ceiling, variable |-> variable, free |-> free]

(* A variable price that needs a key and approval, a free read, a plan     *)
(* whose price is above its ceiling, and for the retry a fixed price below *)
(* the ceiling of the first hold.                                          *)
Variable == MCPlan(0, 1, TRUE, FALSE, TRUE)
FreeRead == MCPlan(0, 0, FALSE, TRUE, FALSE)
Fixed == MCPlan(1, 1, FALSE, FALSE, FALSE)
Lowered == MCPlan(0, 0, FALSE, FALSE, FALSE)
Overpriced == MCPlan(1, 0, TRUE, FALSE, FALSE)

MCPlans == i1 :> {Variable, FreeRead, Overpriced} @@ i2 :> {Lowered}
FixedPlan == i1 :> {Fixed}

=============================================================================
