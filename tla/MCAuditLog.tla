----------------------------- MODULE MCAuditLog -----------------------------
(* The chain t1 with a writer, two receipts, an audit request and a stream *)
(* whose connections break, beside a chain t2 with a writer of its own.    *)
EXTENDS AuditLog, TLC

CONSTANTS t1, t2, w1, w2, rcp1, rcp2, get1, sse1

MCChainOf == [x \in {w1, rcp1, rcp2, get1, sse1} |-> t1] @@ [x \in {w2} |-> t2]

=============================================================================
