--------------------------- MODULE MCConnectionPool ---------------------------
(* Three requests for two threads and three connections.                   *)
EXTENDS ConnectionPoolProperties

CONSTANTS r1, r2, r3

MCRequests == {r1, r2, r3}
Mix(a, b, c) == [r \in MCRequests |-> IF r = r1 THEN a ELSE IF r = r2 THEN b ELSE c]

\* Every route, and three of the two that hold most.
MCMixes ==
  {Mix("fetch", "failing_transfer", "admin_transactions"),
   Mix("failing_transfer", "failing_transfer", "failing_transfer"),
   Mix("admin_transactions", "admin_transactions", "admin_transactions"),
   Mix("transfer", "transfer", "accounts"),
   Mix("list", "merchant", "admin_transactions")}

=============================================================================
