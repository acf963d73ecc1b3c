------------------------------ MODULE MCLedger ------------------------------
(* Small instances of Ledger for TLC. *)
EXTENDS LedgerProperties, TLC

CONSTANTS A, B, Ghost, w1, w2

MCStarting == [a \in Accounts |-> IF a = A THEN 3 ELSE 1]

Ask(f, t, n, p) == [from |-> f, to |-> t, amount |-> n, fail_at |-> p]

\* A can pay 2 once, not twice. Every fail point, a payment in the other
\* direction, a transfer to oneself and ids that have no row.
Varied ==
  {Ask(A, B, 2, p) : p \in FailPoints \cup {"none"}}
    \cup {Ask(B, A, 1, "none"), Ask(A, A, 1, "none"),
          Ask(A, Ghost, 1, "none"), Ask(Ghost, B, 1, "none")}

=============================================================================
