-------------------------------- MODULE Bank --------------------------------
(***************************************************************************)
(* What the ledger promises its callers (ADR-010): a transfer is one       *)
(* atomic move of money between two open accounts that the payer can       *)
(* afford, and the journal is the list of the moves that happened.         *)
(* Nothing here is a step of the code; module Ledger is shown to implement *)
(* this specification on PostgreSQL.                                       *)
(***************************************************************************)
EXTENDS Naturals, FiniteSets

CONSTANTS
  Accounts,   \* the wallets and the clearing account
  Starting,   \* the balance each account is opened with
  Moves       \* the moves that may be asked for, each with a transfer's id

VARIABLES
  open,       \* the accounts that exist
  balance,    \* money held by each account
  journal     \* the moves made, each with the transfer that made it

bankVars == <<open, balance, journal>>

BankInit ==
  /\ open = {}
  /\ balance = Starting
  /\ journal = {}

\* Opening an account never touches one that is open already.
Open(S) ==
  /\ S # {}
  /\ S \cap open = {}
  /\ open' = open \cup S
  /\ UNCHANGED <<balance, journal>>

\* One move: the money leaves one account, reaches the other and is written
\* in the journal in a single step, on the balances of that very moment.
MoveMoney(m) ==
  /\ m.from # m.to
  /\ {m.from, m.to} \subseteq open
  /\ \A done \in journal : done.id # m.id
  /\ balance[m.from] >= m.amount
  /\ balance' = [balance EXCEPT ![m.from] = @ - m.amount, ![m.to] = @ + m.amount]
  /\ journal' = journal \cup {m}
  /\ UNCHANGED open

BankNext ==
  \/ \E S \in SUBSET Accounts : Open(S)
  \/ \E m \in Moves : MoveMoney(m)

BankSpec == BankInit /\ [][BankNext]_bankVars

=============================================================================
