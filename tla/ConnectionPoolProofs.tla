------------------------- MODULE ConnectionPoolProofs -------------------------
(***************************************************************************)
(* Theorems about module ConnectionPool, for any number of requests,       *)
(* connections and threads.                                                *)
(***************************************************************************)
EXTENDS ConnectionPoolProperties, Integers, FiniteSetTheorems, TLAPS

-----------------------------------------------------------------------------
(* How many connections the handlers of a call have taken                  *)

Calls ==
  {get_current_user, require_admin, list_accounts, list_recent_transfers, get_transfer,
   read_merchant, Committed, RolledBack}

Delta(operation) ==
  IF operation = "take" THEN 1 ELSE IF operation = "give" THEN 0 - 1 ELSE 0

\* What a call has taken and not given back after each of its operations.
Depth(c) ==
  LET d[i \in 0..Len(c)] == IF i = 0 THEN 0 ELSE d[i - 1] + Delta(c[i]) IN d

\* After i operations of c a try has begun and not ended; where the try ends.
InTryOf(c, i) == \E k \in 1..i : c[k] = "try" /\ \A j \in k..i : c[j] # "tried"
EndOf(c) == CHOOSE i \in DOMAIN c : c[i] = "tried"

\* A call gives back what it takes; within a try it has what it had before.
Balanced(c) ==
  /\ Len(c) \in Nat /\ DOMAIN c = 1..Len(c)
  /\ Depth(c)[0] = 0 /\ Depth(c)[Len(c)] = 0
  /\ \A i \in 0..Len(c) : Depth(c)[i] \in 0..2
  /\ \A i \in 1..Len(c) : Depth(c)[i] = Depth(c)[i - 1] + Delta(c[i])
  /\ \A i \in 1..Len(c) : c[i] = "tried" => Depth(c)[i - 1] = 1
  /\ \A i \in 1..Len(c) :
       c[i] \in {"take", "own"} /\ InTryOf(c, i - 1) =>
         EndOf(c) \in 1..Len(c) /\ Depth(c)[EndOf(c)] = Depth(c)[i - 1]

-----------------------------------------------------------------------------
(* The inductive invariant *)

TypeOK ==
  /\ phase \in [Requests -> Phases]
  /\ kind \in [Requests -> DOMAIN Routes]
  /\ \A r \in Requests : call[r] \in 1..Len(Routes[kind[r]]) /\ op[r] \in 0..Len(Ops(r))
  /\ call \in [Requests -> Nat] /\ op \in [Requests -> Nat]
  /\ own \in [Requests -> {0, 1}]
  /\ taken \in [Requests -> 0..2]
  /\ free \in Nat
  /\ threads \in Nat

\* A handler that runs has taken what its call is at, any other has nothing.
TakenIsDepth ==
  \A r \in Requests :
    taken[r] = IF phase[r] = "running" THEN Depth(Ops(r))[op[r]] ELSE 0

Inv ==
  /\ TypeOK
  /\ TakenIsDepth
  /\ \A r \in Requests :
       /\ Ended(r) => own[r] = 0
       /\ phase[r] \in {"away", "queued"} => op[r] = 0
  /\ free + Cardinality(Held) = Capacity
  /\ threads + Cardinality(Running) = Threads

-----------------------------------------------------------------------------
(* The calls are balanced *)

\* What a recursive function satisfies once there is a function that does.
LEMMA DepthDefined ==
  ASSUME NEW c, NEW n, Len(c) = n, NEW f \in [0..n -> 0..2],
         \A i \in 0..n : f[i] = IF i = 0 THEN 0 ELSE f[i - 1] + Delta(c[i])
  PROVE  \A i \in 0..n : Depth(c)[i] = IF i = 0 THEN 0 ELSE Depth(c)[i - 1] + Delta(c[i])
<1>1. f = [i \in 0..Len(c) |-> IF i = 0 THEN 0 ELSE f[i - 1] + Delta(c[i])]
  OBVIOUS
<1>2. Depth(c) = [i \in 0..Len(c) |-> IF i = 0 THEN 0 ELSE Depth(c)[i - 1] + Delta(c[i])]
  BY <1>1, Zenon DEF Depth
<1> QED
  BY <1>2

LEMMA get_current_userBalanced == Balanced(get_current_user)
<1> DEFINE c == get_current_user
           f == [i \in 0..1 |-> <<0, 0>>[i + 1]]
<1>1. /\ Len(c) = 1 /\ DOMAIN c = 1..1
      /\ c[1] = "own"
  BY DEF get_current_user
<1>2. \A i \in 0..1 : i = 0 \/ i = 1
  OBVIOUS
<1>3. /\ f[0] = 0 /\ f[1] = 0
  OBVIOUS
<1> HIDE DEF c, f
<1>4. f \in [0..1 -> 0..2]
  BY <1>2, <1>3 DEF f
<1>5. \A i \in 0..1 : f[i] = IF i = 0 THEN 0 ELSE f[i - 1] + Delta(c[i])
  BY <1>1, <1>2, <1>3 DEF Delta
<1>6. /\ Depth(c)[0] = 0
      /\ \A i \in 1..1 : Depth(c)[i] = Depth(c)[i - 1] + Delta(c[i])
  <2>1. Len(c) = 1
    BY <1>1
  <2>2. \A i \in 0..1 : Depth(c)[i] = IF i = 0 THEN 0 ELSE Depth(c)[i - 1] + Delta(c[i])
    BY <1>4, <1>5, <2>1, DepthDefined
  <2> QED
    BY <2>2
<1>7. /\ Depth(c)[0] = 0 /\ Depth(c)[1] = 0
  BY <1>1, <1>6 DEF Delta
<1>8. \A i \in 1..1 : c[i] \notin {"try", "tried"}
  BY <1>1, <1>2
<1> QED
  BY <1>1, <1>2, <1>6, <1>7, <1>8 DEF Balanced, InTryOf, c

LEMMA require_adminBalanced == Balanced(require_admin)
<1> DEFINE c == require_admin
           f == [i \in 0..2 |-> <<0, 1, 0>>[i + 1]]
<1>1. /\ Len(c) = 2 /\ DOMAIN c = 1..2
      /\ c[1] = "take" /\ c[2] = "give"
  BY DEF require_admin
<1>2. \A i \in 0..2 : i = 0 \/ i = 1 \/ i = 2
  OBVIOUS
<1>3. /\ f[0] = 0 /\ f[1] = 1 /\ f[2] = 0
  OBVIOUS
<1> HIDE DEF c, f
<1>4. f \in [0..2 -> 0..2]
  BY <1>2, <1>3 DEF f
<1>5. \A i \in 0..2 : f[i] = IF i = 0 THEN 0 ELSE f[i - 1] + Delta(c[i])
  BY <1>1, <1>2, <1>3 DEF Delta
<1>6. /\ Depth(c)[0] = 0
      /\ \A i \in 1..2 : Depth(c)[i] = Depth(c)[i - 1] + Delta(c[i])
  <2>1. Len(c) = 2
    BY <1>1
  <2>2. \A i \in 0..2 : Depth(c)[i] = IF i = 0 THEN 0 ELSE Depth(c)[i - 1] + Delta(c[i])
    BY <1>4, <1>5, <2>1, DepthDefined
  <2> QED
    BY <2>2
<1>7. /\ Depth(c)[0] = 0 /\ Depth(c)[1] = 1 /\ Depth(c)[2] = 0
  BY <1>1, <1>6 DEF Delta
<1>8. \A i \in 1..2 : c[i] \notin {"try", "tried"}
  BY <1>1, <1>2
<1> QED
  BY <1>1, <1>2, <1>6, <1>7, <1>8 DEF Balanced, InTryOf, c

LEMMA list_accountsBalanced == Balanced(list_accounts)
<1> DEFINE c == list_accounts
           f == [i \in 0..2 |-> <<0, 0, 0>>[i + 1]]
<1>1. /\ Len(c) = 2 /\ DOMAIN c = 1..2
      /\ c[1] = "own" /\ c[2] = "commit"
  BY DEF list_accounts
<1>2. \A i \in 0..2 : i = 0 \/ i = 1 \/ i = 2
  OBVIOUS
<1>3. /\ f[0] = 0 /\ f[1] = 0 /\ f[2] = 0
  OBVIOUS
<1> HIDE DEF c, f
<1>4. f \in [0..2 -> 0..2]
  BY <1>2, <1>3 DEF f
<1>5. \A i \in 0..2 : f[i] = IF i = 0 THEN 0 ELSE f[i - 1] + Delta(c[i])
  BY <1>1, <1>2, <1>3 DEF Delta
<1>6. /\ Depth(c)[0] = 0
      /\ \A i \in 1..2 : Depth(c)[i] = Depth(c)[i - 1] + Delta(c[i])
  <2>1. Len(c) = 2
    BY <1>1
  <2>2. \A i \in 0..2 : Depth(c)[i] = IF i = 0 THEN 0 ELSE Depth(c)[i - 1] + Delta(c[i])
    BY <1>4, <1>5, <2>1, DepthDefined
  <2> QED
    BY <2>2
<1>7. /\ Depth(c)[0] = 0 /\ Depth(c)[1] = 0 /\ Depth(c)[2] = 0
  BY <1>1, <1>6 DEF Delta
<1>8. \A i \in 1..2 : c[i] \notin {"try", "tried"}
  BY <1>1, <1>2
<1> QED
  BY <1>1, <1>2, <1>6, <1>7, <1>8 DEF Balanced, InTryOf, c

LEMMA list_recent_transfersBalanced == Balanced(list_recent_transfers)
<1> DEFINE c == list_recent_transfers
           f == [i \in 0..2 |-> <<0, 1, 0>>[i + 1]]
<1>1. /\ Len(c) = 2 /\ DOMAIN c = 1..2
      /\ c[1] = "take" /\ c[2] = "give"
  BY DEF list_recent_transfers
<1>2. \A i \in 0..2 : i = 0 \/ i = 1 \/ i = 2
  OBVIOUS
<1>3. /\ f[0] = 0 /\ f[1] = 1 /\ f[2] = 0
  OBVIOUS
<1> HIDE DEF c, f
<1>4. f \in [0..2 -> 0..2]
  BY <1>2, <1>3 DEF f
<1>5. \A i \in 0..2 : f[i] = IF i = 0 THEN 0 ELSE f[i - 1] + Delta(c[i])
  BY <1>1, <1>2, <1>3 DEF Delta
<1>6. /\ Depth(c)[0] = 0
      /\ \A i \in 1..2 : Depth(c)[i] = Depth(c)[i - 1] + Delta(c[i])
  <2>1. Len(c) = 2
    BY <1>1
  <2>2. \A i \in 0..2 : Depth(c)[i] = IF i = 0 THEN 0 ELSE Depth(c)[i - 1] + Delta(c[i])
    BY <1>4, <1>5, <2>1, DepthDefined
  <2> QED
    BY <2>2
<1>7. /\ Depth(c)[0] = 0 /\ Depth(c)[1] = 1 /\ Depth(c)[2] = 0
  BY <1>1, <1>6 DEF Delta
<1>8. \A i \in 1..2 : c[i] \notin {"try", "tried"}
  BY <1>1, <1>2
<1> QED
  BY <1>1, <1>2, <1>6, <1>7, <1>8 DEF Balanced, InTryOf, c

LEMMA get_transferBalanced == Balanced(get_transfer)
<1> DEFINE c == get_transfer
           f == [i \in 0..4 |-> <<0, 1, 2, 1, 0>>[i + 1]]
<1>1. /\ Len(c) = 4 /\ DOMAIN c = 1..4
      /\ c[1] = "take" /\ c[2] = "take" /\ c[3] = "give" /\ c[4] = "give"
  BY DEF get_transfer, _load_audits
<1>2. \A i \in 0..4 : i = 0 \/ i = 1 \/ i = 2 \/ i = 3 \/ i = 4
  OBVIOUS
<1>3. /\ f[0] = 0 /\ f[1] = 1 /\ f[2] = 2 /\ f[3] = 1 /\ f[4] = 0
  OBVIOUS
<1> HIDE DEF c, f
<1>4. f \in [0..4 -> 0..2]
  BY <1>2, <1>3 DEF f
<1>5. \A i \in 0..4 : f[i] = IF i = 0 THEN 0 ELSE f[i - 1] + Delta(c[i])
  BY <1>1, <1>2, <1>3 DEF Delta
<1>6. /\ Depth(c)[0] = 0
      /\ \A i \in 1..4 : Depth(c)[i] = Depth(c)[i - 1] + Delta(c[i])
  <2>1. Len(c) = 4
    BY <1>1
  <2>2. \A i \in 0..4 : Depth(c)[i] = IF i = 0 THEN 0 ELSE Depth(c)[i - 1] + Delta(c[i])
    BY <1>4, <1>5, <2>1, DepthDefined
  <2> QED
    BY <2>2
<1>7. /\ Depth(c)[0] = 0 /\ Depth(c)[1] = 1 /\ Depth(c)[2] = 2 /\ Depth(c)[3] = 1
      /\ Depth(c)[4] = 0
  BY <1>1, <1>6 DEF Delta
<1>8. \A i \in 1..4 : c[i] \notin {"try", "tried"}
  BY <1>1, <1>2
<1> QED
  BY <1>1, <1>2, <1>6, <1>7, <1>8 DEF Balanced, InTryOf, c

LEMMA read_merchantBalanced == Balanced(read_merchant)
<1> DEFINE c == read_merchant
           f == [i \in 0..1 |-> <<0, 0>>[i + 1]]
<1>1. /\ Len(c) = 1 /\ DOMAIN c = 1..1
      /\ c[1] = "own"
  BY DEF read_merchant
<1>2. \A i \in 0..1 : i = 0 \/ i = 1
  OBVIOUS
<1>3. /\ f[0] = 0 /\ f[1] = 0
  OBVIOUS
<1> HIDE DEF c, f
<1>4. f \in [0..1 -> 0..2]
  BY <1>2, <1>3 DEF f
<1>5. \A i \in 0..1 : f[i] = IF i = 0 THEN 0 ELSE f[i - 1] + Delta(c[i])
  BY <1>1, <1>2, <1>3 DEF Delta
<1>6. /\ Depth(c)[0] = 0
      /\ \A i \in 1..1 : Depth(c)[i] = Depth(c)[i - 1] + Delta(c[i])
  <2>1. Len(c) = 1
    BY <1>1
  <2>2. \A i \in 0..1 : Depth(c)[i] = IF i = 0 THEN 0 ELSE Depth(c)[i - 1] + Delta(c[i])
    BY <1>4, <1>5, <2>1, DepthDefined
  <2> QED
    BY <2>2
<1>7. /\ Depth(c)[0] = 0 /\ Depth(c)[1] = 0
  BY <1>1, <1>6 DEF Delta
<1>8. \A i \in 1..1 : c[i] \notin {"try", "tried"}
  BY <1>1, <1>2
<1> QED
  BY <1>1, <1>2, <1>6, <1>7, <1>8 DEF Balanced, InTryOf, c

LEMMA CommittedBalanced == Balanced(Committed)
<1> DEFINE c == Committed
           f == [i \in 0..8 |-> <<0, 1, 0, 1, 2, 1, 0, 0, 0>>[i + 1]]
<1>1. /\ Len(c) = 8 /\ DOMAIN c = 1..8
      /\ c[1] = "take" /\ c[2] = "give" /\ c[3] = "take" /\ c[4] = "take"
      /\ c[5] = "give" /\ c[6] = "give" /\ c[7] = "own" /\ c[8] = "commit"
  BY DEF Committed, SeedFirst, _load_audits, Audited
<1>2. \A i \in 0..8 : i = 0 \/ i = 1 \/ i = 2 \/ i = 3 \/ i = 4 \/ i = 5 \/ i = 6 \/ i =
      7 \/ i = 8
  OBVIOUS
<1>3. /\ f[0] = 0 /\ f[1] = 1 /\ f[2] = 0 /\ f[3] = 1 /\ f[4] = 2 /\ f[5] = 1
      /\ f[6] = 0 /\ f[7] = 0 /\ f[8] = 0
  OBVIOUS
<1> HIDE DEF c, f
<1>4. f \in [0..8 -> 0..2]
  BY <1>2, <1>3 DEF f
<1>5. \A i \in 0..8 : f[i] = IF i = 0 THEN 0 ELSE f[i - 1] + Delta(c[i])
  BY <1>1, <1>2, <1>3 DEF Delta
<1>6. /\ Depth(c)[0] = 0
      /\ \A i \in 1..8 : Depth(c)[i] = Depth(c)[i - 1] + Delta(c[i])
  <2>1. Len(c) = 8
    BY <1>1
  <2>2. \A i \in 0..8 : Depth(c)[i] = IF i = 0 THEN 0 ELSE Depth(c)[i - 1] + Delta(c[i])
    BY <1>4, <1>5, <2>1, DepthDefined
  <2> QED
    BY <2>2
<1>7. /\ Depth(c)[0] = 0 /\ Depth(c)[1] = 1 /\ Depth(c)[2] = 0 /\ Depth(c)[3] = 1
      /\ Depth(c)[4] = 2 /\ Depth(c)[5] = 1 /\ Depth(c)[6] = 0 /\ Depth(c)[7] = 0
      /\ Depth(c)[8] = 0
  BY <1>1, <1>6 DEF Delta
<1>8. \A i \in 1..8 : c[i] \notin {"try", "tried"}
  BY <1>1, <1>2
<1> QED
  BY <1>1, <1>2, <1>6, <1>7, <1>8 DEF Balanced, InTryOf, c

LEMMA RolledBackBalanced == Balanced(RolledBack)
<1> DEFINE c == RolledBack
           f == [i \in 0..16 |-> <<0, 1, 0, 1, 2, 1, 1, 2, 1, 2, 1, 1, 2, 1, 0, 0, 0>>[i + 1]]
<1>1. /\ Len(c) = 16 /\ DOMAIN c = 1..16
      /\ c[1] = "take" /\ c[2] = "give" /\ c[3] = "take" /\ c[4] = "take"
      /\ c[5] = "give" /\ c[6] = "try" /\ c[7] = "take" /\ c[8] = "give"
      /\ c[9] = "take" /\ c[10] = "give" /\ c[11] = "tried" /\ c[12] = "take"
      /\ c[13] = "give" /\ c[14] = "give" /\ c[15] = "own" /\ c[16] = "commit"
  BY DEF RolledBack, SeedFirst, _balances, _persist_rollback, _load_audits, Audited
<1>2. \A i \in 0..16 : i = 0 \/ i = 1 \/ i = 2 \/ i = 3 \/ i = 4 \/ i = 5 \/ i = 6 \/ i =
      7 \/ i = 8 \/ i = 9 \/ i = 10 \/ i = 11 \/ i = 12 \/ i = 13
      \/ i = 14 \/ i = 15 \/ i = 16
  OBVIOUS
<1>3. /\ f[0] = 0 /\ f[1] = 1 /\ f[2] = 0 /\ f[3] = 1 /\ f[4] = 2 /\ f[5] = 1
      /\ f[6] = 1 /\ f[7] = 2 /\ f[8] = 1 /\ f[9] = 2 /\ f[10] = 1 /\ f[11] = 1
      /\ f[12] = 2 /\ f[13] = 1 /\ f[14] = 0 /\ f[15] = 0 /\ f[16] = 0
  OBVIOUS
<1> HIDE DEF c, f
<1>4. f \in [0..16 -> 0..2]
  BY <1>2, <1>3 DEF f
<1>5. \A i \in 0..16 : f[i] = IF i = 0 THEN 0 ELSE f[i - 1] + Delta(c[i])
  BY <1>1, <1>2, <1>3 DEF Delta
<1>6. /\ Depth(c)[0] = 0
      /\ \A i \in 1..16 : Depth(c)[i] = Depth(c)[i - 1] + Delta(c[i])
  <2>1. Len(c) = 16
    BY <1>1
  <2>2. \A i \in 0..16 : Depth(c)[i] = IF i = 0 THEN 0 ELSE Depth(c)[i - 1] + Delta(c[i])
    BY <1>4, <1>5, <2>1, DepthDefined
  <2> QED
    BY <2>2
<1>7. /\ Depth(c)[0] = 0 /\ Depth(c)[1] = 1 /\ Depth(c)[2] = 0 /\ Depth(c)[3] = 1
      /\ Depth(c)[4] = 2 /\ Depth(c)[5] = 1 /\ Depth(c)[6] = 1 /\ Depth(c)[7] = 2
      /\ Depth(c)[8] = 1 /\ Depth(c)[9] = 2 /\ Depth(c)[10] = 1 /\ Depth(c)[11] = 1
      /\ Depth(c)[12] = 2 /\ Depth(c)[13] = 1 /\ Depth(c)[14] = 0 /\ Depth(c)[15] = 0
      /\ Depth(c)[16] = 0
  BY <1>1, <1>6 DEF Delta
<1>8. EndOf(c) = 11
  BY <1>1, <1>2 DEF EndOf
<1> QED
  BY <1>1, <1>2, <1>6, <1>7, <1>8 DEF Balanced, InTryOf, c

LEMMA AllBalanced == \A c \in Calls : Balanced(c)
BY get_current_userBalanced, require_adminBalanced, list_accountsBalanced,
   list_recent_transfersBalanced, get_transferBalanced, read_merchantBalanced,
   CommittedBalanced, RolledBackBalanced
DEF Calls

\* Every route is made of these calls.
LEMMA RoutesAreCalls ==
  \A k \in DOMAIN Routes :
    /\ Len(Routes[k]) \in Nat \ {0}
    /\ \A i \in 1..Len(Routes[k]) : Routes[k][i] \in Calls
<1>1. DOMAIN Routes = {"accounts", "merchant", "list", "fetch", "transfer",
                       "failing_transfer", "admin_transactions"}
  BY DEF Routes
<1>2. ASSUME NEW a \in Calls, NEW b \in Calls, NEW s, s = <<a, b>>
      PROVE  Len(s) = 2 /\ \A i \in 1..Len(s) : s[i] \in Calls
  BY <1>2
<1>3. ASSUME NEW a \in Calls, NEW b \in Calls, NEW d \in Calls, NEW s, s = <<a, b, d>>
      PROVE  Len(s) = 3 /\ \A i \in 1..Len(s) : s[i] \in Calls
  BY <1>3
<1>4. /\ Routes["accounts"] = <<get_current_user, list_accounts>>
      /\ Routes["merchant"] = <<get_current_user, read_merchant>>
      /\ Routes["list"] = <<get_current_user, list_recent_transfers>>
      /\ Routes["fetch"] = <<get_current_user, get_transfer>>
      /\ Routes["transfer"] = <<get_current_user, Committed>>
      /\ Routes["failing_transfer"] = <<get_current_user, RolledBack>>
      /\ Routes["admin_transactions"] =
           <<get_current_user, require_admin, list_recent_transfers>>
  BY DEF Routes
<1>5. /\ get_current_user \in Calls /\ list_accounts \in Calls /\ read_merchant \in Calls
      /\ list_recent_transfers \in Calls /\ get_transfer \in Calls /\ require_admin \in Calls
      /\ Committed \in Calls /\ RolledBack \in Calls
  BY DEF Calls
<1> DEFINE Fine(k) == /\ Len(Routes[k]) \in Nat \ {0}
                      /\ \A i \in 1..Len(Routes[k]) : Routes[k][i] \in Calls
<1>6. /\ Fine("accounts") /\ Fine("merchant") /\ Fine("list") /\ Fine("fetch")
      /\ Fine("transfer") /\ Fine("failing_transfer")
  BY <1>2, <1>4, <1>5
<1>7. Fine("admin_transactions")
  BY <1>3, <1>4, <1>5
<1> QED
  BY <1>1, <1>6, <1>7

-----------------------------------------------------------------------------
(* Counting *)

\* The connections that are out when request r holds h[r].
HeldBy(h) == {x \in Requests \X (1..MostHeld) : x[2] <= h[x[1]]}

LEMMA SlotsFinite ==
  ASSUME NEW h
  PROVE  IsFiniteSet(HeldBy(h)) /\ Cardinality(HeldBy(h)) \in Nat
<1>1. IsFiniteSet(Requests \X (1..MostHeld))
  <2>1. 1 \in Int /\ MostHeld \in Int
    BY DEF MostHeld
  <2>2. IsFiniteSet(1..MostHeld)
    BY <2>1, FS_Interval
  <2> QED
    BY <2>2, RequestsAssumption, FS_Product
<1> QED
  BY <1>1, FS_Subset, FS_CardinalityType DEF HeldBy

Counts == [Requests -> 0..MostHeld]

\* One more for a request is one more in all.
LEMMA OneMore ==
  ASSUME NEW h \in Counts, NEW r \in Requests, NEW n \in 1..MostHeld, h[r] = n
  PROVE  Cardinality(HeldBy(h)) = Cardinality(HeldBy([h EXCEPT ![r] = n - 1])) + 1
<1> DEFINE g == [h EXCEPT ![r] = n - 1]
           x == <<r, n>>
<1>1. \A q \in Requests : g[q] = IF q = r THEN n - 1 ELSE h[q]
  BY DEF Counts
<1> HIDE DEF g
<1>2. HeldBy(h) = HeldBy(g) \cup {x}
  BY <1>1 DEF HeldBy, MostHeld, Counts
<1>3. x \notin HeldBy(g)
  BY <1>1 DEF HeldBy, MostHeld
<1>4. IsFiniteSet(HeldBy(g))
  BY SlotsFinite
<1>5. Cardinality(HeldBy(h)) = Cardinality(HeldBy(g)) + 1
  BY <1>2, <1>3, <1>4, FS_AddElement
<1> QED
  BY <1>5 DEF g

\* What a request holds is what it adds to those that hold the rest.
LEMMA AllOfIt ==
  ASSUME NEW h \in Counts, NEW r \in Requests
  PROVE  Cardinality(HeldBy(h)) = Cardinality(HeldBy([h EXCEPT ![r] = 0])) + h[r]
<1> DEFINE At3(n) == [h EXCEPT ![r] = n]
<1>1. \A n \in 0..MostHeld : At3(n) \in Counts /\ At3(n)[r] = n
  BY DEF Counts
<1>2. \A n \in 1..MostHeld : [At3(n) EXCEPT ![r] = n - 1] = At3(n - 1)
  BY DEF Counts
<1>3. \A n \in 1..MostHeld :
        Cardinality(HeldBy(At3(n))) = Cardinality(HeldBy(At3(n - 1))) + 1
  <2> TAKE n \in 1..MostHeld
  <2> HIDE DEF At3
  <2>0. n \in 0..MostHeld
    BY DEF MostHeld
  <2>1. At3(n) \in Counts /\ At3(n)[r] = n
    BY <1>1, <2>0
  <2>2. Cardinality(HeldBy(At3(n))) = Cardinality(HeldBy([At3(n) EXCEPT ![r] = n - 1])) + 1
    BY <2>1, OneMore
  <2>3. [At3(n) EXCEPT ![r] = n - 1] = At3(n - 1)
    BY <1>2
  <2> QED
    BY <2>2, <2>3
<1>4. At3(h[r]) = h /\ h[r] \in 0..3
  BY DEF Counts, MostHeld
<1> HIDE DEF At3
<1>5. Cardinality(HeldBy(At3(0))) \in Nat
  BY SlotsFinite
<1>6. \A n \in 0..3 : Cardinality(HeldBy(At3(n))) = Cardinality(HeldBy(At3(0))) + n
  BY <1>3, <1>5 DEF MostHeld
<1>7. Cardinality(HeldBy(h)) = Cardinality(HeldBy(At3(0))) + h[r]
  BY <1>4, <1>6
<1> QED
  BY <1>7 DEF At3

\* A step at which one request takes or gives back changes the sum by that.
LEMMA OnlyOneChanges ==
  ASSUME NEW h \in Counts, NEW g \in Counts, NEW r \in Requests,
         \A q \in Requests \ {r} : g[q] = h[q]
  PROVE  Cardinality(HeldBy(g)) + h[r] = Cardinality(HeldBy(h)) + g[r]
<1>1. [g EXCEPT ![r] = 0] = [h EXCEPT ![r] = 0]
  BY DEF Counts
<1>2. /\ Cardinality(HeldBy(h)) = Cardinality(HeldBy([h EXCEPT ![r] = 0])) + h[r]
      /\ Cardinality(HeldBy(g)) = Cardinality(HeldBy([h EXCEPT ![r] = 0])) + g[r]
  BY <1>1, AllOfIt
<1>3. /\ Cardinality(HeldBy([h EXCEPT ![r] = 0])) \in Nat
      /\ h[r] \in 0..3 /\ g[r] \in 0..3
  BY SlotsFinite DEF Counts, MostHeld
<1> QED
  BY <1>2, <1>3

Total == [r \in Requests |-> own[r] + taken[r]]

LEMMA HeldIsCounted == TypeOK => Total \in Counts /\ Held = HeldBy(Total)
<1> SUFFICES ASSUME TypeOK PROVE Total \in Counts /\ Held = HeldBy(Total)
  OBVIOUS
<1>1. \A r \in Requests : Total[r] = own[r] + taken[r] /\ own[r] + taken[r] \in 0..3
  <2> TAKE r \in Requests
  <2>1. own[r] \in {0, 1} /\ taken[r] \in 0..2
    BY DEF TypeOK
  <2> QED
    BY <2>1 DEF Total
<1>2. Total \in Counts
  BY <1>1 DEF Total, Counts, MostHeld
<1>3. \A x \in Requests \X (1..MostHeld) : Total[x[1]] = own[x[1]] + taken[x[1]]
  BY <1>1
<1> QED
  BY <1>2, <1>3 DEF Held, HeldBy

LEMMA RunningFinite == IsFiniteSet(Running) /\ Cardinality(Running) \in Nat
BY RequestsAssumption, FS_Subset, FS_CardinalityType DEF Running

-----------------------------------------------------------------------------
(* The steps *)

\* The call a request is in is balanced.
LEMMA InACall ==
  ASSUME TypeOK, NEW r \in Requests
  PROVE  /\ Balanced(Ops(r)) /\ Len(Ops(r)) \in Nat
         /\ op[r] \in 0..Len(Ops(r)) /\ call[r] \in 1..Len(Routes[kind[r]])
         /\ Len(Routes[kind[r]]) \in Nat
         /\ \A i \in 1..Len(Routes[kind[r]]) :
              Routes[kind[r]][i] \in Calls /\ Len(Routes[kind[r]][i]) \in Nat
<1>1. \A i \in 1..Len(Routes[kind[r]]) : Routes[kind[r]][i] \in Calls
  BY RoutesAreCalls DEF TypeOK
<1>2. call[r] \in 1..Len(Routes[kind[r]]) /\ op[r] \in 0..Len(Ops(r))
  BY DEF TypeOK
<1>3. Ops(r) \in Calls
  BY <1>1, <1>2 DEF Ops
<1>4. \A c \in Calls : Balanced(c) /\ Len(c) \in Nat
  BY AllBalanced DEF Balanced
<1>5. Len(Routes[kind[r]]) \in Nat
  BY RoutesAreCalls DEF TypeOK
<1> QED
  BY <1>1, <1>2, <1>3, <1>4, <1>5

\* What a step leaves to the other requests.
Frame(r) ==
  /\ kind' = kind
  /\ \A q \in Requests \ {r} :
       /\ phase'[q] = phase[q] /\ call'[q] = call[q] /\ op'[q] = op[q]
       /\ own'[q] = own[q] /\ taken'[q] = taken[q]

\* What r has and what is free is the same before and after.
Pays(r) == free' + own'[r] + taken'[r] = free + own[r] + taken[r]

LEMMA HeldConserved ==
  ASSUME TypeOK, TypeOK', NEW r \in Requests, Frame(r), Pays(r),
         free + Cardinality(Held) = Capacity
  PROVE  free' + Cardinality(Held') = Capacity
<1>1. Total \in Counts /\ Held = HeldBy(Total) /\ Total' \in Counts /\ Held' = HeldBy(Total')
  <2>1. (TypeOK => Total \in Counts /\ Held = HeldBy(Total))'
    BY HeldIsCounted, PTL
  <2> QED
    BY <2>1, HeldIsCounted
<1>2. \A q \in Requests \ {r} : Total'[q] = Total[q]
  BY DEF Total, Frame
<1>3. Cardinality(HeldBy(Total')) + Total[r] = Cardinality(HeldBy(Total)) + Total'[r]
  BY <1>1, <1>2, OnlyOneChanges
<1>4. /\ Total[r] = own[r] + taken[r] /\ Total'[r] = own'[r] + taken'[r]
      /\ own[r] \in Int /\ taken[r] \in Int /\ own'[r] \in Int /\ taken'[r] \in Int
      /\ free \in Int /\ free' \in Int
  BY DEF TypeOK, Total
<1>5. Cardinality(HeldBy(Total')) \in Int /\ Cardinality(HeldBy(Total)) \in Int
  BY SlotsFinite
<1> QED
  BY <1>1, <1>3, <1>4, <1>5, CapacityAssumption DEF Pays

\* A thread is taken by the request that starts to run and given back by the
\* one that stops.
LEMMA RunningConserved ==
  ASSUME NEW r \in Requests, Frame(r), threads \in Nat, threads' \in Nat,
         \/ phase[r] = "running" /\ phase'[r] = "running" /\ threads' = threads
         \/ phase[r] # "running" /\ phase'[r] # "running" /\ threads' = threads
         \/ phase[r] = "running" /\ phase'[r] # "running" /\ threads' = threads + 1
         \/ phase[r] # "running" /\ phase'[r] = "running" /\ threads' = threads - 1,
         threads + Cardinality(Running) = Threads
  PROVE  threads' + Cardinality(Running') = Threads
<1>1. Running' \ {r} = Running \ {r}
  BY DEF Running, Frame
<1>2. r \in Running <=> phase[r] = "running"
  BY DEF Running
<1>3. r \in Running' <=> phase'[r] = "running"
  BY DEF Running
<1>4. IsFiniteSet(Running) /\ Cardinality(Running) \in Nat
  BY RunningFinite
<1>5. CASE phase[r] = "running" <=> phase'[r] = "running"
  <2>1. Running' = Running
    BY <1>5 DEF Running, Frame
  <2> QED
    BY <1>5, <2>1
<1>6. CASE phase[r] = "running" /\ phase'[r] # "running"
  <2>1. Running' = Running \ {r}
    BY <1>1, <1>3, <1>6
  <2>2. Cardinality(Running') = Cardinality(Running) - 1
    BY <1>2, <1>4, <1>6, <2>1, FS_RemoveElement
  <2> QED
    BY <1>2, <1>3, <1>4, <1>6, <2>2, ThreadsAssumption
<1>7. CASE phase[r] # "running" /\ phase'[r] = "running"
  <2>1. Running' = Running \cup {r}
    BY <1>1, <1>2, <1>3, <1>7
  <2>2. Cardinality(Running') = Cardinality(Running) + 1
    BY <1>2, <1>4, <1>7, <2>1, FS_AddElement
  <2> QED
    BY <1>2, <1>3, <1>4, <1>7, <2>2, ThreadsAssumption
<1> QED
  BY <1>5, <1>6, <1>7

\* The rest of the invariant follows from what r does for itself.
LEMMA Settled ==
  ASSUME Inv, NEW r \in Requests, Frame(r), TypeOK', Pays(r),
         \/ phase[r] = "running" /\ phase'[r] = "running" /\ threads' = threads
         \/ phase[r] # "running" /\ phase'[r] # "running" /\ threads' = threads
         \/ phase[r] = "running" /\ phase'[r] # "running" /\ threads' = threads + 1
         \/ phase[r] # "running" /\ phase'[r] = "running" /\ threads' = threads - 1,
         taken'[r] = IF phase'[r] = "running" THEN Depth(Ops(r)')[op'[r]] ELSE 0,
         phase'[r] \in {"done", "failed"} => own'[r] = 0,
         phase'[r] \in {"away", "queued"} => op'[r] = 0
  PROVE  Inv'
<1>1. free' + Cardinality(Held') = Capacity
  BY HeldConserved DEF Inv
<1>2. threads' + Cardinality(Running') = Threads
  BY RunningConserved DEF Inv, TypeOK
<1>3. TakenIsDepth'
  <2>1. \A q \in Requests \ {r} : Ops(q)' = Ops(q)
    BY DEF Ops, Frame
  <2> QED
    BY <2>1 DEF Inv, TakenIsDepth, Frame
<1>4. \A q \in Requests :
        (Ended(q) => own[q] = 0)' /\ (phase'[q] \in {"away", "queued"} => op'[q] = 0)
  BY DEF Inv, Ended, Frame
<1> QED
  BY <1>1, <1>2, <1>3, <1>4 DEF Inv

\* The five operations of a call.
LEMMA StepOperation ==
  ASSUME Inv, NEW r \in Requests,
         Take(r) \/ Give(r) \/ Own(r) \/ Commit(r) \/ EnterOrLeaveTry(r)
  PROVE  Inv'
<1> DEFINE c == Ops(r)
           i == op[r] + 1
<1>0. /\ Balanced(c) /\ op[r] \in 0..Len(c) /\ Len(c) \in Nat
      /\ TypeOK /\ TakenIsDepth /\ free \in Nat /\ own[r] \in {0, 1} /\ taken[r] \in 0..2
  BY InACall DEF Inv, TypeOK
<1>1. /\ phase[r] = "running" /\ op[r] < Len(c) /\ op' = [op EXCEPT ![r] = i]
      /\ UNCHANGED <<phase, kind, call, threads>> /\ Frame(r)
      /\ own'[r] \in {0, 1} /\ free' \in Nat /\ Pays(r)
      /\ taken'[r] = taken[r] + Delta(c[i])
  <2>0. /\ own \in [Requests -> {0, 1}] /\ taken \in [Requests -> 0..2]
        /\ op \in [Requests -> Nat]
    BY <1>0 DEF TypeOK
  <2> USE DEF At, NextOp, Done1, Frame, Pays, Delta
  <2>1. CASE Take(r)
    BY <1>0, <2>0, <2>1 DEF Take
  <2>2. CASE Give(r)
    <3>1. Delta("give") = 0 - 1 /\ c[i] = "give"
      BY <2>2 DEF Give
    <3>2. taken' = [taken EXCEPT ![r] = taken[r] - 1] /\ free' = free + 1 /\ own' = own
      BY <2>2 DEF Give
    <3>3. taken'[r] = taken[r] - 1
      BY <2>0, <3>2
    <3>4. Pays(r) /\ free' \in Nat /\ taken'[r] = taken[r] + Delta(c[i])
      BY <1>0, <3>1, <3>2, <3>3
    <3> QED
      BY <1>0, <2>0, <2>2, <3>2, <3>4 DEF Give
  <2>3. CASE Own(r)
    BY <1>0, <2>0, <2>3 DEF Own
  <2>4. CASE Commit(r)
    BY <1>0, <2>0, <2>4 DEF Commit
  <2>5. CASE EnterOrLeaveTry(r)
    BY <1>0, <2>0, <2>5 DEF EnterOrLeaveTry
  <2> QED
    BY <2>1, <2>2, <2>3, <2>4, <2>5
<1>2. Ops(r)' = c /\ op'[r] = i /\ i \in 1..Len(c)
  BY <1>0, <1>1 DEF Ops, TypeOK
<1>3. taken'[r] = Depth(c)[i] /\ Depth(c)[i] \in 0..2
  <2>1. taken[r] = Depth(c)[op[r]]
    BY <1>0, <1>1 DEF TakenIsDepth
  <2>2. /\ Depth(c)[i] = Depth(c)[i - 1] + Delta(c[i]) /\ i - 1 = op[r]
        /\ Depth(c)[i] \in 0..2
    BY <1>0, <1>2 DEF Balanced
  <2> QED
    BY <1>1, <2>1, <2>2
<1>4. TypeOK'
  <2>1. \A q \in Requests : Ops(q)' = Ops(q)
    BY <1>1 DEF Ops
  <2>2. /\ own' \in [Requests -> {0, 1}] /\ taken' \in [Requests -> 0..2]
    <3>1. DOMAIN own' = Requests /\ DOMAIN taken' = Requests /\ own' = [q \in Requests |-> own'[q]]
          /\ taken' = [q \in Requests |-> taken'[q]]
      BY <1>0 DEF Take, Give, Own, Commit, EnterOrLeaveTry, TypeOK
    <3>2. \A q \in Requests : own'[q] \in {0, 1} /\ taken'[q] \in 0..2
      BY <1>0, <1>1, <1>3 DEF Frame, TypeOK
    <3> QED
      BY <3>1, <3>2
  <2>3. op' \in [Requests -> Nat] /\ \A q \in Requests : op'[q] \in 0..Len(Ops(q)')
    <3>1. op' \in [Requests -> Nat]
      BY <1>0, <1>1, <1>2 DEF TypeOK
    <3>2. \A q \in Requests \ {r} : op'[q] = op[q] /\ op[q] \in 0..Len(Ops(q))
      BY <1>0, <1>1 DEF Frame, TypeOK
    <3>3. op'[r] \in 0..Len(c)
      BY <1>0, <1>2
    <3> QED
      BY <1>2, <2>1, <3>1, <3>2, <3>3
  <2> HIDE DEF c, i
  <2> QED
    BY <1>0, <1>1, <2>2, <2>3 DEF TypeOK
<1> QED
  BY <1>0, <1>1, <1>2, <1>3, <1>4, Settled

\* The other steps leave the operations of the call, or start the next call.
LEMMA StepElse ==
  ASSUME Inv, NEW r \in Requests,
         Arrive(r) \/ GetThread(r) \/ Return(r) \/ Refuse(r) \/ TimeOut(r) \/ Close(r)
  PROVE  Inv'
<1> DEFINE c == Ops(r)
<1>0. /\ Balanced(c) /\ op[r] \in 0..Len(c) /\ Len(c) \in Nat
      /\ TypeOK /\ TakenIsDepth /\ free \in Nat /\ own[r] \in {0, 1} /\ taken[r] \in 0..2
      /\ threads \in Nat
      /\ phase \in [Requests -> Phases] /\ call \in [Requests -> Nat] /\ op \in [Requests -> Nat]
      /\ own \in [Requests -> {0, 1}] /\ taken \in [Requests -> 0..2]
      /\ \A q \in Requests : call[q] \in 1..Len(Routes[kind[q]]) /\ op[q] \in 0..Len(Ops(q))
      /\ phase[r] # "running" => taken[r] = 0
      /\ phase[r] \in {"away", "queued"} => op[r] = 0
  BY InACall DEF Inv, TypeOK, TakenIsDepth
<1>1. CASE Arrive(r)
  <2>1. TypeOK' /\ Frame(r) /\ Pays(r)
    BY <1>0, <1>1 DEF Arrive, TypeOK, Ops, Phases, Frame, Pays
  <2> QED
    BY <1>0, <1>1, <2>1, Settled DEF Arrive
<1>2. CASE GetThread(r)
  <2>1. TypeOK' /\ Frame(r) /\ Pays(r)
    BY <1>0, <1>2 DEF GetThread, TypeOK, Ops, Phases, Frame, Pays
  <2>2. /\ phase[r] = "queued" /\ phase'[r] = "running" /\ Ops(r)' = c /\ op'[r] = 0
        /\ taken'[r] = 0 /\ threads' = threads - 1
    BY <1>0, <1>2 DEF GetThread, Ops
  <2>3. Depth(c)[0] = 0
    BY <1>0 DEF Balanced
  <2> HIDE DEF c
  <2> QED
    BY <2>1, <2>2, <2>3, Settled
<1>3. CASE Refuse(r)
  <2>1. TypeOK' /\ Frame(r) /\ Pays(r)
    BY <1>0, <1>3 DEF Refuse, TypeOK, Ops, Phases, Frame, Pays
  <2>2. taken[r] = 0
    BY <1>0, <1>3 DEF Refuse, Returns, TakenIsDepth, Balanced
  <2> QED
    BY <1>0, <1>3, <2>1, <2>2, Settled DEF Refuse, Returns
<1>4. CASE TimeOut(r)
  <2>1. TypeOK'
    BY <1>0, <1>4 DEF TimeOut, TypeOK, Ops, Phases
  <2>2. Frame(r) /\ Pays(r)
    BY <1>0, <1>4 DEF TimeOut, Frame, Pays
  <2> QED
    BY <1>0, <1>4, <2>1, <2>2, Settled DEF TimeOut, Waits, NeedsConnection, At
<1>5. CASE Close(r)
  <2>1. TypeOK' /\ own'[r] = 0
    BY <1>0, <1>5 DEF Close, TypeOK, Ops, Phases
  <2>2. Frame(r) /\ Pays(r)
    BY <1>0, <1>5 DEF Close, Frame, Pays
  <2> QED
    BY <1>0, <1>5, <2>1, <2>2, Settled DEF Close
<1>6. CASE Return(r)
  <2>1. taken[r] = 0
    BY <1>0, <1>6 DEF Return, Returns, TakenIsDepth, Balanced
  <2>2. phase'[r] \in {"queued", "closing"} /\ phase' \in [Requests -> Phases]
    BY <1>0, <1>6 DEF Return, Phases
  <2>3. Frame(r) /\ Pays(r)
    BY <1>0, <1>6 DEF Return, Frame, Pays
  <2>4. TypeOK'
    <3>1. \A q \in Requests \ {r} : Ops(q)' = Ops(q)
      BY <2>3 DEF Ops, Frame
    <3>2. call'[r] \in 1..Len(Routes[kind[r]])
      BY <1>0, <1>6, InACall DEF Return
    <3>3. op'[r] \in 0..Len(Ops(r)')
      <4>1. CASE call[r] < Len(Routes[kind[r]])
        <5>1. op'[r] = 0 /\ Ops(r)' = Routes[kind[r]][call'[r]]
          BY <1>0, <1>6, <4>1 DEF Return, Ops
        <5> QED
          BY <1>0, <3>2, <5>1, InACall
      <4>2. CASE ~(call[r] < Len(Routes[kind[r]]))
        BY <1>0, <1>6, <4>2 DEF Return, Ops
      <4> QED
        BY <4>1, <4>2
    <3>4. call' \in [Requests -> Nat] /\ op' \in [Requests -> Nat]
      <4>1. call[r] + 1 \in Nat
        BY <1>0
      <4>2. \/ call' = [call EXCEPT ![r] = call[r] + 1] /\ op' = [op EXCEPT ![r] = 0]
            \/ call' = call /\ op' = op
        BY <1>6 DEF Return
      <4>3. call \in [Requests -> Nat] /\ op \in [Requests -> Nat] /\ 0 \in Nat
        BY <1>0
      <4>4. CASE call' = [call EXCEPT ![r] = call[r] + 1] /\ op' = [op EXCEPT ![r] = 0]
        BY <4>1, <4>3, <4>4, r \in Requests
      <4>5. CASE call' = call /\ op' = op
        BY <4>3, <4>5
      <4> QED
        BY <4>2, <4>4, <4>5
    <3>5. \A q \in Requests :
            (call[q] \in 1..Len(Routes[kind[q]]) /\ op[q] \in 0..Len(Ops(q)))'
      BY SMTT(40), <1>0, <2>3, <3>1, <3>2, <3>3 DEF Frame
    <3> QED
      BY <1>0, <1>6, <2>2, <3>4, <3>5 DEF Return, TypeOK
  <2> QED
    BY <1>0, <1>6, <2>1, <2>2, <2>3, <2>4, Settled DEF Return, Returns
<1> QED
  BY <1>1, <1>2, <1>3, <1>4, <1>5, <1>6

\* A swallowed timeout leaves the handler with what it had before the try.
LEMMA StepSwallowed ==
  ASSUME Inv, NEW r \in Requests, TimeOutSwallowed(r)
  PROVE  Inv'
<1> DEFINE c == Ops(r)
<1>0. /\ Balanced(c) /\ op[r] \in 0..Len(c) /\ Len(c) \in Nat /\ TypeOK /\ TakenIsDepth
      /\ op \in [Requests -> Nat]
  BY InACall DEF Inv, TypeOK
<1>1. /\ phase[r] = "running" /\ op[r] < Len(c) /\ c[op[r] + 1] \in {"take", "own"}
      /\ InTryOf(c, op[r]) /\ op' = [op EXCEPT ![r] = EndOf(c)]
      /\ UNCHANGED <<phase, kind, call, own, taken, free, threads>>
  BY DEF TimeOutSwallowed, Waits, NeedsConnection, At, NextOp, InTry, EndOfTry, InTryOf, EndOf
<1>2. EndOf(c) \in 1..Len(c) /\ Depth(c)[EndOf(c)] = Depth(c)[op[r]]
  <2>1. op[r] + 1 \in 1..Len(c) /\ (op[r] + 1) - 1 = op[r]
    BY <1>0, <1>1
  <2> QED
    BY <1>0, <1>1, <2>1 DEF Balanced
<1>3. op'[r] = EndOf(c) /\ \A q \in Requests : Ops(q)' = Ops(q)
  BY <1>0, <1>1 DEF Ops
<1>4. Frame(r) /\ Pays(r)
  BY <1>0, <1>1 DEF Frame, Pays
<1>5. TypeOK'
  <2>1. op' \in [Requests -> Nat]
    BY <1>0, <1>1, <1>2
  <2>2. \A q \in Requests : op'[q] \in 0..Len(Ops(q)')
    <3>1. op'[r] \in 0..Len(Ops(r)')
      BY <1>0, <1>2, <1>3
    <3>2. \A q \in Requests \ {r} : op'[q] = op[q] /\ op[q] \in 0..Len(Ops(q))
      BY <1>0, <1>4 DEF Frame, TypeOK
    <3> QED
      BY <1>3, <3>1, <3>2
  <2> HIDE DEF c
  <2> QED
    BY <1>0, <1>1, <1>3, <2>1, <2>2 DEF TypeOK
<1>6. taken'[r] = Depth(Ops(r)')[op'[r]]
  BY <1>0, <1>1, <1>2, <1>3 DEF TakenIsDepth
<1> QED
  BY <1>1, <1>4, <1>5, <1>6, Settled

LEMMA InitInv == Init => Inv
<1> SUFFICES ASSUME Init PROVE Inv
  OBVIOUS
<1>1. TypeOK
  <2>1. kind \in [Requests -> DOMAIN Routes]
    BY MixesAssumption DEF Init
  <2>2. \A r \in Requests : /\ call[r] = 1 /\ op[r] = 0
                            /\ 1 \in 1..Len(Routes[kind[r]]) /\ Len(Ops(r)) \in Nat
    <3> TAKE r \in Requests
    <3>1. call[r] = 1 /\ op[r] = 0
      BY DEF Init
    <3>2. 1 \in 1..Len(Routes[kind[r]]) /\ Routes[kind[r]][1] \in Calls
      BY <2>1, RoutesAreCalls
    <3>3. Len(Routes[kind[r]][1]) \in Nat
      BY <3>2, AllBalanced DEF Balanced
    <3> QED
      BY <3>1, <3>2, <3>3 DEF Ops
  <2> QED
    BY <2>1, <2>2, CapacityAssumption, ThreadsAssumption DEF Init, TypeOK, Phases
<1>2. /\ TakenIsDepth
      /\ \A r \in Requests : (Ended(r) => own[r] = 0) /\ op[r] = 0
  BY DEF Init, TakenIsDepth, Ended
<1>3. Held = {} /\ Running = {}
  BY DEF Init, Held, Running, MostHeld
<1>4. free + Cardinality(Held) = Capacity /\ threads + Cardinality(Running) = Threads
  BY <1>3, FS_EmptySet, CapacityAssumption, ThreadsAssumption DEF Init
<1> QED
  BY <1>1, <1>2, <1>4 DEF Inv

LEMMA StepInv == Inv /\ [Next]_vars => Inv'
<1> SUFFICES ASSUME Inv, [Next]_vars PROVE Inv'
  OBVIOUS
<1>1. CASE UNCHANGED vars
  BY <1>1 DEF vars, Inv, TypeOK, TakenIsDepth, Ops, Ended, Held, Running
<1>2. ASSUME NEW r \in Requests, Arrive(r) \/ Proceed(r) \/ Refuse(r) \/ GiveUp(r)
      PROVE  Inv'
  BY <1>2, StepOperation, StepElse, StepSwallowed DEF Proceed, GiveUp
<1> QED
  BY <1>1, <1>2 DEF Next, AllEnded

LEMMA Invariant == Spec => []Inv
BY InitInv, StepInv, PTL DEF Spec

\* Every reachable state is well typed.
THEOREM TypeCorrect == Spec => []TypeOK
<1>1. Inv => TypeOK
  BY DEF Inv
<1> QED
  BY Invariant, <1>1, PTL

\* No connection and no thread is lost or given back twice, whatever times
\* out, is refused or fails half way, for any number of either.
THEOREM NothingLeaks == Spec => []ConnectionsComeBack
<1>1. ASSUME Inv PROVE ConnectionsComeBack
  <2>1. ASSUME NEW r \in Requests, At(r, "tried") PROVE taken[r] = 1
    <3>1. /\ Balanced(Ops(r)) /\ op[r] \in 0..Len(Ops(r)) /\ Len(Ops(r)) \in Nat
          /\ taken[r] = Depth(Ops(r))[op[r]]
      BY <1>1, <2>1, InACall DEF Inv, TakenIsDepth, At
    <3>2. op[r] + 1 \in 1..Len(Ops(r)) /\ Ops(r)[op[r] + 1] = "tried" /\ (op[r] + 1) - 1 = op[r]
      BY <2>1, <3>1 DEF At, NextOp
    <3> QED
      BY <3>1, <3>2 DEF Balanced
  <2>2. ASSUME NEW r \in Requests
        PROVE  /\ phase[r] \in Phases /\ own[r] \in {0, 1} /\ taken[r] \in 0..2
               /\ phase[r] # "running" => taken[r] = 0
    BY <1>1 DEF Inv, TypeOK, TakenIsDepth
  <2>3. \A r \in Requests :
          /\ taken[r] >= 0 /\ own[r] + taken[r] <= MostHeld
          /\ Ended(r) => own[r] = 0 /\ taken[r] = 0
          /\ phase[r] \in {"queued", "closing", "failing"} => taken[r] = 0
    BY <1>1, <2>2 DEF Inv, Ended, MostHeld
  <2> QED
    BY <1>1, <2>1, <2>2, <2>3 DEF Inv, ConnectionsComeBack
<1> QED
  BY Invariant, <1>1, PTL

=============================================================================
