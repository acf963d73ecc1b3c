--------------------------- MODULE ConnectionPool ---------------------------
(***************************************************************************)
(* How the requests of one API process share the engine's connections and  *)
(* the server's worker threads.  A request keeps the connection that       *)
(* authenticated it while its handler takes others, so requests wait for   *)
(* each other while they hold what the others wait for.                    *)
(***************************************************************************)
EXTENDS Naturals, Sequences, FiniteSets

CONSTANTS
  Requests,   \* requests in flight
  Mixes,      \* the routes they may ask for together
  Capacity,   \* connections the engine may open (pool_size + max_overflow)
  Threads     \* worker threads for sync dependencies and handlers

ASSUME RequestsAssumption == IsFiniteSet(Requests)
ASSUME CapacityAssumption == Capacity \in Nat \ {0}
ASSUME ThreadsAssumption == Threads \in Nat \ {0}

----------------------------------------------------------------------------
(* What a call does with connections:                                      *)
(*   own, commit   the request's session begins, or ends its transaction   *)
(*   take, give    a session or a connection of its own, and its end       *)
(*   try, tried    the body of a try that swallows what is raised in it.   *)

get_current_user == <<"own">>
require_admin == <<"take", "give">>
_load_audits == <<"take", "give">>
_balances == <<"take", "give">>

\* The currency is looked up before the outer session sends anything.
_persist_rollback == <<"take", "give", "take", "give">>

list_accounts == <<"own", "commit">>
list_recent_transfers == <<"take", "give">>
get_transfer == <<"take">> \o _load_audits \o <<"give">>
read_merchant == <<"own">>

SeedFirst == <<"take", "give">>
Audited == <<"own", "commit">>
Committed == SeedFirst \o <<"take">> \o _load_audits \o <<"give">> \o Audited
RolledBack ==
  SeedFirst \o <<"take">> \o _balances
            \o <<"try">> \o _persist_rollback \o <<"tried">>
            \o _load_audits \o <<"give">> \o Audited

\* The sync calls of a request, each on a worker thread of its own.
Routes ==
  [accounts |-> <<get_current_user, list_accounts>>,
   merchant |-> <<get_current_user, read_merchant>>,
   list |-> <<get_current_user, list_recent_transfers>>,
   fetch |-> <<get_current_user, get_transfer>>,
   transfer |-> <<get_current_user, Committed>>,
   failing_transfer |-> <<get_current_user, RolledBack>>,
   admin_transactions |-> <<get_current_user, require_admin, list_recent_transfers>>]

ASSUME MixesAssumption == Mixes \subseteq [Requests -> DOMAIN Routes]

----------------------------------------------------------------------------
VARIABLES
  phase,   \* where a request is: see Phases
  kind,    \* the route it asked for
  call,    \* which of its calls it is in
  op,      \* how many operations of that call are done
  own,     \* connections its session holds: 0 or 1
  taken,   \* connections its handler holds besides
  free,    \* connections that may be taken
  threads  \* worker threads that may be taken

vars == <<phase, kind, call, op, own, taken, free, threads>>

\* A request that fails, or is refused, unwinds as one that returns does.
Phases == {"away", "queued", "running", "closing", "done", "failing", "failed"}
Ended(r) == phase[r] \in {"done", "failed"}

Ops(r) == Routes[kind[r]][call[r]]
NextOp(r) == Ops(r)[op[r] + 1]
Returns(r) == phase[r] = "running" /\ op[r] = Len(Ops(r))
At(r, operation) ==
  phase[r] = "running" /\ op[r] < Len(Ops(r)) /\ NextOp(r) = operation

\* A session that already holds a connection does not take another.
NeedsConnection(r) == At(r, "take") \/ (At(r, "own") /\ own[r] = 0)
Waits(r) == NeedsConnection(r) /\ free = 0

Init ==
  /\ phase = [r \in Requests |-> "away"]
  /\ kind \in Mixes
  /\ call = [r \in Requests |-> 1]
  /\ op = [r \in Requests |-> 0]
  /\ own = [r \in Requests |-> 0]
  /\ taken = [r \in Requests |-> 0]
  /\ free = Capacity
  /\ threads = Threads

Arrive(r) ==
  /\ phase[r] = "away"
  /\ phase' = [phase EXCEPT ![r] = "queued"]
  /\ UNCHANGED <<kind, call, op, own, taken, free, threads>>

GetThread(r) ==
  /\ phase[r] = "queued" /\ threads > 0
  /\ threads' = threads - 1
  /\ phase' = [phase EXCEPT ![r] = "running"]
  /\ UNCHANGED <<kind, call, op, own, taken, free>>

Done1(r) == op' = [op EXCEPT ![r] = @ + 1]

Take(r) ==
  /\ At(r, "take") /\ free > 0
  /\ free' = free - 1
  /\ taken' = [taken EXCEPT ![r] = @ + 1]
  /\ Done1(r)
  /\ UNCHANGED <<phase, kind, call, own, threads>>

Give(r) ==
  /\ At(r, "give")
  /\ free' = free + 1
  /\ taken' = [taken EXCEPT ![r] = @ - 1]
  /\ Done1(r)
  /\ UNCHANGED <<phase, kind, call, own, threads>>

Own(r) ==
  /\ At(r, "own") /\ (own[r] = 0 => free > 0)
  /\ free' = free - (1 - own[r])
  /\ own' = [own EXCEPT ![r] = 1]
  /\ Done1(r)
  /\ UNCHANGED <<phase, kind, call, taken, threads>>

Commit(r) ==
  /\ At(r, "commit")
  /\ free' = free + own[r]
  /\ own' = [own EXCEPT ![r] = 0]
  /\ Done1(r)
  /\ UNCHANGED <<phase, kind, call, taken, threads>>

EnterOrLeaveTry(r) ==
  /\ At(r, "try") \/ At(r, "tried")
  /\ Done1(r)
  /\ UNCHANGED <<phase, kind, call, own, taken, free, threads>>

\* A call that returns gives its thread back; the next call queues for one.
Return(r) ==
  /\ Returns(r)
  /\ threads' = threads + 1
  /\ IF call[r] < Len(Routes[kind[r]])
     THEN /\ phase' = [phase EXCEPT ![r] = "queued"]
          /\ call' = [call EXCEPT ![r] = @ + 1]
          /\ op' = [op EXCEPT ![r] = 0]
     ELSE /\ phase' = [phase EXCEPT ![r] = "closing"]
          /\ UNCHANGED <<call, op>>
  /\ UNCHANGED <<kind, own, taken, free>>

\* No session, or not an administrator: the dependency raises.
Refuse(r) ==
  /\ Returns(r) /\ call[r] < Len(Routes[kind[r]])
  /\ threads' = threads + 1
  /\ phase' = [phase EXCEPT ![r] = "closing"]
  /\ UNCHANGED <<kind, call, op, own, taken, free>>

InTry(r) ==
  \E i \in 1..op[r] : Ops(r)[i] = "try" /\ \A j \in i..op[r] : Ops(r)[j] # "tried"
EndOfTry(r) == CHOOSE i \in DOMAIN Ops(r) : Ops(r)[i] = "tried"

\* The pool gives up on a connection: the with-blocks close what they hold.
\* In the try, nothing is held but what was held before it.
TimeOutSwallowed(r) ==
  /\ Waits(r) /\ InTry(r)
  /\ op' = [op EXCEPT ![r] = EndOfTry(r)]
  /\ UNCHANGED <<phase, kind, call, own, taken, free, threads>>

\* Variant: a connection that was taken is given back only on success.
TimeOutLeaks(r) ==
  /\ Waits(r) /\ ~InTry(r)
  /\ taken' = [taken EXCEPT ![r] = 0]
  /\ free' = free
  /\ threads' = threads + 1
  /\ phase' = [phase EXCEPT ![r] = "failing"]
  /\ UNCHANGED <<kind, call, op, own>>

\* Variant: the pool waits for ever (pool_timeout=None).
TimeOutNever(r) ==
  /\ Waits(r) /\ ~InTry(r)
  /\ UNCHANGED vars

TimeOut(r) ==
  /\ Waits(r) /\ ~InTry(r)
  /\ taken' = [taken EXCEPT ![r] = 0]
  /\ free' = free + taken[r]
  /\ threads' = threads + 1
  /\ phase' = [phase EXCEPT ![r] = "failing"]
  /\ UNCHANGED <<kind, call, op, own>>

\* get_session's finally: it needs no worker thread of the handlers' limit.
Close(r) ==
  /\ phase[r] \in {"closing", "failing"}
  /\ free' = free + own[r]
  /\ own' = [own EXCEPT ![r] = 0]
  /\ phase' = [phase EXCEPT ![r] = IF phase[r] = "closing" THEN "done" ELSE "failed"]
  /\ UNCHANGED <<kind, call, op, taken, threads>>

Proceed(r) ==
  \/ GetThread(r) \/ Take(r) \/ Give(r) \/ Own(r) \/ Commit(r)
  \/ EnterOrLeaveTry(r) \/ Return(r) \/ Close(r)
GiveUp(r) == TimeOut(r) \/ TimeOutSwallowed(r)

AllEnded == (\A r \in Requests : Ended(r)) /\ UNCHANGED vars

Next ==
  \/ \E r \in Requests : Arrive(r) \/ Proceed(r) \/ Refuse(r) \/ GiveUp(r)
  \/ AllEnded

Spec == Init /\ [][Next]_vars

\* Threads run, the database answers and the pool's timeout expires.
Fairness == \A r \in Requests : WF_vars(Proceed(r)) /\ WF_vars(GiveUp(r))
FairSpec == Spec /\ Fairness

=============================================================================
