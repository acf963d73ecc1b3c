---------------------- MODULE ConnectionPoolProperties ----------------------
(* What the shared connections and threads owe the requests.               *)
EXTENDS ConnectionPool

\* What one request may hold at once: its session's connection, its handler's
\* and that of a helper the handler calls.
MostHeld == 3

\* The connections that are out, counted request by request.
Held == {h \in Requests \X (1..MostHeld) : h[2] <= own[h[1]] + taken[h[1]]}
Running == {r \in Requests : phase[r] = "running"}

(***************************************************************************)
(* However requests interleave, time out, are refused or fail half way, no *)
(* connection and no thread is lost, or given back twice (get_session's    *)
(* finally, the with-blocks and the finally of run_ledger_transfer); an    *)
(* ended request holds nothing; and a recording of a rollback that fails   *)
(* for want of a connection leaves the transfer's own connection in place. *)
(***************************************************************************)
ConnectionsComeBack ==
  /\ free + Cardinality(Held) = Capacity
  /\ threads + Cardinality(Running) = Threads
  /\ \A r \in Requests :
       /\ phase[r] \in Phases /\ own[r] \in {0, 1}
       /\ taken[r] >= 0 /\ own[r] + taken[r] <= MostHeld
       /\ Ended(r) => own[r] = 0 /\ taken[r] = 0
       /\ phase[r] \in {"queued", "closing", "failing"} => taken[r] = 0
       /\ At(r, "tried") => taken[r] = 1

(***************************************************************************)
(* Every request that arrives is answered, even when every connection is   *)
(* held by requests that wait for another one, or every thread by requests *)
(* that wait for a connection: the pool's timeout breaks the circle.       *)
(***************************************************************************)
EveryRequestEnds == \A r \in Requests : phase[r] = "queued" ~> Ended(r)

=============================================================================
