------------------------------ MODULE Accounts ------------------------------
(***************************************************************************)
(* User accounts: apps/api/auth_service.py and the routes of routers/auth  *)
(* and routers/admin that write to auth_users, auth_sessions and           *)
(* password_reset_tokens.                                                  *)
(*                                                                         *)
(* A request reads rows into its ORM session, decides on what it read, and *)
(* writes later: an UPDATE carries only the columns it changed, waits for  *)
(* a transaction that holds the user's row, and is visible at the commit   *)
(* (PostgreSQL, READ COMMITTED, the engine's default). A request is named  *)
(* by its worker, and so are the session, the reset token and the password *)
(* it creates.                                                             *)
(***************************************************************************)
EXTENDS Naturals, FiniteSets

CONSTANTS
  Users,        \* accounts, named by their e-mail; also a user's first
                \* password and the session it starts with
  Workers,      \* one per HTTP request or start-up
  NoWorker,     \* holder of a free row lock
  Cases         \* the accounts there are at the start, which of them are
                \* administrators, and the request each worker will get

Ids == Users \cup Workers        \* names of sessions and passwords

\* by: the session whose cookie the request carries; on: the user it names,
\* or the token; secret: the current password it gives.
Request ==
  [kind: {"login", "change", "logout", "forgot", "reset", "suspend",
          "activate", "promote", "demote", "rename", "signup", "bootstrap"},
   by: Ids, on: Ids, secret: Ids]

AdminKinds == {"suspend", "activate", "promote", "demote"}
SessionKinds == AdminKinds \cup {"change", "rename", "logout"}

Case == [users: SUBSET Users, admins: SUBSET Users, asks: [Workers -> Request]]

\* A reset names the token that another request has asked for.
ASSUME AccountsConstants ==
  /\ Users \cap Workers = {}
  /\ NoWorker \notin Workers
  /\ Cases \subseteq Case
  /\ \A c \in Cases :
       /\ c.admins \subseteq c.users
       /\ \A w \in Workers :
            IF c.asks[w].kind = "reset"
            THEN /\ c.asks[w].on \in Workers
                 /\ c.asks[c.asks[w].on].kind = "forgot"
            ELSE c.asks[w].on \in Users

VARIABLES
  role,      \* auth_users.role
  status,    \* auth_users.status, "none" where there is no row
  password,  \* auth_users.password_hash
  name,      \* auth_users.name
  session,   \* auth_sessions: its user, the password it was opened with and
             \* whether resolve_session would still take it
  token,     \* password_reset_tokens
  mailed,    \* requests whose reset link was sent
  lock,      \* who holds each user's row
  pc,        \* next step of each request; a number is the reply it got
  req,       \* the request, from before it arrives
  row,       \* the user row it decides on, as it was read
  me,        \* the user its session belongs to
  revoking   \* the sessions it has selected to revoke

tables == <<role, status, password, name, session, token>>
locals == <<req, row, me, revoking>>
vars == <<tables, mailed, lock, pc, locals>>

-----------------------------------------------------------------------------
(* Rows and helpers *)

Replies == {"200", "201", "400", "401", "403", "404", "409", "500", "lost", "up"}
Steps == {"idle", "check", "verify", "flush", "insert", "mail", "commit"} \cup Replies

NoSession == [user |-> "none", under |-> "none", state |-> "none"]
NoUserRow == [user |-> "none", role |-> "none", status |-> "none", password |-> "none"]

RowOf(u) ==
  [user |-> u, role |-> role[u], status |-> status[u], password |-> password[u]]

Goto(w, here, there) == pc[w] = here /\ pc' = [pc EXCEPT ![w] = there]

Ended(w) == pc[w] \in Replies

ActiveAdmins == {u \in Users : role[u] = "admin" /\ status[u] = "active"}

\* resolve_session: the session is neither revoked nor expired and its user is
\* active.
Resolves(s) == session[s].state = "open" /\ status[session[s].user] = "active"

OpenSession(u, p) == [user |-> u, under |-> p, state |-> "open"]

\* revoke_user_sessions selects what is not revoked, expired or not.
Unrevoked(u) ==
  {s \in Ids : session[s].user = u /\ session[s].state \in {"open", "expired"}}

\* The row of a session that is over, one way or the other.
Over(s, how) == [user |-> session[s].user, under |-> session[s].under, state |-> how]

Revoked(S) == [s \in Ids |-> IF s \in S THEN Over(s, "revoked") ELSE session[s]]

Free(w, u) == lock[u] \in {NoWorker, w}

Release(w) == lock' = [u \in Users |-> IF lock[u] = w THEN NoWorker ELSE lock[u]]

\* A reply without any change to the tables.
Reply(w, here, code) ==
  /\ Goto(w, here, code)
  /\ Release(w)
  /\ UNCHANGED <<tables, mailed>>

-----------------------------------------------------------------------------
(* POST /auth/login *)

Login(w) ==
  /\ req[w].kind = "login"
  /\ IF status[req[w].on] = "none" \/ password[req[w].on] # req[w].secret
     THEN Reply(w, "idle", "401")
     ELSE IF status[req[w].on] # "active" THEN Reply(w, "idle", "403")
     ELSE Goto(w, "idle", "commit") /\ UNCHANGED <<tables, mailed, lock>>
  /\ row' = [row EXCEPT ![w] = RowOf(req[w].on)]
  /\ UNCHANGED <<req, me, revoking>>

\* Variant: the whole row is written back, not only last_login_at.
CommitLoginWholeRow(w) ==
  /\ req[w].kind = "login"
  /\ Goto(w, "commit", "200")
  /\ Free(w, req[w].on)
  /\ session' = [session EXCEPT ![w] = OpenSession(req[w].on, row[w].password)]
  /\ status' = [status EXCEPT ![req[w].on] = row[w].status]
  /\ role' = [role EXCEPT ![req[w].on] = row[w].role]
  /\ UNCHANGED <<password, name, token, mailed, lock, locals>>

\* issue_session and the new last_login_at, which waits for the user's row.
CommitLogin(w) ==
  /\ req[w].kind = "login"
  /\ Goto(w, "commit", "200")
  /\ Free(w, req[w].on)
  /\ session' = [session EXCEPT ![w] = OpenSession(req[w].on, row[w].password)]
  /\ UNCHANGED <<role, status, password, name, token, mailed, lock, locals>>

-----------------------------------------------------------------------------
(* POST /auth/signup, and bootstrap_admin at start-up *)

SignUp(w) ==
  /\ req[w].kind = "signup"
  /\ IF status[req[w].on] # "none" THEN Reply(w, "idle", "409")
     ELSE Goto(w, "idle", "insert") /\ UNCHANGED <<tables, mailed, lock>>
  /\ UNCHANGED locals

\* Nothing to do when there is an administrator, active or not, or when the
\* configured e-mail is taken.
Bootstrap(w) ==
  /\ req[w].kind = "bootstrap"
  /\ IF (\E u \in Users : role[u] = "admin") \/ status[req[w].on] # "none"
     THEN Reply(w, "idle", "up")
     ELSE Goto(w, "idle", "insert") /\ UNCHANGED <<tables, mailed, lock>>
  /\ UNCHANGED locals

\* Variant: the role asked for is ignored.
InsertAsUser(w) ==
  /\ Goto(w, "insert", IF req[w].kind = "signup" THEN "201" ELSE "up")
  /\ status[req[w].on] = "none"
  /\ status' = [status EXCEPT ![req[w].on] = "active"]
  /\ password' = [password EXCEPT ![req[w].on] = w]
  /\ name' = [name EXCEPT ![req[w].on] = w]
  /\ session' = [session EXCEPT ![w] =
                   IF req[w].kind = "signup" THEN OpenSession(req[w].on, w) ELSE @]
  /\ UNCHANGED <<role, token, mailed, lock, locals>>

\* create_user, committed; a signup is signed in at once.
Insert(w) ==
  /\ Goto(w, "insert", IF req[w].kind = "signup" THEN "201" ELSE "up")
  /\ status[req[w].on] = "none"
  /\ status' = [status EXCEPT ![req[w].on] = "active"]
  /\ password' = [password EXCEPT ![req[w].on] = w]
  /\ name' = [name EXCEPT ![req[w].on] = w]
  /\ role' = [role EXCEPT ![req[w].on] = IF req[w].kind = "bootstrap" THEN "admin" ELSE "user"]
  /\ session' = [session EXCEPT ![w] =
                   IF req[w].kind = "signup" THEN OpenSession(req[w].on, w) ELSE @]
  /\ UNCHANGED <<token, mailed, lock, locals>>

\* The unique index on the e-mail: a signup answers 409, the start-up goes on
\* without having created anybody.
InsertConflict(w) ==
  /\ pc[w] = "insert"
  /\ status[req[w].on] # "none"
  /\ Reply(w, "insert", IF req[w].kind = "signup" THEN "409" ELSE "up")
  /\ UNCHANGED locals

-----------------------------------------------------------------------------
(* Requests that carry a session *)

\* get_current_user, and require_admin for the admin routes. The row it reads
\* stays in the ORM session and is what change_password verifies against.
Enter(w) ==
  /\ req[w].kind \in SessionKinds
  /\ IF ~Resolves(req[w].by) THEN Reply(w, "idle", "401")
     ELSE IF req[w].kind \in AdminKinds /\ role[session[req[w].by].user] # "admin"
     THEN Reply(w, "idle", "403")
     ELSE /\ Goto(w, "idle", CASE req[w].kind \in AdminKinds -> "check"
                               [] req[w].kind = "change" -> "verify"
                               [] req[w].kind \in {"rename", "logout"} -> "commit")
          /\ UNCHANGED <<tables, mailed, lock>>
  /\ row' = [row EXCEPT ![w] = IF Resolves(req[w].by) THEN RowOf(session[req[w].by].user) ELSE @]
  /\ me' = [me EXCEPT ![w] = session[req[w].by].user]
  /\ UNCHANGED <<req, revoking>>

\* revoke_session.
CommitLogout(w) ==
  /\ req[w].kind = "logout"
  /\ Goto(w, "commit", "200")
  /\ session' = Revoked({req[w].by})
  /\ UNCHANGED <<role, status, password, name, token, mailed, lock, locals>>

\* update_me: the new name, which waits for the user's row at the commit.
CommitRename(w) ==
  /\ req[w].kind = "rename"
  /\ Goto(w, "commit", "200")
  /\ Free(w, me[w])
  /\ name' = [name EXCEPT ![me[w]] = w]
  /\ UNCHANGED <<role, status, password, session, token, mailed, lock, locals>>

\* change_password: the current password is the one that was read on entry.
Verify(w) ==
  /\ IF row[w].password # req[w].secret THEN Reply(w, "verify", "401")
     ELSE Goto(w, "verify", "flush") /\ UNCHANGED <<tables, mailed, lock>>
  /\ UNCHANGED locals

\* Variant: no session is revoked.
CommitChangeKeepsSessions(w) ==
  /\ req[w].kind = "change"
  /\ Goto(w, "commit", "200")
  /\ password' = [password EXCEPT ![me[w]] = w]
  /\ session' = [session EXCEPT ![w] = OpenSession(me[w], w)]
  /\ Release(w)
  /\ UNCHANGED <<role, status, name, token, mailed, locals>>

\* The new password, the sessions selected for revocation and a new session
\* are committed together.
CommitChange(w) ==
  /\ req[w].kind = "change"
  /\ Goto(w, "commit", "200")
  /\ password' = [password EXCEPT ![me[w]] = w]
  /\ session' = [Revoked(revoking[w]) EXCEPT ![w] = OpenSession(me[w], w)]
  /\ Release(w)
  /\ UNCHANGED <<role, status, name, token, mailed, locals>>

-----------------------------------------------------------------------------
(* The administrator's changes *)

\* The target's row: read now, unless it is the administrator's own, which
\* the ORM session already has.
TargetRow(w) == IF req[w].on = me[w] THEN row[w] ELSE RowOf(req[w].on)

\* Variant: the count includes the target.
LastAdminCounted(w) ==
  /\ req[w].kind \in {"suspend", "demote"}
  /\ TargetRow(w).role = "admin"
  /\ ActiveAdmins = {}

\* "Cannot suspend / remove the last active admin."
LastAdmin(w) ==
  /\ req[w].kind \in {"suspend", "demote"}
  /\ TargetRow(w).role = "admin"
  /\ ActiveAdmins \ {req[w].on} = {}

\* When the caller's last_active_at is old, the first query of the handler
\* flushes the new one, and the caller's row stays locked until the commit.
Check(w) ==
  \/ /\ pc[w] = "check"
     /\ status[req[w].on] = "none"
     /\ Reply(w, "check", "404")
     /\ UNCHANGED locals
  \/ /\ pc[w] = "check"
     /\ status[req[w].on] # "none"
     /\ LastAdmin(w)
     /\ Reply(w, "check", "400")
     /\ UNCHANGED locals
  \/ /\ pc[w] = "check"
     /\ status[req[w].on] # "none"
     /\ ~LastAdmin(w)
     /\ Goto(w, "check", "flush")
     /\ row' = [row EXCEPT ![w] = TargetRow(w)]
     /\ \/ UNCHANGED lock
        \/ Free(w, me[w]) /\ lock' = [lock EXCEPT ![me[w]] = w]
     /\ UNCHANGED <<tables, mailed, req, me, revoking>>

\* The ORM sees a change, compared with the row it read.
Changes(w) ==
  CASE req[w].kind = "suspend" -> row[w].status # "suspended"
    [] req[w].kind = "activate" -> row[w].status # "active"
    [] req[w].kind = "promote" -> row[w].role # "admin"
    [] req[w].kind = "demote" -> row[w].role # "user"
    [] OTHER -> TRUE

\* The user whose row a request is about to update.
Target(w) ==
  CASE req[w].kind \in {"change", "rename"} -> me[w]
    [] req[w].kind = "reset" -> req[req[w].on].on
    [] OTHER -> req[w].on

\* The UPDATE of the user's row waits for the row and locks it; then
\* revoke_user_sessions selects the sessions that are committed by now.
Flush(w) ==
  /\ Goto(w, "flush", "commit")
  /\ IF Changes(w)
     THEN Free(w, Target(w)) /\ lock' = [lock EXCEPT ![Target(w)] = w]
     ELSE UNCHANGED lock
  /\ revoking' = [revoking EXCEPT ![w] =
                    IF req[w].kind \in {"suspend", "change", "reset"}
                    THEN Unrevoked(Target(w)) ELSE {}]
  /\ UNCHANGED <<tables, mailed, req, row, me>>

\* Variant: a suspended user stays signed in.
CommitAdminKeepsSessions(w) ==
  /\ req[w].kind \in AdminKinds
  /\ Goto(w, "commit", "200")
  /\ status' = [status EXCEPT ![req[w].on] =
                  CASE req[w].kind = "suspend" -> "suspended"
                    [] req[w].kind = "activate" -> "active"
                    [] OTHER -> @]
  /\ Release(w)
  /\ UNCHANGED <<role, password, name, session, token, mailed, locals>>

\* Only the column that changed is written.
CommitAdmin(w) ==
  /\ req[w].kind \in AdminKinds
  /\ Goto(w, "commit", "200")
  /\ status' = [status EXCEPT ![req[w].on] =
                  IF ~Changes(w) THEN @
                  ELSE CASE req[w].kind = "suspend" -> "suspended"
                         [] req[w].kind = "activate" -> "active"
                         [] OTHER -> @]
  /\ role' = [role EXCEPT ![req[w].on] =
                IF ~Changes(w) THEN @
                ELSE CASE req[w].kind = "promote" -> "admin"
                       [] req[w].kind = "demote" -> "user"
                       [] OTHER -> @]
  /\ session' = Revoked(revoking[w])
  /\ Release(w)
  /\ UNCHANGED <<password, name, token, mailed, locals>>

-----------------------------------------------------------------------------
(* POST /auth/forgot-password and /auth/reset-password *)

\* The answer is the same whether or not a link is sent.
Forgot(w) ==
  /\ req[w].kind = "forgot"
  /\ IF status[req[w].on] # "active" THEN Reply(w, "idle", "200")
     ELSE Goto(w, "idle", "mail") /\ UNCHANGED <<tables, mailed, lock>>
  /\ UNCHANGED locals

\* The link leaves before the token is committed; a mail server that refuses
\* ends the request.
SendLink(w) ==
  /\ \/ /\ Goto(w, "mail", "commit")
        /\ mailed' = mailed \cup {w}
     \/ /\ Goto(w, "mail", "500")
        /\ UNCHANGED mailed
  /\ UNCHANGED <<tables, lock, locals>>

\* When this commit fails, the link that has left opens nothing (CommitFails).
CommitForgot(w) ==
  /\ req[w].kind = "forgot"
  /\ Goto(w, "commit", "200")
  /\ token' = [token EXCEPT ![w] = "fresh"]
  /\ UNCHANGED <<role, status, password, name, session, mailed, lock, locals>>

\* The token's row and its user are read; nothing is locked.
Reset(w) ==
  /\ req[w].kind = "reset"
  /\ IF token[req[w].on] # "fresh" \/ status[req[req[w].on].on] # "active"
     THEN Reply(w, "idle", "400")
     ELSE Goto(w, "idle", "flush") /\ UNCHANGED <<tables, mailed, lock>>
  /\ UNCHANGED locals

\* Variant: used_at is not set.
CommitResetKeepsToken(w) ==
  /\ req[w].kind = "reset"
  /\ Goto(w, "commit", "200")
  /\ password' = [password EXCEPT ![Target(w)] = w]
  /\ session' = Revoked(revoking[w])
  /\ Release(w)
  /\ UNCHANGED <<role, status, name, token, mailed, locals>>

\* The token is marked as it was read, whatever happened to it since.
CommitReset(w) ==
  /\ req[w].kind = "reset"
  /\ Goto(w, "commit", "200")
  /\ password' = [password EXCEPT ![Target(w)] = w]
  /\ token' = [token EXCEPT ![req[w].on] = "used"]
  /\ session' = Revoked(revoking[w])
  /\ Release(w)
  /\ UNCHANGED <<role, status, name, mailed, locals>>

-----------------------------------------------------------------------------
(* Time, crashes, deadlocks *)

\* expires_at passes.
ExpireSession(s) ==
  /\ session[s].state = "open"
  /\ session' = [session EXCEPT ![s] = Over(s, "expired")]
  /\ UNCHANGED <<role, status, password, name, token, mailed, lock, pc, locals>>

ExpireToken(t) ==
  /\ token[t] = "fresh"
  /\ token' = [token EXCEPT ![t] = "expired"]
  /\ UNCHANGED <<role, status, password, name, session, mailed, lock, pc, locals>>

\* Variant: the connection of a failed request keeps its locks.
FailHoldingRow(w, code) ==
  /\ pc' = [pc EXCEPT ![w] = code]
  /\ UNCHANGED <<tables, mailed, lock, locals>>

\* The transaction is rolled back.
Fail(w, code) ==
  /\ pc' = [pc EXCEPT ![w] = code]
  /\ Release(w)
  /\ UNCHANGED <<tables, mailed, locals>>

\* w waits for a row that v holds.
WaitsFor(w, v) ==
  /\ pc[w] = "flush"
  /\ Changes(w)
  /\ v # w
  /\ lock[Target(w)] = v

\* Two administrators hold their own rows and wait for each other's.
DeadlockVictim(w) ==
  /\ \E S \in SUBSET Workers :
       /\ w \in S
       /\ \A v \in S : \E u \in S : WaitsFor(v, u)
  /\ Fail(w, "500")

\* The database refuses the commit and nobody catches it: the caller gets a
\* 500, nothing is kept, but a link that was mailed is not called back.
CommitFails(w) ==
  /\ pc[w] = "commit"
  /\ Fail(w, "500")

\* The process is killed.
Crash(w) ==
  /\ pc[w] # "idle"
  /\ ~Ended(w)
  /\ Fail(w, "lost")

Breaks(w) == CommitFails(w) \/ Crash(w)

-----------------------------------------------------------------------------
(* Specification *)

InitAs(c) ==
  /\ role = [u \in Users |-> IF u \in c.admins THEN "admin" ELSE "user"]
  /\ status = [u \in Users |-> IF u \in c.users THEN "active" ELSE "none"]
  /\ password = [u \in Users |-> u]
  /\ name = [u \in Users |-> u]
  /\ session = [s \in Ids |-> IF s \in c.users THEN OpenSession(s, s) ELSE NoSession]
  /\ req = c.asks
  /\ token = [w \in Workers |-> "none"]
  /\ mailed = {}
  /\ lock = [u \in Users |-> NoWorker]
  /\ pc = [w \in Workers |-> "idle"]
  /\ row = [w \in Workers |-> NoUserRow]
  /\ me = [w \in Workers |-> "none"]
  /\ revoking = [w \in Workers |-> {}]

Init == \E c \in Cases : InitAs(c)

Arrive(w) ==
  \/ Login(w) \/ SignUp(w) \/ Bootstrap(w)
  \/ Enter(w) \/ Forgot(w) \/ Reset(w)

Work(w) ==
  \/ CommitLogin(w) \/ Insert(w) \/ InsertConflict(w)
  \/ CommitLogout(w) \/ CommitRename(w) \/ Verify(w) \/ CommitChange(w)
  \/ Check(w) \/ Flush(w) \/ CommitAdmin(w)
  \/ SendLink(w) \/ CommitForgot(w) \/ CommitReset(w)
  \/ DeadlockVictim(w)

Terminating == (\A w \in Workers : Ended(w)) /\ UNCHANGED vars

Next ==
  \/ \E w \in Workers : Arrive(w) \/ Work(w) \/ Breaks(w) \/ ExpireToken(w)
  \/ \E s \in Ids : ExpireSession(s)
  \/ Terminating

Spec == Init /\ [][Next]_vars

\* A request that has arrived goes on; arrivals, failures, crashes and the
\* passing of expiry times need not happen.
FairSpec == Spec /\ \A w \in Workers : WF_vars(Work(w))

=============================================================================
