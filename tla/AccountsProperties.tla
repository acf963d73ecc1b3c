-------------------------- MODULE AccountsProperties --------------------------
(***************************************************************************)
(* What module Accounts is checked against.                                *)
(***************************************************************************)
EXTENDS Accounts

SessionRow == [user: Users, under: Ids, state: {"open", "expired", "revoked"}]

UserRow ==
  [user: Users, role: {"user", "admin"}, status: {"none", "active", "suspended"},
   password: Ids]

\* Every table and local has the shape the code and the CHECK constraints of
\* auth_users give it; a row is locked by a request or free.
TypeOK ==
  /\ role \in [Users -> {"user", "admin"}]
  /\ status \in [Users -> {"none", "active", "suspended"}]
  /\ password \in [Users -> Ids]
  /\ name \in [Users -> Ids]
  /\ session \in [Ids -> SessionRow \cup {NoSession}]
  /\ token \in [Workers -> {"none", "fresh", "used", "expired"}]
  /\ mailed \in SUBSET Workers
  /\ lock \in [Users -> Workers \cup {NoWorker}]
  /\ pc \in [Workers -> Steps]
  /\ req \in [Workers -> Request]
  /\ row \in [Workers -> UserRow \cup {NoUserRow}]
  /\ me \in [Workers -> Users \cup {"none"}]
  /\ revoking \in [Workers -> SUBSET Ids]

\* "Cannot suspend the last active admin." and "Cannot remove the last active
\* admin." (admin.py:172 and 224): whoever is suspended or demoted, an active
\* administrator is left where there was one.
AnActiveAdminIsLeft == [][ActiveAdmins # {} => ActiveAdmins' # {}]_vars

\* So it is as long as no two such requests meet.
OneAtATimeLeavesAnAdmin ==
  [][(\A w, v \in Workers : {req[w].kind, req[v].kind} \subseteq {"suspend", "demote"} => w = v)
       => (ActiveAdmins # {} => ActiveAdmins' # {})]_vars

\* w goes through with a request of one of the kinds that is about u.
Settles(w, u, kinds) ==
  /\ req[w].kind \in kinds
  /\ Target(w) = u
  /\ pc[w] \notin Replies
  /\ pc'[w] \in {"200", "201", "up"}

\* A role, a status, a password or a name is changed by the request that asks
\* for that change and by no other: a login, a reset, a new name or a signup
\* that is late does not put back what another request has changed meanwhile,
\* and an account is created only where there is none.
ColumnsChangeOnRequest ==
  [][\A u \in Users :
       /\ status'[u] # status[u] =>
            \E w \in Workers : Settles(w, u, IF status[u] = "none" THEN {"signup", "bootstrap"}
                                              ELSE {"suspend", "activate"})
       /\ role'[u] # role[u] =>
            \E w \in Workers : Settles(w, u, IF status[u] = "none" THEN {"bootstrap"}
                                              ELSE {"promote", "demote"})
       /\ password'[u] # password[u] =>
            \E w \in Workers :
              /\ password'[u] = w
              /\ Settles(w, u, IF status[u] = "none" THEN {"signup", "bootstrap"}
                               ELSE {"change", "reset"})
       /\ name'[u] # name[u] =>
            \E w \in Workers :
              /\ name'[u] = w
              /\ Settles(w, u, IF status[u] = "none" THEN {"signup", "bootstrap"}
                               ELSE {"rename"})]_vars

\* A changed or reset password signs out the sessions opened under older
\* passwords, also when two changes meet: only a login that was verified
\* against the old password may still open one.
OnlyLoginsOutliveAChange ==
  \A s \in Ids :
    session[s].state = "open" /\ session[s].under # password[session[s].user] =>
      s \in Workers /\ req[s].kind = "login"

\* Suspending a user signs him out everywhere, also when he is changing his
\* password or signing in meanwhile: only such a request, which was let in
\* before, may still open a session for him.
SuspensionSignsOut ==
  \A s \in Ids :
    session[s].state = "open" /\ status[session[s].user] = "suspended" =>
      s \in Workers /\ req[s].kind \in {"login", "change"}

\* A reset link is good for one password: it lets a request in only if it was
\* mailed, by a request that went through with its commit, and if no request
\* that came with it has gone through before. (Two that come at once both read
\* the token unused, and both get through.)
LinksOpenOnce ==
  [][\A w \in Workers :
       req[w].kind = "reset" /\ pc[w] = "idle" /\ pc'[w] \notin {"idle", "400"} =>
         /\ req[w].on \in mailed
         /\ pc[req[w].on] = "200"
         /\ \A v \in Workers :
              req[v].kind = "reset" /\ req[v].on = req[w].on => pc[v] # "200"]_vars

\* After a start-up there is an administrator, although several start-ups
\* meet and all but one lose the insert; unless an administrator has taken the
\* role away since, or the configured e-mail is of an account that no start-up
\* has created.
StartUpLeavesAnAdmin ==
  \A w \in Workers :
    req[w].kind = "bootstrap" /\ pc[w] = "up" =>
      \/ \E u \in Users : role[u] = "admin"
      \/ \E v \in Workers : req[v].kind = "demote" /\ pc[v] = "200"
      \/ /\ status[req[w].on] # "none"
         /\ \A v \in Workers : req[v].kind = "bootstrap" => password[req[w].on] # v

\* Every request that arrives gets its reply, or dies with its process,
\* although administrators who change each other hold and want each other's
\* rows.
EveryRequestEnds == \A w \in Workers : pc[w] # "idle" ~> Ended(w)

=============================================================================
