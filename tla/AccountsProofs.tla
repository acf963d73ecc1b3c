---------------------------- MODULE AccountsProofs ----------------------------
(***************************************************************************)
(* Theorems about module Accounts, for any users, workers and cases.       *)
(***************************************************************************)
EXTENDS AccountsProperties, TLAPS

-----------------------------------------------------------------------------
(* The inductive invariant *)

\* The requests are those of one of the cases.
Asked == \E c \in Cases : req = c.asks

\* A request is only at steps of its own handler.
StepsFit ==
  \A w \in Workers :
    /\ pc[w] = "check" => req[w].kind \in AdminKinds
    /\ pc[w] = "verify" => req[w].kind = "change"
    /\ pc[w] = "flush" => req[w].kind \in AdminKinds \cup {"change", "reset"}
    /\ pc[w] = "mail" => req[w].kind = "forgot"
    /\ pc[w] = "insert" => req[w].kind \in {"signup", "bootstrap"}

\* What a request will write into a session's row is well formed, and the
\* sessions it will revoke exist.
RowsFit ==
  \A w \in Workers :
    /\ pc[w] = "commit" /\ req[w].kind = "login" => row[w].password \in Ids
    /\ pc[w] \in {"verify", "flush", "commit"} /\ req[w].kind \in {"change", "rename"} =>
         me[w] \in Users
    /\ pc[w] = "commit" /\ req[w].kind = "logout" => session[req[w].by].state # "none"
    /\ \A s \in revoking[w] : session[s].state # "none"

ShapeInv == TypeOK /\ Asked /\ StepsFit /\ RowsFit

\* The kinds that write to the row of a user who is there, and the steps at
\* which they have seen him.
AboutSomebody == AdminKinds \cup {"login", "change", "reset", "rename"}

\* Nobody is about to be written to before he has signed up.
There(w) ==
  pc[w] \in {"verify", "flush", "commit"} /\ req[w].kind \in AboutSomebody =>
    status[Target(w)] # "none"

\* Nobody has a session before he has signed up: a signup never meets the
\* sessions of another.
OpenThere == \A s \in Ids : session[s].state = "open" => status[session[s].user] # "none"

\* A new password is committed under the lock of its user's row.
Held(w) ==
  pc[w] = "commit" /\ req[w].kind \in {"change", "reset"} => lock[Target(w)] = w

\* What is an open session of u and is not among those w will revoke was opened
\* by a worker with a request of one of the kinds.
Leaves(w, u, kinds) ==
  \A s \in Ids :
    session[s].state = "open" /\ session[s].user = u /\ s \notin revoking[w] =>
      s \in Workers /\ req[s].kind \in kinds

\* The sessions a request has selected are all that must go, until it commits.
Selected(w) ==
  pc[w] = "commit" =>
    /\ req[w].kind \in {"change", "reset"} => Leaves(w, Target(w), {"login"})
    /\ req[w].kind = "suspend" => Leaves(w, Target(w), {"login", "change"})

ChangeInv ==
  /\ \A w \in Workers : There(w) /\ Held(w) /\ Selected(w)
  /\ OpenThere
  /\ OnlyLoginsOutliveAChange
  /\ SuspensionSignsOut

Inv == ShapeInv /\ ChangeInv

-----------------------------------------------------------------------------
(* Lemmas *)

\* A request is well formed, and only a reset names a token.
LEMMA AskedTyped ==
  ASSUME Asked
  PROVE  /\ req \in [Workers -> Request]
         /\ \A w \in Workers :
              /\ req[w].kind = "reset" => req[w].on \in Workers /\ req[req[w].on].kind = "forgot"
              /\ req[w].kind # "reset" => req[w].on \in Users
              /\ req[w].by \in Ids
<1>1. PICK c \in Cases : req = c.asks
  BY DEF Asked
<1>2. c \in Case
  BY AccountsConstants
<1> QED
  BY <1>1, <1>2, AccountsConstants DEF Case, Request

\* The user whose row a request writes is a user.
LEMMA TargetTyped ==
  ASSUME ShapeInv, NEW w \in Workers, pc[w] \in {"verify", "flush", "commit"}
  PROVE  Target(w) \in Users
<1>1. CASE req[w].kind \in {"change", "rename"}
  BY <1>1 DEF ShapeInv, RowsFit, Target
<1>2. CASE req[w].kind = "reset"
  BY <1>2, AskedTyped DEF ShapeInv, Target
<1>3. CASE req[w].kind \notin {"change", "rename", "reset"}
  BY <1>3, AskedTyped DEF ShapeInv, Target
<1> QED
  BY <1>1, <1>2, <1>3

\* The session rows a request closes stay well formed.
LEMMA RevokedTyped ==
  ASSUME TypeOK, NEW S \in SUBSET Ids, \A s \in S : session[s].state # "none"
  PROVE  Revoked(S) \in [Ids -> SessionRow \cup {NoSession}]
<1>1. \A s \in S : Over(s, "revoked") \in SessionRow
  BY DEF TypeOK, Over, NoSession, SessionRow
<1> QED
  BY <1>1 DEF TypeOK, Revoked

\* A session that is closed is not forgotten.
LEMMA RevokedStays ==
  ASSUME TypeOK, NEW S \in SUBSET Ids, NEW s \in Ids
  PROVE  /\ Revoked(S)[s].state = "open" => Revoked(S)[s] = session[s] /\ s \notin S
         /\ session[s].state # "none" => Revoked(S)[s].state # "none"
BY DEF TypeOK, Revoked, Over

\* What a request reads of a user, and the session it opens, is well formed.
LEMMA RowOfTyped ==
  ASSUME TypeOK, NEW u \in Users
  PROVE  RowOf(u) \in UserRow /\ RowOf(u).password \in Ids
BY DEF TypeOK, RowOf, UserRow

LEMMA OpenSessionTyped ==
  ASSUME NEW u \in Users, NEW p \in Ids
  PROVE  OpenSession(u, p) \in SessionRow /\ OpenSession(u, p).state = "open"
BY DEF OpenSession, SessionRow

-----------------------------------------------------------------------------
(* Every table and local has its shape *)

LEMMA InitShape == Init => ShapeInv
<1> SUFFICES ASSUME NEW c \in Cases, InitAs(c) PROVE ShapeInv
  BY DEF Init
<1>1. c \in Case
  BY AccountsConstants
<1>2. TypeOK
  BY <1>1 DEF InitAs, TypeOK, Ids, Steps, Replies, OpenSession, SessionRow, Case
<1>3. Asked
  BY DEF InitAs, Asked
<1>4. StepsFit /\ RowsFit
  BY <1>1 DEF InitAs, StepsFit, RowsFit
<1> QED
  BY <1>2, <1>3, <1>4 DEF ShapeInv

LEMMA StepShape == ShapeInv /\ [Next]_vars => ShapeInv'
<1> SUFFICES ASSUME ShapeInv, [Next]_vars PROVE ShapeInv'
  OBVIOUS
<1>0. req' = req => Asked'
  BY DEF ShapeInv, Asked
<1> USE DEF ShapeInv, TypeOK, StepsFit, RowsFit, tables, locals, Goto, Steps, Replies, Ids,
            AdminKinds, SessionKinds
<1>1. ASSUME NEW w \in Workers, Login(w) PROVE ShapeInv'
  BY SMTT(40), <1>1, <1>0, AskedTyped, RowOfTyped DEF Login, Reply, Release
<1>2. ASSUME NEW w \in Workers, SignUp(w) PROVE ShapeInv'
  BY <1>2, <1>0, AskedTyped, SMTT(60) DEF SignUp, Reply, Release
<1>3. ASSUME NEW w \in Workers, Bootstrap(w) PROVE ShapeInv'
  <2>1. /\ req[w].kind = "bootstrap" /\ UNCHANGED <<tables, mailed, locals>>
        /\ \E code \in {"up", "insert"} : pc' = [pc EXCEPT ![w] = code]
        /\ lock' \in [Users -> Workers \cup {NoWorker}]
    BY <1>3 DEF Bootstrap, Reply, Release
  <2> QED
    BY <1>0, <2>1
<1>4. ASSUME NEW w \in Workers, Enter(w) PROVE ShapeInv'
  <2>1. me' \in [Workers -> Users \cup {"none"}]
    BY <1>4, AskedTyped DEF Enter, SessionRow, NoSession
  <2>2. Resolves(req[w].by) => /\ session[req[w].by].user \in Users
                               /\ session[req[w].by].state = "open"
    BY <1>4, AskedTyped DEF Enter, SessionRow, NoSession, Resolves
  <2>3. row' \in [Workers -> UserRow \cup {NoUserRow}]
    BY <1>4, <2>2, RowOfTyped DEF Enter
  <2> QED
    BY <1>4, <1>0, <2>1, <2>2, <2>3 DEF Enter, Reply, Release
<1>5. ASSUME NEW w \in Workers, Forgot(w) PROVE ShapeInv'
  BY SMTT(40), <1>5, <1>0, AskedTyped DEF Forgot, Reply, Release
<1>6. ASSUME NEW w \in Workers, Reset(w) PROVE ShapeInv'
  BY <1>6, <1>0, AskedTyped, SMTT(60) DEF Reset, Reply, Release
<1>7. ASSUME NEW w \in Workers, CommitLogin(w) PROVE ShapeInv'
  BY <1>7, <1>0, AskedTyped, OpenSessionTyped DEF CommitLogin
<1>8. ASSUME NEW w \in Workers, Insert(w) PROVE ShapeInv'
  BY <1>8, <1>0, AskedTyped, OpenSessionTyped DEF Insert
<1>9. ASSUME NEW w \in Workers, InsertConflict(w) PROVE ShapeInv'
  BY <1>9, <1>0, AskedTyped DEF InsertConflict, Reply, Release
<1>10. ASSUME NEW w \in Workers, CommitLogout(w) PROVE ShapeInv'
  <2>0. req[w].by \in Ids /\ session[req[w].by].state # "none"
    BY <1>10, AskedTyped DEF CommitLogout
  <2>1. Revoked({req[w].by}) \in [Ids -> SessionRow \cup {NoSession}]
    BY <2>0, RevokedTyped
  <2>2. \A s \in Ids : session[s].state # "none" => Revoked({req[w].by})[s].state # "none"
    BY <2>0, RevokedStays
  <2>3. /\ session' \in [Ids -> SessionRow \cup {NoSession}]
        /\ \A s \in Ids : session[s].state # "none" => session'[s].state # "none"
    BY <1>10, <2>1, <2>2 DEF CommitLogout
  <2>4. TypeOK'
    BY <1>10, <2>3, AskedTyped, TargetTyped DEF CommitLogout
  <2>5. (StepsFit /\ RowsFit)'
    <3> HIDE DEF TypeOK
    <3>1. \A v \in Workers :
            req[v].by \in Ids /\ revoking[v] \subseteq Ids /\ pc'[v] \in {pc[v], "200"}
      BY <1>10, AskedTyped DEF CommitLogout, TypeOK
    <3> QED
      BY ZenonT(40), <1>10, <2>3, <3>1 DEF CommitLogout
  <2> QED
    BY <1>10, <1>0, <2>4, <2>5 DEF CommitLogout
<1>11. ASSUME NEW w \in Workers, Verify(w) PROVE ShapeInv'
  BY SMTT(40), <1>11, <1>0, AskedTyped DEF Verify, Reply, Release
<1>12. ASSUME NEW w \in Workers, CommitChange(w) PROVE ShapeInv'
  <2>1. Revoked(revoking[w]) \in [Ids -> SessionRow \cup {NoSession}]
    BY RevokedTyped
  <2>2. \A s \in Ids : session[s].state # "none" => Revoked(revoking[w])[s].state # "none"
    BY RevokedStays
  <2>3. /\ session' \in [Ids -> SessionRow \cup {NoSession}]
        /\ \A s \in Ids : session[s].state # "none" => session'[s].state # "none"
    BY <1>12, <2>1, <2>2, OpenSessionTyped DEF CommitChange
  <2>4. TypeOK'
    BY <1>12, <2>3, AskedTyped, TargetTyped DEF CommitChange, Release
  <2>5. (StepsFit /\ RowsFit)'
    BY <1>12, <2>3, AskedTyped DEF CommitChange
  <2> QED
    BY <1>12, <1>0, <2>4, <2>5 DEF CommitChange
<1>13. ASSUME NEW w \in Workers, Check(w) PROVE ShapeInv'
  <2>1. TargetRow(w) \in UserRow \cup {NoUserRow}
    BY AskedTyped, RowOfTyped, <1>13 DEF Check, TargetRow
  <2> QED
    BY <1>13, <1>0, <2>1, SMTT(60) DEF Check, Reply, Release, Free
<1>14. ASSUME NEW w \in Workers, Flush(w) PROVE ShapeInv'
  BY <1>14, <1>0, AskedTyped, SMTT(60) DEF Flush, Unrevoked
<1>15. ASSUME NEW w \in Workers, CommitAdmin(w) PROVE ShapeInv'
  <2>1. Revoked(revoking[w]) \in [Ids -> SessionRow \cup {NoSession}]
    BY RevokedTyped
  <2>2. \A s \in Ids : session[s].state # "none" => Revoked(revoking[w])[s].state # "none"
    BY RevokedStays
  <2>3. /\ session' \in [Ids -> SessionRow \cup {NoSession}]
        /\ \A s \in Ids : session[s].state # "none" => session'[s].state # "none"
    BY <1>15, <2>1, <2>2 DEF CommitAdmin
  <2>4. TypeOK'
    BY <1>15, <2>3, AskedTyped, TargetTyped DEF CommitAdmin, Release
  <2>5. (StepsFit /\ RowsFit)'
    BY <1>15, <2>3, AskedTyped DEF CommitAdmin
  <2> QED
    BY <1>15, <1>0, <2>4, <2>5 DEF CommitAdmin
<1>16. ASSUME NEW w \in Workers, SendLink(w) PROVE ShapeInv'
  BY <1>16, <1>0, AskedTyped DEF SendLink
<1>17. ASSUME NEW w \in Workers, CommitForgot(w) PROVE ShapeInv'
  BY <1>17, <1>0, AskedTyped DEF CommitForgot
<1>18. ASSUME NEW w \in Workers, CommitReset(w) PROVE ShapeInv'
  <2>1. Revoked(revoking[w]) \in [Ids -> SessionRow \cup {NoSession}]
    BY RevokedTyped
  <2>2. \A s \in Ids : session[s].state # "none" => Revoked(revoking[w])[s].state # "none"
    BY RevokedStays
  <2>3. /\ session' \in [Ids -> SessionRow \cup {NoSession}]
        /\ \A s \in Ids : session[s].state # "none" => session'[s].state # "none"
    BY <1>18, <2>1, <2>2 DEF CommitReset
  <2>4. TypeOK'
    BY <1>18, <2>3, AskedTyped, TargetTyped DEF CommitReset, Release
  <2>5. (StepsFit /\ RowsFit)'
    BY <1>18, <2>3, AskedTyped DEF CommitReset
  <2> QED
    BY <1>18, <1>0, <2>4, <2>5 DEF CommitReset
<1>19. ASSUME NEW s \in Ids, ExpireSession(s) PROVE ShapeInv'
  <2>1. session[s] \in SessionRow
    BY <1>19 DEF ExpireSession, NoSession
  <2>2. Over(s, "expired") \in SessionRow /\ Over(s, "expired").state # "none"
    BY <2>1 DEF Over, SessionRow
  <2> QED
    BY <1>19, <1>0, <2>2, AskedTyped DEF ExpireSession
<1>20. ASSUME NEW w \in Workers, ExpireToken(w) PROVE ShapeInv'
  BY <1>20, <1>0 DEF ExpireToken
<1>21. ASSUME NEW w \in Workers, DeadlockVictim(w) \/ Breaks(w) PROVE ShapeInv'
  BY <1>21, <1>0 DEF DeadlockVictim, Breaks, CommitFails, Crash, Fail, Release
<1>22. CASE UNCHANGED vars
  BY <1>22, <1>0 DEF vars
<1>23. ASSUME NEW w \in Workers, CommitRename(w) PROVE ShapeInv'
  BY <1>23, <1>0, AskedTyped, TargetTyped, SMTT(60) DEF CommitRename
<1> QED
  BY <1>1, <1>2, <1>3, <1>4, <1>5, <1>6, <1>7, <1>8, <1>9, <1>10, <1>11, <1>12, <1>13,
     <1>14, <1>15, <1>16, <1>17, <1>18, <1>19, <1>20, <1>21, <1>22, <1>23
  DEF Next, Arrive, Work, Terminating

\* Every reachable state is well typed.
THEOREM TypeCorrect == Spec => []TypeOK
<1>1. ShapeInv => TypeOK
  BY DEF ShapeInv
<1> QED
  BY InitShape, StepShape, <1>1, PTL DEF Spec

-----------------------------------------------------------------------------
(* Sessions end with their password and with their user's suspension *)

\* What a step of w leaves to the other requests.
Frame(w) ==
  /\ req' = req
  /\ \A v \in Workers \ {w} :
       /\ pc'[v] = pc[v] /\ row'[v] = row[v] /\ me'[v] = me[v] /\ revoking'[v] = revoking[v]
       /\ \A u \in Users : lock[u] = v => lock'[u] = v

\* No session is opened.
Closes == \A s \in Ids : session'[s].state = "open" => session'[s] = session[s]

LEMMA InitChange == Init => ChangeInv
<1> SUFFICES ASSUME NEW c \in Cases, InitAs(c) PROVE ChangeInv
  BY DEF Init
<1>1. \A s \in Ids : session[s].state = "open" =>
        s \in Users /\ session[s].user = s /\ session[s].under = s /\ status[s] = "active"
  BY AccountsConstants DEF InitAs, NoSession, OpenSession, Case
<1>2. \A w \in Workers : There(w) /\ Held(w) /\ Selected(w)
  BY DEF InitAs, There, Held, Selected
<1>3. OpenThere /\ SuspensionSignsOut
  BY <1>1 DEF OpenThere, SuspensionSignsOut
<1>4. OnlyLoginsOutliveAChange
  BY <1>1 DEF InitAs, OnlyLoginsOutliveAChange
<1> QED
  BY <1>2, <1>3, <1>4 DEF ChangeInv

\* The user a request is about does not change while others work.
LEMMA SameTarget ==
  ASSUME NEW w, Frame(w), NEW v \in Workers \ {w}
  PROVE  Target(v)' = Target(v)
BY DEF Frame, Target

\* What other requests rely on survives a step that keeps every user and
\* opens no session they would have had to select.
LEMMA OthersKeep ==
  ASSUME Inv, NEW w, Frame(w), NEW v \in Workers \ {w},
         \A u \in Users : status[u] # "none" => status'[u] # "none",
         \A s \in Ids : session'[s].state = "open" => session'[s] = session[s] \/ s = w
  PROVE  /\ There(v)' /\ Held(v)'
         /\ (\A s \in Ids : s = w /\ session'[s].state = "open" /\ session'[s] # session[s] =>
               \/ s \in Workers /\ req[s].kind = "login"
               \/ s \in Workers /\ req[s].kind = "change" /\ req[v].kind = "suspend"
               \/ session'[s].user # Target(v)
               \/ pc[v] # "commit")
            => Selected(v)'
<1> USE DEF Inv, ChangeInv
<1>1. Target(v)' = Target(v) /\ req' = req /\ pc'[v] = pc[v] /\ revoking'[v] = revoking[v]
  BY SameTarget DEF Frame
<1>2. There(v)'
  BY <1>1, TargetTyped DEF There
<1>3. Held(v)'
  BY <1>1, TargetTyped DEF Held, Frame
<1>4. ASSUME \A s \in Ids : s = w /\ session'[s].state = "open" /\ session'[s] # session[s] =>
               \/ s \in Workers /\ req[s].kind = "login"
               \/ s \in Workers /\ req[s].kind = "change" /\ req[v].kind = "suspend"
               \/ session'[s].user # Target(v)
               \/ pc[v] # "commit"
      PROVE  Selected(v)'
  BY ZenonT(40), <1>1, <1>4 DEF Selected, Leaves
<1> QED
  BY <1>2, <1>3, <1>4

\* A step that opens no session and changes no password and no status.
LEMMA Quiet ==
  ASSUME Inv, NEW w, Frame(w), UNCHANGED <<status, password>>, Closes,
         w \in Workers => (There(w) /\ Held(w) /\ Selected(w))'
  PROVE  ChangeInv'
<1>1. \A v \in Workers : (There(v) /\ Held(v) /\ Selected(v))'
  <2> TAKE v \in Workers
  <2> CASE v = w
    OBVIOUS
  <2> CASE v # w
    BY OthersKeep DEF Closes
  <2> QED
    OBVIOUS
<1>2. OpenThere'
  BY DEF Inv, ChangeInv, OpenThere, Closes
<1>3. OnlyLoginsOutliveAChange' /\ SuspensionSignsOut'
  BY DEF Inv, ChangeInv, OnlyLoginsOutliveAChange, SuspensionSignsOut, Closes, Frame
<1> QED
  BY <1>1, <1>2, <1>3 DEF ChangeInv

\* Requests at work leave each other's steps and locks alone.
LEMMA StepFrame ==
  ASSUME ShapeInv, NEW w \in Workers, Arrive(w) \/ Work(w) \/ Breaks(w) \/ ExpireToken(w)
  PROVE  Frame(w)
<1> USE DEF ShapeInv, TypeOK, Frame, tables, locals, Goto, Reply, Release, Free
<1>1. CASE Login(w)
  BY <1>1, AccountsConstants DEF Login
<1>2. CASE SignUp(w)
  BY <1>2, AccountsConstants DEF SignUp
<1>3. CASE Bootstrap(w)
  BY <1>3, AccountsConstants DEF Bootstrap
<1>4. CASE Enter(w)
  BY <1>4, AccountsConstants DEF Enter
<1>5. CASE Forgot(w)
  BY <1>5, AccountsConstants DEF Forgot
<1>6. CASE Reset(w)
  BY <1>6, AccountsConstants DEF Reset
<1>7. CASE CommitLogin(w)
  BY <1>7, AccountsConstants DEF CommitLogin
<1>8. CASE Insert(w)
  BY <1>8, AccountsConstants DEF Insert
<1>9. CASE InsertConflict(w)
  BY <1>9, AccountsConstants DEF InsertConflict
<1>10. CASE CommitLogout(w)
  BY <1>10, AccountsConstants DEF CommitLogout
<1>11. CASE Verify(w)
  BY <1>11, AccountsConstants DEF Verify
<1>12. CASE CommitChange(w)
  BY <1>12, AccountsConstants DEF CommitChange
<1>13. CASE Check(w)
  BY <1>13, AskedTyped, TargetTyped, AccountsConstants DEF Check
<1>14. CASE Flush(w)
  BY <1>14, AskedTyped, TargetTyped, AccountsConstants DEF Flush
<1>15. CASE CommitAdmin(w)
  BY <1>15, AccountsConstants DEF CommitAdmin
<1>16. CASE SendLink(w)
  BY <1>16, AccountsConstants DEF SendLink
<1>17. CASE CommitForgot(w)
  BY <1>17, AccountsConstants DEF CommitForgot
<1>18. CASE CommitReset(w)
  BY <1>18, AccountsConstants DEF CommitReset
<1>19. CASE ExpireToken(w)
  BY <1>19, AccountsConstants DEF ExpireToken
<1>20. CASE DeadlockVictim(w) \/ Breaks(w)
  BY <1>20, AccountsConstants DEF DeadlockVictim, Breaks, CommitFails, Crash, Fail
<1>21. CASE CommitRename(w)
  BY <1>21, AccountsConstants DEF CommitRename
<1> QED
  BY <1>1, <1>2, <1>3, <1>4, <1>5, <1>6, <1>7, <1>8, <1>9, <1>10, <1>11, <1>12, <1>13,
     <1>14, <1>15, <1>16, <1>17, <1>18, <1>19, <1>20, <1>21
  DEF Arrive, Work

\* Every step keeps what the sessions depend on: a new password is committed
\* under its user's lock with the sessions that were there when it was taken.
LEMMA StepChange == Inv /\ [Next]_vars => ChangeInv'
<1> SUFFICES ASSUME Inv, [Next]_vars PROVE ChangeInv'
  OBVIOUS
<1> USE DEF Inv, tables, locals, Goto, Reply
<1>0. /\ pc \in [Workers -> Steps] /\ StepsFit
      /\ \A w \in Workers : There(w) /\ Held(w) /\ Selected(w)
  BY DEF ShapeInv, TypeOK, ChangeInv
<1>1. ASSUME NEW w \in Workers, Login(w) PROVE ChangeInv'
  <2>1. (There(w) /\ Held(w) /\ Selected(w))'
    BY <1>1, <1>0, AskedTyped
    DEF Login, There, Held, Selected, Target, AboutSomebody, StepsFit, SessionKinds,
        AdminKinds
  <2>2. Closes
    BY <1>1 DEF Login, Closes
  <2>3. Frame(w)
    BY <1>1, StepFrame DEF Arrive, Work
  <2> QED
    BY <1>1, <2>1, <2>2, <2>3, Quiet DEF Login
<1>2. ASSUME NEW w \in Workers, SignUp(w) PROVE ChangeInv'
  <2>1. (There(w) /\ Held(w) /\ Selected(w))'
    BY <1>2, <1>0, AskedTyped
    DEF SignUp, There, Held, Selected, Target, AboutSomebody, StepsFit, SessionKinds,
        AdminKinds
  <2>2. Closes
    BY <1>2 DEF SignUp, Closes
  <2>3. Frame(w)
    BY <1>2, StepFrame DEF Arrive, Work
  <2> QED
    BY <1>2, <2>1, <2>2, <2>3, Quiet DEF SignUp
<1>3. ASSUME NEW w \in Workers, Bootstrap(w) PROVE ChangeInv'
  <2>1. (There(w) /\ Held(w) /\ Selected(w))'
    BY <1>3, <1>0, AskedTyped
    DEF Bootstrap, There, Held, Selected, Target, AboutSomebody, StepsFit, SessionKinds,
        AdminKinds
  <2>2. Closes
    BY <1>3 DEF Bootstrap, Closes
  <2>3. Frame(w)
    BY <1>3, StepFrame DEF Arrive, Work
  <2> QED
    BY <1>3, <2>1, <2>2, <2>3, Quiet DEF Bootstrap
<1>4. ASSUME NEW w \in Workers, Enter(w) PROVE ChangeInv'
  <2>1. (There(w) /\ Held(w) /\ Selected(w))'
    <3>1. CASE pc'[w] \in {"401", "403"}
      BY <3>1 DEF There, Held, Selected
    <3>2. CASE pc'[w] \notin {"401", "403"}
      <4>1. /\ Resolves(req[w].by) /\ me'[w] = session[req[w].by].user /\ UNCHANGED <<status, req>>
            /\ pc'[w] = "check" \/ (pc'[w] = "verify" /\ req[w].kind = "change")
                                 \/ (pc'[w] = "commit" /\ req[w].kind \in {"rename", "logout"})
        BY <1>4, <1>0, <3>2 DEF Enter, SessionKinds, AdminKinds, ShapeInv, TypeOK
      <4> QED
        BY <4>1 DEF There, Held, Selected, Target, Resolves, AboutSomebody, AdminKinds
    <3> QED
      BY <3>1, <3>2
  <2>2. Closes
    BY <1>4 DEF Enter, Closes
  <2>3. Frame(w)
    BY <1>4, StepFrame DEF Arrive, Work
  <2> QED
    BY <1>4, <2>1, <2>2, <2>3, Quiet DEF Enter
<1>5. ASSUME NEW w \in Workers, Forgot(w) PROVE ChangeInv'
  <2>1. (There(w) /\ Held(w) /\ Selected(w))'
    BY <1>5, <1>0, AskedTyped
    DEF Forgot, There, Held, Selected, Target, AboutSomebody, StepsFit, SessionKinds,
        AdminKinds
  <2>2. Closes
    BY <1>5 DEF Forgot, Closes
  <2>3. Frame(w)
    BY <1>5, StepFrame DEF Arrive, Work
  <2> QED
    BY <1>5, <2>1, <2>2, <2>3, Quiet DEF Forgot
<1>6. ASSUME NEW w \in Workers, Reset(w) PROVE ChangeInv'
  <2>1. (There(w) /\ Held(w) /\ Selected(w))'
    BY <1>6, <1>0, AskedTyped
    DEF Reset, There, Held, Selected, Target, AboutSomebody, StepsFit, SessionKinds,
        AdminKinds
  <2>2. Closes
    BY <1>6 DEF Reset, Closes
  <2>3. Frame(w)
    BY <1>6, StepFrame DEF Arrive, Work
  <2> QED
    BY <1>6, <2>1, <2>2, <2>3, Quiet DEF Reset
<1>7. ASSUME NEW w \in Workers, InsertConflict(w) PROVE ChangeInv'
  <2>1. (There(w) /\ Held(w) /\ Selected(w))'
    BY <1>7, <1>0, AskedTyped
    DEF InsertConflict, There, Held, Selected, Target, AboutSomebody, StepsFit, SessionKinds,
        AdminKinds
  <2>2. Closes
    BY <1>7 DEF InsertConflict, Closes
  <2>3. Frame(w)
    BY <1>7, StepFrame DEF Arrive, Work
  <2> QED
    BY <1>7, <2>1, <2>2, <2>3, Quiet DEF InsertConflict
<1>8. ASSUME NEW w \in Workers, CommitLogout(w) PROVE ChangeInv'
  <2>1. (There(w) /\ Held(w) /\ Selected(w))'
    BY <1>8, <1>0, AskedTyped
    DEF CommitLogout, There, Held, Selected, Target, AboutSomebody, StepsFit, SessionKinds,
        AdminKinds
  <2>2. Closes
    BY <1>8, RevokedStays, AskedTyped DEF CommitLogout, Closes, ShapeInv
  <2>3. Frame(w)
    BY <1>8, StepFrame DEF Arrive, Work
  <2> QED
    BY <1>8, <2>1, <2>2, <2>3, Quiet DEF CommitLogout
<1>9. ASSUME NEW w \in Workers, Verify(w) PROVE ChangeInv'
  <2>1. (There(w) /\ Held(w) /\ Selected(w))'
    BY <1>9, <1>0, AskedTyped
    DEF Verify, There, Held, Selected, Target, AboutSomebody, StepsFit, SessionKinds,
        AdminKinds
  <2>2. Closes
    BY <1>9 DEF Verify, Closes
  <2>3. Frame(w)
    BY <1>9, StepFrame DEF Arrive, Work
  <2> QED
    BY <1>9, <2>1, <2>2, <2>3, Quiet DEF Verify
<1>10. ASSUME NEW w \in Workers, Check(w) PROVE ChangeInv'
  <2>1. (There(w) /\ Held(w) /\ Selected(w))'
    BY <1>10, <1>0, AskedTyped
    DEF Check, There, Held, Selected, Target, AboutSomebody, StepsFit, SessionKinds,
        AdminKinds
  <2>2. Closes
    BY <1>10 DEF Check, Closes
  <2>3. Frame(w)
    BY <1>10, StepFrame DEF Arrive, Work
  <2> QED
    BY <1>10, <2>1, <2>2, <2>3, Quiet DEF Check
<1>11. ASSUME NEW w \in Workers, Flush(w) PROVE ChangeInv'
  <2>1. (There(w) /\ Held(w) /\ Selected(w))'
    <3>1. Target(w)' = Target(w)
      BY <1>11 DEF Flush, Target
    <3>2. /\ pc[w] = "flush" /\ UNCHANGED <<status, session, req>>
          /\ Target(w) \in Users
      BY <1>11, TargetTyped DEF Flush
    <3>3. There(w)'
      BY <1>0, <3>1, <3>2 DEF There
    <3>4. Held(w)'
      BY <1>11, <3>1, <3>2 DEF Flush, Held, Changes, ShapeInv, TypeOK
    <3>5. Selected(w)'
      BY <1>11, <3>1, <3>2 DEF Flush, Selected, Leaves, Unrevoked, ShapeInv, TypeOK
    <3> QED
      BY <3>3, <3>4, <3>5
  <2>2. Closes
    BY <1>11 DEF Flush, Closes
  <2>3. Frame(w)
    BY <1>11, StepFrame DEF Arrive, Work
  <2> QED
    BY <1>11, <2>1, <2>2, <2>3, Quiet DEF Flush
<1>12. ASSUME NEW w \in Workers, SendLink(w) PROVE ChangeInv'
  <2>1. (There(w) /\ Held(w) /\ Selected(w))'
    BY <1>12, <1>0, AskedTyped
    DEF SendLink, There, Held, Selected, Target, AboutSomebody, StepsFit, SessionKinds,
        AdminKinds
  <2>2. Closes
    BY <1>12 DEF SendLink, Closes
  <2>3. Frame(w)
    BY <1>12, StepFrame DEF Arrive, Work
  <2> QED
    BY <1>12, <2>1, <2>2, <2>3, Quiet DEF SendLink
<1>13. ASSUME NEW w \in Workers, CommitForgot(w) PROVE ChangeInv'
  <2>1. (There(w) /\ Held(w) /\ Selected(w))'
    BY <1>13, <1>0, AskedTyped
    DEF CommitForgot, There, Held, Selected, Target, AboutSomebody, StepsFit, SessionKinds,
        AdminKinds
  <2>2. Closes
    BY <1>13 DEF CommitForgot, Closes
  <2>3. Frame(w)
    BY <1>13, StepFrame DEF Arrive, Work
  <2> QED
    BY <1>13, <2>1, <2>2, <2>3, Quiet DEF CommitForgot
<1>14. ASSUME NEW w \in Workers, DeadlockVictim(w) \/ Breaks(w) PROVE ChangeInv'
  <2>1. pc'[w] \in {"500", "lost"} /\ UNCHANGED tables
    BY <1>14, <1>0 DEF DeadlockVictim, Breaks, CommitFails, Crash, Fail
  <2>2. (There(w) /\ Held(w) /\ Selected(w))'
    BY <2>1 DEF There, Held, Selected
  <2>3. Frame(w)
    BY <1>14, StepFrame DEF Arrive, Work
  <2> QED
    BY <2>1, <2>2, <2>3, Quiet DEF Closes
<1>15. ASSUME NEW w \in Workers, ExpireToken(w) PROVE ChangeInv'
  <2>1. Target(w)' = Target(w)
    BY <1>15 DEF ExpireToken, Target
  <2>2. (There(w) /\ Held(w) /\ Selected(w))'
    BY <1>15, <1>0, <2>1 DEF ExpireToken, There, Held, Selected, Leaves
  <2>3. Frame(w)
    BY <1>15, StepFrame
  <2> QED
    BY <1>15, <2>2, <2>3, Quiet DEF ExpireToken, Closes
<1>16. ASSUME NEW s \in Ids, ExpireSession(s) PROVE ChangeInv'
  <2>1. Closes
    BY <1>16 DEF ExpireSession, Closes, Over, ShapeInv, TypeOK
  <2>2. Frame(NoWorker)
    BY <1>16 DEF ExpireSession, Frame
  <2> QED
    BY <1>16, <2>1, <2>2, Quiet, AccountsConstants DEF ExpireSession
<1>17. CASE UNCHANGED vars
  <2>1. Frame(NoWorker) /\ Closes /\ UNCHANGED <<status, password>>
    BY <1>17 DEF vars, Frame, Closes
  <2> QED
    BY <2>1, Quiet, AccountsConstants
<1>18. ASSUME NEW w \in Workers, CommitLogin(w) PROVE ChangeInv'
  <2>1. /\ w \in Ids /\ req[w].kind = "login" /\ pc[w] = "commit" /\ pc'[w] = "200"
        /\ session'[w] = OpenSession(req[w].on, row[w].password)
        /\ \A s \in Ids \ {w} : session'[s] = session[s]
        /\ UNCHANGED <<status, password, req>>
    BY <1>18, <1>0 DEF CommitLogin, ShapeInv, TypeOK, Ids
  <2>2. session'[w].user = req[w].on /\ status[req[w].on] # "none"
    BY <1>0, <2>1 DEF OpenSession, There, Target, AboutSomebody, AdminKinds
  <2>3. \A v \in Workers : (There(v) /\ Held(v) /\ Selected(v))'
    <3>1. (There(w) /\ Held(w) /\ Selected(w))'
      BY <2>1 DEF There, Held, Selected
    <3>2. Frame(w)
      BY <1>18, StepFrame DEF Work
    <3> QED
      BY <2>1, <3>1, <3>2, OthersKeep
  <2>4. OpenThere'
    BY <2>1, <2>2 DEF ChangeInv, OpenThere
  <2>5. OnlyLoginsOutliveAChange' /\ SuspensionSignsOut'
    BY <2>1 DEF ChangeInv, OnlyLoginsOutliveAChange, SuspensionSignsOut
  <2> QED
    BY <2>3, <2>4, <2>5 DEF ChangeInv
<1>19. ASSUME NEW w \in Workers, Insert(w) PROVE ChangeInv'
  <2> DEFINE u == req[w].on
  <2>1. /\ w \in Ids /\ req[w].kind \in {"signup", "bootstrap"} /\ u \in Users
        /\ pc[w] = "insert" /\ pc'[w] \in {"201", "up"}
        /\ status[u] = "none" /\ status'[u] = "active" /\ password'[u] = w
        /\ \A x \in Users \ {u} : status'[x] = status[x] /\ password'[x] = password[x]
        /\ \A s \in Ids \ {w} : session'[s] = session[s]
        /\ session'[w] \in {session[w], OpenSession(u, w)}
        /\ UNCHANGED req
    BY <1>19, <1>0, AskedTyped DEF Insert, ShapeInv, TypeOK, Ids, StepsFit
  <2>2. \A s \in Ids : session[s].state = "open" => session[s].user \in Users \ {u}
    BY <2>1 DEF ChangeInv, OpenThere, ShapeInv, TypeOK, SessionRow, NoSession
  <2>3. OpenSession(u, w).user = u /\ OpenSession(u, w).under = w
    BY DEF OpenSession
  <2>4. \A v \in Workers : (There(v) /\ Held(v) /\ Selected(v))'
    <3>1. (There(w) /\ Held(w) /\ Selected(w))'
      BY <2>1 DEF There, Held, Selected
    <3>2. Frame(w)
      BY <1>19, StepFrame DEF Work
    <3>3. ASSUME NEW v \in Workers \ {w} PROVE (There(v) /\ Held(v) /\ Selected(v))'
      <4>1. (There(v) /\ Held(v))'
        BY <2>1, <3>2, OthersKeep
      <4>2. CASE pc[v] = "commit" /\ req[v].kind \in {"change", "reset", "suspend"}
        <5>1. Target(v) # u
          BY <1>0, <2>1, <4>2 DEF There, AboutSomebody, AdminKinds
        <5> QED
          BY <2>1, <2>3, <3>2, <5>1, <4>1, OthersKeep
      <4>3. CASE ~(pc[v] = "commit" /\ req[v].kind \in {"change", "reset", "suspend"})
        BY <3>2, <4>1, <4>3 DEF Selected, Frame
      <4> QED
        BY <4>2, <4>3, <4>1
    <3> QED
      BY <3>1, <3>3
  <2>5. OpenThere'
    BY <2>1, <2>2, <2>3 DEF ChangeInv, OpenThere
  <2>6. OnlyLoginsOutliveAChange' /\ SuspensionSignsOut'
    BY <2>1, <2>2, <2>3 DEF ChangeInv, OnlyLoginsOutliveAChange, SuspensionSignsOut
  <2> QED
    BY <2>4, <2>5, <2>6 DEF ChangeInv
<1>20. ASSUME NEW w \in Workers, CommitChange(w) PROVE ChangeInv'
  <2> DEFINE u == me[w]
  <2>1. /\ w \in Ids /\ req[w].kind = "change" /\ u \in Users /\ Target(w) = u
        /\ pc[w] = "commit" /\ pc'[w] = "200"
        /\ password'[u] = w
        /\ \A x \in Users \ {u} : password'[x] = password[x]
        /\ session'[w] = OpenSession(u, w)
        /\ \A s \in Ids \ {w} : session'[s] = Revoked(revoking[w])[s]
        /\ UNCHANGED <<req, status>>
    BY <1>20, <1>0 DEF CommitChange, ShapeInv, TypeOK, RowsFit, Ids, Target, Revoked
  <2>2. \A s \in Ids \ {w} : session'[s].state = "open" =>
          session'[s] = session[s] /\ s \notin revoking[w]
    BY <2>1, RevokedStays DEF ShapeInv, TypeOK
  <2>3. OpenSession(u, w).user = u /\ OpenSession(u, w).under = w
    BY DEF OpenSession
  <2>4. lock[u] = w /\ status[u] # "none" /\ Leaves(w, u, {"login"})
    BY <1>0, <2>1 DEF Held, There, Selected, AboutSomebody
  <2>5. \A v \in Workers : (There(v) /\ Held(v) /\ Selected(v))'
    <3>1. (There(w) /\ Held(w) /\ Selected(w))'
      BY <2>1 DEF There, Held, Selected
    <3>2. Frame(w)
      BY <1>20, StepFrame DEF Work
    <3>3. ASSUME NEW v \in Workers \ {w} PROVE (There(v) /\ Held(v) /\ Selected(v))'
      <4>1. (There(v) /\ Held(v))'
        BY <2>1, <2>2, <3>2, OthersKeep
      <4>2. CASE pc[v] = "commit" /\ req[v].kind \in {"change", "reset"}
        <5>1. Target(v) # u
          BY <1>0, <2>4, <4>2 DEF Held
        <5> QED
          BY <2>1, <2>2, <2>3, <3>2, <5>1, OthersKeep
      <4>3. CASE ~(pc[v] = "commit" /\ req[v].kind \in {"change", "reset", "suspend"})
        BY <3>2, <4>1, <4>3 DEF Selected, Frame
      <4>4. CASE req[v].kind = "suspend"
        BY <2>1, <2>2, <3>2, <4>4, OthersKeep
      <4> QED
        BY <4>2, <4>3, <4>4, <4>1
    <3> QED
      BY <3>1, <3>3
  <2>6. OpenThere'
    BY <2>1, <2>2, <2>3, <2>4 DEF ChangeInv, OpenThere
  <2>7. OnlyLoginsOutliveAChange'
    BY <2>1, <2>2, <2>3, <2>4
    DEF ChangeInv, OnlyLoginsOutliveAChange, Leaves, ShapeInv, TypeOK, SessionRow, NoSession
  <2>8. SuspensionSignsOut'
    BY <2>1, <2>2 DEF ChangeInv, SuspensionSignsOut
  <2> QED
    BY <2>5, <2>6, <2>7, <2>8 DEF ChangeInv
<1>21. ASSUME NEW w \in Workers, CommitAdmin(w) PROVE ChangeInv'
  <2> DEFINE u == req[w].on
  <2>1. /\ req[w].kind \in AdminKinds /\ u \in Users /\ Target(w) = u
        /\ pc[w] = "commit" /\ pc'[w] = "200"
        /\ \A x \in Users \ {u} : status'[x] = status[x]
        /\ status'[u] \in {status[u], "active", "suspended"}
        /\ req[w].kind # "suspend" => status'[u] \in {status[u], "active"}
        /\ session' = Revoked(revoking[w])
        /\ UNCHANGED <<req, password>>
    BY <1>21, <1>0, AskedTyped DEF CommitAdmin, ShapeInv, TypeOK, Target, AdminKinds
  <2>2. \A s \in Ids : session'[s].state = "open" =>
          session'[s] = session[s] /\ s \notin revoking[w]
    BY <2>1, RevokedStays DEF ShapeInv, TypeOK
  <2>3. req[w].kind = "suspend" => Leaves(w, u, {"login", "change"})
    BY <1>0, <2>1 DEF Selected
  <2>4. \A v \in Workers : (There(v) /\ Held(v) /\ Selected(v))'
    <3>1. (There(w) /\ Held(w) /\ Selected(w))'
      BY <2>1 DEF There, Held, Selected
    <3>2. Frame(w)
      BY <1>21, StepFrame DEF Work
    <3> QED
      BY <2>1, <2>2, <3>1, <3>2, OthersKeep
  <2>5. \A s \in Ids : session[s].state = "open" => session[s].user \in Users
    BY DEF ShapeInv, TypeOK, SessionRow, NoSession
  <2>6. OpenThere'
    BY <2>1, <2>2, <2>5 DEF ChangeInv, OpenThere
  <2>7. OnlyLoginsOutliveAChange'
    BY <2>1, <2>2 DEF ChangeInv, OnlyLoginsOutliveAChange
  <2>8. SuspensionSignsOut'
    BY <2>1, <2>2, <2>3, <2>5 DEF ChangeInv, SuspensionSignsOut, Leaves
  <2> QED
    BY <2>4, <2>6, <2>7, <2>8 DEF ChangeInv
<1>22. ASSUME NEW w \in Workers, CommitReset(w) PROVE ChangeInv'
  <2> DEFINE u == Target(w)
  <2>1. /\ req[w].kind = "reset" /\ pc[w] = "commit" /\ pc'[w] = "200"
        /\ \A x \in Users \ {u} : password'[x] = password[x]
        /\ session' = Revoked(revoking[w])
        /\ UNCHANGED <<req, status>>
    BY <1>22, <1>0 DEF CommitReset, ShapeInv, TypeOK
  <2>2. \A s \in Ids : session'[s].state = "open" =>
          session'[s] = session[s] /\ s \notin revoking[w]
    BY <2>1, RevokedStays DEF ShapeInv, TypeOK
  <2>3. Leaves(w, u, {"login"})
    BY <1>0, <2>1 DEF Selected
  <2>4. \A v \in Workers : (There(v) /\ Held(v) /\ Selected(v))'
    <3>1. (There(w) /\ Held(w) /\ Selected(w))'
      BY <2>1 DEF There, Held, Selected
    <3>2. Frame(w)
      BY <1>22, StepFrame DEF Work
    <3> QED
      BY <2>1, <2>2, <3>1, <3>2, OthersKeep
  <2>5. OpenThere' /\ SuspensionSignsOut'
    BY <2>1, <2>2 DEF ChangeInv, OpenThere, SuspensionSignsOut
  <2>6. OnlyLoginsOutliveAChange'
    BY <2>1, <2>2, <2>3
    DEF ChangeInv, OnlyLoginsOutliveAChange, Leaves, ShapeInv, TypeOK, SessionRow, NoSession
  <2> QED
    BY <2>4, <2>5, <2>6 DEF ChangeInv
<1>23. ASSUME NEW w \in Workers, CommitRename(w) PROVE ChangeInv'
  <2>1. (There(w) /\ Held(w) /\ Selected(w))'
    BY <1>23, <1>0
    DEF CommitRename, There, Held, Selected, AboutSomebody, AdminKinds
  <2>2. Closes
    BY <1>23 DEF CommitRename, Closes
  <2>3. Frame(w)
    BY <1>23, StepFrame DEF Arrive, Work
  <2> QED
    BY <1>23, <2>1, <2>2, <2>3, Quiet DEF CommitRename
<1> QED
  BY <1>1, <1>2, <1>3, <1>4, <1>5, <1>6, <1>7, <1>8, <1>9, <1>10, <1>11, <1>12, <1>13,
     <1>14, <1>15, <1>16, <1>17, <1>18, <1>19, <1>20, <1>21, <1>22, <1>23
  DEF Next, Arrive, Work, Terminating

LEMMA Invariant == Spec => []Inv
<1>1. Init => Inv
  BY InitShape, InitChange DEF Inv
<1>2. Inv /\ [Next]_vars => Inv'
  BY StepShape, StepChange DEF Inv
<1> QED
  BY <1>1, <1>2, PTL DEF Spec

\* A change or a reset of a password ends every session of its user that was
\* opened under an older one, except by logins that were under way.
THEOREM PasswordsEndSessions == Spec => []OnlyLoginsOutliveAChange
<1>1. Inv => OnlyLoginsOutliveAChange
  BY DEF Inv, ChangeInv
<1> QED
  BY Invariant, <1>1, PTL

\* A suspended user has no session left but those that requests which were
\* let in before have opened since.
THEOREM SuspensionEndsSessions == Spec => []SuspensionSignsOut
<1>1. Inv => SuspensionSignsOut
  BY DEF Inv, ChangeInv
<1> QED
  BY Invariant, <1>1, PTL

-----------------------------------------------------------------------------
(* Columns change on request *)

\* What a request that goes through does to the row of u.
Creates(w, u) ==
  /\ req[w].kind \in {"signup", "bootstrap"} /\ pc'[w] \in {"201", "up"}
  /\ status[u] = "none" /\ status'[u] = "active"
  /\ role'[u] = IF req[w].kind = "bootstrap" THEN "admin" ELSE "user"
  /\ password'[u] = w /\ name'[u] = w

Governs(w, u) ==
  /\ pc'[w] = "200" /\ status[u] # "none"
  /\ password'[u] = password[u] /\ name'[u] = name[u]
  /\ \/ req[w].kind = "suspend" /\ status'[u] = "suspended" /\ role'[u] = role[u]
     \/ req[w].kind = "activate" /\ status'[u] = "active" /\ role'[u] = role[u]
     \/ req[w].kind = "promote" /\ status'[u] = status[u] /\ role'[u] = "admin"
     \/ req[w].kind = "demote" /\ status'[u] = status[u] /\ role'[u] = "user"

Rekeys(w, u) ==
  /\ req[w].kind \in {"change", "reset"} /\ pc'[w] = "200" /\ status[u] # "none"
  /\ status'[u] = status[u] /\ role'[u] = role[u]
  /\ password'[u] = w /\ name'[u] = name[u]

Renames(w, u) ==
  /\ req[w].kind = "rename" /\ pc'[w] = "200" /\ status[u] # "none"
  /\ status'[u] = status[u] /\ role'[u] = role[u]
  /\ password'[u] = password[u] /\ name'[u] = w

Writes(w, u) ==
  /\ Target(w) = u /\ pc[w] \notin Replies
  /\ Creates(w, u) \/ Governs(w, u) \/ Rekeys(w, u) \/ Renames(w, u)

columns == <<role, status, password, name>>
ColumnsKept(u) ==
  /\ status'[u] = status[u] /\ role'[u] = role[u]
  /\ password'[u] = password[u] /\ name'[u] = name[u]

\* Five actions write to auth_users, each when its request goes through.
LEMMA Writers ==
  ASSUME NEW w \in Workers, Arrive(w) \/ Work(w) \/ Breaks(w) \/ ExpireToken(w)
  PROVE  \/ UNCHANGED columns
         \/ Insert(w) \/ CommitAdmin(w) \/ CommitChange(w) \/ CommitReset(w) \/ CommitRename(w)
<1> USE DEF tables, columns, Reply
<1>1. CASE Login(w) \/ SignUp(w) \/ Bootstrap(w) \/ Enter(w) \/ Forgot(w) \/ Reset(w)
  BY <1>1 DEF Login, SignUp, Bootstrap, Enter, Forgot, Reset
<1>2. CASE CommitLogin(w) \/ InsertConflict(w) \/ CommitLogout(w) \/ Verify(w)
  BY <1>2 DEF CommitLogin, InsertConflict, CommitLogout, Verify
<1>3. CASE Check(w) \/ Flush(w) \/ SendLink(w) \/ CommitForgot(w)
  BY <1>3 DEF Check, Flush, SendLink, CommitForgot
<1>4. CASE DeadlockVictim(w) \/ Breaks(w) \/ ExpireToken(w)
  BY <1>4 DEF DeadlockVictim, Breaks, CommitFails, Crash, ExpireToken, Fail
<1> QED
  BY <1>1, <1>2, <1>3, <1>4 DEF Arrive, Work

\* What a step of w does to the row of a user.
LEMMA StepColumns ==
  ASSUME Inv, NEW w \in Workers, Arrive(w) \/ Work(w) \/ Breaks(w) \/ ExpireToken(w),
         NEW u \in Users
  PROVE  ColumnsKept(u) \/ Writes(w, u)
<1>0. /\ StepsFit /\ There(w) /\ pc \in [Workers -> Steps]
      /\ role \in [Users -> {"user", "admin"}]
      /\ status \in [Users -> {"none", "active", "suspended"}]
      /\ password \in [Users -> Ids] /\ name \in [Users -> Ids]
  BY DEF Inv, ShapeInv, TypeOK, ChangeInv
<1>1. CASE UNCHANGED columns
  BY <1>1 DEF columns, ColumnsKept
<1>2. CASE Insert(w)
  <2>1. /\ pc[w] = "insert" /\ pc'[w] \in {"201", "up"} /\ status[req[w].on] = "none"
        /\ req[w].kind \in {"signup", "bootstrap"} /\ Target(w) = req[w].on
    BY <1>0, <1>2 DEF Insert, Goto, StepsFit, Target
  <2>2. CASE u = req[w].on
    BY <1>0, <1>2, <2>1, <2>2 DEF Insert, Writes, Creates, Replies
  <2>3. CASE u # req[w].on
    BY <1>0, <1>2, <2>3 DEF Insert, ColumnsKept
  <2> QED
    BY <2>2, <2>3
<1>3. CASE CommitAdmin(w)
  <2>1. /\ pc[w] = "commit" /\ pc'[w] = "200" /\ req[w].kind \in AdminKinds
        /\ Target(w) = req[w].on /\ UNCHANGED <<password, name>>
        /\ status[req[w].on] # "none"
    BY <1>0, <1>3 DEF CommitAdmin, Goto, Target, There, AboutSomebody, AdminKinds
  <2>2. CASE u = req[w].on
    <3>1. CASE ~Changes(w)
      BY <1>0, <1>3, <2>2, <2>1, <3>1 DEF CommitAdmin, ColumnsKept
    <3>2. CASE Changes(w) /\ req[w].kind = "suspend"
      BY <1>0, <1>3, <2>2, <2>1, <3>2 DEF CommitAdmin, Writes, Governs, Replies
    <3>3. CASE Changes(w) /\ req[w].kind = "activate"
      BY <1>0, <1>3, <2>2, <2>1, <3>3 DEF CommitAdmin, Writes, Governs, Replies
    <3>4. CASE Changes(w) /\ req[w].kind = "promote"
      BY <1>0, <1>3, <2>2, <2>1, <3>4 DEF CommitAdmin, Writes, Governs, Replies
    <3>5. CASE Changes(w) /\ req[w].kind = "demote"
      BY <1>0, <1>3, <2>2, <2>1, <3>5 DEF CommitAdmin, Writes, Governs, Replies
    <3> QED
      BY <2>1, <3>1, <3>2, <3>3, <3>4, <3>5 DEF AdminKinds
  <2>3. CASE u # req[w].on
    BY <1>0, <1>3, <2>3 DEF CommitAdmin, ColumnsKept
  <2> QED
    BY <2>2, <2>3
<1>4. CASE CommitChange(w) \/ CommitReset(w)
  <2>1. /\ pc[w] = "commit" /\ pc'[w] = "200" /\ req[w].kind \in {"change", "reset"}
        /\ password' = [password EXCEPT ![Target(w)] = w]
        /\ UNCHANGED <<role, status, name>>
        /\ status[Target(w)] # "none"
    BY <1>0, <1>4 DEF CommitChange, CommitReset, Goto, Target, There, AboutSomebody
  <2>2. CASE u = Target(w)
    BY <1>0, <2>1, <2>2 DEF Writes, Rekeys, Replies
  <2>3. CASE u # Target(w)
    BY <1>0, <2>1, <2>3 DEF ColumnsKept
  <2> QED
    BY <2>2, <2>3
<1>5. CASE CommitRename(w)
  <2>1. /\ pc[w] = "commit" /\ pc'[w] = "200" /\ req[w].kind = "rename"
        /\ name' = [name EXCEPT ![Target(w)] = w]
        /\ UNCHANGED <<role, status, password>>
        /\ status[Target(w)] # "none"
    BY <1>0, <1>5 DEF CommitRename, Goto, Target, There, AboutSomebody
  <2>2. CASE u = Target(w)
    BY <1>0, <2>1, <2>2 DEF Writes, Renames, Replies
  <2>3. CASE u # Target(w)
    BY <1>0, <2>1, <2>3 DEF ColumnsKept
  <2> QED
    BY <2>2, <2>3
<1> QED
  BY <1>1, <1>2, <1>3, <1>4, <1>5, Writers

\* A step is a request's, or leaves the users' rows and the requests alone.
LEMMA WhoSteps ==
  ASSUME [Next]_vars
  PROVE  \/ \E w \in Workers : Arrive(w) \/ Work(w) \/ Breaks(w) \/ ExpireToken(w)
         \/ UNCHANGED <<columns, token, mailed, pc, req, row, me>>
BY DEF Next, Terminating, vars, tables, locals, columns, ExpireSession

\* Only who is there has a role to lose.
RolesOfUsers == \A u \in Users : role[u] = "admin" => status[u] # "none"

LEMMA UsersHaveRoles == Spec => []RolesOfUsers
<1>1. Init => RolesOfUsers
  BY AccountsConstants DEF Init, InitAs, RolesOfUsers, Case
<1>2. ASSUME Inv, RolesOfUsers, [Next]_vars PROVE RolesOfUsers'
  <2> SUFFICES ASSUME NEW u \in Users, role'[u] = "admin" PROVE status'[u] # "none"
    BY DEF RolesOfUsers
  <2>1. CASE ColumnsKept(u)
    BY <1>2, <2>1 DEF ColumnsKept, RolesOfUsers
  <2>2. CASE ~ColumnsKept(u)
    <3>1. PICK w \in Workers : Arrive(w) \/ Work(w) \/ Breaks(w) \/ ExpireToken(w)
      BY <1>2, <2>2, WhoSteps DEF columns, ColumnsKept
    <3>2. Writes(w, u)
      BY <1>2, <2>2, <3>1, StepColumns
    <3> QED
      BY <3>2 DEF Writes, Creates, Governs, Rekeys, Renames
  <2> QED
    BY <2>1, <2>2
<1> QED
  BY <1>1, <1>2, Invariant, PTL DEF Spec

\* A user's role, status, password and name change when a request for that
\* change goes through, and at no other step.
THEOREM ChangesAreAskedFor == Spec => ColumnsChangeOnRequest
<1> DEFINE Fits(u) ==
       /\ status'[u] # status[u] =>
            \E w \in Workers : Settles(w, u, IF status[u] = "none" THEN {"signup", "bootstrap"}
                                              ELSE {"suspend", "activate"})
       /\ role'[u] # role[u] =>
            \E w \in Workers : Settles(w, u, IF status[u] = "none" THEN {"bootstrap"}
                                              ELSE {"promote", "demote"})
       /\ password'[u] # password[u] =>
            \E w \in Workers :
              /\ password'[u] = w
              /\ Settles(w, u, IF status[u] = "none" THEN {"signup", "bootstrap"}
                               ELSE {"change", "reset"})
       /\ name'[u] # name[u] =>
            \E w \in Workers :
              /\ name'[u] = w
              /\ Settles(w, u, IF status[u] = "none" THEN {"signup", "bootstrap"}
                               ELSE {"rename"})
<1>1. ASSUME Inv, RolesOfUsers, [Next]_vars, NEW u \in Users, ~ColumnsKept(u)
      PROVE  Fits(u)
  <2>1. PICK w \in Workers : Arrive(w) \/ Work(w) \/ Breaks(w) \/ ExpireToken(w)
    BY <1>1, WhoSteps DEF columns, ColumnsKept
  <2>2. Writes(w, u)
    BY <1>1, <2>1, StepColumns
  <2>3. role \in [Users -> {"user", "admin"}]
    BY <1>1 DEF Inv, ShapeInv, TypeOK
  <2>4. CASE Creates(w, u)
    BY <1>1, <2>2, <2>3, <2>4 DEF Writes, Creates, Settles, RolesOfUsers
  <2>5. CASE Governs(w, u)
    BY <2>2, <2>5 DEF Writes, Governs, Settles
  <2>6. CASE Rekeys(w, u)
    BY <2>2, <2>6 DEF Writes, Rekeys, Settles
  <2>7. CASE Renames(w, u)
    BY <2>2, <2>7 DEF Writes, Renames, Settles
  <2> QED
    BY <2>2, <2>4, <2>5, <2>6, <2>7 DEF Writes
<1>2. ASSUME NEW u \in Users, ColumnsKept(u) PROVE Fits(u)
  BY <1>2 DEF ColumnsKept
<1>3. Inv /\ RolesOfUsers /\ [Next]_vars => \A u \in Users : Fits(u)
  BY <1>1, <1>2
<1> QED
  BY <1>3, Invariant, UsersHaveRoles, PTL DEF Spec, ColumnsChangeOnRequest

-----------------------------------------------------------------------------
(* Links that were mailed, and start-ups *)

\* A reply is the last a request does; the start-up's comes from three actions;
\* a forgotten password is at its commit once the link has left, a reset once
\* the token was read fresh; and a token is written by these two, or expires.
LEMMA LastSteps ==
  ASSUME Inv, NEW w \in Workers, Arrive(w) \/ Work(w) \/ Breaks(w) \/ ExpireToken(w)
  PROVE  /\ pc[w] \in Replies => pc'[w] = pc[w]
         /\ pc'[w] = "up" => pc[w] = "up" \/ Bootstrap(w) \/ Insert(w) \/ InsertConflict(w)
         /\ pc'[w] = "commit" /\ req[w].kind = "forgot" => pc[w] = "commit" \/ w \in mailed'
         /\ mailed \subseteq mailed'
         /\ req[w].kind = "reset" =>
              /\ pc'[w] \in {"flush", "commit"} =>
                   pc[w] \in {"flush", "commit"} \/ token[req[w].on] = "fresh"
              /\ pc'[w] = "200" => pc[w] = "200" \/ token'[req[w].on] = "used"
         /\ \A v \in Workers : token'[v] # token[v] =>
              \/ v = w /\ req[w].kind = "forgot" /\ pc[w] = "commit" /\ pc'[w] = "200"
              \/ req[w].kind = "reset" /\ req[w].on = v /\ pc[w] = "commit" /\ token'[v] = "used"
              \/ token[v] = "fresh" /\ token'[v] = "expired"
<1>0. /\ pc \in [Workers -> Steps] /\ StepsFit
      /\ token \in [Workers -> {"none", "fresh", "used", "expired"}]
  BY DEF Inv, ShapeInv, TypeOK
<1> USE <1>0 DEF tables, Goto, Reply, Fail, Replies, StepsFit, AdminKinds, SessionKinds
<1>1. CASE Login(w)
  BY <1>1 DEF Login
<1>2. CASE SignUp(w)
  BY <1>2 DEF SignUp
<1>3. CASE Bootstrap(w)
  BY <1>3 DEF Bootstrap
<1>4. CASE Enter(w)
  <2>1. /\ pc[w] = "idle" /\ UNCHANGED <<token, mailed>>
        /\ pc'[w] \in {"401", "403", "check", "verify", "commit"}
        /\ req[w].kind \notin {"forgot", "reset"}
    BY <1>4 DEF Enter
  <2> QED
    BY <2>1
<1>5. CASE Forgot(w)
  BY <1>5 DEF Forgot
<1>6. CASE Reset(w)
  BY <1>6 DEF Reset
<1>7. CASE CommitLogin(w)
  BY <1>7 DEF CommitLogin
<1>8. CASE Insert(w)
  BY <1>8 DEF Insert
<1>9. CASE InsertConflict(w)
  BY <1>9 DEF InsertConflict
<1>10. CASE CommitLogout(w)
  BY <1>10 DEF CommitLogout
<1>11. CASE Verify(w)
  BY <1>11 DEF Verify
<1>12. CASE CommitChange(w)
  BY <1>12 DEF CommitChange
<1>13. CASE Check(w)
  BY <1>13 DEF Check
<1>14. CASE Flush(w)
  BY <1>14 DEF Flush
<1>15. CASE CommitAdmin(w)
  BY <1>15 DEF CommitAdmin
<1>16. CASE SendLink(w)
  BY <1>16 DEF SendLink
<1>17. CASE CommitForgot(w)
  BY <1>17 DEF CommitForgot
<1>18. CASE CommitReset(w)
  <2>1. req[w].on \in Workers
    BY <1>18, AskedTyped DEF CommitReset, Inv, ShapeInv
  <2> QED
    BY <1>18, <2>1 DEF CommitReset
<1>19. CASE ExpireToken(w)
  BY <1>19 DEF ExpireToken
<1>20. CASE DeadlockVictim(w)
  BY <1>20 DEF DeadlockVictim, WaitsFor
<1>21. CASE Breaks(w)
  BY <1>21 DEF Breaks, CommitFails, Crash, Ended
<1>22. CASE CommitRename(w)
  BY <1>22 DEF CommitRename
<1> QED
  BY <1>1, <1>2, <1>3, <1>4, <1>5, <1>6, <1>7, <1>8, <1>9, <1>10, <1>11, <1>12, <1>13,
     <1>14, <1>15, <1>16, <1>17, <1>18, <1>19, <1>20, <1>21, <1>22
  DEF Arrive, Work

\* A request that comes with a link gets in by a fresh token.
LEMMA IdleReset ==
  ASSUME Inv, [Next]_vars, NEW w \in Workers,
         req[w].kind = "reset", pc[w] = "idle", pc'[w] \notin {"idle", "400"}
  PROVE  token[req[w].on] = "fresh"
<1>0. pc \in [Workers -> Steps] /\ StepsFit
  BY DEF Inv, ShapeInv, TypeOK
<1>1. ASSUME NEW v \in Workers, Arrive(v) \/ Work(v) \/ Breaks(v) \/ ExpireToken(v)
      PROVE  v = w
  BY <1>1, StepFrame DEF Inv, Frame
<1>2. PICK v \in Workers : Arrive(v) \/ Work(v) \/ Breaks(v) \/ ExpireToken(v)
  BY WhoSteps
<1>3. Arrive(w) \/ Work(w) \/ Breaks(w) \/ ExpireToken(w)
  BY <1>1, <1>2
<1>4. ~ExpireToken(w) /\ ~Breaks(w)
  BY DEF ExpireToken, Breaks, CommitFails, Crash
<1>5. ~Work(w)
  BY DEF Work, CommitLogin, Insert, InsertConflict, CommitLogout, CommitRename, Verify,
         CommitChange, Check, Flush, CommitAdmin, SendLink, CommitForgot, CommitReset,
         DeadlockVictim, WaitsFor, Goto, Reply
<1>6. Reset(w)
  BY <1>3, <1>4, <1>5
  DEF Arrive, Login, SignUp, Bootstrap, Enter, Forgot, SessionKinds, AdminKinds
<1> QED
  BY <1>0, <1>6 DEF Reset, Reply, Goto

\* A token comes with a mailed link and a reply, a request that got in by a
\* link has found its token, and leaves it used.
LinksInv ==
  /\ \A t \in Workers :
       /\ token[t] # "none" => t \in mailed /\ pc[t] = "200"
       /\ pc[t] = "commit" /\ req[t].kind = "forgot" => t \in mailed
  /\ \A v \in Workers : req[v].kind = "reset" =>
       /\ pc[v] \in {"flush", "commit"} => token[req[v].on] # "none"
       /\ pc[v] = "200" => token[req[v].on] = "used"

\* A link lets nobody in that was not mailed, whose token was not committed, or
\* that has been used by a request that is through.
THEOREM LinksAreGoodOnce == Spec => LinksOpenOnce
<1>1. Init => LinksInv
  BY DEF Init, InitAs, LinksInv
<1>2. ASSUME Inv, LinksInv, [Next]_vars PROVE LinksInv'
  <2>0. /\ TypeOK /\ StepsFit
        /\ \A v \in Workers : req[v].kind = "reset" => req[v].on \in Workers
    BY <1>2, AskedTyped DEF Inv, ShapeInv
  <2>1. CASE UNCHANGED <<columns, token, mailed, pc, req, row, me>>
    BY <1>2, <2>1 DEF LinksInv
  <2>2. ASSUME NEW w \in Workers, Arrive(w) \/ Work(w) \/ Breaks(w) \/ ExpireToken(w)
        PROVE  LinksInv'
    <3>1. req' = req /\ \A v \in Workers \ {w} : pc'[v] = pc[v]
      BY <1>2, <2>2, StepFrame DEF Inv, Frame
    <3>2. /\ pc[w] \in Replies => pc'[w] = pc[w]
          /\ pc'[w] = "commit" /\ req[w].kind = "forgot" => pc[w] = "commit" \/ w \in mailed'
          /\ mailed \subseteq mailed'
          /\ req[w].kind = "reset" =>
               /\ pc'[w] \in {"flush", "commit"} =>
                    pc[w] \in {"flush", "commit"} \/ token[req[w].on] = "fresh"
               /\ pc'[w] = "200" => pc[w] = "200" \/ token'[req[w].on] = "used"
          /\ \A v \in Workers : token'[v] # token[v] =>
               \/ v = w /\ req[w].kind = "forgot" /\ pc[w] = "commit" /\ pc'[w] = "200"
               \/ req[w].kind = "reset" /\ req[w].on = v /\ pc[w] = "commit" /\ token'[v] = "used"
               \/ token[v] = "fresh" /\ token'[v] = "expired"
      BY <1>2, <2>2, LastSteps
    <3>3. ASSUME NEW t \in Workers
          PROVE  /\ token'[t] # "none" => t \in mailed' /\ pc'[t] = "200"
                 /\ pc'[t] = "commit" /\ req'[t].kind = "forgot" => t \in mailed'
      <4>1. pc[t] = "200" => pc'[t] = "200"
        BY <3>1, <3>2 DEF Replies
      <4>2. pc'[t] = "commit" /\ req'[t].kind = "forgot" => t \in mailed'
        BY <1>2, <3>1, <3>2 DEF LinksInv
      <4>3. CASE token'[t] = token[t]
        BY <1>2, <3>2, <4>1, <4>2, <4>3 DEF LinksInv
      <4>4. CASE t = w /\ req[w].kind = "forgot" /\ pc[w] = "commit" /\ pc'[w] = "200"
        BY <1>2, <3>2, <4>2, <4>4 DEF LinksInv
      <4>5. CASE token[t] # "none"
        BY <1>2, <3>2, <4>1, <4>2, <4>5 DEF LinksInv
      <4>6. CASE req[w].kind = "reset" /\ req[w].on = t /\ pc[w] = "commit"
        BY <1>2, <4>5, <4>6 DEF LinksInv
      <4> QED
        BY <3>2, <4>3, <4>4, <4>5, <4>6
    <3>4. ASSUME NEW v \in Workers, req[v].kind = "reset"
          PROVE  /\ pc'[v] \in {"flush", "commit"} => token'[req[v].on] # "none"
                 /\ pc'[v] = "200" => token'[req[v].on] = "used"
      <4> DEFINE t == req[v].on
      <4>0. t \in Workers
        BY <2>0, <3>4
      <4>1. /\ pc'[v] \in {"flush", "commit"} =>
                 pc[v] \in {"flush", "commit"} \/ token[t] = "fresh"
            /\ pc'[v] = "200" => pc[v] = "200" \/ token'[t] = "used"
        BY <3>1, <3>2, <3>4
      <4>2. token[t] # "none" => token'[t] # "none"
        BY <1>2, <3>2, <4>0 DEF LinksInv
      <4>3. token[t] = "used" => token'[t] = "used"
        BY <1>2, <3>2, <4>0 DEF LinksInv
      <4>4. /\ pc[v] \in {"flush", "commit"} => token[t] # "none"
            /\ pc[v] = "200" => token[t] = "used"
        BY <1>2, <3>4 DEF LinksInv
      <4> QED
        BY <4>1, <4>2, <4>3, <4>4
    <3> QED
      BY <3>1, <3>3, <3>4 DEF LinksInv
  <2> QED
    BY <1>2, <2>1, <2>2, WhoSteps
<1> DEFINE Once(w) == req[w].kind = "reset" /\ pc[w] = "idle" /\ pc'[w] \notin {"idle", "400"} =>
                        /\ req[w].on \in mailed
                        /\ pc[req[w].on] = "200"
                        /\ \A v \in Workers :
                             req[v].kind = "reset" /\ req[v].on = req[w].on => pc[v] # "200"
<1>3. ASSUME Inv, LinksInv, [Next]_vars, NEW w \in Workers PROVE Once(w)
  <2> SUFFICES ASSUME req[w].kind = "reset", pc[w] = "idle", pc'[w] \notin {"idle", "400"}
               PROVE  /\ req[w].on \in mailed
                      /\ pc[req[w].on] = "200"
                      /\ \A v \in Workers :
                           req[v].kind = "reset" /\ req[v].on = req[w].on => pc[v] # "200"
    OBVIOUS
  <2>1. req[w].on \in Workers
    BY <1>3, AskedTyped DEF Inv, ShapeInv
  <2>2. token[req[w].on] = "fresh"
    BY <1>3, IdleReset
  <2> QED
    BY <1>3, <2>1, <2>2 DEF LinksInv
<1>4. Inv /\ LinksInv /\ [Next]_vars => \A w \in Workers : Once(w)
  BY <1>3
<1>5. Inv /\ LinksInv /\ [Next]_vars => LinksInv'
  BY <1>2
<1> QED
  BY <1>1, <1>4, <1>5, Invariant, PTL DEF Spec, LinksOpenOnce

\* An administrator has taken the role from somebody.
Demoted == \E v \in Workers : req[v].kind = "demote" /\ pc[v] = "200"

\* An account that is still under the password it was created with by a
\* start-up is an administrator's, or was.
StartUpsCreateAdmins ==
  \A u \in Users, v \in Workers :
    req[v].kind = "bootstrap" /\ password[u] = v => role[u] = "admin" \/ Demoted

\* After a start-up there is an administrator, however many start-ups meet,
\* unless one was demoted or the account was there.
THEOREM StartUpsLeaveAnAdmin == Spec => []StartUpLeavesAnAdmin
<1> DEFINE K == RolesOfUsers /\ StartUpsCreateAdmins /\ StartUpLeavesAnAdmin
<1>1. Init => StartUpsCreateAdmins /\ StartUpLeavesAnAdmin
  BY AccountsConstants DEF Init, InitAs, StartUpsCreateAdmins, StartUpLeavesAnAdmin
<1>2. ASSUME Inv, K, [Next]_vars PROVE (StartUpsCreateAdmins /\ StartUpLeavesAnAdmin)'
  <2>1. CASE UNCHANGED <<columns, token, mailed, pc, req, row, me>>
    BY <1>2, <2>1 DEF columns, StartUpsCreateAdmins, StartUpLeavesAnAdmin, Demoted
  <2>2. ASSUME NEW w \in Workers, Arrive(w) \/ Work(w) \/ Breaks(w) \/ ExpireToken(w)
        PROVE  (StartUpsCreateAdmins /\ StartUpLeavesAnAdmin)'
    <3>1. /\ req' = req /\ \A v \in Workers \ {w} : pc'[v] = pc[v]
          /\ \A v \in Workers : req[v].kind = "bootstrap" => req[v].on \in Users
      BY <1>2, <2>2, StepFrame, AskedTyped DEF Inv, ShapeInv, Frame
    <3>2. pc[w] \in Replies => pc'[w] = pc[w]
      BY <1>2, <2>2, LastSteps
    <3>3. Demoted => Demoted'
      BY <3>1, <3>2 DEF Demoted, Replies
    <3>4. \A u \in Users : ColumnsKept(u) \/ Writes(w, u)
      BY <1>2, <2>2, StepColumns
    <3>5. ASSUME NEW u \in Users, role[u] = "admin" PROVE role'[u] = "admin" \/ Demoted'
      <4>1. CASE ColumnsKept(u)
        BY <3>5, <4>1 DEF ColumnsKept
      <4>2. CASE Writes(w, u)
        BY <1>2, <3>1, <3>5, <4>2
        DEF Writes, Creates, Governs, Rekeys, Renames, RolesOfUsers, Demoted
      <4> QED
        BY <3>4, <4>1, <4>2
    <3>6. ASSUME NEW u \in Users, NEW v \in Workers,
                 req[v].kind = "bootstrap", password'[u] = v, password[u] # v
          PROVE  role'[u] = "admin" /\ status[u] = "none"
      <4>1. Writes(w, u)
        BY <3>4, <3>6 DEF ColumnsKept
      <4> QED
        BY <3>6, <4>1 DEF Writes, Creates, Governs, Rekeys, Renames
    <3>7. StartUpsCreateAdmins'
      BY <1>2, <3>1, <3>3, <3>5, <3>6 DEF StartUpsCreateAdmins
    <3>8. ASSUME NEW u \in Users, status[u] # "none" PROVE status'[u] # "none"
      BY <3>4, <3>8 DEF ColumnsKept, Writes, Creates, Governs, Rekeys, Renames
    <3> DEFINE Was(u) == status[u] # "none"
                         /\ \A v \in Workers : req[v].kind = "bootstrap" => password[u] # v
    <3>9. ASSUME NEW u \in Users, Was(u) PROVE Was(u)'
      BY <3>1, <3>6, <3>8, <3>9
    <3>10. ASSUME NEW v \in Workers, req[v].kind = "bootstrap", pc[v] = "up"
           PROVE  (\E u \in Users : role[u] = "admin") \/ Demoted \/ Was(req[v].on)
      BY <1>2, <3>10 DEF StartUpLeavesAnAdmin, Demoted
    <3>11. ASSUME NEW v \in Workers, req[v].kind = "bootstrap",
                  (\E u \in Users : role[u] = "admin") \/ Demoted \/ Was(req[v].on)
           PROVE  (\E u \in Users : role'[u] = "admin") \/ Demoted' \/ Was(req[v].on)'
      <4> HIDE DEF Was
      <4> QED
        BY <3>1, <3>3, <3>5, <3>9, <3>11
    <3>12. ASSUME req[w].kind = "bootstrap", pc'[w] = "up", pc[w] # "up"
           PROVE  (\E u \in Users : role'[u] = "admin") \/ Demoted' \/ Was(req[w].on)'
      <4>1. req[w].on \in Users
        BY <3>1, <3>12
      <4>2. CASE \E u \in Users : role[u] = "admin"
        BY <3>5, <4>2
      <4>3. CASE status[req[w].on] # "none"
        <5>1. Was(req[w].on) \/ role[req[w].on] = "admin" \/ Demoted
          BY <1>2, <4>1, <4>3 DEF StartUpsCreateAdmins
        <5> HIDE DEF Was
        <5> QED
          BY <3>11, <3>12, <4>1, <5>1
      <4>4. CASE Insert(w)
        <5>1. role'[req[w].on] = "admin"
          BY <1>2, <3>12, <4>1, <4>4 DEF Insert, Inv, ShapeInv, TypeOK
        <5> QED
          BY <4>1, <5>1
      <4>5. CASE Bootstrap(w) /\ ~(\E u \in Users : role[u] = "admin")
                 /\ status[req[w].on] = "none"
        <5>1. pc'[w] = "insert"
          BY <1>2, <4>5 DEF Bootstrap, Goto, Inv, ShapeInv, TypeOK
        <5> QED
          BY <3>12, <5>1
      <4> QED
        BY <1>2, <2>2, <3>12, <4>2, <4>3, <4>4, <4>5, LastSteps DEF InsertConflict
    <3>13. StartUpLeavesAnAdmin'
      <4> SUFFICES ASSUME NEW v \in Workers, req'[v].kind = "bootstrap", pc'[v] = "up"
                   PROVE  (\E u \in Users : role'[u] = "admin") \/ Demoted'
                          \/ Was(req[v].on)'
        BY <3>1 DEF StartUpLeavesAnAdmin, Demoted
      <4> HIDE DEF Was
      <4> QED
        BY <3>1, <3>10, <3>11, <3>12
    <3> QED
      BY <3>7, <3>13
  <2> QED
    BY <1>2, <2>1, <2>2, WhoSteps
<1> QED
  BY <1>1, <1>2, Invariant, UsersHaveRoles, PTL DEF Spec

-----------------------------------------------------------------------------
(* The last administrator *)

\* At most one request suspends or demotes anybody.
OneAtATime ==
  \A w, v \in Workers : {req[w].kind, req[v].kind} \subseteq {"suspend", "demote"} => w = v

\* The administrator who suspends or demotes is one until his request has
\* gone through, and it is let on only while another one is left.
LeavesOne(w) ==
  req[w].kind \in {"suspend", "demote"} =>
    /\ pc[w] = "check" => me[w] \in ActiveAdmins /\ row[w].role = "admin"
    /\ pc[w] \in {"flush", "commit"} => ActiveAdmins \ {req[w].on} # {}

\* Where a request that suspends or demotes comes from.
LEMMA Removals ==
  ASSUME Inv, NEW w \in Workers, Arrive(w) \/ Work(w) \/ Breaks(w) \/ ExpireToken(w),
         req[w].kind \in {"suspend", "demote"}
  PROVE  \/ CommitAdmin(w)
         \/ /\ UNCHANGED columns
            /\ Enter(w) \/ Check(w) \/ Flush(w) \/ ExpireToken(w) \/ pc'[w] \in Replies
<1>0. pc \in [Workers -> Steps] /\ StepsFit
  BY DEF Inv, ShapeInv, TypeOK
<1>1. ~Login(w) /\ ~SignUp(w) /\ ~Bootstrap(w) /\ ~Forgot(w) /\ ~Reset(w)
  BY DEF Login, SignUp, Bootstrap, Forgot, Reset
<1>2. ~CommitLogin(w) /\ ~CommitLogout(w) /\ ~CommitRename(w) /\ ~CommitChange(w)
      /\ ~CommitForgot(w) /\ ~CommitReset(w)
  BY DEF CommitLogin, CommitLogout, CommitRename, CommitChange, CommitForgot, CommitReset
<1>3. pc[w] \notin {"insert", "verify", "mail"}
  BY <1>0 DEF StepsFit
<1>4. ~Insert(w) /\ ~InsertConflict(w)
  BY <1>3 DEF Insert, InsertConflict, Goto
<1>5. ASSUME Verify(w) PROVE FALSE
  BY <1>3, <1>5 DEF Verify, Reply, Goto
<1>6. ASSUME SendLink(w) PROVE FALSE
  BY <1>3, <1>6 DEF SendLink, Goto
<1>7. ASSUME Enter(w) \/ Check(w) \/ Flush(w) \/ ExpireToken(w) PROVE UNCHANGED columns
  BY <1>7 DEF Enter, Check, Flush, ExpireToken, Reply, columns, tables
<1>8. ASSUME DeadlockVictim(w) \/ Breaks(w) PROVE pc'[w] \in Replies /\ UNCHANGED columns
  BY <1>0, <1>8 DEF DeadlockVictim, Breaks, CommitFails, Crash, Fail, columns, tables, Replies
<1> QED
  BY <1>1, <1>2, <1>4, <1>5, <1>6, <1>7, <1>8 DEF Arrive, Work

\* A request that neither suspends nor demotes removes no administrator.
LEMMA AdminsStay ==
  ASSUME Inv, NEW w \in Workers, Arrive(w) \/ Work(w) \/ Breaks(w) \/ ExpireToken(w),
         req[w].kind \notin {"suspend", "demote"}
  PROVE  ActiveAdmins \subseteq ActiveAdmins'
<1> SUFFICES ASSUME NEW u \in Users, role[u] = "admin", status[u] = "active"
             PROVE  role'[u] = "admin" /\ status'[u] = "active"
  BY DEF ActiveAdmins
<1>1. CASE ColumnsKept(u)
  BY <1>1 DEF ColumnsKept
<1>2. CASE Writes(w, u)
  BY <1>2 DEF Writes, Creates, Governs, Rekeys, Renames
<1> QED
  BY <1>1, <1>2, StepColumns

LEMMA StepLeavesOne ==
  ASSUME Inv, OneAtATime, \A w \in Workers : LeavesOne(w), [Next]_vars
  PROVE  /\ \A w \in Workers : LeavesOne(w)'
         /\ ActiveAdmins # {} => ActiveAdmins' # {}
<1>1. CASE UNCHANGED <<columns, token, mailed, pc, req, row, me>>
  BY <1>1 DEF columns, LeavesOne, ActiveAdmins
<1>2. ASSUME NEW w \in Workers, Arrive(w) \/ Work(w) \/ Breaks(w) \/ ExpireToken(w),
             req[w].kind \notin {"suspend", "demote"}
      PROVE  /\ \A v \in Workers : LeavesOne(v)'
             /\ ActiveAdmins # {} => ActiveAdmins' # {}
  <2>1. ActiveAdmins \subseteq ActiveAdmins'
    BY <1>2, AdminsStay
  <2>2. Frame(w)
    BY <1>2, StepFrame DEF Inv
  <2> QED
    BY <1>2, <2>1, <2>2 DEF LeavesOne, Frame
<1>3. ASSUME NEW w \in Workers, Arrive(w) \/ Work(w) \/ Breaks(w) \/ ExpireToken(w),
             req[w].kind \in {"suspend", "demote"}
      PROVE  /\ \A v \in Workers : LeavesOne(v)'
             /\ ActiveAdmins # {} => ActiveAdmins' # {}
  <2>0. /\ pc \in [Workers -> Steps] /\ row \in [Workers -> UserRow \cup {NoUserRow}]
        /\ me \in [Workers -> Users \cup {"none"}]
        /\ req[w].kind \in AdminKinds /\ req[w].on \in Users /\ LeavesOne(w)
    BY <1>3, AskedTyped DEF Inv, ShapeInv, TypeOK, AdminKinds
  <2>1. Frame(w)
    BY <1>3, StepFrame DEF Inv
  <2>2. \A v \in Workers \ {w} : LeavesOne(v)'
    BY <1>3, <2>1 DEF LeavesOne, Frame, OneAtATime
  <2>3. CASE UNCHANGED columns
    <3>1. ActiveAdmins' = ActiveAdmins
      BY <2>3 DEF columns, ActiveAdmins
    <3>2. ASSUME Enter(w) PROVE LeavesOne(w)'
      <4>1. CASE pc'[w] = "check"
        <5>1. Resolves(req[w].by) /\ role[session[req[w].by].user] = "admin"
          BY <2>0, <3>2, <4>1 DEF Enter, Reply, Goto
        <5>2. session[req[w].by].user \in Users
          BY <5>1, AskedTyped
          DEF Inv, ShapeInv, TypeOK, Resolves, SessionRow, NoSession
        <5>3. /\ me'[w] = session[req[w].by].user /\ row'[w] = RowOf(session[req[w].by].user)
              /\ req' = req
          BY <2>0, <3>2, <5>1 DEF Enter
        <5>4. me'[w] \in ActiveAdmins /\ row'[w].role = "admin"
          BY <5>1, <5>2, <5>3 DEF ActiveAdmins, Resolves, RowOf
        <5> QED
          BY <3>1, <4>1, <5>4 DEF LeavesOne
      <4>2. CASE pc'[w] # "check"
        <5>1. pc'[w] \in {"401", "403", "check"}
          BY <2>0, <3>2 DEF Enter, Reply, Goto, AdminKinds, SessionKinds
        <5> QED
          BY <4>2, <5>1 DEF LeavesOne
      <4> QED
        BY <4>1, <4>2
    <3>3. ASSUME Check(w) PROVE LeavesOne(w)'
      <4>1. pc[w] = "check" /\ req' = req /\ pc'[w] \in {"404", "400", "flush"}
        BY <2>0, <3>3 DEF Check, Reply, Goto, locals
      <4>2. CASE pc'[w] = "flush"
        <5>1. ~LastAdmin(w)
          BY <2>0, <3>3, <4>2 DEF Check, Reply, Goto
        <5>2. me[w] \in ActiveAdmins /\ row[w].role = "admin"
          BY <1>3, <2>0, <4>1 DEF LeavesOne
        <5>3. CASE req[w].on = me[w]
          BY <1>3, <5>1, <5>2, <5>3, <3>1, <4>1, <4>2 DEF LastAdmin, TargetRow, LeavesOne
        <5>4. CASE req[w].on # me[w]
          BY <5>2, <5>4, <3>1, <4>1, <4>2 DEF LeavesOne
        <5> QED
          BY <5>3, <5>4
      <4>3. CASE pc'[w] # "flush"
        BY <4>1, <4>3 DEF LeavesOne
      <4> QED
        BY <4>2, <4>3
    <3>4. ASSUME Flush(w) PROVE LeavesOne(w)'
      <4>1. pc[w] = "flush" /\ pc'[w] = "commit" /\ req' = req
        BY <2>0, <3>4 DEF Flush, Goto
      <4> QED
        BY <1>3, <2>0, <3>1, <4>1 DEF LeavesOne
    <3>5. ASSUME pc'[w] \in Replies PROVE LeavesOne(w)'
      BY <3>5 DEF LeavesOne, Replies
    <3>6. ASSUME ExpireToken(w) PROVE LeavesOne(w)'
      BY <2>0, <3>1, <3>6 DEF LeavesOne, ExpireToken, locals
    <3>7. ASSUME CommitAdmin(w) PROVE LeavesOne(w)'
      BY <2>0, <3>5, <3>7 DEF CommitAdmin, Goto, Replies
    <3>8. LeavesOne(w)'
      BY <1>3, <3>2, <3>3, <3>4, <3>5, <3>6, <3>7, Removals
    <3> QED
      BY <2>2, <3>1, <3>8
  <2>4. CASE CommitAdmin(w)
    <3>1. pc[w] = "commit" /\ pc'[w] = "200"
      BY <2>0, <2>4 DEF CommitAdmin, Goto
    <3>2. LeavesOne(w)'
      BY <3>1 DEF LeavesOne
    <3>3. PICK u \in Users \ {req[w].on} : u \in ActiveAdmins
      BY <1>3, <2>0, <3>1 DEF LeavesOne, ActiveAdmins
    <3>4. ColumnsKept(u)
      <4>1. Target(w) # u
        BY <2>0, <3>3 DEF Target, AdminKinds
      <4> QED
        BY <1>3, <4>1, StepColumns DEF Writes
    <3>5. u \in ActiveAdmins'
      BY <3>3, <3>4 DEF ActiveAdmins, ColumnsKept
    <3> QED
      BY <2>2, <3>2, <3>5
  <2> QED
    BY <1>3, <2>3, <2>4, Removals
<1> QED
  BY <1>1, <1>2, <1>3, WhoSteps

\* As long as no two requests suspend or demote, an active administrator is
\* left where there was one: the check and the commit need no lock then.
THEOREM OneAtATimeIsEnough == Spec => OneAtATimeLeavesAnAdmin
<1> DEFINE K == OneAtATime => \A w \in Workers : LeavesOne(w)
<1>1. Init => K
  BY DEF Init, InitAs, LeavesOne
<1>2. ASSUME Inv, [Next]_vars PROVE OneAtATime' = OneAtATime
  <2>1. req' = req
    BY <1>2, WhoSteps, StepFrame DEF Inv, Frame
  <2> QED
    BY <2>1 DEF OneAtATime
<1>3. Inv /\ K /\ [Next]_vars => K'
  BY <1>2, StepLeavesOne
<1>4. Inv /\ K /\ [Next]_vars => (OneAtATime => (ActiveAdmins # {} => ActiveAdmins' # {}))
  BY StepLeavesOne
<1> HIDE DEF K
<1> QED
  BY <1>1, <1>3, <1>4, Invariant, PTL DEF Spec, OneAtATimeLeavesAnAdmin, OneAtATime

=============================================================================
