----------------------------- MODULE MCAccounts -----------------------------
(* Small instances of Accounts for TLC. *)
EXTENDS AccountsProperties, TLC

CONSTANTS ann, bob, w1, w2, w3

Ask(k, s, x, p) == [kind |-> k, by |-> s, on |-> x, secret |-> p]
SignIn(u, p) == Ask("login", u, u, p)
Change(u) == Ask("change", u, u, u)
ResetBy(t) == Ask("reset", ann, t, ann)
Admin(k, u, v) == Ask(k, u, v, u)

CasesOf(users, admins, S1, S2, S3) ==
  {[users |-> users, admins |-> admins, asks |-> w1 :> r1 @@ w2 :> r2 @@ w3 :> r3] :
     r1 \in S1, r2 \in S2, r3 \in S3}

\* Two administrators, each changing the other; one of them signs in late.
TwoAdmins ==
  CasesOf({ann, bob}, {ann, bob},
        {Admin("suspend", ann, bob), Admin("demote", ann, bob)},
        {Admin("suspend", bob, ann), Admin("activate", bob, ann)},
        {SignIn(ann, ann)})

\* One administrator's request, which may be about himself, while users sign
\* in and out and change their passwords or names.
OneAdmin ==
  CasesOf({ann, bob}, {ann},
        {Admin(k, ann, u) : k \in AdminKinds, u \in {ann, bob}},
        {Change(bob), Change(ann), Ask("logout", ann, ann, ann), Ask("rename", bob, bob, bob)},
        {SignIn(bob, bob), SignIn(ann, ann)})

\* A password that is changed and used to sign in at the same time.
PasswordChanges ==
  CasesOf({ann, bob}, {bob}, {Change(ann)}, {Change(ann), SignIn(ann, w3)},
        {SignIn(ann, ann), Change(ann)})

\* A password that is reset by mail, changed and used to sign in meanwhile.
Resets ==
  CasesOf({ann, bob}, {bob}, {Ask("forgot", ann, ann, ann)},
        {ResetBy(w1), Change(ann), SignIn(ann, w3)},
        {ResetBy(w1), SignIn(ann, ann), Change(ann)})

\* Two start-ups and a signup, also when the configured e-mail is a user's; an
\* administrator looks for a user who has not signed up yet.
StartUps ==
  CasesOf({}, {}, {Ask("bootstrap", ann, ann, ann)}, {Ask("bootstrap", ann, ann, ann)},
        {Ask("signup", ann, ann, ann), Ask("signup", bob, bob, bob)})
    \cup CasesOf({ann}, {}, {Ask("bootstrap", ann, ann, ann)},
              {Ask("bootstrap", bob, bob, bob)}, {Ask("signup", bob, bob, bob), Change(ann)})
    \cup CasesOf({ann}, {ann}, {Admin("promote", ann, bob)},
              {Ask("signup", bob, bob, bob)}, {Ask("signup", bob, bob, bob)})

AllCases == TwoAdmins \cup OneAdmin \cup PasswordChanges \cup Resets \cup StartUps

=============================================================================
