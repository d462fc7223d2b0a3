----------------------------- MODULE MCAccounts -----------------------------
(* A small instance of Accounts: a user with a hash of the old form, one without, and a
   manager, each logged in before. *)
EXTENDS Accounts, TLC

CONSTANTS u1, u2, m, v, e1, e2, p1, p2, p3, staff, s1, s2, s3

Ask(kind, as, user, email, password, new, role) ==
    [kind |-> kind, as |-> as, user |-> user, email |-> email, password |-> password,
     new |-> new, role |-> role]

Person(password, legacy, email, role) ==
    [hash |-> [password |-> password, legacy |-> legacy], email |-> email, role |-> role]

Open(u) == [user |-> u, login |-> 0, seen |-> 0, status |-> "active"]
Held(u, s, role) == [user |-> u, session |-> s, role |-> role, until |-> 1]

\* u1 and m share an e-mail, as nothing forbids.
MCStarts ==
    {[users |-> (u1 :> Person(p1, TRUE, e1, staff)) @@ (u2 :> Person(p2, FALSE, e2, staff))
                @@ (m :> Person(p3, FALSE, e1, Manager)),
      session |-> (s1 :> Open(u1)) @@ (s2 :> Open(u2)) @@ (s3 :> Open(m)),
      tokens |-> {Held(u1, s1, staff), Held(u2, s2, staff), Held(m, s3, Manager)}]}

MCCalls ==
    {Ask("Login", u1, u1, e1, p1, p1, staff), Ask("Login", u2, u2, e2, p2, p2, staff),
     Ask("Change", u1, u1, e1, p1, p2, staff), Ask("Change", u2, u2, e2, p2, p3, staff),
     Ask("Renew", m, u1, e1, p1, p3, staff), Ask("Info", m, u2, e2, p1, p1, Manager),
     Ask("Register", u2, v, e1, p1, p1, staff), Ask("Heartbeat", u1, u1, e1, p1, p1, staff),
     Ask("Logout", u1, u1, e1, p1, p1, staff)}

Symmetry == Permutations(Requests)
=============================================================================
