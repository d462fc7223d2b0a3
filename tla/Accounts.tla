------------------------------ MODULE Accounts ------------------------------
(***************************************************************************)
(* The table Users: logins, which replace a hash of the old form           *)
(* (UserLogin.go), passwords changed by their owner or renewed by          *)
(* management, registration and changes of e-mail and role.  Each          *)
(* statement commits by itself and is a step.                              *)
(***************************************************************************)
EXTENDS Sessions

CONSTANT Starts  \* the tables, tokens and sessions that may precede the behaviour

VARIABLES
    users,
    past       \* history of a user: its first hash, the password last chosen, the logins
               \* that had read the row when it was chosen, its roles

vars == <<now, session, tokens, touch, call, pc, frame, users, past>>

\* A hash tells its password apart from the others and has one of two forms.
Hash    == [password : Passwords, legacy : BOOLEAN]
UserRow == [hash : Hash, email : Emails, role : Roles]
Past    == [first : Hash, chosen : Passwords, overtaken : SUBSET Requests,
            roles : SUBSET Roles]

Pc == {"arrive", "readUser", "upgrade", "createSession", "readHash", "setHash",
       "countUser", "insertUser", "setInfo", "heartbeat", "close", "done"}

Frame == [token : Token \cup {None}, user : Ids \cup {None}, made : Token \cup {None}]
Start == [users : UNION {[D -> UserRow] : D \in SUBSET Ids},
          session : UNION {[D -> SessionRow] : D \in SUBSET OldSessions},
          tokens : SUBSET Token]

\* A client's token names a user and a role the user had, and a session of an earlier login.
WellFormed(s) ==
    /\ s.session \in [DOMAIN s.session -> SessionRow] /\ DOMAIN s.session \subseteq OldSessions
    /\ s.users \in [DOMAIN s.users -> UserRow] /\ DOMAIN s.users \subseteq Ids
    /\ s.tokens \subseteq Token
    /\ \A k \in s.tokens : k.user \in DOMAIN s.users /\ k.role = s.users[k.user].role
    /\ \A i \in DOMAIN s.session : s.session[i].seen = 0

ASSUME AccountAssumption == None \notin Ids /\ \A s \in Starts : WellFormed(s)

Init ==
    /\ now = 0 /\ touch = [r \in Requests |-> None]
    /\ call \in [Requests -> Calls]
    /\ pc = [r \in Requests |-> "arrive"]
    /\ frame = [r \in Requests |-> NoFrame]
    /\ \E s \in Starts : /\ users = s.users /\ session = s.session /\ tokens = s.tokens
                         /\ past = [u \in DOMAIN s.users |->
                                       [first |-> s.users[u].hash,
                                        chosen |-> s.users[u].hash.password,
                                        overtaken |-> {},
                                        roles |-> {s.users[u].role}]]

Verifies(hash, password) == hash.password = password

\* The hashes that a login replaces.
AnyForm(hash) == TRUE
OldForm(hash) == hash.legacy

\* What hashPassword makes of a password: never the old form.
Hashed(password) == [password |-> password, legacy |-> FALSE]

NewToken(u, r) == [user |-> u, session |-> r, role |-> users[u].role, until |-> now + TokenLife]

-----------------------------------------------------------------------------
\* Any of the users with this e-mail, as nothing keeps it to one.
ReadUser(r) ==
    /\ pc[r] = "readUser"
    /\ \/ \E u \in DOMAIN users :
             /\ users[u].email = call[r].email
             /\ IF Verifies(users[u].hash, call[r].password)
                THEN /\ Goto(r, IF OldForm(users[u].hash) THEN "upgrade" ELSE "createSession")
                     /\ frame' = [frame EXCEPT ![r].user = u, ![r].made = NewToken(u, r)]
                ELSE Return(r)
       \/ /\ \A u \in DOMAIN users : users[u].email # call[r].email
          /\ Return(r)
    /\ UNCHANGED <<sessionVars, call, users, past>>

\* The hash of the old form is replaced; if that fails, the login goes on.
Upgrade(r) ==
    /\ pc[r] = "upgrade"
    /\ users' \in {[users EXCEPT ![frame[r].user].hash = Hashed(call[r].password)], users}
    /\ Goto(r, "createSession")
    /\ UNCHANGED <<sessionVars, call, frame, past>>

\* A user changes the own password, and tells the old one.
ReadHash(r) ==
    /\ pc[r] = "readHash"
    /\ LET u == call[r].user IN
       IF /\ frame[r].token.user = u /\ u \in DOMAIN users
          /\ Verifies(users[u].hash, call[r].password)
       THEN Goto(r, "setHash") /\ frame' = frame
       ELSE Return(r)
    /\ UNCHANGED <<sessionVars, call, users, past>>

\* Management renews a password, or writes e-mail and role.
CountUser(r) ==
    /\ pc[r] = "countUser"
    /\ IF call[r].user \in DOMAIN users
       THEN /\ Goto(r, IF call[r].kind = "Renew" THEN "setHash" ELSE "setInfo")
            /\ frame' = frame
       ELSE Return(r)
    /\ UNCHANGED <<sessionVars, call, users, past>>

\* The logins that are about to replace the user's hash.
Upgrading(u) == {q \in Requests : pc[q] = "upgrade" /\ frame[q].user = u}

SetHash(r) ==
    /\ pc[r] = "setHash"
    /\ users' = [users EXCEPT ![call[r].user].hash = Hashed(call[r].new)]
    /\ past' = [past EXCEPT ![call[r].user].chosen = call[r].new,
                            ![call[r].user].overtaken = Upgrading(call[r].user)]
    /\ Return(r)
    /\ UNCHANGED <<sessionVars, call>>

SetInfo(r) ==
    /\ pc[r] = "setInfo"
    /\ users' = [users EXCEPT ![call[r].user].email = call[r].email,
                              ![call[r].user].role = call[r].role]
    /\ past' = [past EXCEPT ![call[r].user].roles = @ \cup {call[r].role}]
    /\ Return(r)
    /\ UNCHANGED <<sessionVars, call>>

InsertUser(r) ==
    /\ pc[r] = "insertUser"
    /\ \E u \in Ids \ DOMAIN users :
          LET row == [hash |-> Hashed(call[r].new), email |-> call[r].email,
                      role |-> call[r].role] IN
          /\ users' = [v \in DOMAIN users \cup {u} |-> IF v = u THEN row ELSE users[v]]
          /\ past' = [v \in DOMAIN users \cup {u} |->
                         IF v = u THEN [first |-> row.hash, chosen |-> call[r].new,
                                        overtaken |-> {}, roles |-> {row.role}]
                         ELSE past[v]]
    /\ Return(r)
    /\ UNCHANGED <<sessionVars, call>>

-----------------------------------------------------------------------------
\* A statement fails, or the connection drops.
Abort(r) ==
    /\ pc[r] # "done"
    /\ Return(r)
    /\ UNCHANGED <<sessionVars, call, users, past>>

\* The process stops, with its requests and goroutines.  Without JWT_SECRET the tokens
\* go too, for their key was made at the start.
Restart ==
    /\ pc' = [r \in Requests |-> IF pc[r] = "arrive" THEN "arrive" ELSE "done"]
    /\ touch' = [r \in Requests |-> None]
    /\ frame' = [r \in Requests |-> NoFrame]
    /\ tokens' \in {tokens, {}}
    /\ UNCHANGED <<now, session, call, users, past>>

AccountStep(r) ==
    \/ ReadUser(r) \/ Upgrade(r) \/ ReadHash(r) \/ CountUser(r)
    \/ SetHash(r) \/ SetInfo(r) \/ InsertUser(r) \/ Abort(r)

Next ==
    \/ \E r \in Requests : \/ SessionStep(r) /\ UNCHANGED <<users, past>>
                           \/ AccountStep(r)
    \/ Tick /\ UNCHANGED <<users, past>>
    \/ Restart

Spec == Init /\ [][Next]_vars

-----------------------------------------------------------------------------
\* Every variable holds what its table or goroutine may hold.
TypeOK ==
    /\ now \in Nat
    /\ session \in [DOMAIN session -> SessionRow] /\ DOMAIN session \subseteq Session
    /\ tokens \subseteq Token
    /\ touch \in [Requests -> Session \cup {None}]
    /\ call \in [Requests -> Calls]
    /\ pc \in [Requests -> Pc]
    /\ frame \in [Requests -> Frame]
    /\ users \in [DOMAIN users -> UserRow] /\ DOMAIN users \subseteq Ids
    /\ past \in [DOMAIN users -> Past]

\* The log tells when a user was last there: that time never goes back, and neither the
\* goroutines that run after a logout nor a second logout change a closed session.
ClosedStaysClosed ==
    [][\A s \in DOMAIN session :
          /\ s \in DOMAIN session'
          /\ session'[s].seen >= session[s].seen
          /\ session[s].status = "logout" => session'[s] = session[s]]_vars

\* The password in force is not the one chosen last.
Lost(u) == users[u].hash.password # past[u].chosen

\* A password that its owner or management has chosen is lost in one way only: a login that
\* had read the user's hash of the old form before the choice (line 195), and has not
\* replaced it by then, writes the hash of the password it was given (lines 217-223).
PasswordInForce ==
    [][\A u \in DOMAIN users' : Lost(u)' =>
          /\ u \in DOMAIN users
          /\ \/ Lost(u) /\ users'[u].hash = users[u].hash
             \/ \E r \in past[u].overtaken :
                   /\ pc[r] = "upgrade" /\ pc'[r] = "createSession" /\ frame[r].user = u
                   /\ past[u].first.legacy
                   /\ users'[u].hash = Hashed(call[r].password)]_vars

Entitled(r) == /\ frame[r].token # None
               /\ Manager \in past[frame[r].token.user].roles

\* A stale token or a late step gives nobody another's rights: e-mail, role and new users
\* come from someone who has been a manager, a password from its owner or a manager, and a
\* login writes a hash only of the password it has verified.
OnlyEntitled ==
    [][\A u \in DOMAIN users' :
          /\ \/ u \in DOMAIN users /\ users'[u].email = users[u].email
                                   /\ users'[u].role = users[u].role
             \/ \E r \in Requests : pc[r] \in {"insertUser", "setInfo"} /\ Entitled(r)
          /\ \/ u \notin DOMAIN users
             \/ users'[u].hash = users[u].hash
             \/ \E r \in Requests : /\ pc[r] = "setHash"
                                    /\ Entitled(r) \/ frame[r].token.user = u
             \/ \E r \in Requests : /\ pc[r] = "upgrade" /\ frame[r].user = u
                                    /\ users'[u].hash = Hashed(past[u].first.password)]_vars
=============================================================================
