---------------------------- MODULE AccountsProofs ----------------------------
(***************************************************************************)
(* Proofs about Accounts, for any users, sessions, requests and calls.     *)
(***************************************************************************)
EXTENDS Accounts, TLAPS

\* A token tells of its user a role that the user has or had.
Genuine(k) == k.user \in DOMAIN users /\ k.role \in past[k.user].roles

\* What a request holds and has found at each of its statements: genuine tokens, the user
\* whose row it will write, the right to do so, and, where it upgrades a hash, the first
\* password of that user, which is also the one chosen last if no choice has overtaken it.
Knows(r) ==
    /\ frame[r].token # None => Genuine(frame[r].token)
    /\ frame[r].made # None => Genuine(frame[r].made)
    /\ pc[r] \in {"readHash", "heartbeat", "close"} => frame[r].token # None
    /\ pc[r] \in {"countUser", "setInfo", "insertUser"} => Entitled(r)
    /\ pc[r] = "setHash" => /\ frame[r].token # None
                            /\ Entitled(r) \/ frame[r].token.user = call[r].user
    /\ pc[r] \in {"setHash", "setInfo"} => call[r].user \in DOMAIN users
    /\ pc[r] \in {"upgrade", "createSession"} => frame[r].made # None
    /\ pc[r] = "upgrade" => /\ frame[r].user \in DOMAIN users
                            /\ past[frame[r].user].first.legacy
                            /\ call[r].password = past[frame[r].user].first.password
                            /\ \/ r \in past[frame[r].user].overtaken
                               \/ past[frame[r].user].chosen = call[r].password

\* A user has its role, and a hash of the old form only if that is its first and nobody has
\* chosen another password.
Recorded(u) ==
    /\ users[u].role \in past[u].roles
    /\ users[u].hash.legacy => /\ users[u].hash = past[u].first
                               /\ past[u].chosen = past[u].first.password

Inv ==
    /\ TypeOK
    /\ \A k \in tokens : Genuine(k)
    /\ \A u \in DOMAIN users : Recorded(u)
    /\ \A r \in Requests : Knows(r)

\* The log knows no time to come, and no session of a login that has not ended.
Logged ==
    /\ \A s \in DOMAIN session : session[s].seen <= now
    /\ \A r \in Requests : pc[r] # "done" => r \notin DOMAIN session

\* What every step leaves to what is known of a user: a new choice overtakes every login
\* that is about to replace the user's hash.
Stable ==
    /\ DOMAIN users \subseteq DOMAIN users'
    /\ \A u \in DOMAIN users :
          /\ past[u].roles \subseteq past'[u].roles
          /\ past'[u].first = past[u].first
          /\ \/ past'[u].chosen = past[u].chosen /\ past'[u].overtaken = past[u].overtaken
             \/ Upgrading(u) \subseteq past'[u].overtaken

\* The requests but r are where they were.
Others(r) == \A q \in Requests \ {r} : pc'[q] = pc[q] /\ frame'[q] = frame[q]

-----------------------------------------------------------------------------
\* The components of a typed state.
LEMMA Parts ==
    ASSUME TypeOK
    PROVE  /\ now \in Nat
           /\ \A r \in Requests : /\ call[r] \in Call /\ pc[r] \in Pc
                                  /\ frame[r] \in Frame /\ touch[r] \in Session \cup {None}
           /\ \A u \in DOMAIN users : users[u] \in UserRow /\ past[u] \in Past /\ u \in Ids
           /\ DOMAIN past = DOMAIN users
           /\ \A s \in DOMAIN session : session[s] \in SessionRow
<1>1. \A r \in Requests : call[r] \in Call
  BY SessionAssumption DEF TypeOK
<1> QED  BY <1>1 DEF TypeOK

\* A request that ends.
LEMMA Ended ==
    ASSUME TypeOK, NEW r \in Requests, Return(r)
    PROVE  /\ pc' \in [Requests -> Pc] /\ frame' \in [Requests -> Frame]
           /\ Others(r) /\ Knows(r)' /\ pc'[r] = "done"
<1>1. pc' = [pc EXCEPT ![r] = "done"] /\ frame' = [frame EXCEPT ![r] = NoFrame]
  BY DEF Return, Goto
<1>2. NoFrame \in Frame /\ "done" \in Pc
  BY DEF NoFrame, Frame, Pc
<1>3. pc'[r] = "done" /\ frame'[r] = NoFrame
  BY <1>1 DEF TypeOK
<1>4. Knows(r)'
  BY <1>3 DEF Knows, NoFrame
<1> QED  BY <1>1, <1>2, <1>3, <1>4 DEF TypeOK, Others

\* A request that goes on to another statement.
LEMMA GoesOn ==
    ASSUME TypeOK, NEW r \in Requests, NEW step \in Pc, Goto(r, step)
    PROVE  /\ pc' \in [Requests -> Pc] /\ pc'[r] = step
           /\ \A q \in Requests \ {r} : pc'[q] = pc[q]
BY DEF TypeOK, Goto

\* A step of one request takes nothing from what the others know.
LEMMA OthersKnow ==
    ASSUME Inv, NEW r \in Requests, Others(r), Stable, call' = call, Knows(r)'
    PROVE  \A q \in Requests : Knows(q)'
<1> SUFFICES ASSUME NEW q \in Requests \ {r} PROVE Knows(q)'
  OBVIOUS
<1>1. Knows(q) /\ pc'[q] = pc[q] /\ frame'[q] = frame[q] /\ call'[q] = call[q]
  BY DEF Inv, Others
<1>2. \A k : Genuine(k) => Genuine(k)'
  BY DEF Genuine, Stable
<1>3. frame[q].token # None => Genuine(frame[q].token)
  BY <1>1 DEF Knows
<1>4. Entitled(q) => Entitled(q)'
  BY <1>1, <1>3 DEF Entitled, Stable, Genuine
<1>5. \A u \in DOMAIN users : u \in DOMAIN users' /\ past'[u].first = past[u].first
  BY DEF Stable
<1>6. pc[q] = "upgrade" => \/ q \in past'[frame[q].user].overtaken
                           \/ past'[frame[q].user].chosen = call[q].password
  BY <1>1 DEF Knows, Stable, Upgrading
<1> QED  BY <1>1, <1>2, <1>4, <1>5, <1>6 DEF Knows

\* Where the users stay, so does what is known of them.
LEMMA UsersStay ==
    ASSUME Inv, UNCHANGED <<users, past>>
    PROVE  /\ Stable
           /\ \A k : Genuine(k) => Genuine(k)'
           /\ \A u \in DOMAIN users' : Recorded(u)'
BY DEF Inv, Stable, Genuine, Recorded

\* What is left to show of a step that leaves the users and the calls alone.
LEMMA SessionKeeps ==
    ASSUME Inv, NEW r \in Requests, Others(r), Knows(r)', TypeOK',
           UNCHANGED <<users, past, call>>, \A k \in tokens' : k \in tokens \/ Genuine(k)
    PROVE  Inv'
<1>1. \A k \in tokens' : Genuine(k)'
  BY UsersStay DEF Inv
<1> QED  BY <1>1, UsersStay, OthersKnow DEF Inv

-----------------------------------------------------------------------------
\* The invariant holds at the start.
LEMMA InitInv == Init => Inv /\ Logged
<1> SUFFICES ASSUME Init PROVE Inv /\ Logged
  OBVIOUS
<1>1. PICK s \in Starts : /\ users = s.users /\ session = s.session /\ tokens = s.tokens
                          /\ past = [u \in DOMAIN s.users |->
                                        [first |-> s.users[u].hash,
                                         chosen |-> s.users[u].hash.password,
                                         overtaken |-> {},
                                         roles |-> {s.users[u].role}]]
  BY DEF Init
<1>2. WellFormed(s)
  BY AccountAssumption
<1>3. users \in [DOMAIN users -> UserRow] /\ DOMAIN users \subseteq Ids
  BY <1>1, <1>2 DEF WellFormed
<1>4. past \in [DOMAIN users -> Past]
  BY <1>1, <1>3 DEF Past, UserRow, Hash
<1>5. /\ session \in [DOMAIN session -> SessionRow] /\ DOMAIN session \subseteq Session
      /\ tokens \subseteq Token
  BY <1>1, <1>2 DEF WellFormed, Session
<1>6. /\ pc \in [Requests -> Pc] /\ call \in [Requests -> Calls] /\ now \in Nat
      /\ touch \in [Requests -> Session \cup {None}]
  BY DEF Init, Pc
<1>7. frame \in [Requests -> Frame]
  BY DEF Init, NoFrame, Frame
<1>8. TypeOK
  BY <1>3, <1>4, <1>5, <1>6, <1>7 DEF TypeOK
<1>9. \A k \in tokens : Genuine(k)
  BY <1>1, <1>2 DEF WellFormed, Genuine
<1>10. \A u \in DOMAIN users : Recorded(u)
  BY <1>1 DEF Recorded
<1>11. \A r \in Requests : Knows(r)
  BY DEF Init, Knows, NoFrame
<1>12. Logged
  BY <1>1, <1>2, SessionAssumption DEF Init, Logged, WellFormed
<1> QED  BY <1>8, <1>9, <1>10, <1>11, <1>12 DEF Inv

\* A request that passes the filters holds a token, and that of a manager where one is
\* needed.
LEMMA ArriveInv ==
    ASSUME Inv, NEW r \in Requests, Arrive(r), UNCHANGED <<users, past>>
    PROVE  Inv'
<1>0. TypeOK /\ frame[r] \in Frame
  BY Parts DEF Inv
<1>1. PICK k \in {x \in tokens : x.user = call[r].as /\ Accepted(x)} \cup {None} :
         /\ touch' = [touch EXCEPT ![r] = IF k = None THEN None ELSE k.session]
         /\ IF Admitted(call[r].kind, k)
            THEN /\ Goto(r, FirstStep[call[r].kind])
                 /\ frame' = [frame EXCEPT ![r].token = k]
            ELSE Return(r)
  BY DEF Arrive
<1>2. /\ k \in Token \cup {None} /\ call[r].kind \in Kinds
      /\ k # None => Genuine(k)
  BY <1>0, Parts DEF TypeOK, Call, Inv
<1>3. touch' \in [Requests -> Session \cup {None}]
  BY <1>0, <1>1, <1>2 DEF TypeOK, Token
<1>4. UNCHANGED <<now, session, tokens, call>>
  BY DEF Arrive
<1>5. CASE Admitted(call[r].kind, k)
  <2>1. Goto(r, FirstStep[call[r].kind]) /\ frame' = [frame EXCEPT ![r].token = k]
    BY <1>1, <1>5
  <2>2. FirstStep[call[r].kind] \in Pc
    BY <1>2 DEF Kinds, FirstStep, Pc
  <2>3. frame' \in [Requests -> Frame] /\ frame'[r].token = k /\ frame'[r].made = frame[r].made
    BY <1>0, <1>2, <2>1 DEF TypeOK, Frame
  <2>4. pc' \in [Requests -> Pc] /\ pc'[r] = FirstStep[call[r].kind]
    BY <1>0, <2>1, <2>2, GoesOn
  <2>5. Others(r)
    BY <1>0, <2>1 DEF TypeOK, Others, Goto
  <2>6. TypeOK'
    BY <1>0, <1>3, <1>4, <2>3, <2>4 DEF TypeOK
  <2>7. \/ pc'[r] = "readUser"
        \/ pc'[r] \in {"readHash", "heartbeat", "close"} /\ k # None
        \/ pc'[r] \in {"countUser", "insertUser"} /\ k # None /\ k.role = Manager
    BY <1>2, <1>5, <2>4 DEF Admitted, Kinds, FirstStep, ManagementOnly
  <2>8. Knows(r)
    BY DEF Inv
  <2>9. Knows(r)'
    BY <1>2, <2>3, <2>7, <2>8 DEF Knows, Genuine, Entitled
  <2> QED  BY <1>4, <2>5, <2>6, <2>9, SessionKeeps
<1>6. CASE ~Admitted(call[r].kind, k)
  <2>1. Return(r)
    BY <1>1, <1>6
  <2>2. TypeOK'
    BY <1>0, <1>3, <1>4, <2>1, Ended DEF TypeOK
  <2> QED  BY <1>0, <1>4, <2>1, <2>2, Ended, SessionKeeps
<1> QED  BY <1>5, <1>6

\* The log may be written at any time; who knows what stays.
LEMMA TouchInv ==
    ASSUME Inv, NEW r \in Requests, Touch(r), UNCHANGED <<users, past>>
    PROVE  Inv'
<1>0. TypeOK /\ now \in Nat
  BY Parts DEF Inv
<1>1. touch' \in [Requests -> Session \cup {None}]
  BY <1>0 DEF TypeOK, Touch
<1>2. /\ session' \in [DOMAIN session' -> SessionRow]
      /\ DOMAIN session' = DOMAIN session
  BY <1>0 DEF TypeOK, Touch, SessionRow
<1>3. TypeOK' /\ Others(r)
  BY <1>0, <1>1, <1>2 DEF TypeOK, Touch, Others
<1>4. Knows(r)'
  BY DEF Inv, Knows, Touch, Genuine, Entitled
<1> QED  BY <1>3, <1>4, SessionKeeps DEF Touch

\* A logout closes a session that is open.
LEMMA CloseInv ==
    ASSUME Inv, NEW r \in Requests, CloseSession(r), UNCHANGED <<users, past>>
    PROVE  Inv'
<1>0. TypeOK /\ now \in Nat
  BY Parts DEF Inv
<1>1. /\ session' \in [DOMAIN session' -> SessionRow]
      /\ DOMAIN session' = DOMAIN session
  <2> DEFINE s == frame[r].token.session
             row == [session[s] EXCEPT !.seen = now, !.status = "logout"]
  <2>1. session \in [DOMAIN session -> SessionRow]
    BY <1>0 DEF TypeOK
  <2>2. s \in DOMAIN session => row \in SessionRow
    BY <1>0, <2>1 DEF SessionRow
  <2>3. session' = session \/ (s \in DOMAIN session /\ session' = [session EXCEPT ![s] = row])
    BY DEF CloseSession, Active
  <2> HIDE DEF row, s
  <2> QED  BY <2>1, <2>2, <2>3
<1>2. Return(r) /\ UNCHANGED <<now, tokens, touch, call>>
  BY DEF CloseSession
<1>3. TypeOK'
  BY <1>0, <1>1, <1>2, Ended DEF TypeOK
<1> QED  BY <1>0, <1>2, <1>3, Ended, SessionKeeps

\* A renewed token has the user and role of the old one.
LEMMA HeartbeatInv ==
    ASSUME Inv, NEW r \in Requests, Heartbeat(r), UNCHANGED <<users, past>>
    PROVE  Inv'
<1>0. TypeOK /\ now \in Nat /\ TokenLife \in Nat
  BY Parts, SessionAssumption DEF Inv
<1>1. Return(r) /\ UNCHANGED <<now, session, touch, call>> /\ pc[r] = "heartbeat"
  BY DEF Heartbeat
<1>2. frame[r].token \in Token /\ Genuine(frame[r].token)
  BY <1>0, <1>1, Parts DEF Inv, Knows, Frame
<1> DEFINE new == [frame[r].token EXCEPT !.until = now + TokenLife]
<1>3. new \in Token /\ Genuine(new)
  BY <1>0, <1>2 DEF Token, Genuine
<1>4. tokens' = tokens \/ tokens' = tokens \cup {new}
  BY DEF Heartbeat
<1>5. tokens' \subseteq Token /\ \A k \in tokens' : k \in tokens \/ Genuine(k)
  BY <1>0, <1>3, <1>4 DEF TypeOK
<1>6. TypeOK'
  BY <1>0, <1>1, <1>5, Ended DEF TypeOK
<1> QED  BY <1>0, <1>1, <1>5, <1>6, Ended, SessionKeeps

\* The token that a login answers with is the one it has made.
LEMMA CreateInv ==
    ASSUME Inv, NEW r \in Requests, CreateSession(r), UNCHANGED <<users, past>>
    PROVE  Inv'
<1>0. TypeOK /\ now \in Nat
  BY Parts DEF Inv
<1>1. Return(r) /\ UNCHANGED <<now, touch, call>> /\ pc[r] = "createSession"
  BY DEF CreateSession
<1>2. frame[r].made \in Token /\ Genuine(frame[r].made)
  BY <1>0, <1>1, Parts DEF Inv, Knows, Frame
<1>3. /\ tokens' = tokens \cup {frame[r].made}
      /\ \/ session' = [s \in DOMAIN session \cup {r} |->
                           IF s = r THEN [user |-> frame[r].made.user, login |-> now,
                                          seen |-> now, status |-> "active"]
                           ELSE session[s]]
         \/ session' = session
  BY DEF CreateSession
<1>4. session' \in [DOMAIN session' -> SessionRow] /\ DOMAIN session' \subseteq Session
  BY <1>0, <1>2, <1>3 DEF TypeOK, SessionRow, Token, Session
<1>5. tokens' \subseteq Token /\ \A k \in tokens' : k \in tokens \/ Genuine(k)
  BY <1>0, <1>2, <1>3 DEF TypeOK
<1>6. TypeOK'
  BY <1>0, <1>1, <1>4, <1>5, Ended DEF TypeOK
<1> QED  BY <1>0, <1>1, <1>5, <1>6, Ended, SessionKeeps

-----------------------------------------------------------------------------
\* What is left to show of a step that writes a row of Users.
LEMMA UserKeeps ==
    ASSUME Inv, NEW r \in Requests, Others(r), Knows(r)', TypeOK', Stable,
           UNCHANGED <<tokens, call>>, \A u \in DOMAIN users' : Recorded(u)'
    PROVE  Inv'
<1>1. \A k \in tokens' : Genuine(k)'
  BY DEF Inv, Genuine, Stable
<1> QED  BY <1>1, OthersKnow DEF Inv

\* A step that ends a request without writing.
LEMMA EndInv ==
    ASSUME Inv, NEW r \in Requests, Return(r),
           UNCHANGED <<now, session, tokens, touch, call, users, past>>
    PROVE  Inv'
<1>1. TypeOK'
  BY Ended DEF Inv, TypeOK
<1> QED  BY <1>1, Ended, SessionKeeps DEF Inv

\* A step that goes on without writing to the tables.
LEMMA GoOnInv ==
    ASSUME Inv, NEW r \in Requests, NEW step \in Pc, Goto(r, step),
           frame' \in [Requests -> Frame], \A q \in Requests \ {r} : frame'[q] = frame[q],
           Knows(r)', UNCHANGED <<now, session, tokens, touch, call, users, past>>
    PROVE  Inv'
<1>1. TypeOK' /\ Others(r)
  BY GoesOn DEF Inv, TypeOK, Others
<1> QED  BY <1>1, SessionKeeps

\* A login that finds its user makes a token of the row, and will write only the hash of
\* the password it has verified.
LEMMA ReadUserInv ==
    ASSUME Inv, NEW r \in Requests, ReadUser(r)
    PROVE  Inv'
<1>0. TypeOK /\ frame[r] \in Frame /\ call[r] \in Call /\ now \in Nat /\ TokenLife \in Nat
  BY Parts, SessionAssumption DEF Inv
<1>1. UNCHANGED <<now, session, tokens, touch, call, users, past>>
  BY DEF ReadUser, sessionVars
<1>2. CASE Return(r)
  BY <1>1, <1>2, EndInv
<1>3. ASSUME NEW u \in DOMAIN users, Verifies(users[u].hash, call[r].password),
             Goto(r, IF OldForm(users[u].hash) THEN "upgrade" ELSE "createSession"),
             frame' = [frame EXCEPT ![r].user = u, ![r].made = NewToken(u, r)]
      PROVE  Inv'
  <2>1. users[u] \in UserRow /\ u \in Ids /\ Recorded(u)
    BY <1>0, Parts DEF Inv
  <2>2. NewToken(u, r) \in Token /\ Genuine(NewToken(u, r)) /\ NewToken(u, r) # None
    BY <1>0, <2>1, SessionAssumption
    DEF NewToken, Token, UserRow, Session, Genuine, Recorded
  <2>3. /\ frame' \in [Requests -> Frame] /\ \A q \in Requests \ {r} : frame'[q] = frame[q]
        /\ frame'[r].user = u /\ frame'[r].made = NewToken(u, r)
        /\ frame'[r].token = frame[r].token
    BY <1>0, <1>3, <2>1, <2>2 DEF TypeOK, Frame
  <2> DEFINE step == IF OldForm(users[u].hash) THEN "upgrade" ELSE "createSession"
  <2>4. step \in Pc /\ Goto(r, step) /\ step \in {"upgrade", "createSession"}
    BY <1>3 DEF Pc
  <2>5. pc'[r] = step
    BY <1>0, <2>4, GoesOn
  <2>6. frame[r].token # None => Genuine(frame[r].token)
    BY DEF Inv, Knows
  <2>7. \A k : Genuine(k)' <=> Genuine(k)
    BY <1>1 DEF Genuine
  <2>8. step = "upgrade" => /\ past[u].first.legacy
                            /\ call[r].password = past[u].first.password
                            /\ past[u].chosen = call[r].password
    BY <1>3, <2>1 DEF OldForm, Recorded, Verifies
  <2>9. Knows(r)'
    BY <1>1, <2>2, <2>3, <2>4, <2>5, <2>6, <2>7, <2>8 DEF Knows
  <2> HIDE DEF step
  <2> QED  BY <1>1, <2>3, <2>4, <2>9, GoOnInv
<1> QED  BY <1>2, <1>3 DEF ReadUser

\* Who changes a password holds a token of that user.
LEMMA ReadHashInv ==
    ASSUME Inv, NEW r \in Requests, ReadHash(r)
    PROVE  Inv'
<1>0. TypeOK /\ Knows(r) /\ pc[r] = "readHash"
  BY DEF Inv, ReadHash
<1>1. UNCHANGED <<now, session, tokens, touch, call, users, past>>
  BY DEF ReadHash, sessionVars
<1>2. CASE Return(r)
  BY <1>1, <1>2, EndInv
<1>3. CASE /\ frame[r].token.user = call[r].user /\ call[r].user \in DOMAIN users
           /\ Goto(r, "setHash") /\ frame' = frame
  <2>1. pc'[r] = "setHash" /\ "setHash" \in Pc
    BY <1>0, <1>3, GoesOn DEF Pc
  <2>2. Knows(r)'
    BY <1>0, <1>1, <1>3, <2>1 DEF Knows, Genuine, Entitled
  <2> QED  BY <1>0, <1>1, <1>3, <2>1, <2>2, GoOnInv DEF TypeOK
<1> QED  BY <1>2, <1>3 DEF ReadHash

\* The user that management writes is there.
LEMMA CountUserInv ==
    ASSUME Inv, NEW r \in Requests, CountUser(r)
    PROVE  Inv'
<1>0. TypeOK /\ Knows(r) /\ pc[r] = "countUser"
  BY DEF Inv, CountUser
<1>1. UNCHANGED <<now, session, tokens, touch, call, users, past>>
  BY DEF CountUser, sessionVars
<1>2. CASE Return(r)
  BY <1>1, <1>2, EndInv
<1>3. ASSUME NEW step \in {"setHash", "setInfo"}, call[r].user \in DOMAIN users,
             Goto(r, step), frame' = frame
      PROVE  Inv'
  <2>1. pc'[r] = step /\ step \in Pc
    BY <1>0, <1>3, GoesOn DEF Pc
  <2>2. Knows(r)'
    BY <1>0, <1>1, <1>3, <2>1 DEF Knows, Genuine, Entitled
  <2> QED  BY <1>0, <1>1, <1>3, <2>1, <2>2, GoOnInv DEF TypeOK
<1> QED  BY <1>2, <1>3 DEF CountUser

-----------------------------------------------------------------------------
\* A new hash has the password it is made of, and never the old form.
LEMMA HashedIs == \A p : Hashed(p).password = p /\ ~Hashed(p).legacy
BY DEF Hashed

\* What each statement that writes a user leaves in its row and in its history.
LEMMA UpgradeWrites ==
    ASSUME Inv, NEW r \in Requests, Upgrade(r)
    PROVE  /\ past' = past /\ users' \in [DOMAIN users -> UserRow]
           /\ \A u \in DOMAIN users :
                 /\ users'[u].role = users[u].role /\ users'[u].email = users[u].email
                 /\ \/ users'[u].hash = users[u].hash
                    \/ /\ u = frame[r].user /\ pc[r] = "upgrade" /\ past[u].first.legacy
                       /\ users'[u].hash = Hashed(past[u].first.password)
                       /\ users'[u].hash = Hashed(call[r].password)
                       /\ r \in past[u].overtaken \/ past[u].chosen = call[r].password
<1>1. /\ TypeOK /\ Knows(r) /\ pc[r] = "upgrade" /\ past' = past
      /\ call[r].password \in Passwords
  BY Parts DEF Inv, Upgrade, Call
<1>2. Hashed(call[r].password) \in Hash
  BY <1>1 DEF Hashed, Hash
<1>3. \/ users' = users
      \/ users' = [users EXCEPT ![frame[r].user].hash = Hashed(call[r].password)]
  BY DEF Upgrade
<1>4. users' \in [DOMAIN users -> UserRow]
  BY <1>1, <1>2, <1>3 DEF TypeOK, UserRow
<1>5. /\ past[frame[r].user].first.legacy
      /\ call[r].password = past[frame[r].user].first.password
      /\ \/ r \in past[frame[r].user].overtaken
         \/ past[frame[r].user].chosen = call[r].password
  BY <1>1 DEF Knows
<1>6. ASSUME NEW u \in DOMAIN users
      PROVE  /\ users'[u].role = users[u].role /\ users'[u].email = users[u].email
             /\ \/ users'[u].hash = users[u].hash
                \/ u = frame[r].user /\ users'[u].hash = Hashed(call[r].password)
  <2>1. users[u] \in UserRow
    BY <1>1, <1>6, Parts
  <2> QED  BY <1>1, <1>3, <1>6, <2>1 DEF TypeOK, UserRow
<1> QED  BY <1>1, <1>4, <1>5, <1>6

LEMMA SetHashWrites ==
    ASSUME Inv, NEW r \in Requests, SetHash(r)
    PROVE  /\ users' \in [DOMAIN users -> UserRow] /\ past' \in [DOMAIN users -> Past]
           /\ \A u \in DOMAIN users :
                 /\ users'[u].role = users[u].role /\ users'[u].email = users[u].email
                 /\ past'[u].roles = past[u].roles /\ past'[u].first = past[u].first
                 /\ \/ users'[u].hash = users[u].hash /\ past'[u] = past[u]
                    \/ /\ u = call[r].user /\ users'[u].hash = Hashed(call[r].new)
                       /\ past'[u].chosen = call[r].new
                       /\ past'[u].overtaken = Upgrading(u)
<1>1. TypeOK /\ call[r].new \in Passwords
  BY Parts DEF Inv, Call
<1>2. /\ users' = [users EXCEPT ![call[r].user].hash = Hashed(call[r].new)]
      /\ past' = [past EXCEPT ![call[r].user].chosen = call[r].new,
                              ![call[r].user].overtaken = Upgrading(call[r].user)]
  BY DEF SetHash
<1>3. Hashed(call[r].new) \in Hash /\ Upgrading(call[r].user) \subseteq Requests
  BY <1>1 DEF Hashed, Hash, Upgrading
<1>4. users' \in [DOMAIN users -> UserRow]
  BY <1>1, <1>2, <1>3 DEF TypeOK, UserRow
<1>5. past' \in [DOMAIN users -> Past]
  BY <1>1, <1>2, <1>3 DEF TypeOK, Past
<1>6. ASSUME NEW u \in DOMAIN users
      PROVE  /\ users'[u].role = users[u].role /\ users'[u].email = users[u].email
             /\ past'[u].roles = past[u].roles /\ past'[u].first = past[u].first
             /\ \/ users'[u].hash = users[u].hash /\ past'[u] = past[u]
                \/ /\ u = call[r].user /\ users'[u].hash = Hashed(call[r].new)
                   /\ past'[u].chosen = call[r].new
                   /\ past'[u].overtaken = Upgrading(u)
  <2>1. users[u] \in UserRow /\ past[u] \in Past /\ u \in DOMAIN past
    BY <1>1, <1>6, Parts
  <2> QED  BY <1>2, <1>6, <2>1 DEF UserRow, Past
<1> QED  BY <1>4, <1>5, <1>6

LEMMA SetInfoWrites ==
    ASSUME Inv, NEW r \in Requests, SetInfo(r)
    PROVE  /\ users' \in [DOMAIN users -> UserRow] /\ past' \in [DOMAIN users -> Past]
           /\ \A u \in DOMAIN users :
                 /\ users'[u].hash = users[u].hash
                 /\ past'[u].first = past[u].first /\ past'[u].chosen = past[u].chosen
                 /\ past'[u].overtaken = past[u].overtaken
                 /\ past[u].roles \subseteq past'[u].roles
                 /\ \/ users'[u].email = users[u].email /\ users'[u].role = users[u].role
                    \/ users'[u].role \in past'[u].roles /\ u = call[r].user
<1>1. TypeOK /\ call[r].email \in Emails /\ call[r].role \in Roles
  BY Parts DEF Inv, Call
<1>2. /\ users' = [users EXCEPT ![call[r].user].email = call[r].email,
                                ![call[r].user].role = call[r].role]
      /\ past' = [past EXCEPT ![call[r].user].roles = @ \cup {call[r].role}]
  BY DEF SetInfo
<1>3. users' \in [DOMAIN users -> UserRow]
  BY <1>1, <1>2 DEF TypeOK, UserRow
<1>4. past' \in [DOMAIN users -> Past]
  BY <1>1, <1>2 DEF TypeOK, Past
<1>5. ASSUME NEW u \in DOMAIN users
      PROVE  /\ users'[u].hash = users[u].hash
             /\ past'[u].first = past[u].first /\ past'[u].chosen = past[u].chosen
             /\ past'[u].overtaken = past[u].overtaken
             /\ past[u].roles \subseteq past'[u].roles
             /\ \/ users'[u].email = users[u].email /\ users'[u].role = users[u].role
                \/ users'[u].role \in past'[u].roles /\ u = call[r].user
  <2>1. users[u] \in UserRow /\ past[u] \in Past /\ u \in DOMAIN past
    BY <1>1, <1>5, Parts
  <2> QED  BY <1>2, <1>5, <2>1 DEF UserRow, Past
<1> QED  BY <1>3, <1>4, <1>5

\* A registration adds one user, and writes no row that is there.
LEMMA InsertUserWrites ==
    ASSUME Inv, NEW r \in Requests, InsertUser(r)
    PROVE  \E u \in Ids \ DOMAIN users :
              /\ DOMAIN users' = DOMAIN users \cup {u}
              /\ users' \in [DOMAIN users' -> UserRow] /\ past' \in [DOMAIN users' -> Past]
              /\ users'[u].hash.password = past'[u].chosen
              /\ Recorded(u)'
              /\ \A v \in DOMAIN users : users'[v] = users[v] /\ past'[v] = past[v]
<1>1. /\ TypeOK /\ call[r].email \in Emails /\ call[r].role \in Roles
      /\ call[r].new \in Passwords
  BY Parts DEF Inv, Call
<1> DEFINE row == [hash |-> Hashed(call[r].new), email |-> call[r].email,
                   role |-> call[r].role]
           old == [first |-> row.hash, chosen |-> call[r].new, overtaken |-> {},
                   roles |-> {row.role}]
<1>2. PICK u \in Ids \ DOMAIN users :
         /\ users' = [v \in DOMAIN users \cup {u} |-> IF v = u THEN row ELSE users[v]]
         /\ past' = [v \in DOMAIN users \cup {u} |-> IF v = u THEN old ELSE past[v]]
  BY DEF InsertUser
<1>3. row \in UserRow /\ old \in Past
  BY <1>1 DEF UserRow, Past, Hashed, Hash
<1>4. /\ row.hash.password = old.chosen /\ row.hash = old.first /\ row.role \in old.roles
      /\ ~row.hash.legacy
  BY DEF Hashed
<1> HIDE DEF row, old
<1>5. DOMAIN users' = DOMAIN users \cup {u} /\ users'[u] = row /\ past'[u] = old
  BY <1>2
<1>6. users' \in [DOMAIN users' -> UserRow] /\ past' \in [DOMAIN users' -> Past]
  BY <1>1, <1>2, <1>3 DEF TypeOK
<1>7. \A v \in DOMAIN users : users'[v] = users[v] /\ past'[v] = past[v]
  BY <1>2
<1>8. Recorded(u)'
  BY <1>4, <1>5 DEF Recorded
<1> QED  BY <1>4, <1>5, <1>6, <1>7, <1>8

LEMMA UpgradeInv ==
    ASSUME Inv, NEW r \in Requests, Upgrade(r)
    PROVE  Inv'
<1>0. TypeOK /\ Knows(r) /\ pc[r] = "upgrade"
  BY DEF Inv, Upgrade
<1>1. UNCHANGED <<now, session, tokens, touch, call, frame, past>> /\ Goto(r, "createSession")
  BY DEF Upgrade, sessionVars
<1>2. /\ users' \in [DOMAIN users -> UserRow] /\ DOMAIN users' = DOMAIN users
      /\ \A u \in DOMAIN users : /\ users'[u].role = users[u].role
                                 /\ \/ users'[u].hash = users[u].hash
                                    \/ ~users'[u].hash.legacy
  BY UpgradeWrites, HashedIs
<1>3. Stable /\ \A u \in DOMAIN users' : Recorded(u)'
  BY <1>1, <1>2 DEF Inv, Stable, Recorded
<1>4. pc' \in [Requests -> Pc] /\ pc'[r] = "createSession" /\ Others(r)
  BY <1>0, <1>1, GoesOn DEF Pc, Others
<1>5. TypeOK'
  BY <1>0, <1>1, <1>2, <1>4 DEF TypeOK
<1>6. Knows(r)'
  BY <1>0, <1>1, <1>2, <1>4 DEF Knows, Genuine
<1> QED  BY <1>1, <1>3, <1>4, <1>5, <1>6, UserKeeps

LEMMA SetHashInv ==
    ASSUME Inv, NEW r \in Requests, SetHash(r)
    PROVE  Inv'
<1>1. UNCHANGED <<now, session, tokens, touch, call>> /\ Return(r) /\ TypeOK
  BY DEF SetHash, sessionVars, Inv
<1>2. /\ users' \in [DOMAIN users -> UserRow] /\ past' \in [DOMAIN users -> Past]
      /\ DOMAIN users' = DOMAIN users
      /\ \A u \in DOMAIN users :
            /\ users'[u].role = users[u].role
            /\ past'[u].roles = past[u].roles /\ past'[u].first = past[u].first
            /\ \/ users'[u].hash = users[u].hash /\ past'[u] = past[u]
               \/ ~users'[u].hash.legacy /\ past'[u].overtaken = Upgrading(u)
  BY SetHashWrites, HashedIs
<1>3. Stable /\ \A u \in DOMAIN users' : Recorded(u)'
  BY <1>2 DEF Inv, Stable, Recorded
<1>4. TypeOK'
  BY <1>1, <1>2, Ended DEF TypeOK
<1> QED  BY <1>1, <1>3, <1>4, Ended, UserKeeps

LEMMA SetInfoInv ==
    ASSUME Inv, NEW r \in Requests, SetInfo(r)
    PROVE  Inv'
<1>1. UNCHANGED <<now, session, tokens, touch, call>> /\ Return(r) /\ TypeOK
  BY DEF SetInfo, sessionVars, Inv
<1>2. /\ users' \in [DOMAIN users -> UserRow] /\ past' \in [DOMAIN users -> Past]
      /\ DOMAIN users' = DOMAIN users
      /\ \A u \in DOMAIN users :
            /\ users'[u].hash = users[u].hash /\ past'[u].first = past[u].first
            /\ past'[u].chosen = past[u].chosen /\ past'[u].overtaken = past[u].overtaken
            /\ past[u].roles \subseteq past'[u].roles
            /\ users'[u].role = users[u].role \/ users'[u].role \in past'[u].roles
  BY SetInfoWrites
<1>3. Stable /\ \A u \in DOMAIN users' : Recorded(u)'
  BY <1>2 DEF Inv, Stable, Recorded
<1>4. TypeOK'
  BY <1>1, <1>2, Ended DEF TypeOK
<1> QED  BY <1>1, <1>3, <1>4, Ended, UserKeeps

LEMMA InsertUserInv ==
    ASSUME Inv, NEW r \in Requests, InsertUser(r)
    PROVE  Inv'
<1>1. UNCHANGED <<now, session, tokens, touch, call>> /\ Return(r) /\ TypeOK
  BY DEF InsertUser, sessionVars, Inv
<1>2. PICK u \in Ids \ DOMAIN users :
         /\ DOMAIN users' = DOMAIN users \cup {u}
         /\ users' \in [DOMAIN users' -> UserRow] /\ past' \in [DOMAIN users' -> Past]
         /\ Recorded(u)'
         /\ \A v \in DOMAIN users : users'[v] = users[v] /\ past'[v] = past[v]
  BY InsertUserWrites
<1>3. Stable /\ \A v \in DOMAIN users' : Recorded(v)'
  BY <1>2 DEF Inv, Stable, Recorded
<1>4. DOMAIN users' \subseteq Ids
  BY <1>1, <1>2 DEF TypeOK
<1>5. TypeOK'
  BY <1>1, <1>2, <1>4, Ended DEF TypeOK
<1> QED  BY <1>1, <1>3, <1>5, Ended, UserKeeps

LEMMA AbortInv ==
    ASSUME Inv, NEW r \in Requests, Abort(r)
    PROVE  Inv'
BY EndInv DEF Abort, sessionVars

LEMMA TickInv ==
    ASSUME Inv, Tick, UNCHANGED <<users, past>>
    PROVE  Inv'
<1>1. TypeOK'
  BY DEF Tick, Inv, TypeOK
<1> QED  BY <1>1 DEF Tick, Inv, Genuine, Recorded, Knows, Entitled

\* After a restart nobody knows anything, and the tables are as they were.
LEMMA RestartInv ==
    ASSUME Inv, Restart
    PROVE  Inv'
<1>0. TypeOK /\ UNCHANGED <<now, session, call, users, past>> /\ tokens' \subseteq tokens
  BY DEF Inv, Restart
<1>1. \A r \in Requests : pc'[r] \in {"arrive", "done"} /\ frame'[r] = NoFrame
  BY DEF Restart
<1>2. /\ pc' \in [Requests -> Pc] /\ frame' \in [Requests -> Frame]
      /\ touch' \in [Requests -> Session \cup {None}]
  BY DEF Restart, Pc, Frame, NoFrame
<1>3. TypeOK'
  BY <1>0, <1>2 DEF TypeOK
<1>4. \A r \in Requests : Knows(r)'
  BY <1>1 DEF Knows, NoFrame
<1> QED  BY <1>0, <1>3, <1>4 DEF Inv, Genuine, Recorded

\* Every step keeps the invariant.
LEMMA StepInv == Inv /\ [Next]_vars => Inv'
<1> SUFFICES ASSUME Inv, [Next]_vars PROVE Inv'
  OBVIOUS
<1>1. ASSUME NEW r \in Requests, SessionStep(r), UNCHANGED <<users, past>>
      PROVE  Inv'
  BY <1>1, ArriveInv, TouchInv, CloseInv, HeartbeatInv, CreateInv DEF SessionStep
<1>2. ASSUME NEW r \in Requests, AccountStep(r)
      PROVE  Inv'
  BY <1>2, ReadUserInv, UpgradeInv, ReadHashInv, CountUserInv, SetHashInv, SetInfoInv,
     InsertUserInv, AbortInv DEF AccountStep
<1>3. CASE UNCHANGED vars
  BY <1>3 DEF vars, Inv, TypeOK, Genuine, Recorded, Knows, Entitled
<1> QED  BY <1>1, <1>2, <1>3, TickInv, RestartInv DEF Next

-----------------------------------------------------------------------------
\* What a step may do to the log: the time of a session goes up to now, a closed session
\* stays, and only a login that ends adds its own.
Written ==
    /\ \A s \in DOMAIN session :
          /\ s \in DOMAIN session'
          /\ session'[s] = session[s] \/ session[s].status = "active"
          /\ session'[s].seen \in {session[s].seen, now}
    /\ \A s \in DOMAIN session' \ DOMAIN session :
          s \in Requests /\ pc'[s] = "done" /\ session'[s].seen = now

\* The steps that write to the log write so.
LEMMA LogSteps ==
    ASSUME Inv, Logged, NEW r \in Requests, Touch(r) \/ CloseSession(r) \/ CreateSession(r)
    PROVE  Written /\ now' = now
<1>1. \A s \in DOMAIN session : session[s] \in SessionRow
  BY Parts DEF Inv
<1>2. CASE Touch(r)
  BY <1>1, <1>2 DEF Touch, Active, Written, SessionRow
<1>3. CASE CloseSession(r)
  BY <1>1, <1>3 DEF CloseSession, Active, Written, SessionRow
<1>4. CASE CreateSession(r)
  <2>1. pc'[r] = "done" /\ pc[r] # "done"
    BY <1>4, Ended DEF CreateSession, Inv
  <2>2. r \notin DOMAIN session
    BY <2>1 DEF Logged
  <2> QED  BY <1>4, <2>1, <2>2 DEF CreateSession, Written
<1> QED  BY <1>2, <1>3, <1>4

\* Every other step leaves the log alone.
LEMMA StepLogs ==
    ASSUME Inv, Logged, [Next]_vars
    PROVE  Written \/ session' = session
<1>1. ASSUME NEW r \in Requests, SessionStep(r)
      PROVE  Written \/ session' = session
  BY <1>1, LogSteps DEF SessionStep, Arrive, Heartbeat
<1>2. ASSUME NEW r \in Requests, AccountStep(r)
      PROVE  session' = session
  BY <1>2 DEF AccountStep, ReadUser, Upgrade, ReadHash, CountUser, SetHash, SetInfo,
              InsertUser, Abort, sessionVars
<1> QED  BY <1>1, <1>2 DEF Next, Tick, Restart, vars

\* No step takes a request back from its end, nor the time back.
LEMMA NoneRevived ==
    ASSUME Inv, [Next]_vars
    PROVE  /\ now \in Nat /\ now' \in Nat /\ now' >= now
           /\ \A r \in Requests : pc[r] = "done" => pc'[r] = "done"
<1>0. TypeOK /\ now \in Nat
  BY Parts DEF Inv
<1>1. ASSUME NEW r \in Requests, SessionStep(r)
      PROVE  now' = now /\ \A q \in Requests : pc[q] = "done" => pc'[q] = "done"
  BY <1>0, <1>1 DEF SessionStep, Arrive, Touch, CloseSession, Heartbeat, CreateSession,
                    Goto, Return, TypeOK
<1>2. ASSUME NEW r \in Requests, AccountStep(r)
      PROVE  now' = now /\ \A q \in Requests : pc[q] = "done" => pc'[q] = "done"
  BY <1>0, <1>2 DEF AccountStep, ReadUser, Upgrade, ReadHash, CountUser, SetHash, SetInfo,
                    InsertUser, Abort, Goto, Return, sessionVars, TypeOK
<1> QED  BY <1>0, <1>1, <1>2 DEF Next, Tick, Restart, vars

LEMMA StepLogged == Inv /\ Logged /\ [Next]_vars => Logged'
<1> SUFFICES ASSUME Inv, Logged, [Next]_vars PROVE Logged'
  OBVIOUS
<1>1. /\ now \in Nat /\ now' \in Nat /\ now' >= now
      /\ \A r \in Requests : pc'[r] # "done" => pc[r] # "done"
  BY NoneRevived
<1>2. /\ Written \/ session' = session
      /\ \A s \in DOMAIN session : session[s].seen \in Nat /\ session[s].seen <= now
  BY StepLogs, Parts DEF Inv, SessionRow, Logged
<1> QED  BY <1>1, <1>2 DEF Logged, Written

-----------------------------------------------------------------------------
\* The variables keep their types: the tables of users and sessions, the tokens, and the
\* local variables of every request and goroutine.
THEOREM TypeCorrect == Spec => []TypeOK
<1>1. Init => Inv
  BY InitInv
<1>2. Inv => TypeOK
  BY DEF Inv
<1> QED  BY <1>1, <1>2, StepInv, PTL DEF Spec

\* The time of a session never goes back and a closed session never changes, whichever
\* order goroutines, logouts and heartbeats come in.
THEOREM LogHolds == Spec => ClosedStaysClosed
<1>1. Init => Inv /\ Logged
  BY InitInv
<1>2. ASSUME Inv, Logged, [Next]_vars
      PROVE  \A s \in DOMAIN session :
                /\ s \in DOMAIN session'
                /\ session'[s].seen >= session[s].seen
                /\ session[s].status = "logout" => session'[s] = session[s]
  <2>1. \A s \in DOMAIN session : /\ session[s].seen \in Nat
                                  /\ session[s].seen <= now /\ now \in Nat
    BY <1>2, Parts DEF Inv, Logged, SessionRow
  <2> QED  BY <1>2, <2>1, StepLogs DEF Written
<1> QED  BY <1>1, <1>2, StepInv, StepLogged, PTL DEF Spec, ClosedStaysClosed

-----------------------------------------------------------------------------
\* How a user may come to another password than the one chosen last.
Overwritten(u) ==
    /\ u \in DOMAIN users
    /\ \/ Lost(u) /\ users'[u].hash = users[u].hash
       \/ \E r \in past[u].overtaken :
             /\ pc[r] = "upgrade" /\ pc'[r] = "createSession" /\ frame[r].user = u
             /\ past[u].first.legacy
             /\ users'[u].hash = Hashed(call[r].password)

LostSo == \A u \in DOMAIN users' : Lost(u)' => Overwritten(u)

\* A login that replaces a hash of the old form loses the password chosen last only if that
\* was chosen since it read the row.
LEMMA UpgradeLoses ==
    ASSUME Inv, NEW r \in Requests, Upgrade(r)
    PROVE  LostSo
<1>1. pc[r] = "upgrade" /\ pc'[r] = "createSession" /\ past' = past
  BY GoesOn DEF Upgrade, Inv, Pc
<1> SUFFICES ASSUME NEW u \in DOMAIN users', Lost(u)' PROVE Overwritten(u)
  BY DEF LostSo
<1>2. u \in DOMAIN users
  BY UpgradeWrites
<1>3. CASE users'[u].hash = users[u].hash
  BY <1>1, <1>2, <1>3 DEF Lost, Overwritten
<1>4. CASE /\ u = frame[r].user /\ past[u].first.legacy
           /\ users'[u].hash = Hashed(call[r].password)
           /\ r \in past[u].overtaken \/ past[u].chosen = call[r].password
  <2>1. users'[u].hash.password = call[r].password
    BY <1>4, HashedIs
  <2>2. r \in past[u].overtaken
    BY <1>1, <1>4, <2>1 DEF Lost
  <2> QED  BY <1>1, <1>2, <1>4, <2>2 DEF Overwritten
<1> QED  BY <1>2, <1>3, <1>4, UpgradeWrites

\* The other statements lose nothing.
LEMMA StepLoses ==
    ASSUME Inv, [Next]_vars
    PROVE  LostSo
<1>1. ASSUME UNCHANGED <<users, past>> PROVE LostSo
  BY <1>1 DEF LostSo, Lost, Overwritten
<1>2. ASSUME NEW r \in Requests, SetHash(r) PROVE LostSo
  BY <1>2, SetHashWrites, HashedIs DEF LostSo, Lost, Overwritten
<1>3. ASSUME NEW r \in Requests, SetInfo(r) PROVE LostSo
  BY <1>3, SetInfoWrites DEF LostSo, Lost, Overwritten
<1>4. ASSUME NEW r \in Requests, InsertUser(r) PROVE LostSo
  BY <1>4, InsertUserWrites DEF LostSo, Lost, Overwritten
<1>5. ASSUME NEW r \in Requests, AccountStep(r) PROVE LostSo
  BY <1>1, <1>2, <1>3, <1>4, <1>5, UpgradeLoses
  DEF AccountStep, ReadUser, ReadHash, CountUser, Abort
<1> QED  BY <1>1, <1>5 DEF Next, Restart, vars

\* However logins, changes and renewals of a password mix, the one in force is the last
\* chosen, unless a login that had read a hash of the old form before the choice has
\* overwritten it since.
THEOREM LastChoiceHolds == Spec => PasswordInForce
<1>1. Init => Inv
  BY InitInv
<1>2. ASSUME Inv, [Next]_vars
      PROVE  \A u \in DOMAIN users' : Lost(u)' =>
                /\ u \in DOMAIN users
                /\ \/ Lost(u) /\ users'[u].hash = users[u].hash
                   \/ \E r \in past[u].overtaken :
                         /\ pc[r] = "upgrade" /\ pc'[r] = "createSession" /\ frame[r].user = u
                         /\ past[u].first.legacy
                         /\ users'[u].hash = Hashed(call[r].password)
  BY <1>2, StepLoses DEF LostSo, Overwritten
<1> QED  BY <1>1, <1>2, StepInv, PTL DEF Spec, PasswordInForce

\* Whoever writes a user was, at some time, entitled to.
THEOREM RightsHold == Spec => OnlyEntitled
<1> DEFINE Rights(u) ==
       /\ \/ u \in DOMAIN users /\ users'[u].email = users[u].email
                                /\ users'[u].role = users[u].role
          \/ \E r \in Requests : pc[r] \in {"insertUser", "setInfo"} /\ Entitled(r)
       /\ \/ u \notin DOMAIN users
          \/ users'[u].hash = users[u].hash
          \/ \E r \in Requests : /\ pc[r] = "setHash"
                                 /\ Entitled(r) \/ frame[r].token.user = u
          \/ \E r \in Requests : /\ pc[r] = "upgrade" /\ frame[r].user = u
                                 /\ users'[u].hash = Hashed(past[u].first.password)
<1>1. ASSUME UNCHANGED users PROVE \A u \in DOMAIN users' : Rights(u)
  BY <1>1
<1>2. ASSUME Inv, NEW r \in Requests, Upgrade(r) PROVE \A u \in DOMAIN users' : Rights(u)
  BY <1>2, UpgradeWrites
<1>3. ASSUME Inv, NEW r \in Requests, SetHash(r) PROVE \A u \in DOMAIN users' : Rights(u)
  <2>1. pc[r] = "setHash" /\ (Entitled(r) \/ frame[r].token.user = call[r].user)
    BY <1>3 DEF SetHash, Inv, Knows
  <2> QED  BY <1>3, <2>1, SetHashWrites
<1>4. ASSUME Inv, NEW r \in Requests, SetInfo(r) PROVE \A u \in DOMAIN users' : Rights(u)
  <2>1. pc[r] = "setInfo" /\ Entitled(r)
    BY <1>4 DEF SetInfo, Inv, Knows
  <2> QED  BY <1>4, <2>1, SetInfoWrites
<1>5. ASSUME Inv, NEW r \in Requests, InsertUser(r)
      PROVE  \A u \in DOMAIN users' : Rights(u)
  <2>1. pc[r] = "insertUser" /\ Entitled(r)
    BY <1>5 DEF InsertUser, Inv, Knows
  <2> QED  BY <1>5, <2>1, InsertUserWrites
<1>6. ASSUME Inv, [Next]_vars PROVE \A u \in DOMAIN users' : Rights(u)
  <2>1. ASSUME NEW r \in Requests, AccountStep(r) PROVE \A u \in DOMAIN users' : Rights(u)
    <3> HIDE DEF Rights
    <3> QED  BY <1>1, <1>2, <1>3, <1>4, <1>5, <1>6, <2>1
             DEF AccountStep, ReadUser, ReadHash, CountUser, Abort
  <2> HIDE DEF Rights
  <2> QED  BY <1>1, <1>6, <2>1 DEF Next, Restart, vars
<1>7. Init => Inv
  BY InitInv
<1> QED  BY <1>6, <1>7, StepInv, PTL DEF Spec, OnlyEntitled
=============================================================================
