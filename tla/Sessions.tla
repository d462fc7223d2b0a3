------------------------------ MODULE Sessions ------------------------------
(***************************************************************************)
(* Who is at work: the token a client holds, the filters every request     *)
(* passes (main.go), and the log of sessions (UserSession.go,              *)
(* UserHeartbeat.go).  A token is all that is looked at to admit a         *)
(* request; the log only records, partly from goroutines that outlive the  *)
(* request which started them.                                             *)
(***************************************************************************)
EXTENDS Naturals

CONSTANTS
    Requests,     \* HTTP requests; a login names its session after itself
    OldSessions,  \* sessions of earlier logins
    Ids,          \* identifiers the table Users may hand out
    Emails, Passwords, Roles,
    Manager,      \* the role Udirdlaga
    Calls,        \* what a request may ask for
    None,
    TokenLife,    \* authTokenDuration
    LastMoment    \* bound on time

Kinds    == {"Login", "Change", "Renew", "Register", "Info", "Heartbeat", "Logout"}
Session  == Requests \cup OldSessions
Token    == [user : Ids, session : Session, role : Roles, until : Nat]
SessionRow == [user : Ids, login : Nat, seen : Nat, status : {"active", "logout"}]

\* One shape for every call; a kind ignores the fields it has no use for.  A client
\* sends a token of the user it works for, or none.
Call == [kind : Kinds, as : Ids, user : Ids, email : Emails, password : Passwords,
         new : Passwords, role : Roles]

ASSUME SessionAssumption ==
    /\ Calls \subseteq Call
    /\ TokenLife \in Nat /\ LastMoment \in Nat /\ Manager \in Roles
    /\ None \notin Session /\ None \notin Token
    /\ Requests \cap OldSessions = {}

VARIABLES
    now,
    session,  \* the log of sessions
    tokens,   \* the tokens clients have been given
    touch,    \* the session that a request's background goroutine will touch
    call, pc,
    frame     \* the token of a request; of a login the row it read and the new token

sessionVars == <<now, session, tokens, touch>>

\* The statement each handler begins with.
FirstStep == [Login |-> "readUser", Change |-> "readHash", Renew |-> "countUser",
              Register |-> "insertUser", Info |-> "countUser", Heartbeat |-> "heartbeat",
              Logout |-> "close"]

Accepted(k) == now < k.until

RenewAndInfo   == {"Renew", "Info"}
ManagementOnly == {"Register", "Renew", "Info"}

Admitted(kind, k) ==
    \/ kind = "Login"
    \/ k # None /\ (kind \in ManagementOnly => k.role = Manager)

Goto(r, step) == pc' = [pc EXCEPT ![r] = step]

NoFrame == [token |-> None, user |-> None, made |-> None]

\* The answer is sent, and the local variables are gone.
Return(r) == Goto(r, "done") /\ frame' = [frame EXCEPT ![r] = NoFrame]

\* The filters, which also start the goroutine that touches the session.
Arrive(r) ==
    /\ pc[r] = "arrive"
    /\ \E k \in {x \in tokens : x.user = call[r].as /\ Accepted(x)} \cup {None} :
          /\ touch' = [touch EXCEPT ![r] = IF k = None THEN None ELSE k.session]
          /\ IF Admitted(call[r].kind, k)
             THEN /\ Goto(r, FirstStep[call[r].kind])
                  /\ frame' = [frame EXCEPT ![r].token = k]
             ELSE Return(r)
    /\ UNCHANGED <<now, session, tokens, call>>

InLog(s)  == s \in DOMAIN session
Active(s) == s \in DOMAIN session /\ session[s].status = "active"

\* The UPDATE of the goroutine, which may come at any time, or fail.
Touch(r) ==
    /\ touch[r] # None
    /\ touch' = [touch EXCEPT ![r] = None]
    /\ \/ /\ Active(touch[r])
          /\ session' = [session EXCEPT ![touch[r]].seen = now]
       \/ session' = session
    /\ UNCHANGED <<now, tokens, call, pc, frame>>

CloseAsClosed(r) ==
    /\ pc[r] = "close"
    /\ LET s == frame[r].token.session IN
       session' = IF Accepted(frame[r].token) /\ Active(s)
                  THEN [session EXCEPT ![s].seen = now, ![s].status = "closed"]
                  ELSE session
    /\ Return(r)
    /\ UNCHANGED <<now, tokens, touch, call>>

\* The handler reads the token again, which may have run out since the filter.
CloseSession(r) ==
    /\ pc[r] = "close"
    /\ LET s == frame[r].token.session IN
       session' = IF Accepted(frame[r].token) /\ Active(s)
                  THEN [session EXCEPT ![s].seen = now, ![s].status = "logout"]
                  ELSE session
    /\ Return(r)
    /\ UNCHANGED <<now, tokens, touch, call>>

\* A new token is made of the claims of the old one.
Heartbeat(r) ==
    /\ pc[r] = "heartbeat"
    /\ tokens' = IF Accepted(frame[r].token)
                 THEN tokens \cup {[frame[r].token EXCEPT !.until = now + TokenLife]}
                 ELSE tokens
    /\ Return(r)
    /\ UNCHANGED <<now, session, touch, call>>

\* The end of a login: its INSERTs into the two logs, whose failure is only written down,
\* and the answer with the token.
CreateSession(r) ==
    /\ pc[r] = "createSession"
    /\ LET k == frame[r].made IN
       /\ \/ session' = [s \in DOMAIN session \cup {r} |->
                            IF s = r THEN [user |-> k.user, login |-> now, seen |-> now,
                                           status |-> "active"]
                            ELSE session[s]]
          \/ session' = session
       /\ tokens' = tokens \cup {k}
    /\ Return(r)
    /\ UNCHANGED <<now, touch, call>>

Tick ==
    /\ now < LastMoment
    /\ now' = now + 1
    /\ UNCHANGED <<session, tokens, touch, call, pc, frame>>

SessionStep(r) == Arrive(r) \/ Touch(r) \/ CloseSession(r) \/ Heartbeat(r) \/ CreateSession(r)
=============================================================================
