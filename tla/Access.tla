------------------------------- MODULE Access --------------------------------
(***************************************************************************)
(* Who may use the control plane: first-run setup, the seeding of the      *)
(* operator at start-up, login, logout and the sessions in Redis.          *)
(*                                                                         *)
(* A request is a database transaction (READ COMMITTED), single Redis      *)
(* commands, and an answer that reaches its browser or not.  An action     *)
(* runs from one `await` to the next.  A request is also the name of what  *)
(* it makes: its user id is a new UUID, its session id a new random token. *)
(***************************************************************************)
CONSTANTS Requests, Browsers,
          Names,      \* login ids after strip(): Blank is one of them
          Passwords,
          Blank,      \* no name, or no password, was sent
          Seeded,     \* the user id of the operator seeded from the environment
          None

Users == Requests \cup {Seeded}
Identity == [user : Users, name : Names \ {Blank}, password : Passwords]
\* The environment's operator
Login == [name : Names \ {Blank}, password : Passwords]

ASSUME AccessAssumption ==
    /\ Blank \in Names /\ Seeded \notin Requests
    /\ None \notin Users \cup Browsers \cup Names \cup Passwords \cup Login
                     \cup {"setup", "login", "logout"}

VARIABLES rows,    \* the committed identities, each with its user
          redis,   \* session id -> the user id stored under it, or None
          cookie,  \* browser -> the session id of its cookie, or None
          req,     \* the requests
          up,      \* the process is running
          late     \* history: setups that arrived when there was an operator

vars == <<rows, redis, cookie, req, up, late>>

Request == [op       : {"setup", "login", "logout", None},
            pc       : {"idle", "count", "insert", "lookup", "session", "commit", "invalidate",
                        "answer", "ok", "lost", "refused", "failed"},
            browser  : Browsers \cup {None},
            name     : Names \cup {None},
            password : Passwords \cup {None},
            user     : Users \cup {None},        \* the user it makes a session for
            carried  : Requests \cup {None}]     \* the session of the cookie it came with

TypeOK ==
    /\ rows \subseteq Identity
    /\ redis \in [Requests -> Users \cup {None}]
    /\ cookie \in [Browsers -> Requests \cup {None}]
    /\ req \in [Requests -> Request]
    /\ up \in BOOLEAN /\ late \subseteq Requests

Init ==
    /\ rows = {} /\ late = {} /\ up = FALSE
    /\ redis = [s \in Requests |-> None]
    /\ cookie = [b \in Browsers |-> None]
    /\ req = [r \in Requests |-> [op |-> None, pc |-> "idle", browser |-> None, name |-> None,
                                  password |-> None, user |-> None, carried |-> None]]

At(r, pc) == up /\ req[r].pc = pc
GoTo(r, pc) == req' = [req EXCEPT ![r].pc = pc]
Ended == {"ok", "lost", "refused", "failed"}

\* UNIQUE (provider, provider_user_id) is in the way of the row it would insert.
Taken(r) == \E row \in rows : row.name = req[r].name

\* _identity_count and setup_status (mutant: it asks for its own name, Taken)
HasOperator(r) == rows # {}

-----------------------------------------------------------------------------
(* A browser sends POST /setup, /auth/login or /auth/logout.               *)

Send(r, b, op, pc, n, p) ==
    /\ At(r, "idle")
    /\ req' = [req EXCEPT ![r] = [op |-> op, pc |-> pc, browser |-> b, name |-> n, password |-> p,
                                  user |-> None, carried |-> cookie[b]]]
    /\ UNCHANGED <<rows, redis, cookie, up>>

SendSetup(r, b, n, p) ==
    /\ Send(r, b, "setup", "count", n, p)
    /\ late' = IF rows # {} THEN late \cup {r} ELSE late

SendLogin(r, b, n, p) == Send(r, b, "login", "lookup", n, p) /\ UNCHANGED late

SendLogout(r, b) == Send(r, b, "logout", "invalidate", None, None) /\ UNCHANGED late

-----------------------------------------------------------------------------
(* post_setup                                                              *)

\* 409 if there is an operator, 400 without a name
Count(r) ==
    /\ At(r, "count")
    /\ GoTo(r, IF HasOperator(r) \/ req[r].name = Blank THEN "refused" ELSE "insert")
    /\ UNCHANGED <<rows, redis, cookie, up, late>>

Row(r) == [user |-> r, name |-> req[r].name, password |-> req[r].password]

\* Its rows are flushed and not committed.
Holds(r) == req[r].op = "setup" /\ req[r].pc \in {"session", "commit"}

Inserted(r) == [req EXCEPT ![r].pc = "session", ![r].user = r]

\* Another transaction has inserted the name.
Contended(r) == \E s \in Requests : Holds(s) /\ req[s].name = req[r].name

\* Mutant: a table without the constraint
InsertAnyway(r) ==
    At(r, "insert") /\ req' = Inserted(r) /\ UNCHANGED <<rows, redis, cookie, up, late>>

\* The two flushes: the constraint makes the INSERT wait for that transaction, and fail
\* once the name is committed.
Insert(r) ==
    /\ At(r, "insert")
    /\ ~Contended(r)
    /\ IF Taken(r) THEN GoTo(r, "failed") ELSE req' = Inserted(r)
    /\ UNCHANGED <<rows, redis, cookie, up, late>>

Commit(r) ==
    /\ At(r, "commit")
    /\ rows' = rows \cup {Row(r)} /\ GoTo(r, "answer")
    /\ UNCHANGED <<redis, cookie, up, late>>

\* Mutant: the exception of the commit is swallowed
CommitFailsQuietly(r) ==
    /\ At(r, "commit")
    /\ \/ UNCHANGED rows
       \/ rows' = rows \cup {Row(r)}
    /\ GoTo(r, "answer")
    /\ UNCHANGED <<redis, cookie, up, late>>

\* The connection is lost, before or after the database has committed.
CommitFails(r) ==
    /\ At(r, "commit")
    /\ \/ UNCHANGED rows
       \/ rows' = rows \cup {Row(r)}
    /\ GoTo(r, "failed")
    /\ UNCHANGED <<redis, cookie, up, late>>

-----------------------------------------------------------------------------
(* login, logout and SessionStore                                          *)

\* verify_password
Verified(row, p) == row.password = p

\* scalar_one_or_none: no identity or another password is a 401, two are an exception.
Lookup(r) ==
    /\ At(r, "lookup")
    /\ LET found == {row \in rows : row.name = req[r].name}
       IN  IF \E row, other \in found : row # other THEN GoTo(r, "failed")
           ELSE \/ /\ \A row \in found : ~Verified(row, req[r].password)
                   /\ GoTo(r, "refused")
                \/ \E row \in found :
                      /\ Verified(row, req[r].password)
                      /\ req' = [req EXCEPT ![r].pc = "session", ![r].user = row.user]
    /\ UNCHANGED <<rows, redis, cookie, up, late>>

\* SessionStore.create: setup does this before it commits
CreateSession(r) ==
    /\ At(r, "session")
    /\ redis' = [redis EXCEPT ![r] = req[r].user]
    /\ GoTo(r, IF req[r].op = "setup" THEN "commit" ELSE "answer")
    /\ UNCHANGED <<rows, cookie, up, late>>

\* SessionStore.invalidate
OnlyTheCookie(s) == redis         \* mutant
Invalidated(s) == [redis EXCEPT ![s] = None]

Logout(r) ==
    /\ At(r, "invalidate")
    /\ redis' = IF req[r].carried # None THEN Invalidated(req[r].carried) ELSE redis
    /\ GoTo(r, "answer")
    /\ UNCHANGED <<rows, cookie, up, late>>

\* Redis does not answer, whether or not it has done what it was asked.
RedisFails(r) ==
    /\ \/ /\ At(r, "session")
          /\ redis' \in {redis, [redis EXCEPT ![r] = req[r].user]}
       \/ /\ At(r, "invalidate") /\ req[r].carried # None
          /\ redis' \in {redis, Invalidated(req[r].carried)}
    /\ GoTo(r, "failed")
    /\ UNCHANGED <<rows, cookie, up, late>>

\* set_session_cookies, or delete_cookie
Answer(r) ==
    /\ At(r, "answer")
    /\ cookie' = [cookie EXCEPT ![req[r].browser] = IF req[r].op = "logout" THEN None ELSE r]
    /\ GoTo(r, "ok")
    /\ UNCHANGED <<rows, redis, up, late>>

\* The answer does not reach the browser.
Lose(r) ==
    /\ At(r, "answer") /\ GoTo(r, "lost")
    /\ UNCHANGED <<rows, redis, cookie, up, late>>

\* SESSION_TTL is over.
Expire(s) ==
    /\ redis[s] # None
    /\ redis' = [redis EXCEPT ![s] = None]
    /\ UNCHANGED <<rows, cookie, req, up, late>>

\* get_current_user_id: the user a request of this browser acts as, or None (401)
CurrentUser(b) == IF cookie[b] = None THEN None ELSE redis[cookie[b]]

-----------------------------------------------------------------------------
(* The process                                                             *)

SeededRow(login) == [user |-> Seeded, name |-> login.name, password |-> login.password]

\* seed_operator_from_env, before the first request: without a password there is no login.
Start(login) ==
    /\ ~up /\ up' = TRUE
    /\ rows' = IF login # None /\ rows = {} THEN {SeededRow(login)} ELSE rows
    /\ UNCHANGED <<redis, cookie, req, late>>

\* What was not committed is rolled back; Redis and the browsers are elsewhere.
Crash ==
    /\ up /\ up' = FALSE
    /\ req' = [r \in Requests |-> IF req[r].pc \in Ended \cup {"idle"} THEN req[r]
                                  ELSE [req[r] EXCEPT !.pc = "failed"]]
    /\ UNCHANGED <<rows, redis, cookie, late>>

Step(r) ==
    \/ Count(r) \/ Insert(r) \/ Commit(r) \/ CommitFails(r) \/ Lookup(r) \/ CreateSession(r)
    \/ Logout(r) \/ RedisFails(r) \/ Answer(r) \/ Lose(r) \/ Expire(r)

Next ==
    \/ \E r \in Requests, b \in Browsers :
          \/ \E n \in Names, p \in Passwords : SendSetup(r, b, n, p) \/ SendLogin(r, b, n, p)
          \/ SendLogout(r, b)
    \/ \E r \in Requests : Step(r)
    \/ \E login \in Login \cup {None} : Start(login)
    \/ Crash

Spec == Init /\ [][Next]_vars
-----------------------------------------------------------------------------
\* Whoever a browser is logged in as exists, and is the one whose name and password it
\* sent, although setup stores the session before it commits the user, and commits,
\* Redis and the process may fail in between.
SessionsAreOfTheirUsers ==
    \A b \in Browsers : CurrentUser(b) # None =>
        LET q == req[cookie[b]]
        IN  [user |-> CurrentUser(b), name |-> q.name, password |-> q.password] \in rows

\* A setup that was accepted made the only account of its name: its name and password log
\* in from then on, whatever other setups ran at the same time.
AcceptedSetupsLogIn ==
    \A r \in Requests : req[r].op = "setup" /\ req[r].pc \in {"ok", "lost"} =>
        {row \in rows : row.name = req[r].name} = {Row(r)}

\* Once there is an operator, seeded or set up, a setup that arrives makes no other,
\* under any name.
LateSetupsAreRefused == \A row \in rows : row.user \notin late

\* "Revocation (logout) actually invalidates immediately": the session a logout came with
\* is over for good, in every tab, whatever logins are under way.
LogoutEndsTheSession ==
    \A r \in Requests :
        req[r].op = "logout" /\ req[r].pc \in {"ok", "lost"} /\ req[r].carried # None =>
            redis[req[r].carried] = None
=============================================================================
