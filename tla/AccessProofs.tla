---------------------------- MODULE AccessProofs -----------------------------
(***************************************************************************)
(* Theorems about Access, for any number of requests and browsers, any     *)
(* names and passwords.                                                    *)
(***************************************************************************)
EXTENDS Access, TLAPS

\* The steps of each kind of request
Pcs(op) == CASE op = "setup"  -> {"count", "insert", "session", "commit"} \cup {"answer"} \cup Ended
             [] op = "login"  -> {"lookup", "session", "answer"} \cup Ended
             [] op = "logout" -> {"invalidate", "answer"} \cup Ended
             [] OTHER         -> {"idle"}

\* A browser has been given this session.
Given(s) == req[s].op \in {"setup", "login"} /\ req[s].pc = "ok"

\* The identity a request acts for, in the database
Own(r) == [user |-> req[r].user, name |-> req[r].name, password |-> req[r].password]

\* What a request has and has done by itself
StepOK(r) ==
    /\ req[r].pc \in Pcs(req[r].op)
    /\ req[r].op # None => req[r].browser \in Browsers
    /\ req[r].op \in {"setup", "login"} => req[r].name \in Names /\ req[r].password \in Passwords
SetupOK(r) ==
    req[r].op = "setup" =>
        /\ req[r].pc \in {"insert", "session", "commit"} => r \notin late /\ req[r].name # Blank
        /\ req[r].pc \in {"session", "commit", "answer", "ok", "lost"} => req[r].user = r
        /\ req[r].pc \in {"answer", "ok", "lost"} => Row(r) \in rows
LoginOK(r) ==
    req[r].op = "login" /\ req[r].pc \in {"session", "answer", "ok", "lost"} => Own(r) \in rows
SessionOK(s) ==
    redis[s] # None => /\ req[s].op \in {"setup", "login"}
                       /\ req[s].pc \in {"commit", "answer", "ok", "lost", "failed"}
                       /\ redis[s] = req[s].user

\* What it came with, and what a logout has done to that
CarriedOK(r) ==
    req[r].carried # None =>
        /\ Given(req[r].carried)
        /\ req[r].op = "logout" /\ req[r].pc \in {"answer", "ok", "lost"}
              => redis[req[r].carried] = None

RequestsOK == \A r \in Requests : StepOK(r) /\ SetupOK(r) /\ LoginOK(r)
SessionsOK == \A s \in Requests : SessionOK(s)
CarriedAllOK == \A r \in Requests : CarriedOK(r)
CookiesOK == \A b \in Browsers : cookie[b] # None => Given(cookie[b])

\* A flushed name is no other's, neither committed nor flushed.
NamesOK ==
    /\ \A x, y \in rows : x.name = y.name => x = y
    /\ \A r \in Requests : Holds(r) => ~Taken(r)
    /\ \A r, s \in Requests : Holds(r) /\ Holds(s) /\ req[r].name = req[s].name => r = s

\* Every identity but the seeded one was made by a setup that arrived in time.
RowsOK == \A row \in rows : row.user # Seeded =>
              /\ req[row.user].op = "setup" /\ req[row.user].pc \in {"answer"} \cup Ended
              /\ row.user \notin late
LateOK == late # {} => rows # {}

\* Without a process no request is under way.
DownOK == ~up => \A r \in Requests : req[r].pc \in Ended \cup {"idle"}

AccessInv ==
    TypeOK /\ DownOK /\ RequestsOK /\ SessionsOK /\ CarriedAllOK /\ CookiesOK /\ NamesOK /\ RowsOK
    /\ LateOK

-----------------------------------------------------------------------------
\* The step a request is at says what kind it is.
LEMMA OpAt ==
    ASSUME TypeOK, NEW r \in Requests, StepOK(r)
    PROVE  /\ req[r].pc \in {"count", "insert", "commit"} => req[r].op = "setup"
           /\ req[r].pc = "lookup" => req[r].op = "login"
           /\ req[r].pc = "session" => req[r].op \in {"setup", "login"}
           /\ req[r].pc = "invalidate" => req[r].op = "logout"
           /\ req[r].pc = "idle" <=> req[r].op = None
<1> USE AccessAssumption DEF Ended
<1>1. req[r].op \in {"setup", "login", "logout", None} BY DEF TypeOK, Request
<1>2. CASE req[r].op = "setup" BY <1>2 DEF StepOK, Pcs
<1>3. CASE req[r].op = "login" BY <1>3 DEF StepOK, Pcs
<1>4. CASE req[r].op = "logout" BY <1>4 DEF StepOK, Pcs
<1>5. CASE req[r].op = None BY <1>5 DEF StepOK, Pcs
<1> QED BY <1>1, <1>2, <1>3, <1>4, <1>5

LEMMA CountKeeps ==
    ASSUME AccessInv, NEW r \in Requests, Count(r) PROVE AccessInv'
<1> USE AccessAssumption
<1>1. TypeOK'
  BY DEF AccessInv, TypeOK, Count, At, GoTo, HasOperator, Request, Identity, Ended
<1>2. DownOK'
  BY DEF AccessInv, TypeOK, Count, At, GoTo, HasOperator, DownOK, Ended, Request
<1>3. RequestsOK'
  <2> SUFFICES ASSUME NEW s \in Requests PROVE (StepOK(s) /\ SetupOK(s) /\ LoginOK(s))'
    BY DEF RequestsOK
  <2>0. StepOK(s) /\ SetupOK(s) /\ LoginOK(s) BY DEF AccessInv, RequestsOK
  <2>1. CASE s # r
    <3>1. req'[s] = req[s] BY <2>1 DEF Count, At, GoTo, HasOperator, AccessInv, TypeOK
    <3>2. rows' = rows /\ late' = late BY DEF Count, At, GoTo, HasOperator
    <3> QED BY <2>0, <3>1, <3>2 DEF StepOK, SetupOK, LoginOK, Own, Row
  <2>2. CASE s = r
    <3>1. StepOK(r)' BY <2>0, <2>2 DEF Count, At, GoTo, HasOperator, AccessInv, TypeOK, Request, StepOK, Pcs, Ended
    <3>2. SetupOK(r)' BY <2>0, <2>2 DEF Count, At, GoTo, HasOperator, AccessInv, TypeOK, Request, StepOK, SetupOK, Pcs, Ended, LateOK
    <3>3. LoginOK(r)' BY <2>0, <2>2 DEF Count, At, GoTo, HasOperator, AccessInv, TypeOK, Request, StepOK, LoginOK, Pcs, Ended
    <3> QED BY <2>2, <3>1, <3>2, <3>3
  <2> QED BY <2>1, <2>2
<1>4. SessionsOK'
  BY DEF AccessInv, TypeOK, Count, At, GoTo, HasOperator, SessionsOK, SessionOK, RequestsOK, StepOK, SetupOK, LoginOK, Pcs, Ended, Request
<1>5. CarriedAllOK'
  BY DEF AccessInv, TypeOK, Count, At, GoTo, HasOperator, CarriedAllOK, CarriedOK, Given, Ended, Request
<1>6. CookiesOK'
  BY DEF AccessInv, TypeOK, Count, At, GoTo, HasOperator, CookiesOK, Given, RequestsOK, StepOK, Pcs, Ended, Request
<1>7. NamesOK'
  BY DEF AccessInv, TypeOK, Count, At, GoTo, HasOperator, NamesOK, Holds, Taken, Row, Request
<1>8. RowsOK'
  BY DEF AccessInv, TypeOK, Count, At, GoTo, HasOperator, RowsOK, Row, Ended, Request
<1>9. LateOK' BY DEF AccessInv, LateOK, Count
<1> QED BY <1>1, <1>2, <1>3, <1>4, <1>5, <1>6, <1>7, <1>8, <1>9 DEF AccessInv

LEMMA InsertKeeps ==
    ASSUME AccessInv, NEW r \in Requests, Insert(r) PROVE AccessInv'
<1> USE AccessAssumption
<1>1. TypeOK'
  BY DEF AccessInv, TypeOK, Insert, At, GoTo, Inserted, Taken, Contended, Request, Identity, Ended
<1>2. DownOK'
  BY DEF AccessInv, TypeOK, Insert, At, GoTo, Inserted, Taken, Contended, DownOK, Ended, Request
<1>3. RequestsOK'
  BY DEF AccessInv, TypeOK, Insert, At, GoTo, Inserted, Taken, Contended, RequestsOK, StepOK, SetupOK, LoginOK, Own, Row, Pcs, Ended, Request
<1>4. SessionsOK'
  BY DEF AccessInv, TypeOK, Insert, At, GoTo, Inserted, Taken, Contended, SessionsOK, SessionOK, RequestsOK, StepOK, SetupOK, LoginOK, Pcs, Ended, Request
<1>5. CarriedAllOK'
  BY DEF AccessInv, TypeOK, Insert, At, GoTo, Inserted, Taken, Contended, CarriedAllOK, CarriedOK, Given, Ended, Request
<1>6. CookiesOK'
  <2>1. \A s \in Requests : Given(s) => Given(s)'
    BY DEF Insert, At, GoTo, Inserted, Given, AccessInv, TypeOK, Request
  <2> QED BY <2>1 DEF Insert, AccessInv, TypeOK, CookiesOK, Given
<1>7. NamesOK'
  BY DEF AccessInv, TypeOK, Insert, At, GoTo, Inserted, Taken, Contended, NamesOK, Holds, Row, Request
<1>8. RowsOK'
  <2> SUFFICES ASSUME NEW row \in rows, row.user # Seeded
               PROVE  /\ req'[row.user].op = "setup" /\ req'[row.user].pc \in {"answer"} \cup Ended
                      /\ row.user \notin late
    BY DEF Insert, RowsOK
  <2>1. row.user \in Requests BY DEF AccessInv, TypeOK, Identity, Users
  <2>2. req[row.user].op = "setup" /\ req[row.user].pc \in {"answer"} \cup Ended /\ row.user \notin late
    BY DEF AccessInv, RowsOK
  <2>3. row.user # r BY <2>2 DEF Insert, At, Ended
  <2>4. req'[row.user] = req[row.user] BY <2>1, <2>3 DEF Insert, At, GoTo, Inserted, AccessInv, TypeOK
  <2> QED BY <2>2, <2>4
<1>9. LateOK' BY DEF AccessInv, LateOK, Insert
<1> QED BY <1>1, <1>2, <1>3, <1>4, <1>5, <1>6, <1>7, <1>8, <1>9 DEF AccessInv

LEMMA CommitKeeps ==
    ASSUME AccessInv, NEW r \in Requests, Commit(r) PROVE AccessInv'
<1> USE AccessAssumption
<1>1. TypeOK'
  <2>1. req[r].op = "setup" /\ req[r].name \in Names \ {Blank} /\ req[r].password \in Passwords
    BY DEF Commit, At, AccessInv, RequestsOK, StepOK, SetupOK, Pcs, Ended, TypeOK, Request
  <2>2. Row(r) \in Identity BY <2>1 DEF Row, Identity, Users
  <2>3. rows' \subseteq Identity BY <2>2 DEF Commit, AccessInv, TypeOK
  <2>4. req' \in [Requests -> Request] BY DEF Commit, GoTo, AccessInv, TypeOK, Request
  <2> QED BY <2>3, <2>4 DEF Commit, AccessInv, TypeOK
<1>2. DownOK'
  BY DEF AccessInv, TypeOK, Commit, At, GoTo, Row, DownOK, Ended, Request
<1>3. RequestsOK'
  BY DEF AccessInv, TypeOK, Commit, At, GoTo, Row, RequestsOK, StepOK, SetupOK, LoginOK, Own, Pcs, Ended, Request
<1>4. SessionsOK'
  BY DEF AccessInv, TypeOK, Commit, At, GoTo, Row, SessionsOK, SessionOK, RequestsOK, StepOK, SetupOK, LoginOK, Pcs, Ended, Request
<1>5. CarriedAllOK'
  <2> SUFFICES ASSUME NEW s \in Requests, req'[s].carried # None PROVE CarriedOK(s)'
    BY DEF CarriedAllOK, CarriedOK
  <2> DEFINE c == req[s].carried
  <2>1. req'[s].carried = c /\ req'[s].op = req[s].op /\ (s # r => req'[s] = req[s])
    BY DEF Commit, GoTo, AccessInv, TypeOK
  <2>2. c \in Requests /\ CarriedOK(s) BY <2>1 DEF AccessInv, TypeOK, Request, CarriedAllOK
  <2>3. Given(c) BY <2>1, <2>2 DEF CarriedOK
  <2>4. c # r BY <2>3 DEF Commit, At, Given
  <2>5. req'[c] = req[c] /\ redis' = redis BY <2>2, <2>4 DEF Commit, GoTo, AccessInv, TypeOK
  <2>6. req[r].op # "logout" BY OpAt DEF Commit, At, AccessInv, RequestsOK
  <2> QED BY <2>1, <2>2, <2>3, <2>5, <2>6 DEF CarriedOK, Given
<1>6. CookiesOK'
  <2>1. \A s \in Requests : Given(s) => Given(s)'
    BY DEF Commit, At, GoTo, Given, AccessInv, TypeOK, Request
  <2> QED BY <2>1 DEF Commit, AccessInv, TypeOK, CookiesOK, Given
<1>7. NamesOK'
  <2>1. Holds(r) /\ req[r].op = "setup"
    BY DEF Commit, At, AccessInv, RequestsOK, StepOK, Pcs, Ended, TypeOK, Request, Holds
  <2>2. \A s \in Requests : Holds(s)' => s # r /\ Holds(s) /\ req'[s] = req[s]
    BY DEF Commit, GoTo, AccessInv, TypeOK, Holds
  <2>3. ~Taken(r) BY <2>1 DEF AccessInv, NamesOK
  <2>4. rows' \subseteq rows \cup {Row(r)} BY DEF Commit
  <2>5. Row(r).name = req[r].name BY DEF Row
  <2>6. \A x, y \in rows' : x.name = y.name => x = y
    BY <2>3, <2>4, <2>5 DEF AccessInv, NamesOK, Taken
  <2>7. \A s \in Requests : Holds(s)' => ~Taken(s)'
    <3> SUFFICES ASSUME NEW s \in Requests, Holds(s)' PROVE ~Taken(s)'
      OBVIOUS
    <3>1. ~Taken(s) /\ req[s].name # req[r].name BY <2>1, <2>2 DEF AccessInv, NamesOK
    <3>2. req'[s].name = req[s].name BY <2>2
    <3> QED BY <3>1, <3>2, <2>4, <2>5 DEF Taken
  <2>8. \A s, t \in Requests : Holds(s)' /\ Holds(t)' /\ req'[s].name = req'[t].name => s = t
    BY <2>2 DEF AccessInv, NamesOK
  <2> QED BY <2>6, <2>7, <2>8 DEF NamesOK
<1>8. RowsOK'
  <2> SUFFICES ASSUME NEW row \in rows', row.user # Seeded
               PROVE  /\ req'[row.user].op = "setup" /\ req'[row.user].pc \in {"answer"} \cup Ended
                      /\ row.user \notin late
    BY DEF Commit, RowsOK
  <2>1. req[r].op = "setup" /\ r \notin late
    BY DEF Commit, At, AccessInv, RequestsOK, StepOK, SetupOK, Pcs, Ended, TypeOK, Request
  <2>2. req'[r].op = "setup" /\ req'[r].pc \in {"answer"} \cup Ended
    BY <2>1 DEF Commit, GoTo, AccessInv, TypeOK, Ended
  <2>3. CASE row.user = r BY <2>1, <2>2, <2>3
  <2>4. CASE row.user # r
    <3>1. row \in rows BY <2>4 DEF Commit, Row
    <3>2. row.user \in Requests BY <3>1 DEF AccessInv, TypeOK, Identity, Users
    <3>3. req'[row.user] = req[row.user] BY <2>4, <3>2 DEF Commit, GoTo, AccessInv, TypeOK
    <3> QED BY <3>1, <3>3 DEF AccessInv, RowsOK
  <2> QED BY <2>3, <2>4
<1>9. LateOK' BY DEF AccessInv, LateOK, Commit
<1> QED BY <1>1, <1>2, <1>3, <1>4, <1>5, <1>6, <1>7, <1>8, <1>9 DEF AccessInv

LEMMA CommitFailsKeeps ==
    ASSUME AccessInv, NEW r \in Requests, CommitFails(r) PROVE AccessInv'
<1> USE AccessAssumption
<1>1. TypeOK'
  <2>1. req[r].op = "setup" /\ req[r].name \in Names \ {Blank} /\ req[r].password \in Passwords
    BY DEF CommitFails, At, AccessInv, RequestsOK, StepOK, SetupOK, Pcs, Ended, TypeOK, Request
  <2>2. Row(r) \in Identity BY <2>1 DEF Row, Identity, Users
  <2>3. rows' \subseteq Identity BY <2>2 DEF CommitFails, AccessInv, TypeOK
  <2>4. req' \in [Requests -> Request] BY DEF CommitFails, GoTo, AccessInv, TypeOK, Request
  <2> QED BY <2>3, <2>4 DEF CommitFails, AccessInv, TypeOK
<1>2. DownOK'
  BY DEF AccessInv, TypeOK, CommitFails, At, GoTo, Row, DownOK, Ended, Request
<1>3. RequestsOK'
  BY DEF AccessInv, TypeOK, CommitFails, At, GoTo, Row, RequestsOK, StepOK, SetupOK, LoginOK, Own, Pcs, Ended, Request
<1>4. SessionsOK'
  BY DEF AccessInv, TypeOK, CommitFails, At, GoTo, Row, SessionsOK, SessionOK, RequestsOK, StepOK, SetupOK, LoginOK, Pcs, Ended, Request
<1>5. CarriedAllOK'
  BY DEF AccessInv, TypeOK, CommitFails, At, GoTo, Row, CarriedAllOK, CarriedOK, Given, Ended, Request
<1>6. CookiesOK'
  BY DEF AccessInv, TypeOK, CommitFails, At, GoTo, Row, CookiesOK, Given, RequestsOK, StepOK, Pcs, Ended, Request
<1>7. NamesOK'
  <2>1. Holds(r) /\ req[r].op = "setup"
    BY DEF CommitFails, At, AccessInv, RequestsOK, StepOK, Pcs, Ended, TypeOK, Request, Holds
  <2>2. \A s \in Requests : Holds(s)' => s # r /\ Holds(s) /\ req'[s] = req[s]
    BY DEF CommitFails, GoTo, AccessInv, TypeOK, Holds
  <2>3. ~Taken(r) BY <2>1 DEF AccessInv, NamesOK
  <2>4. rows' \subseteq rows \cup {Row(r)} BY DEF CommitFails
  <2>5. Row(r).name = req[r].name BY DEF Row
  <2>6. \A x, y \in rows' : x.name = y.name => x = y
    BY <2>3, <2>4, <2>5 DEF AccessInv, NamesOK, Taken
  <2>7. \A s \in Requests : Holds(s)' => ~Taken(s)'
    <3> SUFFICES ASSUME NEW s \in Requests, Holds(s)' PROVE ~Taken(s)'
      OBVIOUS
    <3>1. ~Taken(s) /\ req[s].name # req[r].name BY <2>1, <2>2 DEF AccessInv, NamesOK
    <3>2. req'[s].name = req[s].name BY <2>2
    <3> QED BY <3>1, <3>2, <2>4, <2>5 DEF Taken
  <2>8. \A s, t \in Requests : Holds(s)' /\ Holds(t)' /\ req'[s].name = req'[t].name => s = t
    BY <2>2 DEF AccessInv, NamesOK
  <2> QED BY <2>6, <2>7, <2>8 DEF NamesOK
<1>8. RowsOK'
  <2> SUFFICES ASSUME NEW row \in rows', row.user # Seeded
               PROVE  /\ req'[row.user].op = "setup" /\ req'[row.user].pc \in {"answer"} \cup Ended
                      /\ row.user \notin late
    BY DEF CommitFails, RowsOK
  <2>1. req[r].op = "setup" /\ r \notin late
    BY DEF CommitFails, At, AccessInv, RequestsOK, StepOK, SetupOK, Pcs, Ended, TypeOK, Request
  <2>2. req'[r].op = "setup" /\ req'[r].pc \in {"answer"} \cup Ended
    BY <2>1 DEF CommitFails, GoTo, AccessInv, TypeOK, Ended
  <2>3. CASE row.user = r BY <2>1, <2>2, <2>3
  <2>4. CASE row.user # r
    <3>1. row \in rows BY <2>4 DEF CommitFails, Row
    <3>2. row.user \in Requests BY <3>1 DEF AccessInv, TypeOK, Identity, Users
    <3>3. req'[row.user] = req[row.user] BY <2>4, <3>2 DEF CommitFails, GoTo, AccessInv, TypeOK
    <3> QED BY <3>1, <3>3 DEF AccessInv, RowsOK
  <2> QED BY <2>3, <2>4
<1>9. LateOK' BY DEF AccessInv, LateOK, CommitFails
<1> QED BY <1>1, <1>2, <1>3, <1>4, <1>5, <1>6, <1>7, <1>8, <1>9 DEF AccessInv

LEMMA LookupKeeps ==
    ASSUME AccessInv, NEW r \in Requests, Lookup(r) PROVE AccessInv'
<1> USE AccessAssumption
<1>1. TypeOK'
  BY DEF AccessInv, TypeOK, Lookup, At, GoTo, Verified, Request, Identity, Ended
<1>2. DownOK'
  BY DEF AccessInv, TypeOK, Lookup, At, GoTo, Verified, DownOK, Ended, Request
<1>3. RequestsOK'
  <2> SUFFICES ASSUME NEW s \in Requests PROVE (StepOK(s) /\ SetupOK(s) /\ LoginOK(s))'
    BY DEF RequestsOK
  <2>0. StepOK(s) /\ SetupOK(s) /\ LoginOK(s) BY DEF AccessInv, RequestsOK
  <2>1. CASE s # r
    <3>1. req'[s] = req[s] BY <2>1 DEF Lookup, At, GoTo, Verified, AccessInv, TypeOK
    <3>2. rows' = rows /\ late' = late BY DEF Lookup, At, GoTo, Verified
    <3> QED BY <2>0, <3>1, <3>2 DEF StepOK, SetupOK, LoginOK, Own, Row
  <2>2. CASE s = r
    <3>1. StepOK(r)' BY <2>0, <2>2 DEF Lookup, At, GoTo, Verified, AccessInv, TypeOK, Request, StepOK, Pcs, Ended
    <3>2. SetupOK(r)' BY <2>0, <2>2 DEF Lookup, At, GoTo, Verified, AccessInv, TypeOK, Request, StepOK, SetupOK, Pcs, Ended, LateOK
    <3>3. LoginOK(r)' 
      <4>1. CASE \E row \in rows : /\ row.name = req[r].name /\ Verified(row, req[r].password)
                                   /\ req' = [req EXCEPT ![r].pc = "session", ![r].user = row.user]
        <5> PICK row \in rows : /\ row.name = req[r].name /\ Verified(row, req[r].password)
                                /\ req' = [req EXCEPT ![r].pc = "session", ![r].user = row.user]
          BY <4>1
        <5>1. /\ req'[r].user = row.user /\ req'[r].name = row.name
              /\ req'[r].password = row.password
          BY DEF AccessInv, TypeOK, Verified
        <5>2. row = [user |-> row.user, name |-> row.name, password |-> row.password]
          BY DEF AccessInv, TypeOK, Identity
        <5> QED BY <5>1, <5>2 DEF LoginOK, Own, Lookup
      <4>2. CASE GoTo(r, "failed") \/ GoTo(r, "refused")
        <5>1. req'[r].pc \in {"failed", "refused"} BY <4>2 DEF GoTo, AccessInv, TypeOK, Request
        <5> QED BY <5>1 DEF LoginOK
      <4> QED BY <4>1, <4>2 DEF Lookup
    <3> QED BY <2>2, <3>1, <3>2, <3>3
  <2> QED BY <2>1, <2>2
<1>4. SessionsOK'
  <2> SUFFICES ASSUME NEW s \in Requests PROVE SessionOK(s)'
    BY DEF SessionsOK
  <2>1. SessionOK(s) /\ redis' = redis BY DEF AccessInv, SessionsOK, Lookup
  <2>2. CASE s # r
    <3>1. req'[s] = req[s] BY <2>2 DEF Lookup, At, GoTo, AccessInv, TypeOK
    <3> QED BY <2>1, <3>1 DEF SessionOK
  <2>3. CASE s = r
    <3>1. redis[s] = None BY <2>1, <2>3 DEF SessionOK, Lookup, At
    <3> QED BY <2>1, <3>1 DEF SessionOK
  <2> QED BY <2>2, <2>3
<1>5. CarriedAllOK'
  BY DEF AccessInv, TypeOK, Lookup, At, GoTo, Verified, CarriedAllOK, CarriedOK, Given, Ended, Request
<1>6. CookiesOK'
  <2>1. \A s \in Requests : Given(s) => Given(s)'
    BY DEF Lookup, At, GoTo, Given, AccessInv, TypeOK, Request
  <2> QED BY <2>1 DEF Lookup, AccessInv, TypeOK, CookiesOK, Given
<1>7. NamesOK'
  <2>1. \A s \in Requests : Holds(s)' => Holds(s) /\ req'[s] = req[s]
    <3> SUFFICES ASSUME NEW s \in Requests, Holds(s)' PROVE Holds(s) /\ req'[s] = req[s]
      OBVIOUS
    <3>1. req[r].pc = "lookup" /\ StepOK(r) BY DEF Lookup, At, AccessInv, RequestsOK
    <3>0. req[r].op = "login" BY <3>1, OpAt DEF AccessInv
    <3>2. req'[r].op = "login" BY <3>0 DEF Lookup, GoTo, AccessInv, TypeOK, Request
    <3>3. s # r BY <3>2 DEF Holds
    <3>4. req'[s] = req[s] BY <3>3 DEF Lookup, GoTo, AccessInv, TypeOK
    <3> QED BY <3>4 DEF Holds
  <2>2. rows' = rows BY DEF Lookup
  <2> QED BY <2>1, <2>2 DEF AccessInv, NamesOK, Taken
<1>8. RowsOK'
  <2> SUFFICES ASSUME NEW row \in rows, row.user # Seeded
               PROVE  /\ req'[row.user].op = "setup" /\ req'[row.user].pc \in {"answer"} \cup Ended
                      /\ row.user \notin late
    BY DEF Lookup, RowsOK
  <2>1. row.user \in Requests BY DEF AccessInv, TypeOK, Identity, Users
  <2>2. req[row.user].op = "setup" /\ req[row.user].pc \in {"answer"} \cup Ended /\ row.user \notin late
    BY DEF AccessInv, RowsOK
  <2>3. row.user # r BY <2>2 DEF Lookup, At, Ended
  <2>4. req'[row.user] = req[row.user] BY <2>1, <2>3 DEF Lookup, At, GoTo, Inserted, AccessInv, TypeOK
  <2> QED BY <2>2, <2>4
<1>9. LateOK' BY DEF AccessInv, LateOK, Lookup
<1> QED BY <1>1, <1>2, <1>3, <1>4, <1>5, <1>6, <1>7, <1>8, <1>9 DEF AccessInv

LEMMA CreateSessionKeeps ==
    ASSUME AccessInv, NEW r \in Requests, CreateSession(r) PROVE AccessInv'
<1> USE AccessAssumption
<1>1. TypeOK'
  BY DEF AccessInv, TypeOK, CreateSession, At, GoTo, Request, Identity, Ended
<1>2. DownOK'
  BY DEF AccessInv, TypeOK, CreateSession, At, GoTo, DownOK, Ended, Request
<1>3. RequestsOK'
  BY DEF AccessInv, TypeOK, CreateSession, At, GoTo, RequestsOK, StepOK, SetupOK, LoginOK, Own, Row, Pcs, Ended, Request
<1>4. SessionsOK'
  <2> SUFFICES ASSUME NEW s \in Requests PROVE SessionOK(s)'
    BY DEF SessionsOK
  <2>0. SessionOK(s) BY DEF AccessInv, SessionsOK
  <2>1. CASE s # r
    BY <2>0, <2>1 DEF CreateSession, GoTo, AccessInv, TypeOK, SessionOK
  <2>2. CASE s = r
    <3>1. req[r].op \in {"setup", "login"}
      BY OpAt DEF CreateSession, At, AccessInv, RequestsOK
    <3>2. /\ req'[r].pc \in {"commit", "answer"} /\ req'[r].op = req[r].op
          /\ redis'[r] = req'[r].user
      BY DEF CreateSession, GoTo, AccessInv, TypeOK, Request
    <3> QED BY <2>2, <3>1, <3>2 DEF SessionOK
  <2> QED BY <2>1, <2>2
<1>5. CarriedAllOK'
  <2> SUFFICES ASSUME NEW s \in Requests, req'[s].carried # None PROVE CarriedOK(s)'
    BY DEF CarriedAllOK, CarriedOK
  <2> DEFINE c == req[s].carried
  <2>1. req'[s].carried = c /\ req'[s].op = req[s].op /\ (s # r => req'[s] = req[s])
    BY DEF CreateSession, GoTo, AccessInv, TypeOK
  <2>2. c \in Requests /\ CarriedOK(s) BY <2>1 DEF AccessInv, TypeOK, Request, CarriedAllOK
  <2>3. Given(c) BY <2>1, <2>2 DEF CarriedOK
  <2>4. c # r BY <2>3 DEF CreateSession, At, Given
  <2>5. req'[c] = req[c] /\ redis'[c] = redis[c] BY <2>2, <2>4 DEF CreateSession, GoTo, AccessInv, TypeOK
  <2>6. req[r].op # "logout" BY OpAt DEF CreateSession, At, AccessInv, RequestsOK
  <2> QED BY <2>1, <2>2, <2>3, <2>5, <2>6 DEF CarriedOK, Given
<1>6. CookiesOK'
  BY DEF AccessInv, TypeOK, CreateSession, At, GoTo, CookiesOK, Given, RequestsOK, StepOK, Pcs, Ended, Request
<1>7. NamesOK'
  BY DEF AccessInv, TypeOK, CreateSession, At, GoTo, NamesOK, Holds, Taken, Row, Request
<1>8. RowsOK'
  BY DEF AccessInv, TypeOK, CreateSession, At, GoTo, RowsOK, Row, Ended, Request
<1>9. LateOK' BY DEF AccessInv, LateOK, CreateSession
<1> QED BY <1>1, <1>2, <1>3, <1>4, <1>5, <1>6, <1>7, <1>8, <1>9 DEF AccessInv

LEMMA LogoutKeeps ==
    ASSUME AccessInv, NEW r \in Requests, Logout(r) PROVE AccessInv'
<1> USE AccessAssumption
<1>1. TypeOK'
  BY DEF AccessInv, TypeOK, Logout, At, GoTo, Invalidated, Request, Identity, Ended
<1>2. DownOK'
  BY DEF AccessInv, TypeOK, Logout, At, GoTo, Invalidated, DownOK, Ended, Request
<1>3. RequestsOK'
  BY DEF AccessInv, TypeOK, Logout, At, GoTo, Invalidated, RequestsOK, StepOK, SetupOK, LoginOK, Own, Row, Pcs, Ended, Request
<1>4. SessionsOK'
  BY DEF AccessInv, TypeOK, Logout, At, GoTo, Invalidated, SessionsOK, SessionOK, RequestsOK, StepOK, SetupOK, LoginOK, Pcs, Ended, Request
<1>5. CarriedAllOK'
  BY DEF AccessInv, TypeOK, Logout, At, GoTo, Invalidated, CarriedAllOK, CarriedOK, Given, Ended, Request
<1>6. CookiesOK'
  BY DEF AccessInv, TypeOK, Logout, At, GoTo, Invalidated, CookiesOK, Given, RequestsOK, StepOK, Pcs, Ended, Request
<1>7. NamesOK'
  BY DEF AccessInv, TypeOK, Logout, At, GoTo, Invalidated, NamesOK, Holds, Taken, Row, Request
<1>8. RowsOK'
  BY DEF AccessInv, TypeOK, Logout, At, GoTo, Invalidated, RowsOK, Row, Ended, Request
<1>9. LateOK' BY DEF AccessInv, LateOK, Logout
<1> QED BY <1>1, <1>2, <1>3, <1>4, <1>5, <1>6, <1>7, <1>8, <1>9 DEF AccessInv

LEMMA RedisFailsKeeps ==
    ASSUME AccessInv, NEW r \in Requests, RedisFails(r) PROVE AccessInv'
<1> USE AccessAssumption
<1>1. TypeOK'
  BY DEF AccessInv, TypeOK, RedisFails, At, GoTo, Invalidated, Request, Identity, Ended
<1>2. DownOK'
  BY DEF AccessInv, TypeOK, RedisFails, At, GoTo, Invalidated, DownOK, Ended, Request
<1>3. RequestsOK'
  BY DEF AccessInv, TypeOK, RedisFails, At, GoTo, Invalidated, RequestsOK, StepOK, SetupOK, LoginOK, Own, Row, Pcs, Ended, Request
<1>4. SessionsOK'
  <2> SUFFICES ASSUME NEW s \in Requests PROVE SessionOK(s)'
    BY DEF SessionsOK
  <2>0. SessionOK(s) BY DEF AccessInv, SessionsOK
  <2>1. CASE s # r
    <3>1. req'[s] = req[s] /\ redis'[s] \in {redis[s], None}
      BY <2>1 DEF RedisFails, Invalidated, GoTo, AccessInv, TypeOK, Request
    <3> QED BY <2>0, <3>1 DEF SessionOK
  <2>2. CASE s = r
    <3>1. req'[r].pc = "failed" /\ req'[r].op = req[r].op /\ req'[r].user = req[r].user
      BY DEF RedisFails, GoTo, AccessInv, TypeOK
    <3>2. redis[r] = None BY <2>0, <2>2 DEF RedisFails, At, SessionOK
    <3>3. redis'[r] # None => req[r].pc = "session" /\ redis'[r] = req[r].user
      BY <3>2 DEF RedisFails, At, Invalidated, AccessInv, TypeOK, Request
    <3>4. req[r].pc = "session" => req[r].op \in {"setup", "login"}
      BY OpAt DEF AccessInv, RequestsOK
    <3> QED BY <2>2, <3>1, <3>3, <3>4 DEF SessionOK
  <2> QED BY <2>1, <2>2
<1>5. CarriedAllOK'
  BY DEF AccessInv, TypeOK, RedisFails, At, GoTo, Invalidated, CarriedAllOK, CarriedOK, Given, Ended, Request
<1>6. CookiesOK'
  BY DEF AccessInv, TypeOK, RedisFails, At, GoTo, Invalidated, CookiesOK, Given, RequestsOK, StepOK, Pcs, Ended, Request
<1>7. NamesOK'
  BY DEF AccessInv, TypeOK, RedisFails, At, GoTo, Invalidated, NamesOK, Holds, Taken, Row, Request
<1>8. RowsOK'
  BY DEF AccessInv, TypeOK, RedisFails, At, GoTo, Invalidated, RowsOK, Row, Ended, Request
<1>9. LateOK' BY DEF AccessInv, LateOK, RedisFails
<1> QED BY <1>1, <1>2, <1>3, <1>4, <1>5, <1>6, <1>7, <1>8, <1>9 DEF AccessInv

LEMMA AnswerKeeps ==
    ASSUME AccessInv, NEW r \in Requests, Answer(r) PROVE AccessInv'
<1> USE AccessAssumption
<1>1. TypeOK'
  <2>2. cookie' \in [Browsers -> Requests \cup {None}]
    BY DEF Answer, AccessInv, TypeOK
  <2>3. req' \in [Requests -> Request] BY DEF Answer, GoTo, AccessInv, TypeOK, Request
  <2> QED BY <2>2, <2>3 DEF Answer, AccessInv, TypeOK
<1>2. DownOK'
  BY DEF AccessInv, TypeOK, Answer, At, GoTo, DownOK, Ended, Request
<1>3. RequestsOK'
  BY DEF AccessInv, TypeOK, Answer, At, GoTo, RequestsOK, StepOK, SetupOK, LoginOK, Own, Row, Pcs, Ended, Request
<1>4. SessionsOK'
  BY DEF AccessInv, TypeOK, Answer, At, GoTo, SessionsOK, SessionOK, RequestsOK, StepOK, SetupOK, LoginOK, Pcs, Ended, Request
<1>5. CarriedAllOK'
  BY DEF AccessInv, TypeOK, Answer, At, GoTo, CarriedAllOK, CarriedOK, Given, Ended, Request
<1>6. CookiesOK'
  BY DEF AccessInv, TypeOK, Answer, At, GoTo, CookiesOK, Given, RequestsOK, StepOK, Pcs, Ended, Request
<1>7. NamesOK'
  BY DEF AccessInv, TypeOK, Answer, At, GoTo, NamesOK, Holds, Taken, Row, Request
<1>8. RowsOK'
  BY DEF AccessInv, TypeOK, Answer, At, GoTo, RowsOK, Row, Ended, Request
<1>9. LateOK' BY DEF AccessInv, LateOK, Answer
<1> QED BY <1>1, <1>2, <1>3, <1>4, <1>5, <1>6, <1>7, <1>8, <1>9 DEF AccessInv

LEMMA LoseKeeps ==
    ASSUME AccessInv, NEW r \in Requests, Lose(r) PROVE AccessInv'
<1> USE AccessAssumption
<1>1. TypeOK'
  BY DEF AccessInv, TypeOK, Lose, At, GoTo, Request, Identity, Ended
<1>2. DownOK'
  BY DEF AccessInv, TypeOK, Lose, At, GoTo, DownOK, Ended, Request
<1>3. RequestsOK'
  BY DEF AccessInv, TypeOK, Lose, At, GoTo, RequestsOK, StepOK, SetupOK, LoginOK, Own, Row, Pcs, Ended, Request
<1>4. SessionsOK'
  BY DEF AccessInv, TypeOK, Lose, At, GoTo, SessionsOK, SessionOK, RequestsOK, StepOK, SetupOK, LoginOK, Pcs, Ended, Request
<1>5. CarriedAllOK'
  BY DEF AccessInv, TypeOK, Lose, At, GoTo, CarriedAllOK, CarriedOK, Given, Ended, Request
<1>6. CookiesOK'
  BY DEF AccessInv, TypeOK, Lose, At, GoTo, CookiesOK, Given, RequestsOK, StepOK, Pcs, Ended, Request
<1>7. NamesOK'
  BY DEF AccessInv, TypeOK, Lose, At, GoTo, NamesOK, Holds, Taken, Row, Request
<1>8. RowsOK'
  BY DEF AccessInv, TypeOK, Lose, At, GoTo, RowsOK, Row, Ended, Request
<1>9. LateOK' BY DEF AccessInv, LateOK, Lose
<1> QED BY <1>1, <1>2, <1>3, <1>4, <1>5, <1>6, <1>7, <1>8, <1>9 DEF AccessInv

LEMMA ExpireKeeps ==
    ASSUME AccessInv, NEW r \in Requests, Expire(r) PROVE AccessInv'
<1> USE AccessAssumption
<1>1. TypeOK'
  BY DEF AccessInv, TypeOK, Expire, Request, Identity, Ended
<1>2. DownOK'
  BY DEF AccessInv, TypeOK, Expire, DownOK, Ended, Request
<1>3. RequestsOK'
  BY DEF AccessInv, TypeOK, Expire, RequestsOK, StepOK, SetupOK, LoginOK, Own, Row, Pcs, Ended, Request
<1>4. SessionsOK'
  BY DEF AccessInv, TypeOK, Expire, SessionsOK, SessionOK, RequestsOK, StepOK, SetupOK, LoginOK, Pcs, Ended, Request
<1>5. CarriedAllOK'
  BY DEF AccessInv, TypeOK, Expire, CarriedAllOK, CarriedOK, Given, Ended, Request
<1>6. CookiesOK'
  BY DEF AccessInv, TypeOK, Expire, CookiesOK, Given, RequestsOK, StepOK, Pcs, Ended, Request
<1>7. NamesOK'
  BY DEF AccessInv, TypeOK, Expire, NamesOK, Holds, Taken, Row, Request
<1>8. RowsOK'
  BY DEF AccessInv, TypeOK, Expire, RowsOK, Row, Ended, Request
<1>9. LateOK' BY DEF AccessInv, LateOK, Expire
<1> QED BY <1>1, <1>2, <1>3, <1>4, <1>5, <1>6, <1>7, <1>8, <1>9 DEF AccessInv

LEMMA SendKeeps ==
    ASSUME AccessInv, NEW r \in Requests, NEW b \in Browsers,
           NEW op \in {"setup", "login", "logout"}, NEW pc \in {"count", "lookup", "invalidate"},
           NEW n \in Names \cup {None}, NEW p \in Passwords \cup {None},
           pc = (CASE op = "setup" -> "count" [] op = "login" -> "lookup" [] OTHER -> "invalidate"),
           op # "logout" => n \in Names /\ p \in Passwords,
           Send(r, b, op, pc, n, p),
           late' = late \/ (op = "setup" /\ late' = late \cup {r} /\ rows # {})
    PROVE  AccessInv'
<1> USE AccessAssumption
<1> DEFINE new == [op |-> op, pc |-> pc, browser |-> b, name |-> n, password |-> p,
                   user |-> None, carried |-> cookie[b]]
<1>1. /\ req' = [req EXCEPT ![r] = new]
      /\ rows' = rows /\ redis' = redis /\ cookie' = cookie /\ up' = up
  BY DEF Send
<1>2. req[r].pc = "idle" /\ up BY DEF Send, At
<1>3. req[r].op = None BY <1>2, OpAt DEF AccessInv, RequestsOK
<1>4. new \in Request BY DEF AccessInv, TypeOK, Request
<1>5. req'[r] = new /\ \A s \in Requests : s # r => req'[s] = req[s]
  BY <1>1 DEF AccessInv, TypeOK
<1>6. new.op = op /\ new.pc = pc /\ new.name = n /\ new.password = p /\ new.browser = b
      /\ new.carried = cookie[b]
  OBVIOUS
<1>7. pc \notin Ended \cup {"idle", "insert", "session", "commit", "answer"} BY DEF Ended
<1> HIDE DEF new
<1>10. TypeOK' BY <1>1, <1>4 DEF AccessInv, TypeOK
<1>11. DownOK' BY <1>1, <1>2 DEF DownOK
<1>12. RequestsOK'
  <2> SUFFICES ASSUME NEW s \in Requests PROVE (StepOK(s) /\ SetupOK(s) /\ LoginOK(s))'
    BY DEF RequestsOK
  <2>0. StepOK(s) /\ SetupOK(s) /\ LoginOK(s) BY DEF AccessInv, RequestsOK
  <2>1. CASE s # r
    <3>1. req'[s] = req[s] /\ (s \in late' => s \in late) BY <2>1, <1>5
    <3> QED BY <2>0, <3>1, <1>1 DEF StepOK, SetupOK, LoginOK, Own, Row
  <2>2. CASE s = r
    <3>1. pc \in Pcs(op) BY DEF Pcs
    <3>2. StepOK(s)' BY <2>2, <3>1, <1>5, <1>6 DEF StepOK
    <3>3. SetupOK(s)' /\ LoginOK(s)' BY <2>2, <1>5, <1>6, <1>7 DEF SetupOK, LoginOK, Ended
    <3> QED BY <3>2, <3>3
  <2> QED BY <2>1, <2>2
<1>13. SessionsOK'
  <2>1. redis[r] = None BY <1>3 DEF AccessInv, SessionsOK, SessionOK
  <2> QED BY <2>1, <1>1, <1>5 DEF AccessInv, SessionsOK, SessionOK
<1>14. \A s \in Requests : Given(s) => Given(s)'
  BY <1>2, <1>5 DEF Given
<1>15. CarriedAllOK'
  <2> SUFFICES ASSUME NEW s \in Requests, req'[s].carried # None PROVE CarriedOK(s)'
    BY DEF CarriedAllOK, CarriedOK
  <2>1. CASE s = r
    <3>1. req'[s].carried = cookie[b] /\ cookie[b] \in Requests
      BY <2>1, <1>5, <1>6 DEF AccessInv, TypeOK
    <3>2. Given(cookie[b]) BY <3>1 DEF AccessInv, CookiesOK
    <3>3. req'[s].pc \notin {"answer", "ok", "lost"} BY <2>1, <1>5, <1>6, <1>7
    <3> QED BY <3>1, <3>2, <3>3, <1>14 DEF CarriedOK, Given
  <2>2. CASE s # r
    <3>1. req'[s] = req[s] BY <2>2, <1>5
    <3>2. req[s].carried \in Requests /\ CarriedOK(s)
      BY <3>1 DEF AccessInv, TypeOK, Request, CarriedAllOK
    <3> QED BY <3>1, <3>2, <1>1, <1>14 DEF CarriedOK, Given
  <2> QED BY <2>1, <2>2
<1>16. CookiesOK' BY <1>1, <1>14 DEF AccessInv, CookiesOK, TypeOK, Given
<1>17. \A s \in Requests : Holds(s)' => Holds(s) /\ req'[s] = req[s]
  BY <1>5, <1>6, <1>7 DEF Holds
<1>18. NamesOK' BY <1>1, <1>17 DEF AccessInv, NamesOK, Taken
<1>19. RowsOK'
  <2> SUFFICES ASSUME NEW row \in rows, row.user # Seeded
               PROVE  /\ req'[row.user].op = "setup" /\ req'[row.user].pc \in {"answer"} \cup Ended
                      /\ row.user \notin late'
    BY <1>1 DEF RowsOK
  <2>1. row.user \in Requests BY DEF AccessInv, TypeOK, Identity, Users
  <2>2. req[row.user].op = "setup" /\ req[row.user].pc \in {"answer"} \cup Ended /\ row.user \notin late
    BY DEF AccessInv, RowsOK
  <2>3. row.user # r BY <2>2, <1>3
  <2> QED BY <2>1, <2>2, <2>3, <1>5
<1>20. LateOK' BY <1>1 DEF AccessInv, LateOK
<1> QED
  BY <1>10, <1>11, <1>12, <1>13, <1>15, <1>16, <1>18, <1>19, <1>20 DEF AccessInv

LEMMA CrashKeeps == ASSUME AccessInv, Crash PROVE AccessInv'
<1> USE AccessAssumption
<1>1. /\ rows' = rows /\ redis' = redis /\ cookie' = cookie /\ late' = late /\ up' = FALSE
  BY DEF Crash
<1>2. \A s \in Requests :
        /\ req[s].pc \in Ended \cup {"idle"} => req'[s] = req[s]
        /\ req[s].pc \notin Ended \cup {"idle"} => req'[s] = [req[s] EXCEPT !.pc = "failed"]
  BY DEF Crash
<1>3. \A s \in Requests :
        /\ req'[s] \in Request
        /\ req'[s].op = req[s].op /\ req'[s].name = req[s].name /\ req'[s].user = req[s].user
        /\ req'[s].password = req[s].password /\ req'[s].carried = req[s].carried
        /\ req'[s].browser = req[s].browser
        /\ req'[s].pc = req[s].pc \/ (req[s].pc # "idle" /\ req'[s].pc = "failed")
        /\ req'[s].pc \in Ended \cup {"idle"}
        /\ req[s].pc = "ok" => req'[s].pc = "ok"
  <2> SUFFICES ASSUME NEW s \in Requests
               PROVE  /\ req'[s] \in Request
                      /\ req'[s].op = req[s].op /\ req'[s].name = req[s].name
                      /\ req'[s].user = req[s].user /\ req'[s].password = req[s].password
                      /\ req'[s].carried = req[s].carried /\ req'[s].browser = req[s].browser
                      /\ req'[s].pc = req[s].pc \/ (req[s].pc # "idle" /\ req'[s].pc = "failed")
                      /\ req'[s].pc \in Ended \cup {"idle"}
                      /\ req[s].pc = "ok" => req'[s].pc = "ok"
    OBVIOUS
  <2>1. req[s] \in Request BY DEF AccessInv, TypeOK
  <2>2. CASE req[s].pc \in Ended \cup {"idle"}
    <3>1. req'[s] = req[s] BY <2>2, <1>2
    <3> QED BY <2>1, <2>2, <3>1
  <2>3. CASE req[s].pc \notin Ended \cup {"idle"}
    <3>1. req'[s] = [req[s] EXCEPT !.pc = "failed"] BY <2>3, <1>2
    <3>2. /\ req'[s] \in Request /\ req'[s].pc = "failed"
          /\ req'[s].op = req[s].op /\ req'[s].name = req[s].name
          /\ req'[s].user = req[s].user /\ req'[s].password = req[s].password
          /\ req'[s].carried = req[s].carried /\ req'[s].browser = req[s].browser
      BY <2>1, <3>1 DEF Request
    <3>3. req[s].pc # "idle" /\ req[s].pc # "ok" BY <2>3 DEF Ended
    <3> QED BY <3>2, <3>3 DEF Ended
  <2> QED BY <2>2, <2>3
<1>10. TypeOK'
  <2>1. req' \in [Requests -> Request] BY <1>3 DEF Crash
  <2> QED BY <1>1, <2>1 DEF AccessInv, TypeOK
<1>11. DownOK' BY <1>3 DEF DownOK
<1>12. RequestsOK'
  <2> SUFFICES ASSUME NEW s \in Requests PROVE (StepOK(s) /\ SetupOK(s) /\ LoginOK(s))'
    BY DEF RequestsOK
  <2>0. StepOK(s) /\ SetupOK(s) /\ LoginOK(s) BY DEF AccessInv, RequestsOK
  <2>1. req[s].pc # "idle" => "failed" \in Pcs(req[s].op) BY <2>0 DEF StepOK, Pcs, Ended
  <2>2. StepOK(s)' BY <2>0, <2>1, <1>3 DEF StepOK
  <2>3. SetupOK(s)' BY <2>0, <1>1, <1>3 DEF SetupOK, Row
  <2>4. LoginOK(s)' BY <2>0, <1>1, <1>3 DEF LoginOK, Own
  <2> QED BY <2>2, <2>3, <2>4
<1>13. SessionsOK' BY <1>1, <1>3 DEF AccessInv, SessionsOK, SessionOK
<1>14. \A s \in Requests : Given(s) => Given(s)' BY <1>3 DEF Given
<1>15. CarriedAllOK'
  <2> SUFFICES ASSUME NEW s \in Requests, req'[s].carried # None PROVE CarriedOK(s)'
    BY DEF CarriedAllOK, CarriedOK
  <2>1. req[s].carried \in Requests /\ CarriedOK(s)
    BY <1>3 DEF AccessInv, TypeOK, Request, CarriedAllOK
  <2> QED BY <2>1, <1>1, <1>3, <1>14 DEF CarriedOK, Given
<1>16. CookiesOK' BY <1>1, <1>14 DEF AccessInv, CookiesOK, TypeOK, Given
<1>17. \A s \in Requests : ~Holds(s)' BY <1>3 DEF Holds, Ended
<1>18. NamesOK' BY <1>1, <1>17 DEF AccessInv, NamesOK
<1>19. RowsOK'
  <2> SUFFICES ASSUME NEW row \in rows, row.user # Seeded
               PROVE  /\ req'[row.user].op = "setup" /\ req'[row.user].pc \in {"answer"} \cup Ended
                      /\ row.user \notin late
    BY <1>1 DEF RowsOK
  <2>1. row.user \in Requests BY DEF AccessInv, TypeOK, Identity, Users
  <2>2. req[row.user].op = "setup" /\ req[row.user].pc \in {"answer"} \cup Ended /\ row.user \notin late
    BY DEF AccessInv, RowsOK
  <2> QED BY <2>1, <2>2, <1>3 DEF Ended
<1>20. LateOK' BY <1>1 DEF AccessInv, LateOK
<1> QED
  BY <1>10, <1>11, <1>12, <1>13, <1>15, <1>16, <1>18, <1>19, <1>20 DEF AccessInv

LEMMA StartKeeps ==
    ASSUME AccessInv, NEW login \in Login \cup {None}, Start(login) PROVE AccessInv'
<1> USE AccessAssumption
<1>1. /\ redis' = redis /\ cookie' = cookie /\ req' = req /\ late' = late /\ ~up /\ up' = TRUE
      /\ rows' = rows \/ (rows = {} /\ login # None /\ rows' = {SeededRow(login)})
  BY DEF Start
<1>2. login # None => SeededRow(login) \in Identity /\ SeededRow(login).user = Seeded
  BY DEF SeededRow, Identity, Login, Users
<1>3. rows \subseteq rows' BY <1>1
<1>4. \A s \in Requests : ~Holds(s)' BY <1>1 DEF AccessInv, DownOK, Holds, Ended
<1>10. TypeOK' BY <1>1, <1>2 DEF AccessInv, TypeOK
<1>11. DownOK' BY <1>1 DEF DownOK
<1>12. RequestsOK'
  BY <1>1, <1>3 DEF AccessInv, RequestsOK, StepOK, SetupOK, LoginOK, Own, Row
<1>13. SessionsOK' BY <1>1 DEF AccessInv, SessionsOK, SessionOK
<1>15. CarriedAllOK' BY <1>1 DEF AccessInv, CarriedAllOK, CarriedOK, Given
<1>16. CookiesOK' BY <1>1 DEF AccessInv, CookiesOK, Given
<1>18. NamesOK' BY <1>1, <1>4 DEF AccessInv, NamesOK
<1>19. RowsOK' BY <1>1, <1>2 DEF AccessInv, RowsOK
<1>20. LateOK' BY <1>1 DEF AccessInv, LateOK
<1> QED
  BY <1>10, <1>11, <1>12, <1>13, <1>15, <1>16, <1>18, <1>19, <1>20 DEF AccessInv

LEMMA AccessInit == Init => AccessInv
<1> SUFFICES ASSUME Init PROVE AccessInv
  OBVIOUS
<1> USE AccessAssumption
<1>0. \A r \in Requests : req[r].op = None /\ req[r].pc = "idle" /\ req[r].carried = None
  BY DEF Init
<1>1. TypeOK BY DEF Init, TypeOK, Request
<1>2. DownOK BY <1>0 DEF DownOK
<1>3. RequestsOK BY <1>0 DEF RequestsOK, StepOK, SetupOK, LoginOK, Pcs
<1>4. SessionsOK /\ CookiesOK BY DEF Init, SessionsOK, SessionOK, CookiesOK
<1>5. CarriedAllOK BY <1>0 DEF CarriedAllOK, CarriedOK
<1>6. NamesOK BY <1>0 DEF Init, NamesOK, Holds
<1>7. RowsOK /\ LateOK BY DEF Init, RowsOK, LateOK
<1> QED BY <1>1, <1>2, <1>3, <1>4, <1>5, <1>6, <1>7 DEF AccessInv

LEMMA AccessStep == AccessInv /\ [Next]_vars => AccessInv'
<1> SUFFICES ASSUME AccessInv, [Next]_vars PROVE AccessInv'
  OBVIOUS
<1>1. CASE UNCHANGED vars
  BY <1>1 DEF vars, AccessInv, TypeOK, DownOK, RequestsOK, StepOK, SetupOK, LoginOK, Own, Row,
              SessionsOK, SessionOK, CarriedAllOK, CarriedOK, Given, CookiesOK, NamesOK, Holds,
              Taken, RowsOK, LateOK
<1>2. ASSUME NEW r \in Requests, Step(r) PROVE AccessInv'
  BY <1>2, CountKeeps, InsertKeeps, CommitKeeps, CommitFailsKeeps, LookupKeeps, CreateSessionKeeps,
     LogoutKeeps, RedisFailsKeeps, AnswerKeeps, LoseKeeps, ExpireKeeps DEF Step
<1>3. ASSUME NEW r \in Requests, NEW b \in Browsers, NEW n \in Names, NEW p \in Passwords,
             SendSetup(r, b, n, p)
      PROVE  AccessInv'
  <2>1. Send(r, b, "setup", "count", n, p) BY <1>3 DEF SendSetup
  <2>2. late' = late \/ (late' = late \cup {r} /\ rows # {})
    BY <1>3 DEF SendSetup
  <2> QED BY <2>1, <2>2, SendKeeps
<1>4. ASSUME NEW r \in Requests, NEW b \in Browsers, NEW n \in Names, NEW p \in Passwords,
             SendLogin(r, b, n, p)
      PROVE  AccessInv'
  <2>1. Send(r, b, "login", "lookup", n, p) /\ late' = late BY <1>4 DEF SendLogin
  <2> QED BY <2>1, SendKeeps
<1>5. ASSUME NEW r \in Requests, NEW b \in Browsers, SendLogout(r, b) PROVE AccessInv'
  <2>1. Send(r, b, "logout", "invalidate", None, None) /\ late' = late BY <1>5 DEF SendLogout
  <2> QED BY <2>1, SendKeeps
<1> QED BY <1>1, <1>2, <1>3, <1>4, <1>5, StartKeeps, CrashKeeps DEF Next

LEMMA AccessHolds == Spec => []AccessInv
BY AccessInit, AccessStep, PTL DEF Spec

-----------------------------------------------------------------------------
\* Whoever a browser is logged in as is a committed user, and the one whose name and
\* password it sent (post_setup stores the session before it commits the user).
THEOREM SessionsNameTheirUsers == Spec => []SessionsAreOfTheirUsers
<1>1. AccessInv => SessionsAreOfTheirUsers
  <2> SUFFICES ASSUME AccessInv, NEW b \in Browsers, CurrentUser(b) # None
               PROVE  [user |-> CurrentUser(b), name |-> req[cookie[b]].name,
                       password |-> req[cookie[b]].password] \in rows
    BY DEF SessionsAreOfTheirUsers
  <2> DEFINE s == cookie[b]
  <2>1. s # None /\ CurrentUser(b) = redis[s] /\ s \in Requests
    BY DEF CurrentUser, AccessInv, TypeOK
  <2>2. Given(s) /\ redis[s] = req[s].user
    BY <2>1 DEF AccessInv, CookiesOK, SessionsOK, SessionOK
  <2>3. CASE req[s].op = "setup"
    <3>1. Row(s) \in rows /\ req[s].user = s
      BY <2>1, <2>2, <2>3 DEF Given, AccessInv, RequestsOK, SetupOK
    <3> QED BY <2>1, <2>2, <3>1 DEF Row
  <2>4. CASE req[s].op = "login"
    <3>1. Own(s) \in rows BY <2>1, <2>2, <2>4 DEF Given, AccessInv, RequestsOK, LoginOK
    <3> QED BY <2>1, <2>2, <3>1 DEF Own
  <2> QED BY <2>2, <2>3, <2>4 DEF Given
<1> QED BY <1>1, AccessHolds, PTL

\* An accepted setup made the only account of its name, so login finds one identity and
\* its password (the unique constraint and the order of flush and commit).
THEOREM SetupsMakeTheAccount == Spec => []AcceptedSetupsLogIn
<1>1. AccessInv => AcceptedSetupsLogIn
  <2> SUFFICES ASSUME AccessInv, NEW r \in Requests, req[r].op = "setup", req[r].pc \in {"ok", "lost"}
               PROVE  {row \in rows : row.name = req[r].name} = {Row(r)}
    BY DEF AcceptedSetupsLogIn
  <2>1. Row(r) \in rows BY DEF AccessInv, RequestsOK, SetupOK
  <2>2. Row(r).name = req[r].name BY DEF Row
  <2> QED BY <2>1, <2>2 DEF AccessInv, NamesOK
<1> QED BY <1>1, AccessHolds, PTL

\* Once there is an operator, seeded or set up, a setup that arrives makes no other
\* (the count in post_setup reads what was committed when it arrived, or more).
THEOREM NoLateOperators == Spec => []LateSetupsAreRefused
<1>1. AccessInv => LateSetupsAreRefused
  <2> SUFFICES ASSUME AccessInv, NEW row \in rows PROVE row.user \notin late
    BY DEF LateSetupsAreRefused
  <2>1. row.user = Seeded => row.user \notin late BY AccessAssumption DEF AccessInv, TypeOK
  <2> QED BY <2>1 DEF AccessInv, RowsOK
<1> QED BY <1>1, AccessHolds, PTL

\* The session a successful logout came with is over for good.
THEOREM LogoutIsFinal == Spec => []LogoutEndsTheSession
<1>1. AccessInv => LogoutEndsTheSession
  BY DEF AccessInv, CarriedAllOK, CarriedOK, LogoutEndsTheSession
<1> QED BY <1>1, AccessHolds, PTL
=============================================================================
